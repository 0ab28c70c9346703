--------------------------- MODULE MCOrchestrator ---------------------------
(* Instances of Orchestrator for TLC: calls of one or two users, in one or *)
(* two pipelines.                                                          *)
EXTENDS Orchestrator, TLC

CONSTANTS u1, u2, c1, c2

OneUser == [c \in Calls |-> u1]
TwoUsers == [c \in Calls |-> IF c = c1 THEN u1 ELSE u2]

OnePipeline == [c \in Calls |-> "expand"]
TwoPipelines == [c \in Calls |-> IF c = c1 THEN "expand" ELSE "rank"]

(* The codes that differ in what the failover does with them; the models   *)
(* of the second call may be without rate limits.                          *)
AllFailures == [c \in Calls |-> {"rate_limit", "timeout", "server_error"}]
OnlyRateLimit == [c \in Calls |-> {"rate_limit"}]
OneUnlimited == [AllFailures EXCEPT ![c2] = @ \ {"rate_limit"}]
=============================================================================
