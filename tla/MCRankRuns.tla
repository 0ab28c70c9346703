----------------------------- MODULE MCRankRuns -----------------------------
(* Instances of RankRuns for TLC: two requests with one idempotency key,   *)
(* both of an administrator, or the second of a user who pays.             *)
EXTENDS RankRuns, TLC

CONSTANTS r1, r2, u1, u2, p1, p2, k1

OneOrTwoUsers == {[r \in Requests |-> u1], [r \in Requests |-> IF r = r2 THEN u2 ELSE u1]}
RetryKey == [r \in Requests |-> k1]
RetryChosen == [r \in Requests |-> IF r = r2 THEN {p1} ELSE {p1, p2}]
=============================================================================
