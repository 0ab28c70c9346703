------------------------------ MODULE AgentRuns ------------------------------
(***************************************************************************)
(* The requests of one client that run LLM work for credits: POST /expand, *)
(* /upskill, /interview, /interview/{id}/mock and /apply/{id}/verify, with *)
(* the gate of each as the transaction it is: the balance is read, written *)
(* back by a flush that locks the account, and committed much later.       *)
(*                                                                         *)
(* Expand and upskill commit a pending record with the charge and go on in *)
(* a background task; the others answer in the request.  LLM calls succeed *)
(* or fail; what they say is left out.                                     *)
(***************************************************************************)
EXTENDS Integers, Sequences, FiniteSets

CONSTANTS
  AgentRequests,
  Mixes,         \* what the requests may ask for, out of [AgentRequests -> Kinds]
  InitialBalance,
  Price,         \* credits of every action
  Passes,        \* bound: LLM calls of an upskill or interview run (4 and 8 in the code)
  MaxRestarts,   \* bound: restarts of the process, and resets by the user
  Nobody, Unread

Kinds == {"expand", "upskill", "interview", "mock_start", "mock_answer", "verify"}

ASSUME AgentAssumption ==
  /\ IsFiniteSet(AgentRequests) /\ Nobody \notin AgentRequests
  /\ Mixes \subseteq [AgentRequests -> Kinds]
  /\ InitialBalance \in Nat /\ Price \in Nat \ {0} /\ Unread \notin Nat
  /\ Passes \in Nat \ {0} /\ MaxRestarts \in Nat

VARIABLES
  kind,         \* [AgentRequests -> what it asks for]
  balance,      \* credit_accounts.balance, as committed
  billed,      \* the requests whose ledger row is committed
  locked,       \* the request whose flushed charge holds the account
  seen,         \* [AgentRequests -> the balance its session read]
  record,       \* [AgentRequests -> status of the record the client polls]
  expansion,    \* [AgentRequests -> status of the record execute_expand inserts]
  prepared,     \* the interview requests whose pack is stored
  verified,     \* the verify requests whose result is stored
  transcript,   \* interview_preps.mock_transcript: a sequence of roles
  application,  \* whether the application of interview and verify is there
  profile,      \* whether the candidate profile is there
  at,           \* where each request or its task is
  passes,       \* [AgentRequests -> LLM calls done]
  restarts, resets

agentVars == <<kind, balance, billed, locked, seen, record, expansion, prepared, verified, transcript,
               application, profile, at, passes, restarts, resets>>

money == <<balance, billed, locked, seen>>
rows == <<record, expansion, prepared, verified, transcript>>
world == <<kind, application, profile, restarts, resets>>

Final == {"completed", "failed"}
Over == {"answered", "refused", "broken", "ended", "lost"}
Background == {"scheduled", "scanned", "enriched", "proposed", "learning", "learned"}

At(r, place) == at[r] = place
Move(r, place) == at' = [at EXCEPT ![r] = place]

(* The commit of a session that holds a charge.                            *)
CommitCharge(r) ==
  IF locked = r
  THEN /\ balance' = seen[r] - Price
       /\ billed' = billed \union {r}
       /\ locked' = Nobody /\ UNCHANGED seen
  ELSE UNCHANGED money

(* Mutant of Rollback: the lock outlives the session.                      *)
RollbackKeepsLock(r) ==
  UNCHANGED money

(* get_db rolls the request's session back.                                *)
Rollback(r) ==
  /\ locked' = IF locked = r THEN Nobody ELSE locked
  /\ UNCHANGED <<balance, billed, seen>>

-----------------------------------------------------------------------------
(* The routes up to the charge                                             *)

(* verify looks for the application before the gate, expand and upskill    *)
(* for the candidate profile.                                              *)
Arrive(r) ==
  /\ At(r, "idle")
  /\ CASE kind[r] = "mock_start" -> Move(r, "starting")
       [] kind[r] = "verify" -> IF application THEN Move(r, "gate") ELSE Move(r, "refused")
       [] kind[r] \in {"expand", "upskill"} -> Move(r, IF profile THEN "gate" ELSE "refused")
       [] OTHER -> Move(r, "gate")
  /\ UNCHANGED <<money, rows, passes, world>>

(* check_credits                                                           *)
ReadBalance(r) ==
  /\ At(r, "gate")
  /\ seen' = [seen EXCEPT ![r] = balance]
  /\ Move(r, IF balance >= Price THEN "affordable" ELSE "refused")
  /\ UNCHANGED <<balance, billed, locked, rows, passes, world>>

(* consume_credits writes back the balance the session read; the flush     *)
(* waits for the lock of another request's charge.                         *)
Working(r) ==
  CASE kind[r] \in {"expand", "upskill"} -> "recording"
    [] kind[r] = "interview" -> "loading"
    [] kind[r] = "mock_answer" -> "turn"
    [] OTHER -> "checking"
ConsumeCredits(r) ==
  /\ At(r, "affordable") /\ locked = Nobody
  /\ locked' = r
  /\ Move(r, Working(r))
  /\ UNCHANGED <<balance, billed, seen, rows, passes, world>>

-----------------------------------------------------------------------------
(* Expand and upskill                                                      *)

CommitRecord(r) ==
  /\ At(r, "recording")
  /\ IF profile
     THEN /\ CommitCharge(r) /\ record' = [record EXCEPT ![r] = "pending"]
          /\ Move(r, "scheduled")
     ELSE Rollback(r) /\ UNCHANGED record /\ Move(r, "broken")
  /\ UNCHANGED <<expansion, prepared, verified, transcript, passes, world>>

(* A task whose row a reset deleted meanwhile fails and leaves nothing.    *)
Written(table, r, status) ==
  IF table[r] = "deleted" THEN table ELSE [table EXCEPT ![r] = status]
SetExpansion(r, status) == expansion' = Written(expansion, r, status) /\ UNCHANGED record
SetPolled(r, status) == record' = Written(record, r, status) /\ UNCHANGED expansion

ExpandStep == <<money, prepared, verified, transcript, passes, world>>

(* The task hands the parameters of the polled record to execute_expand,   *)
(* which works on a record of its own.                                     *)
ExpandStart(r) ==
  /\ At(r, "scheduled") /\ kind[r] = "expand"
  /\ IF record[r] = "deleted"
     THEN Move(r, "ended") /\ UNCHANGED <<record, expansion>>
     ELSE SetExpansion(r, "processing") /\ Move(r, "scanned")
  /\ UNCHANGED ExpandStep

(* The sources hold items for the LLM, or none.                            *)
ExpandItems(r) ==
  /\ At(r, "scanned") /\ expansion[r] # "deleted"
  /\ \/ Move(r, "enriched") /\ UNCHANGED <<record, expansion>>
     \/ SetExpansion(r, "completed") /\ Move(r, "ended")
  /\ UNCHANGED ExpandStep

(* The enrichment is committed by itself, the additions with the status.   *)
ExpandProposes(r) ==
  /\ At(r, "enriched") /\ expansion[r] # "deleted"
  /\ SetExpansion(r, "completed") /\ Move(r, "proposed")
  /\ UNCHANGED ExpandStep

(* Mutant of ExpandFails: the failure is only logged.                      *)
ExpandFailsUnrecorded(r) ==
  /\ at[r] \in {"scanned", "enriched", "proposed"}
  /\ UNCHANGED <<record, expansion>> /\ Move(r, "ended")
  /\ UNCHANGED ExpandStep

(* An LLM call, a commit or the accounting of the usage fails; the last of *)
(* these fails a run that was completed.                                   *)
ExpandFails(r) ==
  /\ at[r] \in {"scanned", "enriched", "proposed"}
  /\ SetExpansion(r, "failed") /\ Move(r, "ended")
  /\ UNCHANGED ExpandStep

ExpandRecordsUsage(r) ==
  /\ At(r, "proposed")
  /\ Move(r, "ended") /\ UNCHANGED <<record, expansion>>
  /\ UNCHANGED ExpandStep

(* The upskill task keeps one transaction open over its LLM calls, so      *)
(* "running" is never seen and the row stays locked; a missing posting or  *)
(* ranked job fails the record.                                            *)
UpskillStart(r) ==
  /\ At(r, "scheduled") /\ kind[r] = "upskill"
  /\ \/ record[r] # "deleted" /\ Move(r, "learning") /\ UNCHANGED <<record, expansion>>
     \/ SetPolled(r, "failed") /\ Move(r, "ended")
  /\ UNCHANGED ExpandStep

UpskillPass(r) ==
  /\ At(r, "learning")
  /\ passes' = [passes EXCEPT ![r] = @ + 1]
  /\ IF passes'[r] = Passes
     THEN SetPolled(r, "completed") /\ Move(r, "learned")
     ELSE UNCHANGED <<record, expansion, at>>
  /\ UNCHANGED <<money, prepared, verified, transcript, world>>

UpskillFails(r) ==
  /\ At(r, "learning")
  /\ SetPolled(r, "failed") /\ Move(r, "learned")
  /\ UNCHANGED <<money, prepared, verified, transcript, passes, world>>

UpskillRecordsUsage(r) ==
  /\ At(r, "learned") /\ Move(r, "ended")
  /\ UNCHANGED <<money, rows, passes, world>>

-----------------------------------------------------------------------------
(* Interview preparation: eight LLM calls inside the charging transaction  *)

InterviewLoads(r) ==
  /\ At(r, "loading")
  /\ IF application /\ profile
     THEN Move(r, "interviewing") /\ UNCHANGED money
     ELSE Rollback(r) /\ Move(r, "refused")
  /\ UNCHANGED <<rows, passes, world>>

InterviewCall(r) ==
  /\ At(r, "interviewing") /\ passes[r] < Passes
  /\ passes' = [passes EXCEPT ![r] = @ + 1]
  /\ UNCHANGED <<money, rows, at, world>>

(* Mutant of InterviewFails: the charge is committed.                      *)
InterviewFailsCharged(r) ==
  /\ At(r, "interviewing") /\ passes[r] < Passes
  /\ CommitCharge(r) /\ Move(r, "broken")
  /\ UNCHANGED <<rows, passes, world>>

InterviewFails(r) ==
  /\ At(r, "interviewing") /\ passes[r] < Passes
  /\ Rollback(r) /\ Move(r, "broken")
  /\ UNCHANGED <<rows, passes, world>>

(* The pack refers to the application, which may be gone.                  *)
InterviewStores(r) ==
  /\ At(r, "interviewing") /\ passes[r] = Passes
  /\ IF application
     THEN /\ CommitCharge(r) /\ prepared' = prepared \union {r} /\ Move(r, "accounting")
     ELSE /\ Rollback(r) /\ UNCHANGED prepared /\ Move(r, "broken")
  /\ UNCHANGED <<record, expansion, verified, transcript, passes, world>>

(* The usage is recorded after the commit; an error there loses the answer *)
(* and keeps the pack.                                                     *)
InterviewRecordsUsage(r) ==
  /\ At(r, "accounting")
  /\ Move(r, "answered") \/ Move(r, "broken")
  /\ UNCHANGED <<money, rows, passes, world>>

-----------------------------------------------------------------------------
(* Mock interview                                                          *)

(* start_mock_interview returns the first question and stores nothing.     *)
MockStart(r) ==
  /\ At(r, "starting")
  /\ Move(r, "answered")
  /\ UNCHANGED <<money, rows, passes, world>>

(* submit_mock_answer: without a stored question the session has expired;  *)
(* otherwise the LLM asks the next question or ends the interview.  The    *)
(* charge is committed either way.                                         *)
Turns == [asks : BOOLEAN]
AfterAnswer(turn) ==
  transcript \o IF turn.asks THEN <<"candidate", "interviewer">> ELSE <<"candidate">>
HasQuestion == \E i \in DOMAIN transcript : transcript[i] = "interviewer"
MockAnswer(r) ==
  /\ At(r, "turn")
  /\ CommitCharge(r)
  /\ IF HasQuestion THEN \E turn \in Turns : transcript' = AfterAnswer(turn)
                    ELSE UNCHANGED transcript
  /\ Move(r, "answered")
  /\ UNCHANGED <<record, expansion, prepared, verified, passes, world>>

-----------------------------------------------------------------------------
(* Verification                                                            *)

(* The LLM call may fail without failing the checklist.  When it did not,  *)
(* its usage is recorded and committed, and the charge with it.            *)
VerifyChecks(r) ==
  /\ At(r, "checking")
  /\ CommitCharge(r) \/ UNCHANGED money
  /\ Move(r, "storing")
  /\ UNCHANGED <<rows, passes, world>>

(* Mutant of VerifyStores: it waits for the application.                   *)
VerifyStoresWhenThere(r) ==
  /\ At(r, "storing") /\ application
  /\ CommitCharge(r) /\ verified' = verified \union {r} /\ Move(r, "answered")
  /\ UNCHANGED <<record, expansion, prepared, transcript, passes, world>>

VerifyStores(r) ==
  /\ At(r, "storing")
  /\ IF application
     THEN CommitCharge(r) /\ verified' = verified \union {r} /\ Move(r, "answered")
     ELSE Rollback(r) /\ UNCHANGED verified /\ Move(r, "broken")
  /\ UNCHANGED <<record, expansion, prepared, transcript, passes, world>>

-----------------------------------------------------------------------------
(* A new application for the job deletes an unfinished one.  The ORM would *)
(* clear the reference of its interview packs, which the table forbids.    *)
DeleteApplication ==
  /\ application /\ prepared = {}
  /\ application' = FALSE
  /\ UNCHANGED <<money, rows, at, passes, kind, profile, restarts, resets>>

(* DELETE of all job data: rows go by cascade; a row an upskill task has   *)
(* locked holds it up.                                                     *)
Erased(table) == [r \in AgentRequests |-> IF table[r] = "none" THEN "none" ELSE "deleted"]
ResetJobData ==
  /\ resets < MaxRestarts /\ resets' = resets + 1
  /\ \A r \in AgentRequests : ~At(r, "learning")
  /\ record' = Erased(record) /\ expansion' = Erased(expansion)
  /\ application' = FALSE /\ prepared' = {} /\ verified' = {}
  /\ UNCHANGED <<money, transcript, at, passes, kind, profile, restarts>>

(* Reset of the profile, which fails while a record refers to it.          *)
ResetProfile ==
  /\ resets < MaxRestarts /\ resets' = resets + 1
  /\ \A r \in AgentRequests : record[r] \in {"none", "deleted"} /\ expansion[r] \in {"none", "deleted"}
  /\ profile' = FALSE
  /\ UNCHANGED <<money, rows, at, passes, kind, application, restarts>>

(* A restart loses requests and tasks; nothing takes the records up.       *)
Restart ==
  /\ restarts < MaxRestarts /\ restarts' = restarts + 1
  /\ at' = [r \in AgentRequests |-> IF at[r] \in {"idle"} \union Over THEN at[r] ELSE "lost"]
  /\ locked' = Nobody
  /\ UNCHANGED <<balance, billed, seen, rows, passes, kind, application, profile, resets>>

AgentStep(r) ==
  \/ ReadBalance(r) \/ ConsumeCredits(r)
  \/ CommitRecord(r) \/ ExpandStart(r) \/ ExpandItems(r) \/ ExpandFails(r) \/ ExpandProposes(r)
  \/ ExpandRecordsUsage(r) \/ UpskillStart(r) \/ UpskillPass(r) \/ UpskillFails(r)
  \/ UpskillRecordsUsage(r)
  \/ InterviewLoads(r) \/ InterviewCall(r) \/ InterviewFails(r) \/ InterviewStores(r)
  \/ InterviewRecordsUsage(r)
  \/ MockStart(r) \/ MockAnswer(r)
  \/ VerifyChecks(r) \/ VerifyStores(r)

AgentInit ==
  /\ kind \in Mixes
  /\ balance = InitialBalance /\ billed = {} /\ locked = Nobody
  /\ seen = [r \in AgentRequests |-> Unread]
  /\ record = [r \in AgentRequests |-> "none"] /\ expansion = [r \in AgentRequests |-> "none"]
  /\ prepared = {} /\ verified = {} /\ transcript = <<>>
  /\ application = TRUE /\ profile = TRUE
  /\ at = [r \in AgentRequests |-> "idle"] /\ passes = [r \in AgentRequests |-> 0]
  /\ restarts = 0 /\ resets = 0

AgentsDone == (\A r \in AgentRequests : at[r] \in Over) /\ UNCHANGED agentVars

AgentNext ==
  \/ \E r \in AgentRequests : Arrive(r) \/ AgentStep(r)
  \/ DeleteApplication \/ ResetJobData \/ ResetProfile \/ Restart
  \/ AgentsDone

AgentSpec == AgentInit /\ [][AgentNext]_agentVars

AgentFairness == \A r \in AgentRequests : WF_agentVars(AgentStep(r))

-----------------------------------------------------------------------------
(* Properties                                                              *)

AgentPlaces == {"idle", "starting", "gate", "affordable", "recording", "loading", "turn", "checking",
           "interviewing", "accounting", "storing"} \union Background \union Over
Statuses == {"none", "pending", "processing", "deleted"} \union Final

(* Types; the account is locked by a request between its charge and its    *)
(* commit only, and nothing is committed that was not affordable when read.*)
AgentTypeOK ==
  /\ kind \in Mixes
  /\ balance \in 0 .. InitialBalance /\ billed \subseteq AgentRequests
  /\ seen \in [AgentRequests -> 0 .. InitialBalance \union {Unread}]
  /\ locked # Nobody =>
       /\ locked \in AgentRequests \ billed
       /\ at[locked] \in {"recording", "loading", "interviewing", "turn", "checking", "storing"}
       /\ seen[locked] >= Price
  /\ record \in [AgentRequests -> Statuses] /\ expansion \in [AgentRequests -> Statuses]
  /\ prepared \subseteq AgentRequests /\ verified \subseteq AgentRequests
  /\ transcript \in Seq({"interviewer", "candidate"})
  /\ application \in BOOLEAN /\ profile \in BOOLEAN
  /\ at \in [AgentRequests -> AgentPlaces] /\ passes \in [AgentRequests -> 0 .. Passes]
  /\ restarts \in 0 .. MaxRestarts /\ resets \in 0 .. MaxRestarts

(* Nobody pays for nothing and nobody is served for nothing: whatever      *)
(* fails, is deleted or is restarted in between, a committed charge has    *)
(* its record, pack or result unless the user deleted what it was about    *)
(* or the process died inside a verification; a stored result is charged; *)
(* and concurrent charges never take more than their prices.               *)
PaidForAResult ==
  /\ balance + Price * Cardinality(billed) >= InitialBalance
  /\ prepared \union verified \subseteq billed
  /\ \A r \in billed :
       /\ at[r] # "refused"
       /\ CASE kind[r] \in {"expand", "upskill"} -> record[r] # "none"
            [] kind[r] = "interview" -> r \in prepared \/ ~application
            [] kind[r] = "verify" -> \/ r \in verified \/ ~application
                                     \/ at[r] \in {"storing", "lost"}
            [] OTHER -> TRUE

(* The row a background task works on tells how the task ended, unless a   *)
(* reset deleted it; only a restart leaves a row that is neither completed *)
(* nor failed behind.                                                      *)
TaskEndIsRecorded ==
  \A r \in AgentRequests : at[r] = "ended" =>
    /\ kind[r] = "upskill" => record[r] \in Final \union {"deleted"}
    /\ kind[r] = "expand" => expansion[r] \in Final \union {"none", "deleted"}

(* Every request comes to its end, although charges wait for one another   *)
(* and an interview holds its lock over all its LLM calls.                 *)
AgentRequestsEnd == \A r \in AgentRequests : at[r] \in AgentPlaces \ {"idle"} ~> at[r] \in Over

(* "Poll GET /expand/{expansion_id} to check completion": once the task of *)
(* an expansion has ended, the record the client polls is no longer        *)
(* pending.                                                                *)
PolledExpansionEnds ==
  \A r \in AgentRequests : kind[r] = "expand" /\ at[r] = "ended" => record[r] # "pending"

(* Every credit movement is a ledger row: the balance is what was granted  *)
(* less the committed charges.                                             *)
ChargesAddUp == balance + Price * Cardinality(billed) = InitialBalance

(* "Start a mock interview or submit an answer": an answer given after a   *)
(* started interview enters its transcript.                                *)
MockAnswersCount ==
  \A q, r \in AgentRequests :
    kind[q] = "mock_start" /\ kind[r] = "mock_answer" /\ at[q] = "answered" /\ at[r] = "answered"
      => transcript # <<>>
=============================================================================
