---------------------------- MODULE Applications ----------------------------
(***************************************************************************)
(* POST /apply for one ranked job of a user (app/api/v1/apply.py) and the  *)
(* pipeline it starts in the background (app/services/apply.py): draft,    *)
(* review, revision and compilation, each an LLM call or a compilation     *)
(* followed by a commit of the application's stage.                        *)
(*                                                                         *)
(* The job, its one evaluation and the candidate's profile exist; each     *)
(* request has an application of its own, named after it.  The request and *)
(* the pipelines write rows by primary key, whatever happened to them      *)
(* since they were loaded: an UPDATE of a deleted row raises               *)
(* StaleDataError, a DELETE of one is a warning.                           *)
(***************************************************************************)
EXTENDS Naturals, FiniteSets

CONSTANTS
  Requests,     \* POST requests for the job
  Charges,      \* whether the gate charges: an administrator pays nothing
  MaxCrashes,   \* bound: restarts of the process
  NoRequest

ASSUME ApplicationsAssumption ==
  Charges \subseteq BOOLEAN /\ MaxCrashes \in Nat /\ NoRequest \notin Requests

VARIABLES
  stage,     \* table applications: id -> stage
  jobStatus, \* job_postings.status of the job
  charged,   \* ledger rows: the requests whose charge is committed
  pays,      \* requests whose gate made a charge
  pc,        \* where each request is
  stale,     \* the applications each request selected for deletion
  lock,      \* the request that holds the lock on the user's credit account
  task,      \* the background task of each application
  crashes

vars == <<stage, jobStatus, charged, pays, pc, stale, lock, task, crashes>>

(* The stages in the order of the pipeline, and how it may end.            *)
Progress == [queued |-> 1, initializing |-> 2, draft |-> 3, reviewed |-> 4,
             revised |-> 5, compiled |-> 6, verified |-> 6]
Finished == {"compiled", "verified"}
Stages == DOMAIN Progress \union {"failed"}

Exists(a) == a \in DOMAIN stage
Released(r) == IF lock = r THEN NoRequest ELSE lock

-----------------------------------------------------------------------------
(* POST /apply                                                             *)

(* enforce_action_gate: a charge is flushed and keeps the credit account   *)
(* locked until the first commit.                                          *)
Gate(r) ==
  /\ pc[r] = "unsent" /\ lock = NoRequest
  /\ \E charges \in Charges :
       IF charges THEN pays' = pays \union {r} /\ lock' = r
                  ELSE UNCHANGED <<pays, lock>>
  /\ pc' = [pc EXCEPT ![r] = "gated"]
  /\ UNCHANGED <<stage, jobStatus, charged, stale, task, crashes>>

(* "Delete any previous failed / stuck application": the SELECT.           *)
Unfinished == {a \in DOMAIN stage : stage[a] \notin Finished}

SelectStale(r) ==
  /\ pc[r] = "gated"
  /\ stale' = [stale EXCEPT ![r] = Unfinished]
  /\ pc' = [pc EXCEPT ![r] = "selected"]
  /\ UNCHANGED <<stage, jobStatus, charged, pays, lock, task, crashes>>

(* The DELETEs, committed together with the charge.                        *)
DeleteStale(r) ==
  /\ pc[r] = "selected"
  /\ stage' = [a \in DOMAIN stage \ stale[r] |-> stage[a]]
  /\ charged' = charged \union ({r} \intersect pays)
  /\ stale' = [stale EXCEPT ![r] = {}]
  /\ lock' = Released(r)
  /\ pc' = [pc EXCEPT ![r] = "cleaned"]
  /\ UNCHANGED <<jobStatus, pays, task, crashes>>

CreateApplication(r) ==
  /\ pc[r] = "cleaned"
  /\ stage' = [a \in DOMAIN stage \union {r} |-> IF a = r THEN "queued" ELSE stage[a]]
  /\ pc' = [pc EXCEPT ![r] = "created"]
  /\ UNCHANGED <<jobStatus, charged, pays, stale, lock, task, crashes>>

(* db.refresh of the row, and create_task of the pipeline; the refresh of  *)
(* a row that another request deleted raises.                              *)
ScheduleForgets(r) ==
  /\ pc[r] = "created"
  /\ pc' = [pc EXCEPT ![r] = IF Exists(r) THEN "answered" ELSE "refused"]
  /\ UNCHANGED <<stage, jobStatus, charged, pays, stale, lock, task, crashes>>
Schedule(r) ==
  /\ pc[r] = "created"
  /\ IF Exists(r) THEN /\ pc' = [pc EXCEPT ![r] = "answered"]
                       /\ task' = [task EXCEPT ![r] = "scheduled"]
                  ELSE pc' = [pc EXCEPT ![r] = "refused"] /\ UNCHANGED task
  /\ UNCHANGED <<stage, jobStatus, charged, pays, stale, lock, crashes>>

-----------------------------------------------------------------------------
(* execute_apply_background                                                *)

(* A commit of the pipeline.  When the row is gone it raises, _fail_appli- *)
(* cation finds no row either, and the task ends.                          *)
CommitsByMerge(a, next, then) ==
  /\ stage' = [b \in DOMAIN stage \union {a} |-> IF b = a THEN next ELSE stage[b]]
  /\ task' = [task EXCEPT ![a] = then]
Commits(a, next, then) ==
  /\ stage' = IF Exists(a) THEN [stage EXCEPT ![a] = next] ELSE stage
  /\ task' = [task EXCEPT ![a] = IF Exists(a) THEN then ELSE "ended"]

Initialize(a) ==
  /\ task[a] = "scheduled"
  /\ Commits(a, "initializing", "initializing")
  /\ UNCHANGED <<jobStatus, charged, pays, pc, stale, lock, crashes>>

(* The stages of execute_apply up to the compilation: what the task has    *)
(* reached, and what its next commit writes.  The second commit of "draft" *)
(* changes nothing and sends no UPDATE.                                    *)
NextStage == [initializing |-> "draft", draft |-> "reviewed", reviewed |-> "revised"]

Advance(a) ==
  /\ task[a] \in DOMAIN NextStage
  /\ Commits(a, NextStage[task[a]], NextStage[task[a]])
  /\ UNCHANGED <<jobStatus, charged, pays, pc, stale, lock, crashes>>

(* Typst and the ATS check, then one commit of the result and of the job's *)
(* status; verified when the ATS check passed.                             *)
Compile(a) ==
  /\ task[a] = "revised"
  /\ \E result \in Finished : Commits(a, result, "recording usage")
  /\ jobStatus' = IF Exists(a) THEN "applied" ELSE jobStatus
  /\ UNCHANGED <<charged, pays, pc, stale, lock, crashes>>

(* The refresh of the row and the commit of record_llm_usage.              *)
RecordUsage(a) ==
  /\ task[a] = "recording usage"
  /\ task' = [task EXCEPT ![a] = "ended"]
  /\ UNCHANGED <<stage, jobStatus, charged, pays, pc, stale, lock, crashes>>

InProgress(a) == task[a] \notin {"none", "ended", "killed"}

(* Any exception, a cancellation included: _fail_application.              *)
PipelineVanishes(a) ==
  /\ InProgress(a)
  /\ task' = [task EXCEPT ![a] = "ended"]
  /\ UNCHANGED <<stage, jobStatus, charged, pays, pc, stale, lock, crashes>>
PipelineFails(a) ==
  /\ InProgress(a)
  /\ Commits(a, "failed", "ended")
  /\ UNCHANGED <<jobStatus, charged, pays, pc, stale, lock, crashes>>

-----------------------------------------------------------------------------
(* A restart: requests in flight are rolled back, and the pipelines, which *)
(* the task manager does not track, are gone.                              *)
Crash ==
  /\ crashes < MaxCrashes /\ crashes' = crashes + 1
  /\ pc' = [r \in Requests |-> IF pc[r] \in {"gated", "selected", "cleaned", "created"}
                               THEN "lost" ELSE pc[r]]
  /\ stale' = [r \in Requests |-> {}] /\ lock' = NoRequest
  /\ task' = [a \in Requests |-> IF InProgress(a) THEN "killed" ELSE task[a]]
  /\ UNCHANGED <<stage, jobStatus, charged, pays>>

Init ==
  /\ stage = <<>> /\ jobStatus = "ranked"
  /\ charged = {} /\ pays = {}
  /\ pc = [r \in Requests |-> "unsent"]
  /\ stale = [r \in Requests |-> {}] /\ lock = NoRequest
  /\ task = [a \in Requests |-> "none"]
  /\ crashes = 0

(* Every request was sent and nothing runs.                                *)
Done ==
  /\ \A r \in Requests : pc[r] \in {"answered", "refused", "lost"} /\ ~InProgress(r)
  /\ UNCHANGED vars

Post(r) == SelectStale(r) \/ DeleteStale(r) \/ CreateApplication(r) \/ Schedule(r)

Pipeline(a) == Initialize(a) \/ Advance(a) \/ Compile(a) \/ RecordUsage(a) \/ PipelineFails(a)

Next ==
  \/ \E r \in Requests : Gate(r) \/ Post(r) \/ Pipeline(r)
  \/ Crash
  \/ Done

Spec == Init /\ [][Next]_vars

(* The event loop runs every ready task, LLM calls have a timeout and the  *)
(* database answers, so requests and pipelines that began go on.           *)
Fairness == \A r \in Requests : WF_vars(Post(r)) /\ WF_vars(Pipeline(r))

FairSpec == Spec /\ Fairness

-----------------------------------------------------------------------------
(* Properties                                                              *)

Places == {"unsent", "gated", "selected", "cleaned", "created", "answered", "refused", "lost"}
Tasks == {"none", "scheduled", "initializing", "draft", "reviewed", "revised",
          "recording usage", "ended", "killed"}

(* Types; the credit account is locked only between the gate and the first *)
(* commit of the request that was charged, and no charge is committed      *)
(* before.                                                                 *)
TypeOK ==
  /\ DOMAIN stage \subseteq Requests /\ \A a \in DOMAIN stage : stage[a] \in Stages
  /\ jobStatus \in {"ranked", "applied"}
  /\ pc \in [Requests -> Places]
  /\ task \in [Requests -> Tasks]
  /\ pays \subseteq Requests /\ charged \subseteq pays
  /\ stale \in [Requests -> SUBSET Requests]
  /\ lock = NoRequest \/ (lock \in pays \ charged /\ pc[lock] \in {"gated", "selected"})
  /\ crashes \in 0 .. MaxCrashes

(* An application goes through the stages one by one or fails, and a       *)
(* failed one never continues, whichever requests and restarts come in     *)
(* between.  The pipeline of one that a later request deleted goes on with *)
(* its LLM calls, but never brings the row back.                           *)
StagesAdvance ==
  [][/\ \A a \in DOMAIN stage \intersect DOMAIN stage' :
          stage'[a] # stage[a] =>
            /\ stage[a] # "failed"
            /\ stage'[a] = "failed" \/ Progress[stage'[a]] = Progress[stage[a]] + 1
     /\ \A a \in DOMAIN stage' \ DOMAIN stage : pc[a] = "cleaned"]_vars

(* Only a restart leaves an application in progress that nothing works on: *)
(* every other way a pipeline ends is told by the stage ("on failure stage *)
(* is set to failed").                                                     *)
StuckOnlyByRestart ==
  crashes = 0 =>
    \A a \in DOMAIN stage :
      stage[a] \notin Finished \union {"failed"} => InProgress(a) \/ pc[a] = "created"

(* The application of an answered request is finished or failed at last,   *)
(* unless a later request deletes it or the process restarts.              *)
PipelinesEnd ==
  \A r \in Requests :
    pc[r] = "answered" ~>
      ~Exists(r) \/ stage[r] \in Finished \union {"failed"} \/ crashes > 0

(* "Delete any previous failed / stuck application for this job": no       *)
(* application that is compiled is deleted.                                *)
FinishedIsKept ==
  [][\A a \in DOMAIN stage : stage[a] \in Finished => a \in DOMAIN stage']_vars

=============================================================================
