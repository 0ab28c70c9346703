----------------------------- MODULE TaskProofs -----------------------------
(***************************************************************************)
(* What requests and the background tasks they leave behind keep, for any  *)
(* number of requests, restarts, prices and charging policies: first the   *)
(* application pipeline (Applications), then the requests that spend       *)
(* credits on LLM work (AgentRuns).                                        *)
(***************************************************************************)
EXTENDS Applications, AgentRuns, FiniteSetTheorems, TLAPS

-----------------------------------------------------------------------------
(* The application pipeline                                                *)

(* Where the row of an application stands, as its request and its pipeline *)
(* know it, while the row exists.                                          *)
RowFollows(a) ==
  /\ pc[a] \in {"unsent", "gated", "selected", "cleaned"} => ~Exists(a)
  /\ pc[a] # "answered" => task[a] = "none"
  /\ Exists(a) /\ pc[a] = "created" => stage[a] = "queued"
  /\ Exists(a) /\ task[a] = "scheduled" => stage[a] = "queued"
  /\ Exists(a) /\ task[a] \in {"initializing", "draft", "reviewed", "revised"}
     => stage[a] = task[a]
  /\ Exists(a) /\ task[a] = "recording usage" => stage[a] \in Finished

(* A request that has not committed yet has no charge in the ledger.       *)
ChargeFollows(r) ==
  /\ r \in pays => pc[r] # "unsent"
  /\ r \in charged => pc[r] \notin {"unsent", "gated", "selected"}

AInv ==
  /\ TypeOK
  /\ \A a \in Requests : RowFollows(a) /\ ChargeFollows(a)
  /\ StuckOnlyByRestart

LEMMA ProgressDomain ==
  DOMAIN Progress = {"queued", "initializing", "draft", "reviewed", "revised",
                     "compiled", "verified"}
  BY DEF Progress

LEMMA NextStages ==
  /\ DOMAIN NextStage = {"initializing", "draft", "reviewed"}
  /\ NextStage["initializing"] = "draft"
  /\ NextStage["draft"] = "reviewed"
  /\ NextStage["reviewed"] = "revised"
  BY DEF NextStage

LEMMA StageSteps ==
  /\ Progress["queued"] = 1 /\ Progress["initializing"] = 2 /\ Progress["draft"] = 3
  /\ Progress["reviewed"] = 4 /\ Progress["revised"] = 5
  /\ Progress["compiled"] = 6 /\ Progress["verified"] = 6
  BY DEF Progress

LEMMA StageSet ==
  Stages = {"queued", "initializing", "draft", "reviewed", "revised",
            "compiled", "verified", "failed"}
  BY ProgressDomain DEF Stages

LEMMA InitAInv == Init => AInv
<1>1. SUFFICES ASSUME Init PROVE AInv
  OBVIOUS
<1>2. DOMAIN stage = {}
  BY <1>1 DEF Init
<1>3. TypeOK
  BY <1>1, <1>2, ApplicationsAssumption DEF Init, TypeOK, Places, Tasks, ApplicationsAssumption
<1>4. QED
  BY <1>1, <1>2, <1>3 DEF Init, AInv, RowFollows, ChargeFollows, StuckOnlyByRestart, Exists

(* A commit of a pipeline touches its own row and its own task only.       *)
LEMMA CommitsRows ==
  ASSUME NEW a \in Requests, NEW next, NEW then, Commits(a, next, then),
         task \in [Requests -> Tasks]
  PROVE  /\ DOMAIN stage' = DOMAIN stage
         /\ \A b \in DOMAIN stage : stage'[b] = IF b = a THEN next ELSE stage[b]
         /\ \A b \in Requests :
              task'[b] = IF b # a THEN task[b] ELSE IF Exists(a) THEN then ELSE "ended"
         /\ then \in Tasks => task' \in [Requests -> Tasks]
  BY DEF Commits, Exists, Tasks

-----------------------------------------------------------------------------
(* The steps of a request.                                                 *)

LEMMA GateKeeps ==
  ASSUME AInv, NEW r \in Requests, Gate(r) PROVE AInv'
<1>1. /\ pc \in [Requests -> Places] /\ pc[r] = "unsent" /\ lock = NoRequest
      /\ pc' = [pc EXCEPT ![r] = "gated"]
      /\ UNCHANGED <<stage, jobStatus, charged, stale, task, crashes>>
      /\ charged \subseteq pays /\ pays \subseteq Requests
  BY DEF AInv, TypeOK, Gate
<1>2. /\ pc' \in [Requests -> Places] /\ pc'[r] = "gated"
      /\ \A b \in Requests : b # r => pc'[b] = pc[b]
  BY <1>1 DEF Places
<1>3. \A b \in Requests : RowFollows(b) /\ ChargeFollows(b)
  BY DEF AInv
<1>4. r \notin charged
  BY <1>1, <1>3 DEF ChargeFollows
<1>5. \/ pays' = pays \union {r} /\ lock' = r
      \/ pays' = pays /\ lock' = lock
  BY DEF Gate
<1>6. TypeOK'
  BY <1>1, <1>2, <1>4, <1>5 DEF AInv, TypeOK
<1>7. ASSUME NEW b \in Requests PROVE RowFollows(b)' /\ ChargeFollows(b)'
  <2>1. CASE b = r
    BY <1>1, <1>2, <1>3, <1>4, <1>5, <2>1 DEF RowFollows, ChargeFollows, Exists
  <2>2. CASE b # r
    BY <1>1, <1>2, <1>3, <1>5, <2>2 DEF RowFollows, ChargeFollows, Exists
  <2>3. QED
    BY <2>1, <2>2
<1>8. StuckOnlyByRestart'
  BY <1>1, <1>2 DEF AInv, TypeOK, StuckOnlyByRestart, InProgress
<1>9. QED
  BY <1>6, <1>7, <1>8 DEF AInv

LEMMA SelectStaleKeeps ==
  ASSUME AInv, NEW r \in Requests, SelectStale(r) PROVE AInv'
<1>1. TypeOK'
  BY DEF AInv, TypeOK, Places, Tasks, RowFollows, ChargeFollows, Exists, InProgress,
     SelectStale, Unfinished
<1>2. ASSUME NEW b \in Requests PROVE RowFollows(b)' /\ ChargeFollows(b)'
  BY DEF AInv, TypeOK, Places, Tasks, RowFollows, ChargeFollows, Exists, InProgress,
     SelectStale, Unfinished
<1>3. StuckOnlyByRestart'
  BY DEF AInv, TypeOK, RowFollows, StuckOnlyByRestart, Exists, InProgress, SelectStale, Unfinished
<1>4. QED
  BY <1>1, <1>2, <1>3 DEF AInv

LEMMA DeleteStaleKeeps ==
  ASSUME AInv, NEW r \in Requests, DeleteStale(r) PROVE AInv'
<1>1. TypeOK'
  BY DEF AInv, TypeOK, Places, Tasks, RowFollows, ChargeFollows, Exists, InProgress,
     DeleteStale, Released
<1>2. ASSUME NEW b \in Requests PROVE RowFollows(b)' /\ ChargeFollows(b)'
  BY DEF AInv, TypeOK, Places, Tasks, RowFollows, ChargeFollows, Exists, InProgress,
     DeleteStale, Released
<1>3. StuckOnlyByRestart'
  BY DEF AInv, TypeOK, RowFollows, StuckOnlyByRestart, Exists, InProgress, DeleteStale, Released
<1>4. QED
  BY <1>1, <1>2, <1>3 DEF AInv

LEMMA CreateApplicationKeeps ==
  ASSUME AInv, NEW r \in Requests, CreateApplication(r) PROVE AInv'
<1>1. TypeOK'
  BY StageSet, ZenonT(40) DEF AInv, TypeOK, Places, Tasks, RowFollows, ChargeFollows, Exists, InProgress,
     CreateApplication
<1>2. ASSUME NEW b \in Requests PROVE RowFollows(b)' /\ ChargeFollows(b)'
  BY StageSet, ZenonT(40) DEF AInv, TypeOK, Places, Tasks, RowFollows, ChargeFollows, Exists, InProgress,
     CreateApplication
<1>3. StuckOnlyByRestart'
  BY StageSet, ZenonT(40) DEF AInv, TypeOK, RowFollows, StuckOnlyByRestart, Exists, InProgress, CreateApplication
<1>4. QED
  BY <1>1, <1>2, <1>3 DEF AInv

LEMMA ScheduleKeeps ==
  ASSUME AInv, NEW r \in Requests, Schedule(r) PROVE AInv'
<1>1. TypeOK'
  BY ZenonT(40) DEF AInv, TypeOK, Places, Tasks, RowFollows, ChargeFollows, Exists, InProgress,
     Schedule
<1>2. ASSUME NEW b \in Requests PROVE RowFollows(b)' /\ ChargeFollows(b)'
  <2>1. /\ RowFollows(b) /\ ChargeFollows(b)
        /\ pc \in [Requests -> Places] /\ task \in [Requests -> Tasks]
        /\ pc[r] = "created"
        /\ UNCHANGED <<stage, charged, pays>>
    BY DEF AInv, TypeOK, Schedule
  <2>2. CASE b = r
    <3>1. CASE Exists(r)
      BY <2>1, <2>2, <3>1 DEF RowFollows, ChargeFollows, Exists, Schedule
    <3>2. CASE ~Exists(r)
      BY <2>1, <2>2, <3>2 DEF RowFollows, ChargeFollows, Exists, Schedule
    <3>3. QED
      BY <3>1, <3>2
  <2>3. CASE b # r
    <3>1. pc'[b] = pc[b] /\ task'[b] = task[b]
      BY <2>1, <2>3 DEF Schedule
    <3>2. QED
      BY <2>1, <3>1 DEF RowFollows, ChargeFollows, Exists
  <2>4. QED
    BY <2>2, <2>3
<1>3. StuckOnlyByRestart'
  BY ZenonT(40) DEF AInv, TypeOK, RowFollows, StuckOnlyByRestart, Exists, InProgress, Schedule
<1>4. QED
  BY <1>1, <1>2, <1>3 DEF AInv

-----------------------------------------------------------------------------
(* The steps of a pipeline.                                                *)

(* What a commit of a pipeline may write without breaking AInv: the new    *)
(* stage fits what the task does next.                                     *)
StageFits(next, then) ==
  /\ next \in Stages /\ then \in Tasks \ {"none", "scheduled", "killed"}
  /\ then \in {"initializing", "draft", "reviewed", "revised"} => next = then
  /\ then = "recording usage" => next \in Finished
  /\ then = "ended" => next \in Finished \union {"failed"}

LEMMA CommitKeeps ==
  ASSUME AInv, NEW a \in Requests, InProgress(a),
         NEW next, NEW then, StageFits(next, then), Commits(a, next, then),
         jobStatus' \in {"ranked", "applied"},
         UNCHANGED <<charged, pays, pc, stale, lock, crashes>>
  PROVE  AInv'
<1>1. /\ task \in [Requests -> Tasks]
      /\ then \in Tasks
  BY DEF AInv, TypeOK, StageFits
<1>2. /\ DOMAIN stage' = DOMAIN stage
      /\ \A b \in DOMAIN stage : stage'[b] = IF b = a THEN next ELSE stage[b]
      /\ \A b \in Requests :
           task'[b] = IF b # a THEN task[b] ELSE IF Exists(a) THEN then ELSE "ended"
      /\ task' \in [Requests -> Tasks]
  BY <1>1, CommitsRows
<1>3. TypeOK'
  BY <1>2 DEF AInv, TypeOK, StageFits
<1>4. pc[a] = "answered"
  BY DEF AInv, RowFollows, InProgress
<1>5. ASSUME NEW b \in Requests PROVE RowFollows(b)' /\ ChargeFollows(b)'
  <2>1. RowFollows(b) /\ ChargeFollows(b)
    BY DEF AInv
  <2>2. CASE b = a
    BY <1>2, <1>4, <2>1, <2>2 DEF RowFollows, ChargeFollows, Exists, StageFits, Tasks
  <2>3. CASE b # a
    BY <1>2, <2>1, <2>3 DEF RowFollows, ChargeFollows, Exists
  <2>4. QED
    BY <2>2, <2>3
<1>6. ASSUME crashes' = 0, NEW b \in DOMAIN stage',
             stage'[b] \notin Finished \union {"failed"}
      PROVE  InProgress(b)' \/ pc'[b] = "created"
  <2>1. b \in Requests /\ b \in DOMAIN stage
    BY <1>2, <1>6 DEF AInv, TypeOK
  <2>2. CASE b = a
    BY <1>2, <1>6, <2>1, <2>2 DEF Exists, StageFits, Tasks, InProgress
  <2>3. CASE b # a
    BY <1>2, <1>6, <2>1, <2>3 DEF AInv, StuckOnlyByRestart, InProgress
  <2>4. QED
    BY <2>2, <2>3
<1>7. StuckOnlyByRestart'
  BY <1>6 DEF StuckOnlyByRestart
<1>8. QED
  BY <1>3, <1>5, <1>7 DEF AInv

LEMMA InitializeKeeps ==
  ASSUME AInv, NEW a \in Requests, Initialize(a) PROVE AInv'
<1>1. StageFits("initializing", "initializing")
  BY StageSet DEF StageFits, Tasks
<1>2. QED
  BY <1>1, CommitKeeps DEF Initialize, InProgress, AInv, TypeOK

LEMMA AdvanceKeeps ==
  ASSUME AInv, NEW a \in Requests, Advance(a) PROVE AInv'
<1>1. StageFits(NextStage[task[a]], NextStage[task[a]])
  BY StageSet, NextStages DEF Advance, StageFits, Tasks
<1>2. InProgress(a)
  BY NextStages DEF Advance, InProgress
<1>3. QED
  BY <1>1, <1>2, CommitKeeps DEF Advance, AInv, TypeOK

LEMMA CompileKeeps ==
  ASSUME AInv, NEW a \in Requests, Compile(a) PROVE AInv'
<1>1. PICK result \in Finished : Commits(a, result, "recording usage")
  BY DEF Compile
<1>2. StageFits(result, "recording usage")
  BY StageSet DEF StageFits, Tasks, Finished
<1>3. QED
  BY <1>1, <1>2, CommitKeeps DEF Compile, InProgress, AInv, TypeOK

LEMMA PipelineFailsKeeps ==
  ASSUME AInv, NEW a \in Requests, PipelineFails(a) PROVE AInv'
<1>1. StageFits("failed", "ended")
  BY StageSet DEF StageFits, Tasks
<1>2. QED
  BY <1>1, CommitKeeps DEF PipelineFails, AInv, TypeOK

LEMMA RecordUsageKeeps ==
  ASSUME AInv, NEW a \in Requests, RecordUsage(a) PROVE AInv'
<1>1. TypeOK'
  BY DEF AInv, TypeOK, Places, Tasks, RowFollows, ChargeFollows, Exists, InProgress,
     RecordUsage
<1>2. ASSUME NEW b \in Requests PROVE RowFollows(b)' /\ ChargeFollows(b)'
  BY DEF AInv, TypeOK, Places, Tasks, RowFollows, ChargeFollows, Exists, InProgress,
     RecordUsage
<1>3. StuckOnlyByRestart'
  BY DEF AInv, TypeOK, RowFollows, StuckOnlyByRestart, Exists, InProgress, RecordUsage
<1>4. QED
  BY <1>1, <1>2, <1>3 DEF AInv

-----------------------------------------------------------------------------
LEMMA CrashKeeps ==
  ASSUME AInv, Crash PROVE AInv'
<1>1. /\ pc' = [r \in Requests |-> IF pc[r] \in {"gated", "selected", "cleaned", "created"}
                                   THEN "lost" ELSE pc[r]]
      /\ task' = [a \in Requests |-> IF InProgress(a) THEN "killed" ELSE task[a]]
      /\ stale' = [r \in Requests |-> {}] /\ lock' = NoRequest
      /\ UNCHANGED <<stage, jobStatus, charged, pays>>
      /\ crashes < MaxCrashes /\ crashes' = crashes + 1
  BY DEF Crash
<1>2. crashes \in 0 .. MaxCrashes /\ crashes' \in 0 .. MaxCrashes /\ crashes' # 0
  BY <1>1, ApplicationsAssumption DEF AInv, TypeOK, ApplicationsAssumption
<1>3. pc' \in [Requests -> Places]
  BY <1>1 DEF AInv, TypeOK, Places
<1>4. task' \in [Requests -> Tasks]
  BY <1>1 DEF AInv, TypeOK, Tasks
<1>5. stale' \in [Requests -> SUBSET Requests]
  BY <1>1
<1>6. TypeOK'
  BY <1>1, <1>2, <1>3, <1>4, <1>5 DEF AInv, TypeOK
<1>7. ASSUME NEW b \in Requests PROVE RowFollows(b)' /\ ChargeFollows(b)'
  BY <1>1 DEF AInv, RowFollows, ChargeFollows, Exists, InProgress
<1>8. StuckOnlyByRestart'
  BY <1>2 DEF StuckOnlyByRestart
<1>9. QED
  BY <1>6, <1>7, <1>8 DEF AInv

LEMMA StepKeeps == AInv /\ [Next]_vars => AInv'
<1>1. SUFFICES ASSUME AInv, [Next]_vars PROVE AInv'
  OBVIOUS
<1>2. CASE Next
  <2>1. ASSUME NEW r \in Requests, Gate(r) PROVE AInv'
    BY <1>1, <2>1, GateKeeps
  <2>2. ASSUME NEW r \in Requests, Post(r) PROVE AInv'
    BY <1>1, <2>2, SelectStaleKeeps, DeleteStaleKeeps, CreateApplicationKeeps, ScheduleKeeps
    DEF Post
  <2>3. ASSUME NEW a \in Requests, Pipeline(a) PROVE AInv'
    BY <1>1, <2>3, InitializeKeeps, AdvanceKeeps, CompileKeeps, RecordUsageKeeps, PipelineFailsKeeps
    DEF Pipeline
  <2>4. CASE Done
    BY <1>1, <2>4 DEF Done, vars, AInv, TypeOK, RowFollows, ChargeFollows, StuckOnlyByRestart,
                Exists, InProgress
  <2>5. QED
    BY <1>1, <1>2, <2>1, <2>2, <2>3, <2>4, CrashKeeps DEF Next
<1>3. CASE UNCHANGED vars
  BY <1>1, <1>3 DEF vars, AInv, TypeOK, RowFollows, ChargeFollows, StuckOnlyByRestart,
              Exists, InProgress
<1>4. QED
  BY <1>1, <1>2, <1>3

THEOREM ApplicationsInvariant == Spec => []AInv
  BY InitAInv, StepKeeps, PTL DEF Spec

(* Type correctness, with the lock and the charges tied to the requests:   *)
(* no failed request keeps the credit account locked.                      *)
THEOREM TypeCorrect == Spec => []TypeOK
<1>1. AInv => TypeOK
  BY DEF AInv
<1>2. QED
  BY <1>1, ApplicationsInvariant, PTL

(* Whatever requests delete and however pipelines fail, only a restart     *)
(* leaves an application in progress that nothing works on.                *)
THEOREM StuckOnlyByRestartCorrect == Spec => []StuckOnlyByRestart
<1>1. AInv => StuckOnlyByRestart
  BY DEF AInv
<1>2. QED
  BY <1>1, ApplicationsInvariant, PTL

-----------------------------------------------------------------------------
(* The action properties: what one step does to the rows of two states.    *)

RowsAdvance ==
  \A a \in DOMAIN stage \intersect DOMAIN stage' :
    stage'[a] # stage[a] =>
      /\ stage[a] # "failed"
      /\ stage'[a] = "failed" \/ Progress[stage'[a]] = Progress[stage[a]] + 1

LEMMA RequestStepsAdvance ==
  ASSUME AInv, NEW r \in Requests, Gate(r) \/ Post(r) PROVE RowsAdvance
<1>1. CASE CreateApplication(r)
  <2>1. ~Exists(r)
    BY <1>1 DEF AInv, RowFollows, CreateApplication
  <2>2. \A a \in DOMAIN stage : stage'[a] = stage[a]
    BY <1>1, <2>1 DEF CreateApplication, Exists
  <2>3. QED
    BY <2>2 DEF RowsAdvance
<1>2. CASE DeleteStale(r)
  <2>1. \A a \in DOMAIN stage' : stage'[a] = stage[a]
    BY <1>2 DEF DeleteStale
  <2>2. QED
    BY <2>1 DEF RowsAdvance
<1>3. CASE Gate(r) \/ SelectStale(r) \/ Schedule(r)
  <2>1. UNCHANGED stage
    BY <1>3 DEF Gate, SelectStale, Schedule
  <2>2. QED
    BY <2>1 DEF RowsAdvance
<1>4. QED
  BY <1>1, <1>2, <1>3 DEF Post

(* Writing next is a step forward for the row of a, if there is one.       *)
Forward(a, next) ==
  Exists(a) => /\ stage[a] # "failed"
               /\ next = "failed" \/ Progress[next] = Progress[stage[a]] + 1

LEMMA CommitAdvances ==
  ASSUME AInv, NEW a \in Requests, NEW next, NEW then, Commits(a, next, then),
         Forward(a, next)
  PROVE  RowsAdvance
<1>1. /\ DOMAIN stage' = DOMAIN stage
      /\ \A b \in DOMAIN stage : stage'[b] = IF b = a THEN next ELSE stage[b]
  BY CommitsRows DEF AInv, TypeOK
<1>2. QED
  BY <1>1 DEF RowsAdvance, Exists, Forward

LEMMA PipelineStepsAdvance ==
  ASSUME AInv, NEW a \in Requests, Pipeline(a) PROVE RowsAdvance
<1>0. RowFollows(a)
  BY DEF AInv
<1>1. CASE Initialize(a)
  <2>1. Forward(a, "initializing")
    BY <1>0, <1>1, StageSteps DEF RowFollows, Initialize, Forward
  <2>2. QED
    BY <1>1, <2>1, CommitAdvances DEF Initialize
<1>2. CASE Advance(a)
  <2>1. CASE Exists(a)
    <3>1. stage[a] = task[a] /\ task[a] \in {"initializing", "draft", "reviewed"}
      BY <1>0, <1>2, <2>1, NextStages DEF RowFollows, Advance
    <3>2. Progress[NextStage[task[a]]] = Progress[task[a]] + 1
      BY <3>1, StageSteps, NextStages
    <3>3. Forward(a, NextStage[task[a]])
      BY <3>1, <3>2 DEF Forward
    <3>4. QED
      BY <1>2, <3>3, CommitAdvances DEF Advance
  <2>2. CASE ~Exists(a)
    <3>1. Forward(a, NextStage[task[a]])
      BY <2>2 DEF Forward
    <3>2. QED
      BY <1>2, <3>1, CommitAdvances DEF Advance
  <2>3. QED
    BY <2>1, <2>2
<1>3. CASE Compile(a)
  <2>1. PICK result \in Finished : Commits(a, result, "recording usage")
    BY <1>3 DEF Compile
  <2>2. CASE Exists(a)
    <3>1. stage[a] = "revised"
      BY <1>0, <1>3, <2>2 DEF RowFollows, Compile
    <3>2. Progress[result] = 6
      BY StageSteps DEF Finished
    <3>3. Forward(a, result)
      BY <3>1, <3>2, StageSteps DEF Forward
    <3>4. QED
      BY <2>1, <3>3, CommitAdvances
  <2>3. CASE ~Exists(a)
    <3>1. Forward(a, result)
      BY <2>3 DEF Forward
    <3>2. QED
      BY <2>1, <3>1, CommitAdvances
  <2>4. QED
    BY <2>2, <2>3
<1>4. CASE RecordUsage(a)
  BY <1>4 DEF RowsAdvance, RecordUsage
<1>5. CASE PipelineFails(a)
  <2>1. Forward(a, "failed")
    BY <1>0, <1>5 DEF RowFollows, PipelineFails, InProgress, AInv, TypeOK, Tasks, Finished, Forward
  <2>2. QED
    BY <1>5, <2>1, CommitAdvances DEF PipelineFails
<1>6. QED
  BY <1>1, <1>2, <1>3, <1>4, <1>5 DEF Pipeline

(* No pipeline brings back a row that a later request deleted.             *)
LEMMA OnlyRequestsCreate ==
  ASSUME AInv, [Next]_vars
  PROVE  \A a \in DOMAIN stage' \ DOMAIN stage : pc[a] = "cleaned"
<1>1. ASSUME NEW r \in Requests, CreateApplication(r)
      PROVE  \A a \in DOMAIN stage' \ DOMAIN stage : pc[a] = "cleaned"
  BY <1>1 DEF CreateApplication
<1>2. ASSUME NEW r \in Requests, DeleteStale(r) PROVE DOMAIN stage' \subseteq DOMAIN stage
  BY <1>2 DEF DeleteStale
<1>3. ASSUME NEW a \in Requests, NEW next, NEW then, Commits(a, next, then)
      PROVE  DOMAIN stage' = DOMAIN stage
  BY <1>3, CommitsRows DEF AInv, TypeOK
<1>4. ASSUME NEW a \in Requests, Pipeline(a) PROVE DOMAIN stage' = DOMAIN stage
  BY <1>3, <1>4 DEF Pipeline, Initialize, Advance, Compile, RecordUsage, PipelineFails
<1>5. ASSUME NEW r \in Requests, Gate(r) \/ SelectStale(r) \/ Schedule(r)
      PROVE  DOMAIN stage' = DOMAIN stage
  BY <1>5 DEF Gate, SelectStale, Schedule
<1>6. Crash \/ Done \/ UNCHANGED vars => DOMAIN stage' = DOMAIN stage
  BY DEF Crash, Done, vars
<1> QED
  BY <1>1, <1>2, <1>4, <1>5, <1>6 DEF Next, Post

(* An application passes through the stages one by one or fails, a failed  *)
(* one never continues and a deleted one never returns, for any number of  *)
(* requests and restarts.                                                  *)
THEOREM StagesAdvanceCorrect == Spec => StagesAdvance
<1> DEFINE NoneReturns == \A a \in DOMAIN stage' \ DOMAIN stage : pc[a] = "cleaned"
<1>1. AInv /\ [Next]_vars => [RowsAdvance]_vars
  BY RequestStepsAdvance, PipelineStepsAdvance DEF Next, Crash, Done, vars, RowsAdvance
<1>2. AInv /\ [Next]_vars => [RowsAdvance /\ NoneReturns]_vars
  BY <1>1, OnlyRequestsCreate
<1> QED
  BY <1>2, ApplicationsInvariant, PTL DEF Spec, StagesAdvance, RowsAdvance

-----------------------------------------------------------------------------
(***************************************************************************)
(* The requests that spend credits: who holds the account, what was        *)
(* charged for and what a task left behind follow from where each request  *)
(* is.                                                                     *)
(***************************************************************************)

(* Every balance read or committed is what the committed charges left of   *)
(* the first one, or more where charges were lost.                         *)
Covers(amount, paid) == amount + Price * Cardinality(paid) >= InitialBalance

Money ==
  /\ balance \in 0 .. InitialBalance /\ Covers(balance, billed)
  /\ billed \subseteq AgentRequests
  /\ seen \in [AgentRequests -> 0 .. InitialBalance \union {Unread}]
  /\ locked \in AgentRequests \union {Nobody}

AgentTables ==
  /\ record \in [AgentRequests -> Statuses] /\ expansion \in [AgentRequests -> Statuses]
  /\ prepared \subseteq AgentRequests /\ verified \subseteq AgentRequests
  /\ transcript \in Seq({"interviewer", "candidate"})
  /\ application \in BOOLEAN /\ profile \in BOOLEAN

Standing ==
  /\ kind \in Mixes /\ kind \in [AgentRequests -> Kinds]
  /\ at \in [AgentRequests -> AgentPlaces] /\ passes \in [AgentRequests -> 0 .. Passes]
  /\ restarts \in 0 .. MaxRestarts /\ resets \in 0 .. MaxRestarts

(* Each route has places of its own.                                       *)
PlaceFits(r) ==
  /\ at[r] \in {"gate", "affordable"} => kind[r] # "mock_start"
  /\ at[r] \in {"recording", "scheduled", "ended"} => kind[r] \in {"expand", "upskill"}
  /\ at[r] \in {"scanned", "enriched", "proposed"} => kind[r] = "expand"
  /\ at[r] \in {"learning", "learned"} => kind[r] = "upskill"
  /\ at[r] \in {"loading", "interviewing", "accounting"} => kind[r] = "interview"
  /\ at[r] = "turn" => kind[r] = "mock_answer"
  /\ at[r] \in {"checking", "storing"} => kind[r] = "verify"

(* Between the flush of its charge and its commit a request holds the lock *)
(* of the account, except a verification that committed on the way.        *)
Charging == {"recording", "loading", "interviewing", "turn", "checking"}

LockFits(r) ==
  /\ at[r] \in Charging => locked = r
  /\ at[r] = "storing" => locked = r \/ r \in billed
  /\ locked = r => at[r] \in Charging \union {"storing"} /\ r \notin billed
  /\ at[r] = "affordable" \/ locked = r => seen[r] \in Nat /\ seen[r] >= Price
  /\ seen[r] \in Nat => Covers(seen[r], billed)

(* What a committed charge stands for.                                     *)
Unpaid == {"idle", "starting", "gate", "affordable", "refused"} \union Charging

ChargeFits(r) ==
  /\ r \in prepared \union verified => r \in billed
  /\ r \in billed =>
       /\ at[r] \notin Unpaid
       /\ kind[r] \in {"expand", "upskill"} => record[r] # "none"
       /\ kind[r] = "interview" => r \in prepared \/ ~application
       /\ kind[r] = "verify" => r \in verified \/ ~application \/ at[r] \in {"storing", "lost"}

(* What the task of a request has written so far.                          *)
Early == {"idle", "starting", "gate", "affordable", "recording", "scheduled"}

TaskFits(r) ==
  /\ at[r] \in Early => expansion[r] = "none" /\ passes[r] = 0
  /\ at[r] \in {"scanned", "enriched"} => expansion[r] \in {"processing", "deleted"}
  /\ at[r] = "proposed" => expansion[r] \in {"completed", "deleted"}
  /\ at[r] = "ended" /\ kind[r] = "expand" => expansion[r] \in Final \union {"none", "deleted"}
  /\ at[r] = "learning" => passes[r] < Passes
  /\ at[r] = "learned" => record[r] \in Final \union {"deleted"}
  /\ at[r] = "ended" /\ kind[r] = "upskill" => record[r] \in Final \union {"deleted"}

Fits(r) == PlaceFits(r) /\ LockFits(r) /\ ChargeFits(r) /\ TaskFits(r)

AgentInv == Money /\ AgentTables /\ Standing /\ \A r \in AgentRequests : Fits(r)

-----------------------------------------------------------------------------
(* Charges                                                                 *)

Settles(r) == CommitCharge(r) \/ Rollback(r) \/ UNCHANGED money

LEMMA OneMoreCharge ==
  ASSUME Money, NEW r \in AgentRequests, r \notin billed
  PROVE  /\ Price * Cardinality(billed) \in Nat
         /\ Price * Cardinality(billed \union {r}) = Price * Cardinality(billed) + Price
<1>1. IsFiniteSet(billed)
  BY FS_Subset, AgentAssumption DEF Money
<1> DEFINE n == Cardinality(billed)
<1>2. n \in Nat /\ Cardinality(billed \union {r}) = n + 1
  BY <1>1, FS_AddElement, FS_CardinalityType
<1> HIDE DEF n
<1>3. Price \in Nat
  BY AgentAssumption
<1>4. Price * n \in Nat /\ Price * (n + 1) = Price * n + Price
  BY <1>2, <1>3
<1> QED
  BY <1>2, <1>4 DEF n

LEMMA Committed ==
  ASSUME AgentInv, NEW r \in AgentRequests, CommitCharge(r), locked = r
  PROVE  /\ Money' /\ seen' = seen /\ billed' = billed \union {r} /\ locked' = Nobody
         /\ \A d \in AgentRequests : seen[d] \in Nat => Covers(seen[d], billed')
<1>1. Money /\ LockFits(r)
  BY DEF AgentInv, Fits
<1>2. billed' = billed \union {r} /\ locked' = Nobody /\ seen' = seen /\ balance' = seen[r] - Price
  BY DEF CommitCharge
<1>3. r \notin billed /\ seen[r] \in Nat /\ seen[r] >= Price /\ Covers(seen[r], billed)
  BY <1>1 DEF LockFits
<1> DEFINE paid == Price * Cardinality(billed)
<1>4. paid \in Nat /\ Price * Cardinality(billed') = paid + Price
  BY <1>1, <1>2, <1>3, OneMoreCharge
<1>5. seen[r] \in 0 .. InitialBalance /\ Price \in Nat /\ InitialBalance \in Nat
  BY <1>1, <1>3, AgentAssumption DEF Money
<1>6. ASSUME NEW x \in Nat, Covers(x, billed) PROVE Covers(x, billed')
  <2>1. x + paid >= InitialBalance
    BY <1>6 DEF Covers
  <2> HIDE DEF paid
  <2>2. x + (paid + Price) >= InitialBalance
    BY <1>4, <1>5, <2>1
  <2> QED
    BY <1>4, <2>2 DEF Covers
<1>7. balance' \in 0 .. InitialBalance /\ Covers(balance', billed')
  <2>1. seen[r] + paid >= InitialBalance
    BY <1>3 DEF Covers
  <2> HIDE DEF paid
  <2>2. balance' + (paid + Price) >= InitialBalance
    BY <1>2, <1>4, <1>5, <2>1
  <2>3. balance' \in 0 .. InitialBalance
    BY <1>2, <1>3, <1>5
  <2> QED
    BY <1>4, <2>2, <2>3 DEF Covers
<1>8. ASSUME NEW d \in AgentRequests, seen[d] \in Nat PROVE Covers(seen[d], billed')
  <2>1. Covers(seen[d], billed)
    BY <1>8 DEF AgentInv, Fits, LockFits
  <2> QED
    BY <1>2, <1>6, <1>8, <2>1 DEF Covers
<1> QED
  BY <1>1, <1>2, <1>7, <1>8 DEF Money

(* However the session of a request ends, the account stays covered and    *)
(* the other requests' charges and lock are theirs.                        *)
LEMMA RequestSettled ==
  ASSUME AgentInv, NEW r \in AgentRequests, Settles(r)
  PROVE  /\ Money' /\ seen' = seen
         /\ \A d \in AgentRequests \ {r} : (d \in billed' <=> d \in billed) /\ (locked' = d <=> locked = d)
         /\ \A d \in AgentRequests : seen[d] \in Nat => Covers(seen[d], billed')
         /\ locked' # r \/ UNCHANGED money
         /\ r \in billed' \/ UNCHANGED billed
<1>1. Money /\ \A d \in AgentRequests : seen[d] \in Nat => Covers(seen[d], billed)
  BY DEF AgentInv, Fits, LockFits
<1>2. CASE CommitCharge(r) /\ locked = r
  BY <1>2, Committed, AgentAssumption
<1>3. CASE UNCHANGED money
  BY <1>1, <1>3 DEF money, Money, Covers
<1>4. CASE Rollback(r)
  BY <1>1, <1>4, AgentAssumption DEF Rollback, Money, Covers
<1> QED
  BY <1>2, <1>3, <1>4 DEF Settles, CommitCharge

-----------------------------------------------------------------------------
(* Steps of one request                                                    *)

OnlyRequest(r) ==
  /\ UNCHANGED world
  /\ \A d \in AgentRequests \ {r} :
       /\ at'[d] = at[d] /\ passes'[d] = passes[d] /\ seen'[d] = seen[d]
       /\ record'[d] = record[d] /\ expansion'[d] = expansion[d]
       /\ d \in prepared' <=> d \in prepared
       /\ d \in verified' <=> d \in verified
       /\ d \in billed' <=> d \in billed
       /\ locked' = d <=> locked = d

LEMMA OthersFit ==
  ASSUME AgentInv, NEW r \in AgentRequests, OnlyRequest(r),
         \A d \in AgentRequests : seen[d] \in Nat => Covers(seen[d], billed'),
         Money', AgentTables', Standing', Fits(r)'
  PROVE  AgentInv'
<1>1. ASSUME NEW d \in AgentRequests, d # r PROVE Fits(d)'
  <2>1. Fits(d)
    BY DEF AgentInv
  <2>2. /\ at'[d] = at[d] /\ passes'[d] = passes[d] /\ seen'[d] = seen[d] /\ kind' = kind
        /\ record'[d] = record[d] /\ expansion'[d] = expansion[d] /\ application' = application
    BY <1>1 DEF OnlyRequest, world
  <2>3. /\ d \in prepared' <=> d \in prepared
        /\ d \in verified' <=> d \in verified
        /\ d \in billed' <=> d \in billed
        /\ locked' = d <=> locked = d
    BY <1>1 DEF OnlyRequest
  <2>4. PlaceFits(d)' /\ TaskFits(d)'
    BY <2>1, <2>2 DEF Fits, PlaceFits, TaskFits
  <2>5. LockFits(d)'
    <3>1. LockFits(d) /\ (seen'[d] \in Nat => Covers(seen'[d], billed'))
      BY <2>1, <2>2 DEF Fits
    <3> QED
      BY <2>2, <2>3, <3>1 DEF LockFits, Covers
  <2>6. ChargeFits(d)'
    BY <2>1, <2>2, <2>3 DEF Fits, ChargeFits
  <2> QED
    BY <2>4, <2>5, <2>6 DEF Fits
<1> QED
  BY <1>1 DEF AgentInv

(* Most steps settle the charge or leave it, go to one place and touch     *)
(* only what is the request's own.                                         *)
LEMMA SettlingKeeps ==
  ASSUME AgentInv, NEW r \in AgentRequests, Settles(r), NEW place \in AgentPlaces, Move(r, place), UNCHANGED world,
         AgentTables', passes' \in [AgentRequests -> 0 .. Passes],
         \A d \in AgentRequests \ {r} :
           /\ passes'[d] = passes[d] /\ record'[d] = record[d] /\ expansion'[d] = expansion[d]
           /\ d \in prepared' <=> d \in prepared
           /\ d \in verified' <=> d \in verified,
         PlaceFits(r)', ChargeFits(r)', TaskFits(r)',
         place \in Charging => UNCHANGED money /\ locked = r,
         place = "storing" => locked' = r \/ r \in billed',
         place # "affordable",
         locked' = r => place \in Charging \union {"storing"}
  PROVE  AgentInv'
<1>1. AgentTables /\ Standing /\ Fits(r)
  BY DEF AgentInv
<1>2. /\ Money' /\ seen' = seen
      /\ \A d \in AgentRequests \ {r} : (d \in billed' <=> d \in billed) /\ (locked' = d <=> locked = d)
      /\ \A d \in AgentRequests : seen[d] \in Nat => Covers(seen[d], billed')
      /\ locked' # r \/ UNCHANGED money
  BY RequestSettled
<1>3. at' \in [AgentRequests -> AgentPlaces] /\ at'[r] = place /\ \A d \in AgentRequests \ {r} : at'[d] = at[d]
  BY <1>1 DEF Move, Standing
<1>4. Standing'
  BY <1>1, <1>3 DEF Standing, world
<1>5. OnlyRequest(r)
  BY <1>2, <1>3 DEF OnlyRequest
<1>6. LockFits(r)'
  <2>1. seen'[r] = seen[r] /\ (seen'[r] \in Nat => Covers(seen'[r], billed'))
    BY <1>2
  <2>2. locked' = r => UNCHANGED money /\ LockFits(r)
    BY <1>1, <1>2 DEF Fits
  <2> QED
    BY <1>3, <2>1, <2>2 DEF LockFits, money, Charging
<1> QED
  BY <1>2, <1>4, <1>5, <1>6, OthersFit DEF Fits

LEMMA WrittenTaskRow ==
  ASSUME NEW table \in [AgentRequests -> Statuses], NEW r \in AgentRequests, NEW status \in Statuses
  PROVE  /\ Written(table, r, status) \in [AgentRequests -> Statuses]
         /\ Written(table, r, status)[r] = IF table[r] = "deleted" THEN "deleted" ELSE status
         /\ \A d \in AgentRequests \ {r} : Written(table, r, status)[d] = table[d]
BY DEF Written

LEMMA ArriveKeeps ==
  ASSUME AgentInv, NEW r \in AgentRequests, Arrive(r)
  PROVE  AgentInv'
<1>1. AgentTables /\ Standing /\ Fits(r) /\ at[r] = "idle" /\ kind[r] \in Kinds
  BY DEF AgentInv, Arrive, At, Standing
<1>2. UNCHANGED <<money, rows, passes, world>>
  BY DEF Arrive
<1>3. PICK place \in {"starting", "gate", "refused"} :
        Move(r, place) /\ (place = "gate" => kind[r] # "mock_start")
  BY <1>1 DEF Arrive, Kinds
<1>4. place \in AgentPlaces /\ at'[r] = place
  BY <1>1, <1>3 DEF AgentPlaces, Over, Move, Standing
<1>5. AgentTables' /\ passes' \in [AgentRequests -> 0 .. Passes]
  BY <1>1, <1>2 DEF AgentTables, Standing, rows, world
<1>6. r \notin billed
  BY <1>1 DEF Fits, ChargeFits, Unpaid
<1>7. PlaceFits(r)' /\ ChargeFits(r)' /\ TaskFits(r)'
  BY <1>1, <1>2, <1>3, <1>4, <1>6
     DEF Fits, PlaceFits, ChargeFits, TaskFits, Unpaid, Early, rows, world, money
<1>8. locked # r
  BY <1>1 DEF Fits, LockFits, Charging
<1> QED
  BY <1>2, <1>3, <1>4, <1>5, <1>7, <1>8, SettlingKeeps DEF Settles, rows, money, Charging

LEMMA ReadBalanceKeeps ==
  ASSUME AgentInv, NEW r \in AgentRequests, ReadBalance(r)
  PROVE  AgentInv'
<1>1. Money /\ AgentTables /\ Standing /\ Fits(r) /\ at[r] = "gate" /\ balance \in Nat
  BY DEF AgentInv, ReadBalance, At, Money
<1>2. /\ UNCHANGED <<balance, billed, locked, rows, passes, world>>
      /\ seen' = [seen EXCEPT ![r] = balance]
  BY DEF ReadBalance
<1>3. PICK place \in {"affordable", "refused"} : Move(r, place) /\ (place = "affordable" => balance >= Price)
  BY DEF ReadBalance
<1>4. /\ at' \in [AgentRequests -> AgentPlaces] /\ at'[r] = place
      /\ \A d \in AgentRequests \ {r} : at'[d] = at[d]
  BY <1>1, <1>3 DEF AgentPlaces, Over, Move, Standing
<1>5. Money' /\ seen'[r] = balance /\ \A d \in AgentRequests \ {r} : seen'[d] = seen[d]
  BY <1>1, <1>2 DEF Money, Covers
<1>6. AgentTables' /\ Standing'
  BY <1>1, <1>2, <1>4 DEF AgentTables, Standing, rows, world
<1>7. OnlyRequest(r)
  BY <1>1, <1>2, <1>4, <1>5 DEF OnlyRequest, rows
<1>8. r \notin billed /\ locked # r
  BY <1>1 DEF Fits, ChargeFits, LockFits, Unpaid, Charging
<1>9. PlaceFits(r)' /\ ChargeFits(r)' /\ TaskFits(r)'
  BY <1>1, <1>2, <1>3, <1>4, <1>8
     DEF Fits, PlaceFits, ChargeFits, TaskFits, Unpaid, Early, rows, world
<1>10. LockFits(r)'
  BY <1>1, <1>2, <1>3, <1>4, <1>5, <1>8 DEF LockFits, Charging, Money
<1>11. \A d \in AgentRequests : seen[d] \in Nat => Covers(seen[d], billed')
  BY <1>2 DEF AgentInv, Fits, LockFits
<1> QED
  BY <1>5, <1>6, <1>7, <1>9, <1>10, <1>11, OthersFit DEF Fits

LEMMA ConsumeCreditsKeeps ==
  ASSUME AgentInv, NEW r \in AgentRequests, ConsumeCredits(r)
  PROVE  AgentInv'
<1>1. Money /\ AgentTables /\ Standing /\ Fits(r) /\ at[r] = "affordable" /\ kind[r] \in Kinds /\ locked = Nobody
  BY DEF AgentInv, ConsumeCredits, At, Standing
<1>2. UNCHANGED <<balance, billed, seen, rows, passes, world>> /\ locked' = r
  BY DEF ConsumeCredits
<1>3. Working(r) \in Charging /\ Move(r, Working(r)) /\ kind[r] # "mock_start"
  BY <1>1 DEF Working, Charging, ConsumeCredits, Fits, PlaceFits
<1>4. /\ at' \in [AgentRequests -> AgentPlaces] /\ at'[r] = Working(r)
      /\ \A d \in AgentRequests \ {r} : at'[d] = at[d]
  BY <1>1, <1>3 DEF AgentPlaces, Charging, Move, Standing
<1>5. Money'
  BY <1>1, <1>2 DEF Money, Covers
<1>6. AgentTables' /\ Standing'
  BY <1>1, <1>2, <1>4 DEF AgentTables, Standing, rows, world
<1>7. OnlyRequest(r)
  BY <1>1, <1>2, <1>4, AgentAssumption DEF OnlyRequest, rows
<1>8. r \notin billed
  BY <1>1 DEF Fits, ChargeFits, Unpaid
<1>9. PlaceFits(r)'
  BY <1>1, <1>2, <1>3, <1>4 DEF PlaceFits, Working, Kinds, world
<1>10. ChargeFits(r)'
  BY <1>1, <1>2, <1>8 DEF Fits, ChargeFits, rows
<1>11. TaskFits(r)'
  BY <1>1, <1>2, <1>3, <1>4 DEF Fits, TaskFits, Early, Charging, rows, world
<1>12. LockFits(r)'
  BY <1>1, <1>2, <1>3, <1>4, <1>8 DEF Fits, LockFits, Charging
<1>13. \A d \in AgentRequests : seen[d] \in Nat => Covers(seen[d], billed')
  BY <1>2 DEF AgentInv, Fits, LockFits
<1> QED
  BY <1>5, <1>6, <1>7, <1>9, <1>10, <1>11, <1>12, <1>13, OthersFit DEF Fits

LEMMA CommitRecordKeeps ==
  ASSUME AgentInv, NEW r \in AgentRequests, CommitRecord(r)
  PROVE  AgentInv'
<1>1. AgentTables /\ Standing /\ Fits(r) /\ at[r] = "recording" /\ kind[r] \in {"expand", "upskill"}
  BY DEF AgentInv, CommitRecord, At, Fits, PlaceFits
<1>2. locked = r /\ r \notin billed /\ r \notin prepared \union verified
  BY <1>1 DEF Fits, LockFits, ChargeFits, Charging
<1>3. UNCHANGED <<expansion, prepared, verified, transcript, passes, world>>
  BY DEF CommitRecord
<1>4. CASE profile
  <2>1. CommitCharge(r) /\ record' = [record EXCEPT ![r] = "pending"] /\ Move(r, "scheduled")
    BY <1>4 DEF CommitRecord
  <2>2. "scheduled" \in AgentPlaces /\ at'[r] = "scheduled"
    BY <1>1, <2>1 DEF AgentPlaces, Background, Move, Standing
  <2>3. /\ record' \in [AgentRequests -> Statuses] /\ record'[r] = "pending"
        /\ \A d \in AgentRequests \ {r} : record'[d] = record[d]
    BY <1>1, <2>1 DEF AgentTables, Statuses
  <2>4. AgentTables' /\ passes' \in [AgentRequests -> 0 .. Passes]
    BY <1>1, <1>3, <2>3 DEF AgentTables, Standing, world
  <2>5. billed' = billed \union {r} /\ locked' = Nobody
    BY <1>2, <2>1 DEF CommitCharge
  <2>6. PlaceFits(r)' /\ ChargeFits(r)' /\ TaskFits(r)'
    BY <1>1, <1>2, <1>3, <2>2, <2>3, <2>5
       DEF Fits, PlaceFits, ChargeFits, TaskFits, Unpaid, Charging, Early, world
  <2> QED
    BY <1>3, <2>1, <2>2, <2>3, <2>4, <2>5, <2>6, SettlingKeeps, AgentAssumption DEF Settles, Charging
<1>5. CASE ~profile
  <2>1. Rollback(r) /\ UNCHANGED record /\ Move(r, "broken")
    BY <1>5 DEF CommitRecord
  <2>2. "broken" \in AgentPlaces /\ at'[r] = "broken"
    BY <1>1, <2>1 DEF AgentPlaces, Over, Move, Standing
  <2>3. AgentTables' /\ passes' \in [AgentRequests -> 0 .. Passes]
    BY <1>1, <1>3, <2>1 DEF AgentTables, Standing, world
  <2>4. billed' = billed /\ locked' = Nobody
    BY <1>2, <2>1 DEF Rollback
  <2>5. PlaceFits(r)' /\ ChargeFits(r)' /\ TaskFits(r)'
    BY <1>1, <1>2, <1>3, <2>2, <2>4 DEF PlaceFits, ChargeFits, TaskFits, Early
  <2> QED
    BY <1>3, <2>1, <2>2, <2>3, <2>4, <2>5, SettlingKeeps, AgentAssumption DEF Settles, Charging
<1> QED
  BY <1>4, <1>5

(* Steps of a background task: the money is left alone and the rows of the *)
(* request's own are written.                                              *)
LEMMA TaskStepKeeps ==
  ASSUME AgentInv, NEW r \in AgentRequests, at[r] \in Background, NEW place \in Background \union {"ended"},
         Move(r, place), UNCHANGED <<money, prepared, verified, transcript, world>>,
         passes' \in [AgentRequests -> 0 .. Passes], \A d \in AgentRequests \ {r} : passes'[d] = passes[d],
         record' \in [AgentRequests -> Statuses], expansion' \in [AgentRequests -> Statuses],
         \A d \in AgentRequests \ {r} : record'[d] = record[d] /\ expansion'[d] = expansion[d],
         record[r] # "none" => record'[r] # "none",
         PlaceFits(r)', TaskFits(r)'
  PROVE  AgentInv'
<1>1. AgentTables /\ Standing /\ Fits(r)
  BY DEF AgentInv
<1>2. place \in AgentPlaces /\ at'[r] = place
  BY <1>1 DEF AgentPlaces, Background, Over, Move, Standing
<1>3. AgentTables'
  BY <1>1 DEF AgentTables, world
<1>4. ChargeFits(r)'
  BY <1>1, <1>2 DEF Fits, ChargeFits, Unpaid, Charging, Background, money, world
<1>5. locked # r
  BY <1>1 DEF Fits, LockFits, Charging, Background
<1> QED
  BY <1>2, <1>3, <1>4, <1>5, SettlingKeeps DEF Settles, Charging, Background, money

LEMMA SetExpansionRow ==
  ASSUME AgentTables, NEW r \in AgentRequests, NEW status \in Statuses, SetExpansion(r, status)
  PROVE  /\ record' \in [AgentRequests -> Statuses] /\ expansion' \in [AgentRequests -> Statuses]
         /\ \A d \in AgentRequests \ {r} : record'[d] = record[d] /\ expansion'[d] = expansion[d]
         /\ record' = record
         /\ expansion'[r] = IF expansion[r] = "deleted" THEN "deleted" ELSE status
<1> DEFINE row == Written(expansion, r, status)
<1>1. expansion' = row /\ record' = record
  BY DEF SetExpansion
<1>2. /\ row \in [AgentRequests -> Statuses]
      /\ row[r] = IF expansion[r] = "deleted" THEN "deleted" ELSE status
      /\ \A d \in AgentRequests \ {r} : row[d] = expansion[d]
  <2>1. expansion \in [AgentRequests -> Statuses]
    BY DEF AgentTables
  <2> QED
    BY <2>1, WrittenTaskRow
<1> HIDE DEF row
<1> QED
  BY <1>1, <1>2 DEF AgentTables

LEMMA SetPolledRow ==
  ASSUME AgentTables, NEW r \in AgentRequests, NEW status \in Statuses, SetPolled(r, status)
  PROVE  /\ record' \in [AgentRequests -> Statuses] /\ expansion' \in [AgentRequests -> Statuses]
         /\ \A d \in AgentRequests \ {r} : record'[d] = record[d] /\ expansion'[d] = expansion[d]
         /\ expansion' = expansion
         /\ record'[r] = IF record[r] = "deleted" THEN "deleted" ELSE status
<1> DEFINE row == Written(record, r, status)
<1>1. record' = row /\ expansion' = expansion
  BY DEF SetPolled
<1>2. /\ row \in [AgentRequests -> Statuses]
      /\ row[r] = IF record[r] = "deleted" THEN "deleted" ELSE status
      /\ \A d \in AgentRequests \ {r} : row[d] = record[d]
  <2>1. record \in [AgentRequests -> Statuses]
    BY DEF AgentTables
  <2> QED
    BY <2>1, WrittenTaskRow
<1> HIDE DEF row
<1> QED
  BY <1>1, <1>2 DEF AgentTables

LEMMA ExpandKeeps ==
  ASSUME AgentInv, NEW r \in AgentRequests,
         \/ ExpandStart(r) \/ ExpandItems(r) \/ ExpandProposes(r) \/ ExpandFails(r) \/ ExpandRecordsUsage(r)
  PROVE  AgentInv'
<1> DEFINE Goes(place) == Move(r, place) /\ place \in Background \union {"ended"} /\ at'[r] = place
<1>1. AgentTables /\ Standing /\ Fits(r)
  BY DEF AgentInv
<1>2. /\ UNCHANGED <<money, prepared, verified, transcript, passes, world>>
      /\ passes' \in [AgentRequests -> 0 .. Passes]
  BY <1>1 DEF ExpandStart, ExpandItems, ExpandProposes, ExpandFails, ExpandRecordsUsage, ExpandStep, Standing
<1>3. at[r] \in Background /\ kind[r] = "expand"
  BY <1>1 DEF ExpandStart, ExpandItems, ExpandProposes, ExpandFails, ExpandRecordsUsage, At, Background,
              Fits, PlaceFits
<1>4. {"processing", "completed", "failed"} \subseteq Statuses
  BY DEF Statuses, Final
<1>5. CASE ExpandStart(r)
  <2>1. at[r] = "scheduled"
    BY <1>5 DEF ExpandStart, At
  <2>2. CASE record[r] = "deleted"
    <3>1. Goes("ended") /\ UNCHANGED <<record, expansion>>
      BY <1>1, <1>5, <2>2 DEF ExpandStart, Move, Standing
    <3>2. PlaceFits(r)' /\ TaskFits(r)'
      BY <1>1, <1>2, <1>3, <2>1, <3>1 DEF Fits, PlaceFits, TaskFits, Early, world
    <3> QED
      BY <1>1, <1>2, <1>3, <3>1, <3>2, TaskStepKeeps DEF AgentTables
  <2>3. CASE record[r] # "deleted"
    <3>1. Goes("scanned") /\ SetExpansion(r, "processing")
      BY <1>1, <1>5, <2>3 DEF ExpandStart, Move, Standing, Background
    <3>2. PlaceFits(r)' /\ TaskFits(r)'
      BY <1>1, <1>2, <1>3, <1>4, <3>1, SetExpansionRow DEF PlaceFits, TaskFits, Early, world
    <3> QED
      BY <1>1, <1>2, <1>3, <1>4, <3>1, <3>2, SetExpansionRow, TaskStepKeeps
  <2> QED
    BY <2>2, <2>3
<1>6. CASE ExpandItems(r)
  <2>1. CASE Move(r, "enriched") /\ UNCHANGED <<record, expansion>>
    <3>1. Goes("enriched") /\ at[r] = "scanned"
      BY <1>1, <1>6, <2>1 DEF ExpandItems, At, Move, Standing, Background
    <3>2. PlaceFits(r)' /\ TaskFits(r)'
      BY <1>1, <1>2, <1>3, <2>1, <3>1 DEF Fits, PlaceFits, TaskFits, Early, world
    <3> QED
      BY <1>1, <1>2, <1>3, <2>1, <3>1, <3>2, TaskStepKeeps DEF AgentTables
  <2>2. CASE SetExpansion(r, "completed") /\ Move(r, "ended")
    <3>1. Goes("ended") /\ SetExpansion(r, "completed")
      BY <1>1, <2>2 DEF Move, Standing
    <3>2. PlaceFits(r)' /\ TaskFits(r)'
      BY <1>1, <1>2, <1>3, <1>4, <3>1, SetExpansionRow DEF PlaceFits, TaskFits, Early, Final, world
    <3> QED
      BY <1>1, <1>2, <1>3, <1>4, <3>1, <3>2, SetExpansionRow, TaskStepKeeps
  <2> QED
    BY <1>6, <2>1, <2>2 DEF ExpandItems
<1>7. CASE ExpandProposes(r)
  <2>1. Goes("proposed") /\ SetExpansion(r, "completed")
    BY <1>1, <1>7 DEF ExpandProposes, Move, Standing, Background
  <2>2. PlaceFits(r)' /\ TaskFits(r)'
    BY <1>1, <1>2, <1>3, <1>4, <2>1, SetExpansionRow DEF PlaceFits, TaskFits, Early, world
  <2> QED
    BY <1>1, <1>2, <1>3, <1>4, <2>1, <2>2, SetExpansionRow, TaskStepKeeps
<1>8. CASE ExpandFails(r)
  <2>1. Goes("ended") /\ SetExpansion(r, "failed")
    BY <1>1, <1>8 DEF ExpandFails, Move, Standing
  <2>2. PlaceFits(r)' /\ TaskFits(r)'
    BY <1>1, <1>2, <1>3, <1>4, <2>1, SetExpansionRow DEF PlaceFits, TaskFits, Early, Final, world
  <2> QED
    BY <1>1, <1>2, <1>3, <1>4, <2>1, <2>2, SetExpansionRow, TaskStepKeeps
<1>9. CASE ExpandRecordsUsage(r)
  <2>1. Goes("ended") /\ UNCHANGED <<record, expansion>> /\ at[r] = "proposed"
    BY <1>1, <1>9 DEF ExpandRecordsUsage, At, Move, Standing
  <2>2. PlaceFits(r)' /\ TaskFits(r)'
    BY <1>1, <1>2, <1>3, <2>1 DEF Fits, PlaceFits, TaskFits, Early, Final, world
  <2> QED
    BY <1>1, <1>2, <1>3, <2>1, <2>2, TaskStepKeeps DEF AgentTables
<1> QED
  BY <1>5, <1>6, <1>7, <1>8, <1>9

LEMMA UpskillStartKeeps ==
  ASSUME AgentInv, NEW r \in AgentRequests, UpskillStart(r)
  PROVE  AgentInv'
<1>1. AgentTables /\ Standing /\ Fits(r) /\ at[r] = "scheduled" /\ at[r] \in Background /\ kind[r] = "upskill"
  BY DEF AgentInv, UpskillStart, At, Background
<1>2. /\ UNCHANGED <<money, prepared, verified, transcript, passes, world>>
      /\ passes' \in [AgentRequests -> 0 .. Passes]
  BY <1>1 DEF UpskillStart, ExpandStep, Standing
<1>3. CASE Move(r, "learning") /\ UNCHANGED <<record, expansion>>
  <2>1. at'[r] = "learning" /\ "learning" \in Background \union {"ended"} /\ 0 < Passes
    BY <1>1, <1>3, AgentAssumption DEF Move, Standing, Background
  <2>2. PlaceFits(r)' /\ TaskFits(r)'
    BY <1>1, <1>2, <1>3, <2>1 DEF Fits, PlaceFits, TaskFits, Early, world
  <2> QED
    BY <1>1, <1>2, <1>3, <2>1, <2>2, TaskStepKeeps DEF AgentTables
<1>4. CASE SetPolled(r, "failed") /\ Move(r, "ended")
  <2>1. at'[r] = "ended" /\ "failed" \in Statuses /\ "failed" \in Final
    BY <1>1, <1>4 DEF Move, Standing, Statuses, Final
  <2>2. PlaceFits(r)' /\ TaskFits(r)'
    BY <1>1, <1>2, <1>4, <2>1, SetPolledRow DEF PlaceFits, TaskFits, Early, world
  <2> QED
    BY <1>1, <1>2, <1>4, <2>1, <2>2, SetPolledRow, TaskStepKeeps
<1> QED
  BY <1>3, <1>4 DEF UpskillStart

LEMMA UpskillPassKeeps ==
  ASSUME AgentInv, NEW r \in AgentRequests, UpskillPass(r)
  PROVE  AgentInv'
<1>1. /\ AgentTables /\ Standing /\ Fits(r) /\ at[r] = "learning" /\ at[r] \in Background
      /\ kind[r] = "upskill" /\ passes[r] < Passes
  BY DEF AgentInv, UpskillPass, At, Background, Fits, PlaceFits, TaskFits
<1>2. UNCHANGED <<money, prepared, verified, transcript, world>>
  BY DEF UpskillPass
<1>3. /\ passes' \in [AgentRequests -> 0 .. Passes] /\ passes'[r] = passes[r] + 1
      /\ \A d \in AgentRequests \ {r} : passes'[d] = passes[d]
  BY <1>1, AgentAssumption DEF UpskillPass, Standing
<1>4. CASE passes'[r] = Passes
  <2>1. SetPolled(r, "completed") /\ Move(r, "learned") /\ at'[r] = "learned"
        /\ "learned" \in Background \union {"ended"} /\ "completed" \in Statuses /\ "completed" \in Final
    BY <1>1, <1>4 DEF UpskillPass, Move, Standing, Statuses, Final, Background
  <2>2. PlaceFits(r)' /\ TaskFits(r)'
    BY <1>1, <1>2, <2>1, SetPolledRow DEF PlaceFits, TaskFits, Early, world
  <2> QED
    BY <1>1, <1>2, <1>3, <2>1, <2>2, SetPolledRow, TaskStepKeeps
<1>5. CASE passes'[r] # Passes
  <2>1. UNCHANGED <<record, expansion, at>> /\ Move(r, "learning") /\ "learning" \in Background \union {"ended"}
    BY <1>1, <1>5 DEF UpskillPass, Move, Standing, Background
  <2>2. passes'[r] < Passes
    BY <1>1, <1>3, <1>5, AgentAssumption DEF Standing
  <2>3. PlaceFits(r)' /\ TaskFits(r)'
    BY <1>1, <1>2, <2>1, <2>2 DEF Fits, PlaceFits, TaskFits, Early, world
  <2> QED
    BY <1>1, <1>2, <1>3, <2>1, <2>3, TaskStepKeeps DEF AgentTables
<1> QED
  BY <1>4, <1>5

LEMMA UpskillEndKeeps ==
  ASSUME AgentInv, NEW r \in AgentRequests, UpskillFails(r) \/ UpskillRecordsUsage(r)
  PROVE  AgentInv'
<1>1. AgentTables /\ Standing /\ Fits(r) /\ at[r] \in {"learning", "learned"} /\ at[r] \in Background /\ kind[r] = "upskill"
  BY DEF AgentInv, UpskillFails, UpskillRecordsUsage, At, Background, Fits, PlaceFits
<1>2. /\ UNCHANGED <<money, prepared, verified, transcript, passes, world>>
      /\ passes' \in [AgentRequests -> 0 .. Passes]
  BY <1>1 DEF UpskillFails, UpskillRecordsUsage, rows, Standing
<1>3. CASE UpskillFails(r)
  <2>1. SetPolled(r, "failed") /\ Move(r, "learned") /\ at'[r] = "learned"
        /\ "learned" \in Background \union {"ended"} /\ "failed" \in Statuses /\ "failed" \in Final
    BY <1>1, <1>3 DEF UpskillFails, Move, Standing, Statuses, Final, Background
  <2>2. PlaceFits(r)' /\ TaskFits(r)'
    BY <1>1, <1>2, <2>1, SetPolledRow DEF PlaceFits, TaskFits, Early, world
  <2> QED
    BY <1>1, <1>2, <2>1, <2>2, SetPolledRow, TaskStepKeeps
<1>4. CASE UpskillRecordsUsage(r)
  <2>1. Move(r, "ended") /\ at'[r] = "ended" /\ at[r] = "learned" /\ UNCHANGED <<record, expansion>>
    BY <1>1, <1>4 DEF UpskillRecordsUsage, At, Move, Standing, rows
  <2>2. PlaceFits(r)' /\ TaskFits(r)'
    BY <1>1, <1>2, <2>1 DEF Fits, PlaceFits, TaskFits, Early, world
  <2> QED
    BY <1>1, <1>2, <2>1, <2>2, TaskStepKeeps DEF AgentTables
<1> QED
  BY <1>3, <1>4

(* A request that holds a charge and leaves it alone for one more step.    *)
LEMMA InterviewKeeps ==
  ASSUME AgentInv, NEW r \in AgentRequests,
         InterviewLoads(r) \/ InterviewCall(r) \/ InterviewFails(r) \/ InterviewStores(r) \/ InterviewRecordsUsage(r)
  PROVE  AgentInv'
<1> DEFINE Goes(place) == Move(r, place) /\ place \in AgentPlaces /\ at'[r] = place
<1>1. AgentTables /\ Standing /\ Fits(r) /\ \A d \in AgentRequests : passes[d] \in 0 .. Passes
  BY DEF AgentInv, Standing
<1>2. UNCHANGED <<record, expansion, verified, transcript, world>>
  BY DEF InterviewLoads, InterviewCall, InterviewFails, InterviewStores, InterviewRecordsUsage, rows
<1>3. at[r] \in {"loading", "interviewing"} => locked = r /\ r \notin billed /\ r \notin prepared \union verified
  BY <1>1 DEF Fits, LockFits, ChargeFits, Charging
<1>4. kind[r] = "interview"
  BY <1>1 DEF InterviewLoads, InterviewCall, InterviewFails, InterviewStores, InterviewRecordsUsage, At,
              Fits, PlaceFits
<1>5. CASE InterviewLoads(r)
  <2>1. UNCHANGED <<prepared, passes>> /\ at[r] = "loading" /\ AgentTables' /\ passes' \in [AgentRequests -> 0 .. Passes]
    BY <1>1, <1>2, <1>5 DEF InterviewLoads, At, rows, AgentTables, Standing, world
  <2>2. CASE application /\ profile
    <3>1. Goes("interviewing") /\ UNCHANGED money
      BY <1>1, <1>5, <2>2 DEF InterviewLoads, Move, AgentPlaces, Standing
    <3>2. PlaceFits(r)' /\ ChargeFits(r)' /\ TaskFits(r)'
      BY <1>2, <1>3, <1>4, <2>1, <3>1 DEF PlaceFits, ChargeFits, TaskFits, Early, money, world
    <3> QED
      BY <1>2, <1>3, <2>1, <3>1, <3>2, SettlingKeeps DEF Settles, Charging
  <2>3. CASE ~(application /\ profile)
    <3>1. Goes("refused") /\ Rollback(r)
      BY <1>1, <1>5, <2>3 DEF InterviewLoads, Move, AgentPlaces, Over, Standing
    <3>2. billed' = billed /\ locked' = Nobody
      BY <1>3, <2>1, <3>1 DEF Rollback
    <3>3. PlaceFits(r)' /\ ChargeFits(r)' /\ TaskFits(r)'
      BY <1>2, <1>3, <1>4, <2>1, <3>1, <3>2 DEF PlaceFits, ChargeFits, TaskFits, Early, world
    <3> QED
      BY <1>2, <2>1, <3>1, <3>2, <3>3, SettlingKeeps, AgentAssumption DEF Settles, Charging
  <2> QED
    BY <2>2, <2>3
<1>6. CASE InterviewCall(r)
  <2>1. UNCHANGED <<prepared, money, at>> /\ at[r] = "interviewing" /\ AgentTables'
    BY <1>1, <1>2, <1>6 DEF InterviewCall, At, rows, AgentTables, world
  <2>2. passes' \in [AgentRequests -> 0 .. Passes] /\ \A d \in AgentRequests \ {r} : passes'[d] = passes[d]
    BY <1>1, <1>6, AgentAssumption DEF InterviewCall, Standing
  <2>3. Goes("interviewing")
    BY <1>1, <2>1 DEF Move, AgentPlaces, Standing
  <2>4. PlaceFits(r)' /\ ChargeFits(r)' /\ TaskFits(r)'
    BY <1>2, <1>3, <1>4, <2>1 DEF PlaceFits, ChargeFits, TaskFits, Early, money, world
  <2> QED
    BY <1>2, <1>3, <2>1, <2>2, <2>3, <2>4, SettlingKeeps DEF Settles, Charging
<1>7. CASE InterviewFails(r)
  <2>1. UNCHANGED <<prepared, passes>> /\ at[r] = "interviewing" /\ AgentTables' /\ passes' \in [AgentRequests -> 0 .. Passes]
    BY <1>1, <1>2, <1>7 DEF InterviewFails, At, rows, AgentTables, Standing, world
  <2>2. Goes("broken") /\ Rollback(r)
    BY <1>1, <1>7 DEF InterviewFails, Move, AgentPlaces, Over, Standing
  <2>3. billed' = billed /\ locked' = Nobody
    BY <1>3, <2>1, <2>2 DEF Rollback
  <2>4. PlaceFits(r)' /\ ChargeFits(r)' /\ TaskFits(r)'
    BY <1>2, <1>3, <1>4, <2>1, <2>2, <2>3 DEF PlaceFits, ChargeFits, TaskFits, Early, world
  <2> QED
    BY <1>2, <2>1, <2>2, <2>3, <2>4, SettlingKeeps, AgentAssumption DEF Settles, Charging
<1>8. CASE InterviewStores(r)
  <2>1. UNCHANGED passes /\ at[r] = "interviewing" /\ passes' \in [AgentRequests -> 0 .. Passes]
    BY <1>1, <1>8 DEF InterviewStores, At, Standing
  <2>2. CASE application
    <3>1. Goes("accounting") /\ CommitCharge(r) /\ prepared' = prepared \union {r}
      BY <1>1, <1>8, <2>2 DEF InterviewStores, Move, AgentPlaces, Standing
    <3>2. billed' = billed \union {r} /\ locked' = Nobody
      BY <1>3, <2>1, <3>1 DEF CommitCharge
    <3>3. AgentTables'
      BY <1>1, <1>2, <3>1 DEF AgentTables, world
    <3>4. PlaceFits(r)' /\ ChargeFits(r)' /\ TaskFits(r)'
      BY <1>2, <1>3, <1>4, <2>1, <3>1, <3>2 DEF PlaceFits, ChargeFits, TaskFits, Early, Unpaid, Charging, world
    <3> QED
      BY <1>2, <2>1, <3>1, <3>2, <3>3, <3>4, SettlingKeeps, AgentAssumption DEF Settles, Charging
  <2>3. CASE ~application
    <3>1. Goes("broken") /\ Rollback(r) /\ UNCHANGED prepared
      BY <1>1, <1>8, <2>3 DEF InterviewStores, Move, AgentPlaces, Over, Standing
    <3>2. billed' = billed /\ locked' = Nobody
      BY <1>3, <2>1, <3>1 DEF Rollback
    <3>3. AgentTables'
      BY <1>1, <1>2, <3>1 DEF AgentTables, world
    <3>4. PlaceFits(r)' /\ ChargeFits(r)' /\ TaskFits(r)'
      BY <1>2, <1>3, <1>4, <2>1, <3>1, <3>2 DEF PlaceFits, ChargeFits, TaskFits, Early, world
    <3> QED
      BY <1>2, <2>1, <3>1, <3>2, <3>3, <3>4, SettlingKeeps, AgentAssumption DEF Settles, Charging
  <2> QED
    BY <2>2, <2>3
<1>9. CASE InterviewRecordsUsage(r)
  <2>1. UNCHANGED <<prepared, passes, money>> /\ at[r] = "accounting" /\ AgentTables'
        /\ passes' \in [AgentRequests -> 0 .. Passes]
    BY <1>1, <1>2, <1>9 DEF InterviewRecordsUsage, At, rows, AgentTables, Standing, world
  <2>2. PICK place \in {"answered", "broken"} : Goes(place)
    BY <1>1, <1>9 DEF InterviewRecordsUsage, Move, AgentPlaces, Over, Standing
  <2>3. locked # r
    BY <1>1, <2>1 DEF Fits, LockFits, Charging
  <2>4. PlaceFits(r)' /\ ChargeFits(r)' /\ TaskFits(r)'
    BY <1>1, <1>2, <1>4, <2>1, <2>2 DEF Fits, PlaceFits, ChargeFits, TaskFits, Early, Unpaid, Charging, money, world
  <2> QED
    BY <1>2, <2>1, <2>2, <2>3, <2>4, SettlingKeeps DEF Settles, Charging, money
<1> QED
  BY <1>5, <1>6, <1>7, <1>8, <1>9

LEMMA MockKeeps ==
  ASSUME AgentInv, NEW r \in AgentRequests, MockStart(r) \/ MockAnswer(r)
  PROVE  AgentInv'
<1>1. AgentTables /\ Standing /\ Fits(r)
  BY DEF AgentInv
<1>2. /\ UNCHANGED <<record, expansion, prepared, verified, passes, world>> /\ Move(r, "answered")
      /\ passes' \in [AgentRequests -> 0 .. Passes]
  BY <1>1 DEF MockStart, MockAnswer, rows, Standing
<1>3. "answered" \in AgentPlaces /\ at'[r] = "answered"
  BY <1>1, <1>2 DEF AgentPlaces, Over, Move, Standing
<1>4. r \notin prepared \union verified
  BY <1>1 DEF Fits, ChargeFits, Unpaid, Charging, MockStart, MockAnswer, At
<1>5. PlaceFits(r)' /\ TaskFits(r)'
  BY <1>2, <1>3 DEF PlaceFits, TaskFits, Early
<1>6. CASE MockStart(r)
  <2>1. UNCHANGED <<money, transcript>> /\ at[r] = "starting"
    BY <1>6 DEF MockStart, At, rows
  <2>2. locked # r /\ r \notin billed
    BY <1>1, <2>1 DEF Fits, LockFits, ChargeFits, Charging, Unpaid
  <2>3. AgentTables' /\ ChargeFits(r)'
    BY <1>1, <1>2, <1>4, <2>1, <2>2 DEF AgentTables, ChargeFits, money, world
  <2> QED
    BY <1>2, <1>3, <1>5, <2>1, <2>2, <2>3, SettlingKeeps DEF Settles, Charging, money
<1>7. CASE MockAnswer(r)
  <2>1. CommitCharge(r) /\ at[r] = "turn" /\ kind[r] = "mock_answer"
    BY <1>1, <1>7 DEF MockAnswer, At, Fits, PlaceFits
  <2>2. locked = r
    BY <1>1, <2>1 DEF Fits, LockFits, Charging
  <2>3. billed' = billed \union {r} /\ locked' = Nobody
    BY <2>1, <2>2 DEF CommitCharge
  <2>4. transcript' \in Seq({"interviewer", "candidate"})
    <3>1. transcript \in Seq({"interviewer", "candidate"})
      BY <1>1 DEF AgentTables
    <3>2. ASSUME NEW turn \in Turns PROVE AfterAnswer(turn) \in Seq({"interviewer", "candidate"})
      <4>1. /\ <<"candidate", "interviewer">> \in Seq({"interviewer", "candidate"})
            /\ <<"candidate">> \in Seq({"interviewer", "candidate"})
        OBVIOUS
      <4>2. CASE turn.asks
        BY <3>1, <4>1, <4>2 DEF AfterAnswer
      <4>3. CASE ~turn.asks
        BY <3>1, <4>1, <4>3 DEF AfterAnswer
      <4> QED
        BY <4>2, <4>3
    <3> QED
      BY <1>7, <3>1, <3>2 DEF MockAnswer
  <2>5. AgentTables' /\ ChargeFits(r)'
    BY <1>1, <1>2, <1>3, <1>4, <2>1, <2>3, <2>4 DEF AgentTables, ChargeFits, Unpaid, Charging, world
  <2> QED
    BY <1>2, <1>3, <1>5, <2>1, <2>3, <2>5, SettlingKeeps, AgentAssumption DEF Settles, Charging
<1> QED
  BY <1>6, <1>7

LEMMA VerifyChecksKeeps ==
  ASSUME AgentInv, NEW r \in AgentRequests, VerifyChecks(r)
  PROVE  AgentInv'
<1>1. AgentTables /\ Standing /\ Fits(r) /\ at[r] = "checking"
  BY DEF AgentInv, VerifyChecks, At
<1>2. /\ UNCHANGED <<rows, passes, world>> /\ Move(r, "storing") /\ (CommitCharge(r) \/ UNCHANGED money)
      /\ AgentTables' /\ passes' \in [AgentRequests -> 0 .. Passes]
  BY <1>1 DEF VerifyChecks, rows, AgentTables, Standing, world
<1>3. "storing" \in AgentPlaces /\ at'[r] = "storing" /\ kind[r] = "verify"
  BY <1>1, <1>2 DEF AgentPlaces, Move, Standing, Fits, PlaceFits
<1>4. locked = r /\ r \notin billed /\ r \notin prepared \union verified
  BY <1>1 DEF Fits, LockFits, ChargeFits, Charging
<1>5. locked' = r \/ r \in billed'
  BY <1>2, <1>4 DEF CommitCharge, money
<1>6. PlaceFits(r)' /\ ChargeFits(r)' /\ TaskFits(r)'
  BY <1>2, <1>3, <1>4 DEF PlaceFits, ChargeFits, TaskFits, Early, Unpaid, Charging, rows, world
<1> QED
  BY <1>2, <1>3, <1>5, <1>6, SettlingKeeps DEF Settles, Charging, rows

LEMMA VerifyStoresKeeps ==
  ASSUME AgentInv, NEW r \in AgentRequests, VerifyStores(r)
  PROVE  AgentInv'
<1>1. AgentTables /\ Standing /\ Fits(r) /\ at[r] = "storing" /\ kind[r] = "verify"
  BY DEF AgentInv, VerifyStores, At, Fits, PlaceFits
<1>2. /\ UNCHANGED <<record, expansion, prepared, transcript, passes, world>>
      /\ passes' \in [AgentRequests -> 0 .. Passes]
  BY <1>1 DEF VerifyStores, Standing
<1>3. /\ locked = r \/ r \in billed
      /\ r \in prepared => r \in billed
      /\ locked = r => r \notin billed /\ r \notin prepared \union verified
  BY <1>1 DEF Fits, LockFits, ChargeFits
<1>4. CASE application
  <2>1. CommitCharge(r) /\ verified' = verified \union {r} /\ Move(r, "answered")
    BY <1>4 DEF VerifyStores
  <2>2. "answered" \in AgentPlaces /\ at'[r] = "answered"
    BY <1>1, <2>1 DEF AgentPlaces, Over, Move, Standing
  <2>3. r \in billed' /\ locked' # r
    BY <1>3, <2>1, AgentAssumption DEF CommitCharge, money
  <2>4. AgentTables'
    BY <1>1, <1>2, <2>1 DEF AgentTables, world
  <2>5. PlaceFits(r)' /\ ChargeFits(r)' /\ TaskFits(r)'
    BY <1>1, <1>2, <2>1, <2>2, <2>3 DEF PlaceFits, ChargeFits, TaskFits, Early, Unpaid, Charging, world
  <2> QED
    BY <1>2, <2>1, <2>2, <2>3, <2>4, <2>5, SettlingKeeps DEF Settles, Charging
<1>5. CASE ~application
  <2>1. Rollback(r) /\ UNCHANGED verified /\ Move(r, "broken")
    BY <1>5 DEF VerifyStores
  <2>2. "broken" \in AgentPlaces /\ at'[r] = "broken"
    BY <1>1, <2>1 DEF AgentPlaces, Over, Move, Standing
  <2>3. billed' = billed /\ locked' # r
    BY <1>3, <2>1, AgentAssumption DEF Rollback
  <2>4. AgentTables'
    BY <1>1, <1>2, <2>1 DEF AgentTables, world
  <2>5. PlaceFits(r)' /\ ChargeFits(r)' /\ TaskFits(r)'
    BY <1>1, <1>2, <1>5, <2>1, <2>2, <2>3
       DEF Fits, PlaceFits, ChargeFits, TaskFits, Early, Unpaid, Charging, world
  <2> QED
    BY <1>2, <2>1, <2>2, <2>3, <2>4, <2>5, SettlingKeeps DEF Settles, Charging
<1> QED
  BY <1>4, <1>5

-----------------------------------------------------------------------------
(* Steps about all requests                                                *)

LEMMA DeleteApplicationKeeps ==
  ASSUME AgentInv, DeleteApplication
  PROVE  AgentInv'
<1>1. UNCHANGED <<money, rows, at, passes, kind, profile, restarts, resets>> /\ application' = FALSE
  BY DEF DeleteApplication
<1>2. Money' /\ AgentTables' /\ Standing'
  BY <1>1 DEF AgentInv, Money, Covers, AgentTables, Standing, money, rows
<1>3. ASSUME NEW r \in AgentRequests PROVE Fits(r)'
  <2>1. Fits(r)
    BY DEF AgentInv
  <2>2. PlaceFits(r)' /\ LockFits(r)' /\ TaskFits(r)'
    BY <1>1, <2>1 DEF Fits, PlaceFits, LockFits, TaskFits, Covers, money, rows
  <2>3. ChargeFits(r)'
    BY <1>1, <2>1 DEF Fits, ChargeFits, money, rows
  <2> QED
    BY <2>2, <2>3 DEF Fits
<1> QED
  BY <1>2, <1>3 DEF AgentInv

LEMMA ResetJobDataKeeps ==
  ASSUME AgentInv, ResetJobData
  PROVE  AgentInv'
<1>1. /\ UNCHANGED <<money, transcript, at, passes, kind, profile, restarts>> /\ application' = FALSE
      /\ record' = Erased(record) /\ expansion' = Erased(expansion)
      /\ prepared' = {} /\ verified' = {} /\ resets' = resets + 1 /\ resets < MaxRestarts
  BY DEF ResetJobData
<1>2. Money' /\ Standing'
  BY <1>1, AgentAssumption DEF AgentInv, Money, Covers, Standing, money
<1>3. \A r \in AgentRequests :
        /\ record'[r] = IF record[r] = "none" THEN "none" ELSE "deleted"
        /\ expansion'[r] = IF expansion[r] = "none" THEN "none" ELSE "deleted"
  BY <1>1 DEF Erased
<1>4. record' \in [AgentRequests -> Statuses] /\ expansion' \in [AgentRequests -> Statuses]
  BY <1>1 DEF Erased, Statuses
<1>5. AgentTables'
  BY <1>1, <1>4 DEF AgentInv, AgentTables
<1>6. ASSUME NEW r \in AgentRequests PROVE Fits(r)'
  <2>1. Fits(r)
    BY DEF AgentInv
  <2>2. PlaceFits(r)' /\ LockFits(r)'
    BY <1>1, <2>1 DEF Fits, PlaceFits, LockFits, Covers, money
  <2>3. ChargeFits(r)'
    BY <1>1, <1>3, <2>1 DEF Fits, ChargeFits, money
  <2>4. TaskFits(r)'
    BY <1>1, <1>3, <2>1 DEF Fits, TaskFits, Final
  <2> QED
    BY <2>2, <2>3, <2>4 DEF Fits
<1> QED
  BY <1>2, <1>5, <1>6 DEF AgentInv

LEMMA ResetProfileKeeps ==
  ASSUME AgentInv, ResetProfile
  PROVE  AgentInv'
<1>1. UNCHANGED <<money, rows, at, passes, kind, application, restarts>> /\ profile' = FALSE
      /\ resets' = resets + 1 /\ resets < MaxRestarts
  BY DEF ResetProfile
<1>2. Money' /\ AgentTables' /\ Standing'
  <2>1. Money' /\ AgentTables'
    BY <1>1 DEF AgentInv, Money, Covers, AgentTables, money, rows
  <2>2. Standing'
    BY <1>1, AgentAssumption DEF AgentInv, Standing
  <2> QED
    BY <2>1, <2>2
<1>3. ASSUME NEW r \in AgentRequests PROVE Fits(r)'
  <2>1. Fits(r)
    BY DEF AgentInv
  <2> QED
    BY <1>1, <2>1 DEF Fits, PlaceFits, LockFits, ChargeFits, TaskFits, Covers, money, rows
<1> QED
  BY <1>2, <1>3 DEF AgentInv

LEMMA RestartKeeps ==
  ASSUME AgentInv, Restart
  PROVE  AgentInv'
<1>1. /\ UNCHANGED <<balance, billed, seen, rows, passes, kind, application, profile, resets>>
      /\ at' = [r \in AgentRequests |-> IF at[r] \in {"idle"} \union Over THEN at[r] ELSE "lost"]
      /\ locked' = Nobody /\ restarts' = restarts + 1 /\ restarts < MaxRestarts
  BY DEF Restart
<1>2. Money' /\ AgentTables'
  BY <1>1 DEF AgentInv, Money, Covers, AgentTables, rows
<1>3. Standing'
  <2>1. at' \in [AgentRequests -> AgentPlaces]
    BY <1>1 DEF AgentPlaces, Over
  <2> QED
    BY <1>1, <2>1, AgentAssumption DEF AgentInv, Standing
<1>4. ASSUME NEW r \in AgentRequests PROVE Fits(r)'
  <2>1. Fits(r) /\ at'[r] = IF at[r] \in {"idle"} \union Over THEN at[r] ELSE "lost"
    BY <1>1 DEF AgentInv
  <2>2. CASE at[r] \in {"idle"} \union Over
    <3>1. at'[r] = at[r] /\ at[r] # "storing" /\ at[r] # "affordable" /\ at[r] \notin Charging
      BY <2>1, <2>2 DEF Over, Charging
    <3>2. PlaceFits(r)' /\ ChargeFits(r)' /\ TaskFits(r)'
      BY <1>1, <2>1, <3>1 DEF Fits, PlaceFits, ChargeFits, TaskFits, rows
    <3>3. LockFits(r)'
      BY <1>1, <2>1, <3>1, AgentAssumption DEF Fits, LockFits, Covers
    <3> QED
      BY <3>2, <3>3 DEF Fits
  <2>3. CASE at[r] \notin {"idle"} \union Over
    <3>1. at'[r] = "lost"
      BY <2>1, <2>3
    <3>2. PlaceFits(r)' /\ ChargeFits(r)' /\ TaskFits(r)'
      BY <1>1, <2>1, <3>1 DEF Fits, PlaceFits, ChargeFits, TaskFits, Unpaid, Charging, Early, rows
    <3>3. LockFits(r)'
      BY <1>1, <2>1, <3>1, AgentAssumption DEF Fits, LockFits, Covers, Charging
    <3> QED
      BY <3>2, <3>3 DEF Fits
  <2> QED
    BY <2>2, <2>3
<1> QED
  BY <1>2, <1>3, <1>4 DEF AgentInv

LEMMA InitialAgents == AgentInit => AgentInv
<1> SUFFICES ASSUME AgentInit PROVE AgentInv
  OBVIOUS
<1>1. Money
  <2>1. Cardinality(billed) = 0
    BY FS_EmptySet DEF AgentInit
  <2>2. Covers(balance, billed)
    BY <2>1, AgentAssumption DEF AgentInit, Covers
  <2> QED
    BY <2>2, AgentAssumption DEF AgentInit, Money
<1>2. AgentTables
  BY DEF AgentInit, AgentTables, Statuses
<1>3. Standing
  BY AgentAssumption DEF AgentInit, Standing, AgentPlaces
<1>4. ASSUME NEW r \in AgentRequests PROVE Fits(r)
  <2>1. at[r] = "idle" /\ seen[r] = Unread /\ expansion[r] = "none" /\ passes[r] = 0 /\ locked # r
    BY AgentAssumption DEF AgentInit
  <2>2. r \notin billed /\ r \notin prepared \union verified
    BY DEF AgentInit
  <2> QED
    BY <2>1, <2>2, AgentAssumption DEF Fits, PlaceFits, LockFits, ChargeFits, TaskFits, Charging
<1> QED
  BY <1>1, <1>2, <1>3, <1>4 DEF AgentInv

LEMMA AgentsKeep == AgentInv /\ [AgentNext]_agentVars => AgentInv'
<1> SUFFICES ASSUME AgentInv, [AgentNext]_agentVars PROVE AgentInv'
  OBVIOUS
<1>1. ASSUME NEW r \in AgentRequests, Arrive(r) \/ AgentStep(r) PROVE AgentInv'
  BY <1>1, ArriveKeeps, ReadBalanceKeeps, ConsumeCreditsKeeps, CommitRecordKeeps, ExpandKeeps, UpskillStartKeeps,
     UpskillPassKeeps, UpskillEndKeeps, InterviewKeeps, MockKeeps, VerifyChecksKeeps, VerifyStoresKeeps
     DEF AgentStep
<1>2. CASE DeleteApplication \/ ResetJobData \/ ResetProfile \/ Restart
  BY <1>2, DeleteApplicationKeeps, ResetJobDataKeeps, ResetProfileKeeps, RestartKeeps
<1>3. CASE UNCHANGED agentVars
  <2>1. Money' /\ AgentTables' /\ Standing'
    <3>1. Money'
      BY <1>3 DEF agentVars, AgentInv, Money, Covers
    <3>2. AgentTables'
      BY <1>3 DEF agentVars, AgentInv, AgentTables
    <3>3. Standing'
      BY <1>3 DEF agentVars, AgentInv, Standing
    <3> QED
      BY <3>1, <3>2, <3>3
  <2>2. \A r \in AgentRequests : Fits(r)'
    BY <1>3 DEF agentVars, AgentInv, Fits, PlaceFits, LockFits, ChargeFits, TaskFits, Covers
  <2> QED
    BY <2>1, <2>2 DEF AgentInv
<1> QED
  BY <1>1, <1>2, <1>3 DEF AgentNext, AgentsDone

LEMMA AgentInvAlways == AgentSpec => []AgentInv
<1> QED
  BY InitialAgents, AgentsKeep, PTL DEF AgentSpec

-----------------------------------------------------------------------------
(* Types; only a request between the flush of its charge and its commit    *)
(* locks the account, and it read a balance that covers the price.         *)
THEOREM AgentTypeCorrect == AgentSpec => []AgentTypeOK
<1>1. AgentInv => AgentTypeOK
  <2> SUFFICES ASSUME AgentInv PROVE AgentTypeOK
    OBVIOUS
  <2>1. locked # Nobody =>
          /\ locked \in AgentRequests \ billed
          /\ at[locked] \in {"recording", "loading", "interviewing", "turn", "checking", "storing"}
          /\ seen[locked] >= Price
    BY DEF AgentInv, Money, Fits, LockFits, Charging
  <2> QED
    BY <2>1 DEF AgentInv, Money, AgentTables, Standing, AgentTypeOK
<1> QED
  BY <1>1, AgentInvAlways, PTL

(* Nobody pays for nothing, nobody is served for nothing, and concurrent   *)
(* charges of one account (consume_credits) take no more than their prices.*)
THEOREM PaidCorrect == AgentSpec => []PaidForAResult
<1>1. AgentInv => PaidForAResult
  <2> SUFFICES ASSUME AgentInv PROVE PaidForAResult
    OBVIOUS
  <2>1. balance + Price * Cardinality(billed) >= InitialBalance
    BY DEF AgentInv, Money, Covers
  <2>2. prepared \union verified \subseteq billed
    BY DEF AgentInv, AgentTables, Fits, ChargeFits
  <2>3. ASSUME NEW r \in billed
        PROVE  /\ at[r] # "refused"
               /\ CASE kind[r] \in {"expand", "upskill"} -> record[r] # "none"
                    [] kind[r] = "interview" -> r \in prepared \/ ~application
                    [] kind[r] = "verify" -> \/ r \in verified \/ ~application
                                             \/ at[r] \in {"storing", "lost"}
                    [] OTHER -> TRUE
    <3>1. ChargeFits(r)
      BY DEF AgentInv, Money, Fits
    <3> QED
      BY <3>1 DEF ChargeFits, Unpaid
  <2> QED
    BY <2>1, <2>2, <2>3 DEF PaidForAResult
<1> QED
  BY <1>1, AgentInvAlways, PTL

(* The background tasks of expand and upskill end with the row they work   *)
(* on completed or failed, unless a reset deleted it.                      *)
THEOREM TaskEndCorrect == AgentSpec => []TaskEndIsRecorded
<1>1. AgentInv => TaskEndIsRecorded
  BY DEF AgentInv, Fits, TaskFits, TaskEndIsRecorded
<1> QED
  BY <1>1, AgentInvAlways, PTL
=============================================================================
