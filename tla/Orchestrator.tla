---------------------------- MODULE Orchestrator ----------------------------
(***************************************************************************)
(* LLMOrchestrator.execute and the persistent ExecutionQueue under it      *)
(* (app/services/orchestrator): each call inserts one job, walks a plan of *)
(* models with a short database session before and after every LLM call,   *)
(* and the user controls the queue (pause, resume, cancel, retry) through  *)
(* requests of their own.                                                  *)
(*                                                                         *)
(* Every session is a SELECT step and a COMMIT step, since the awaits in   *)
(* between let other sessions run.  Sessions are READ COMMITTED and the    *)
(* ORM writes back the columns it changed WHERE id = ..., without looking  *)
(* at the status again, so what a session loaded may be stale when it      *)
(* commits.                                                                *)
(*                                                                         *)
(* Of the row of execution_queue_state the model keeps paused and          *)
(* active_workers; the total_* metrics are read and written back in the    *)
(* same way and nothing depends on them.                                   *)
(***************************************************************************)
EXTENDS Integers, FiniteSets

CONSTANTS
  Users,
  Calls,           \* calls of execute(); the job of a call bears its name
  Owner,           \* [Calls -> Users]
  Pipeline,        \* the pipeline of a call: "expand", "rank", ...
  Tiers,           \* length of the execution plan (_build_execution_plan)
  MaxRetries,      \* execute's max_retries
  MaxConcurrency,  \* permits of the semaphore
  Failures,        \* [Calls -> error codes the LLM calls of a call may end with]
  Controls,        \* control requests the users send
  MaxRequests,     \* bound: control requests
  MaxCrashes,      \* bound: restarts of the process
  NoJob, NoQueue, NoTx, NoRequest

ErrorCodes == {"auth_error", "rate_limit", "timeout", "server_error", "empty_response"}

Kinds == {"status", "pause", "resume", "cancel", "cancel_all", "retry", "retry_all"}

ASSUME OrchestratorAssumption ==
  /\ IsFiniteSet(Calls)
  /\ Owner \in [Calls -> Users]
  /\ DOMAIN Pipeline = Calls
  /\ Tiers \in Nat \ {0}
  /\ MaxRetries \in Nat \ {0}
  /\ MaxConcurrency \in Nat \ {0}
  /\ Failures \in [Calls -> SUBSET ErrorCodes]
  /\ Controls \subseteq Kinds
  /\ MaxRequests \in Nat /\ MaxCrashes \in Nat

VARIABLES
  job,       \* table execution_jobs: status and retry_count of each call's job
  queue,     \* table execution_queue_state: a row per user, created lazily
  pc,        \* where each call is
  tier,      \* the plan entry each call is at
  tx,        \* what the open session of each call has loaded
  request,   \* the control request in flight, with what its session loaded
  tried,     \* history: LLM calls made by each call
  requests, crashes

vars == <<job, queue, pc, tier, tx, request, tried, requests, crashes>>

Terminal == {"completed", "failed", "cancelled"}

Active == {"queued", "running", "retrying", "rate_limited"}

Status == Terminal \cup Active \cup {"pending"}

Job == [status : Status, retries : Nat]

Queue == [paused : BOOLEAN, active : Nat]

Finished == {"returned", "failed", "raised", "lost"}

Places ==
  {"idle", "enqueuing", "next", "waiting", "starting", "calling", "completing", "failing", "exhausting"}
    \cup Finished

Tx == [queue : Queue \cup {NoQueue}, retries : Nat, code : ErrorCodes \cup {"none", "exhausted"}]

Request == [kind : Kinds, user : Users, rows : SUBSET Calls, running : SUBSET Calls,
            queue : Queue \cup {NoQueue}]

ASSUME NullAssumption ==
  NoJob \notin Job /\ NoQueue \notin Queue /\ NoTx \notin Tx /\ NoRequest \notin Request

TypeOK ==
  /\ job \in [Calls -> Job \cup {NoJob}]
  /\ queue \in [Users -> Queue \cup {NoQueue}]
  /\ pc \in [Calls -> Places]
  /\ tier \in [Calls -> 1 .. Tiers + 1]
  /\ tx \in [Calls -> Tx \cup {NoTx}]
  /\ request \in Request \cup {NoRequest}
  /\ tried \in [Calls -> 0 .. Tiers]
  /\ requests \in 0 .. MaxRequests
  /\ crashes \in 0 .. MaxCrashes

Init ==
  /\ job = [c \in Calls |-> NoJob]
  /\ queue = [u \in Users |-> NoQueue]
  /\ pc = [c \in Calls |-> "idle"]
  /\ tier = [c \in Calls |-> 1]
  /\ tx = [c \in Calls |-> NoTx]
  /\ request = NoRequest
  /\ tried = [c \in Calls |-> 0]
  /\ requests = 0
  /\ crashes = 0

-----------------------------------------------------------------------------
(* The tables                                                              *)

In(c, statuses) == job[c] # NoJob /\ job[c].status \in statuses

(* The partial unique index uq_active_rank_per_user: one queued or running *)
(* job per user and pipeline, whatever the pipeline.                       *)
Indexed(j) == j # NoJob /\ j.status \in {"queued", "running"}

Unique(jobs) ==
  \A c, d \in Calls :
    c # d /\ Owner[c] = Owner[d] /\ Pipeline[c] = Pipeline[d] => ~(Indexed(jobs[c]) /\ Indexed(jobs[d]))

NewQueue == [paused |-> FALSE, active |-> 0]

(* _get_or_create_queue_state: the row the session works on.               *)
Row(seen) == IF seen = NoQueue THEN NewQueue ELSE seen

(* Two sessions that both found no row cannot both insert one.             *)
Inserts(u, seen) == seen = NoQueue => queue[u] = NoQueue

Busier(u, seen) == [queue EXCEPT ![u].active = seen.active + 1]

(* Mutant of Idler: no max(0, ...).                                        *)
IdlerUnclamped(u, seen, n) == [queue EXCEPT ![u].active = seen.active - n]

(* max(0, active_workers - n), from the value the session loaded.          *)
Idler(u, seen, n) == [queue EXCEPT ![u].active = IF seen.active < n THEN 0 ELSE seen.active - n]

-----------------------------------------------------------------------------
(* One call of execute                                                     *)

Goto(c, place) == pc' = [pc EXCEPT ![c] = place]

Load(c, code) ==
  tx' = [tx EXCEPT ![c] = [queue |-> queue[Owner[c]], code |-> code,
                           retries |-> IF job[c] = NoJob THEN 0 ELSE job[c].retries]]

CloseSession(c) == tx' = [tx EXCEPT ![c] = NoTx]

Unchanged == UNCHANGED <<request, requests, crashes>>

EnqueueSelect(c) ==
  /\ pc[c] = "idle"
  /\ Goto(c, "enqueuing")
  /\ Load(c, "none")
  /\ UNCHANGED <<job, queue, tier, tried>> /\ Unchanged

Enqueued(c) ==
  [job EXCEPT ![c] = [status |-> IF Row(tx[c].queue).paused THEN "pending" ELSE "queued", retries |-> 0]]

EnqueueCommit(c) ==
  LET u == Owner[c]
  IN /\ pc[c] = "enqueuing"
     /\ IF Inserts(u, tx[c].queue) /\ Unique(Enqueued(c))
        THEN /\ job' = Enqueued(c)
             /\ queue' = IF tx[c].queue = NoQueue THEN [queue EXCEPT ![u] = NewQueue] ELSE queue
             /\ Goto(c, "next")
        ELSE Goto(c, "raised") /\ UNCHANGED <<job, queue>>
     /\ CloseSession(c)
     /\ UNCHANGED <<tier, tried>> /\ Unchanged

(* Mutant of StartSelect: a failed job may be started again.               *)
StartSelectFailed(c) ==
  /\ pc[c] = "next"
  /\ tier[c] <= Tiers
  /\ In(c, {"queued", "retrying", "failed"})
  /\ Goto(c, "waiting")
  /\ UNCHANGED <<job, queue, tier, tx, tried>> /\ Unchanged

(* start_job finds the job queued or retrying and asks for a permit; in    *)
(* any other status the call goes on to the next model of the plan.        *)
StartSelect(c) ==
  /\ pc[c] = "next"
  /\ tier[c] <= Tiers
  /\ In(c, {"queued", "retrying"})
  /\ Goto(c, "waiting")
  /\ UNCHANGED <<job, queue, tier, tx, tried>> /\ Unchanged

SkipTier(c) ==
  /\ pc[c] = "next"
  /\ tier[c] <= Tiers
  /\ ~In(c, {"queued", "retrying"})
  /\ tier' = [tier EXCEPT ![c] = @ + 1]
  /\ UNCHANGED <<job, queue, pc, tx, tried>> /\ Unchanged

(* Mutant of Acquire: an exception keeps the permit.                       *)
AcquireLeaky(c) ==
  /\ pc[c] = "waiting"
  /\ Cardinality({d \in Calls : pc[d] \in {"starting", "raised"}}) < MaxConcurrency
  /\ Goto(c, "starting")
  /\ Load(c, "none")
  /\ UNCHANGED <<job, queue, tier, tried>> /\ Unchanged

(* The permit is held until start_job returns, not during the LLM call.    *)
Acquire(c) ==
  /\ pc[c] = "waiting"
  /\ Cardinality({d \in Calls : pc[d] = "starting"}) < MaxConcurrency
  /\ Goto(c, "starting")
  /\ Load(c, "none")
  /\ UNCHANGED <<job, queue, tier, tried>> /\ Unchanged

Started(c) == [job EXCEPT ![c].status = "running"]

StartCommit(c) ==
  /\ pc[c] = "starting"
  /\ IF Unique(Started(c))
     THEN /\ job' = Started(c)
          /\ queue' = Busier(Owner[c], tx[c].queue)
          /\ tried' = [tried EXCEPT ![c] = @ + 1]
          /\ Goto(c, "calling")
     ELSE Goto(c, "raised") /\ UNCHANGED <<job, queue, tried>>
  /\ CloseSession(c)
  /\ UNCHANGED tier /\ Unchanged

(* Mutant of Answer: complete_job looks for a queued job.                  *)
AnswerToQueued(c) ==
  /\ pc[c] = "calling"
  /\ IF In(c, {"queued"})
     THEN Goto(c, "completing") /\ Load(c, "none")
     ELSE Goto(c, "returned") /\ UNCHANGED tx
  /\ UNCHANGED <<job, queue, tier, tried>> /\ Unchanged

(* The model answered: complete_job records it if the job is running.      *)
Answer(c) ==
  /\ pc[c] = "calling"
  /\ IF In(c, {"running"})
     THEN Goto(c, "completing") /\ Load(c, "none")
     ELSE Goto(c, "returned") /\ UNCHANGED tx
  /\ UNCHANGED <<job, queue, tier, tried>> /\ Unchanged

CompleteCommit(c) ==
  /\ pc[c] = "completing"
  /\ job' = [job EXCEPT ![c].status = "completed"]
  /\ queue' = Idler(Owner[c], tx[c].queue, 1)
  /\ Goto(c, "returned")
  /\ CloseSession(c)
  /\ UNCHANGED <<tier, tried>> /\ Unchanged

(* The LLM call, or the validation of its answer, failed: rate_limit_job   *)
(* wants a running job, fail_job a running or a rate-limited one.          *)
Fail(c, code) ==
  /\ pc[c] = "calling"
  /\ IF In(c, {"running"}) \/ (code # "rate_limit" /\ In(c, {"rate_limited"}))
     THEN Goto(c, "failing") /\ Load(c, code) /\ UNCHANGED tier
     ELSE Goto(c, "next") /\ tier' = [tier EXCEPT ![c] = @ + 1] /\ UNCHANGED tx
  /\ UNCHANGED <<job, queue, tried>> /\ Unchanged

(* Mutant of ShouldRetry: the rest of the plan is ignored.                 *)
RetryOnCodeOnly(c) == tx[c].code \in {"auth_error", "timeout"}

ShouldRetry(c) == tx[c].code \in {"auth_error", "timeout"} \/ tier[c] < Tiers

(* fail_job: a job that may not be retried gives its worker slot back.     *)
RecordFailure(c, retry) ==
  LET retries == tx[c].retries + 1
  IN IF retry /\ retries < MaxRetries
     THEN /\ job' = [job EXCEPT ![c] = [status |-> "retrying", retries |-> retries]]
          /\ UNCHANGED queue
     ELSE /\ job' = [job EXCEPT ![c] = [status |-> "failed", retries |-> retries]]
          /\ queue' = Idler(Owner[c], tx[c].queue, 1)

(* Mutant of FailCommit: the model that failed is tried again.             *)
FailCommitSameModel(c) ==
  /\ pc[c] = "failing"
  /\ IF tx[c].code = "rate_limit"
     THEN /\ job' = [job EXCEPT ![c].status = "rate_limited"]
          /\ queue' = Idler(Owner[c], tx[c].queue, 1)
     ELSE RecordFailure(c, ShouldRetry(c))
  /\ Goto(c, "next")
  /\ CloseSession(c)
  /\ UNCHANGED <<tier, tried>> /\ Unchanged

FailCommit(c) ==
  /\ pc[c] = "failing"
  /\ IF tx[c].code = "rate_limit"
     THEN /\ job' = [job EXCEPT ![c].status = "rate_limited"]
          /\ queue' = Idler(Owner[c], tx[c].queue, 1)
     ELSE RecordFailure(c, ShouldRetry(c))
  /\ Goto(c, "next")
  /\ tier' = [tier EXCEPT ![c] = @ + 1]
  /\ CloseSession(c)
  /\ UNCHANGED tried /\ Unchanged

(* No model of the plan is left: fail the job and raise LLMError.          *)
Exhaust(c) ==
  /\ pc[c] = "next"
  /\ tier[c] > Tiers
  /\ IF In(c, {"running", "rate_limited"})
     THEN Goto(c, "exhausting") /\ Load(c, "exhausted")
     ELSE Goto(c, "failed") /\ UNCHANGED tx
  /\ UNCHANGED <<job, queue, tier, tried>> /\ Unchanged

ExhaustCommit(c) ==
  /\ pc[c] = "exhausting"
  /\ RecordFailure(c, FALSE)
  /\ Goto(c, "failed")
  /\ CloseSession(c)
  /\ UNCHANGED <<tier, tried>> /\ Unchanged

Execute(c) ==
  \/ EnqueueSelect(c) \/ EnqueueCommit(c)
  \/ StartSelect(c) \/ SkipTier(c) \/ Acquire(c) \/ StartCommit(c)
  \/ Answer(c) \/ CompleteCommit(c)
  \/ \E code \in Failures[c] : Fail(c, code)
  \/ FailCommit(c)
  \/ Exhaust(c) \/ ExhaustCommit(c)

-----------------------------------------------------------------------------
(* Control requests: one at a time                                         *)

JobsOf(u, statuses) == {c \in Calls : Owner[c] = u /\ In(c, statuses)}

(* Mutant of RowSets: retry_all also revives cancelled jobs.               *)
RowSetsReviving(kind, u) ==
  CASE kind \in {"status", "pause"} -> {{}}
    [] kind = "resume"     -> {JobsOf(u, {"pending"})}
    [] kind = "cancel"     -> {{c} : c \in JobsOf(u, Status \ Terminal)}
    [] kind = "cancel_all" -> {JobsOf(u, Active \cup {"pending"})}
    [] kind = "retry"      -> {{c} : c \in JobsOf(u, {"failed"})}
    [] kind = "retry_all"  -> {JobsOf(u, {"failed", "cancelled"})}

(* The rows a request loads and will write.                                *)
RowSets(kind, u) ==
  CASE kind \in {"status", "pause"} -> {{}}
    [] kind = "resume"     -> {JobsOf(u, {"pending"})}
    [] kind = "cancel"     -> {{c} : c \in JobsOf(u, Status \ Terminal)}
    [] kind = "cancel_all" -> {JobsOf(u, Active \cup {"pending"})}
    [] kind = "retry"      -> {{c} : c \in JobsOf(u, {"failed"})}
    [] kind = "retry_all"  -> {JobsOf(u, {"failed"})}

RequestSelect(u, kind) ==
  /\ request = NoRequest
  /\ requests < MaxRequests
  /\ \E rows \in RowSets(kind, u) :
       request' = [kind |-> kind, user |-> u, rows |-> rows, queue |-> queue[u],
                   running |-> {c \in rows : In(c, {"running"})}]
  /\ requests' = requests + 1
  /\ UNCHANGED <<job, queue, pc, tier, tx, tried, crashes>>

(* The jobs after the request.  cancel_job selects each of the rows of     *)
(* cancel_all once more, and passes over those that ended in the meantime. *)
Cancelled ==
  IF request.kind = "cancel_all" THEN {c \in request.rows : ~In(c, Terminal)} ELSE request.rows

JobsAfter ==
  [c \in Calls |->
     IF request.kind = "resume" /\ c \in request.rows THEN [job[c] EXCEPT !.status = "queued"]
     ELSE IF request.kind \in {"cancel", "cancel_all"} /\ c \in Cancelled
          THEN [job[c] EXCEPT !.status = "cancelled"]
     ELSE IF request.kind \in {"retry", "retry_all"} /\ c \in request.rows
          THEN [status |-> "queued", retries |-> 0]
     ELSE job[c]]

(* The queue row after it; a retry does not touch it.                      *)
QueueAfter ==
  LET u == request.user
      released == Cardinality(Cancelled \cap request.running)
  IN CASE request.kind \in {"retry", "retry_all"} -> queue
       [] request.kind = "status" -> [queue EXCEPT ![u] = IF @ = NoQueue THEN NewQueue ELSE @]
       [] request.kind = "pause"  ->
            [queue EXCEPT ![u] = IF @ = NoQueue THEN [NewQueue EXCEPT !.paused = TRUE]
                                 ELSE [@ EXCEPT !.paused = TRUE]]
       [] request.kind = "resume" ->
            [queue EXCEPT ![u] = IF @ = NoQueue THEN NewQueue
                                 ELSE [@ EXCEPT !.paused = FALSE]]
       [] OTHER -> IF released = 0 THEN queue ELSE Idler(u, request.queue, released)

RequestCommit ==
  /\ request # NoRequest
  /\ IF /\ Unique(JobsAfter)
        /\ request.kind \in {"status", "pause", "resume"} => Inserts(request.user, request.queue)
     THEN job' = JobsAfter /\ queue' = QueueAfter
     ELSE UNCHANGED <<job, queue>>
  /\ request' = NoRequest
  /\ UNCHANGED <<pc, tier, tx, tried, requests, crashes>>

(* The process stops and starts again: background tasks and open sessions  *)
(* are gone, the tables stay.                                              *)
Crash ==
  /\ crashes < MaxCrashes
  /\ crashes' = crashes + 1
  /\ pc' = [c \in Calls |-> IF pc[c] \in Finished \cup {"idle"} THEN pc[c] ELSE "lost"]
  /\ tx' = [c \in Calls |-> NoTx]
  /\ request' = NoRequest
  /\ UNCHANGED <<job, queue, tier, tried, requests>>

(* Every call has come back and no request is left to send.                *)
Done ==
  /\ \A c \in Calls : pc[c] \in Finished
  /\ request = NoRequest
  /\ UNCHANGED vars

Next ==
  \/ \E c \in Calls : Execute(c)
  \/ \E u \in Users, kind \in Controls : RequestSelect(u, kind)
  \/ RequestCommit
  \/ Crash
  \/ Done

Spec == Init /\ [][Next]_vars

(* The event loop runs every ready task and litellm is called with a       *)
(* timeout of 30 s, so a call that has begun goes on; nobody has to call   *)
(* execute or to send a request.                                           *)
Proceeds(c) == pc[c] # "idle" /\ Execute(c)

Fairness == WF_vars(RequestCommit) /\ \A c \in Calls : WF_vars(Proceeds(c))

FairSpec == Spec /\ Fairness

-----------------------------------------------------------------------------
(* Properties                                                              *)

Statuses == [c \in Calls |-> IF job[c] = NoJob THEN "none" ELSE job[c].status]

J == INSTANCE JobLifecycle WITH Jobs <- Calls, status <- Statuses

(* Every session writes a transition of the lifecycle, however stale what  *)
(* it loaded is: true of workers beside pauses, resumes and retries.       *)
ImplementsLifecycle == J!Spec

(* A call that answered its caller left a completed job behind, unless the *)
(* job was cancelled; and no other job is completed, whatever the retries, *)
(* cancels and restarts in between.                                        *)
AnswersAreRecorded ==
  \A c \in Calls :
    /\ pc[c] = "returned" => In(c, {"completed", "cancelled"})
    /\ In(c, {"completed"}) => pc[c] = "returned"

(* Only a restart leaves a running job without a call: no path through the *)
(* failover loop, its stale sessions and the control requests forgets one. *)
NoneLeftRunning ==
  \A c \in Calls : In(c, {"running"}) => pc[c] \notin Finished \ {"lost"}

(* LLMError means that the models of the plan were tried, up to the retry  *)
(* limit of the job ("If all fail, raise LLMError"): true of a call that   *)
(* no control request disturbs and whose models never answer with a 429.   *)
FailoverIsExhaustive ==
  \A c \in Calls :
    pc[c] = "failed" /\ requests = 0 /\ "rate_limit" \notin Failures[c]
    => tried[c] = IF Tiers < MaxRetries THEN Tiers ELSE MaxRetries

(* A call that began comes to an end: the permits of the semaphore come    *)
(* back and no session waits for another for ever.                         *)
CallsEnd ==
  \A c \in Calls : pc[c] = "enqueuing" ~> pc[c] \in Finished

(* No step, of whomever, sends a call back to a place or a model it has    *)
(* passed: the jobs that retries and resumes revive under it, and the      *)
(* statuses that make it skip a model, cost it models and never time.  So  *)
(* a call takes no more steps than the distance it begins with.            *)
ToGo(place) ==
  CASE place = "idle"       -> 7
    [] place = "enqueuing"  -> 6
    [] place = "next"       -> 5
    [] place = "waiting"    -> 4
    [] place = "starting"   -> 3
    [] place = "calling"    -> 2
    [] place \in {"completing", "failing", "exhausting"} -> 1
    [] OTHER -> 0

Distance(c) ==
  IF pc[c] \in Finished THEN 0 ELSE 8 * (Tiers + 1 - tier[c]) + ToGo(pc[c])

CallsMoveOn ==
  [][\A c \in Calls :
       \/ pc'[c] = pc[c] /\ tier'[c] = tier[c] /\ tried'[c] = tried[c]
       \/ Distance(c)' < Distance(c)]_vars

(* "429 handling: Never blocks ranking", "automatically switches to        *)
(* next model": a call gives up only after it tried every model.           *)
RateLimitSwitchesModel ==
  \A c \in Calls : pc[c] = "failed" /\ tried[c] < MaxRetries => tried[c] = Tiers

(* "Cancel a job that is not yet in a terminal state": the completed and   *)
(* cancelled states are final.                                             *)
TerminalIsFinal ==
  [][\A c \in Calls : In(c, {"completed", "cancelled"}) => job'[c] = job[c]]_vars

=============================================================================
