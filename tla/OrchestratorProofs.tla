-------------------------- MODULE OrchestratorProofs --------------------------
(***************************************************************************)
(* The orchestrator's safety properties for any number of users, calls,    *)
(* models and restarts: where a call is bounds what the status of its job  *)
(* can be, however stale the sessions that wrote it; and, when no job is   *)
(* ever cancelled, every session writes a transition of the lifecycle.     *)
(***************************************************************************)
EXTENDS MCQueue, FiniteSetTheorems, WellFoundedInduction, TLAPS

(* Places with an open session, and those of them whose session also read  *)
(* the queue row that the insertion of the job left behind.                *)
Writing == {"starting", "completing", "failing", "exhausting"}
Sessions == Writing \cup {"enqueuing"}

(* Rows are never deleted: what a session or a job refers to is there.     *)
RowExists(c) ==
  /\ job[c] # NoJob => queue[Owner[c]] # NoQueue
  /\ tx[c] # NoTx /\ tx[c].queue # NoQueue => queue[Owner[c]] # NoQueue

SessionOpen(c) ==
  /\ tx[c] # NoTx <=> pc[c] \in Sessions
  /\ pc[c] \in Writing => tx[c].queue # NoQueue

(* The statuses the job of a call at some place can have.                  *)
PlaceAgrees(c) ==
  /\ pc[c] \in {"idle", "enqueuing"} => job[c] = NoJob
  /\ pc[c] = "next" => In(c, Status \ {"running", "completed"})
  /\ pc[c] \in {"waiting", "starting"} => In(c, {"queued", "retrying", "cancelled"})
  /\ pc[c] \in {"calling", "completing", "failing"} => In(c, {"running", "cancelled"})
  /\ pc[c] = "exhausting" => In(c, {"rate_limited", "cancelled"})
  /\ pc[c] = "returned" => In(c, {"completed", "cancelled"})
  /\ pc[c] = "failed" => In(c, Status \ {"running", "completed"})
  /\ pc[c] = "raised" => job[c] = NoJob \/ In(c, {"queued", "retrying", "cancelled"})
  /\ pc[c] = "lost" => ~In(c, {"completed"})

(* Nobody but the request in flight moves a pending or a failed job, and   *)
(* it finds a queue row wherever it finds jobs.                            *)
RequestAgrees ==
  request # NoRequest =>
    /\ request.queue # NoQueue => queue[request.user] # NoQueue
    /\ request.kind \in Controls
    /\ \A c \in request.rows :
         /\ Owner[c] = request.user /\ job[c] # NoJob
         /\ request.kind = "resume" => In(c, {"pending"})
         /\ request.kind \in {"retry", "retry_all"} => In(c, {"failed"})
    /\ request.rows # {} => request.queue # NoQueue
    /\ request.kind \in {"status", "pause"} => request.rows = {}

(* No more models are tried than were gone through.                        *)
TriesAgree(c) ==
  /\ pc[c] \in {"idle", "enqueuing"} => tier[c] = 1
  /\ pc[c] \in {"idle", "enqueuing", "next", "waiting", "starting"} => tried[c] < tier[c]
  /\ pc[c] \in {"waiting", "starting", "calling", "completing", "failing"} => tier[c] <= Tiers
  /\ pc[c] \in {"calling", "completing", "failing"} => tried[c] <= tier[c]

CallAgrees(c) == RowExists(c) /\ SessionOpen(c) /\ PlaceAgrees(c) /\ TriesAgree(c)

OInv == TypeOK /\ RequestAgrees /\ \A c \in Calls : CallAgrees(c)

(* Before the first control request every queue is open ...                *)
Open(row) == row # NoQueue => ~row.paused

QueuesOpen ==
  requests = 0 =>
    /\ request = NoRequest
    /\ \A u \in Users : Open(queue[u])
    /\ \A c \in Calls : tx[c] # NoTx => Open(tx[c].queue)

Limit == IF Tiers < MaxRetries THEN Tiers ELSE MaxRetries

(* ... and a call without rate limits spends one try and one retry of its  *)
(* job on each model.                                                      *)
Retried(c) == job[c].retries = tier[c] - 1 /\ tier[c] <= MaxRetries

FailoverAgrees(c) ==
  /\ pc[c] \in {"idle", "enqueuing"} => tried[c] = 0
  /\ pc[c] = "next" => \/ In(c, {"queued", "retrying"}) /\ Retried(c) /\ tried[c] = tier[c] - 1
                       \/ In(c, {"failed"}) /\ tried[c] = Limit
  /\ pc[c] \in {"waiting", "starting"} =>
       In(c, {"queued", "retrying"}) /\ Retried(c) /\ tried[c] = tier[c] - 1
  /\ pc[c] \in {"calling", "failing"} => In(c, {"running"}) /\ Retried(c) /\ tried[c] = tier[c]
  /\ pc[c] = "failing" => tx[c].retries = job[c].retries /\ tx[c].code \in Failures[c]
  /\ pc[c] # "exhausting"
  /\ pc[c] = "failed" => tried[c] = Limit

FInv ==
  /\ QueuesOpen
  /\ \A c \in Calls : requests = 0 /\ "rate_limit" \notin Failures[c] => FailoverAgrees(c)

(* Where nobody may cancel, no job is cancelled.                           *)
Uncancelled == \A c \in Calls : ~In(c, {"cancelled"})

-----------------------------------------------------------------------------
(* Steps of one call                                                       *)

(* What a step of a call leaves alone: the other calls, the request in     *)
(* flight, the jobs that request waits for, and no row disappears.         *)
OnlyCall(c) ==
  /\ Unchanged
  /\ \A d \in Calls \ {c} :
       job'[d] = job[d] /\ pc'[d] = pc[d] /\ tier'[d] = tier[d] /\ tx'[d] = tx[d] /\ tried'[d] = tried[d]
  /\ \A u \in Users : queue[u] # NoQueue => queue'[u] # NoQueue
  /\ job'[c] = job[c] \/ job[c] = NoJob \/ (job'[c] # NoJob /\ ~In(c, {"pending", "failed"}))

LEMMA OthersAgree ==
  ASSUME OInv, NEW c \in Calls, OnlyCall(c), TypeOK', CallAgrees(c)'
  PROVE  OInv'
<1>1. ASSUME NEW d \in Calls PROVE CallAgrees(d)'
  <2>1. CASE d = c
    BY <2>1
  <2>2. CASE d # c
    <3>1. /\ job'[d] = job[d] /\ pc'[d] = pc[d] /\ tier'[d] = tier[d] /\ tx'[d] = tx[d]
          /\ tried'[d] = tried[d]
      BY <2>2 DEF OnlyCall
    <3>2. CallAgrees(d) /\ Owner[d] \in Users
      BY OrchestratorAssumption DEF OInv
    <3>3. queue[Owner[d]] # NoQueue => queue'[Owner[d]] # NoQueue
      BY <3>2 DEF OnlyCall
    <3>4. RowExists(d)' /\ SessionOpen(d)'
      BY <3>1, <3>2, <3>3 DEF CallAgrees, RowExists, SessionOpen
    <3>5. PlaceAgrees(d)'
      BY <3>1, <3>2 DEF CallAgrees, PlaceAgrees, In
    <3>6. TriesAgree(d)'
      BY <3>1, <3>2 DEF CallAgrees, TriesAgree
    <3> QED
      BY <3>4, <3>5, <3>6 DEF CallAgrees
  <2> QED
    BY <2>1, <2>2
<1>2. RequestAgrees'
  <2> SUFFICES ASSUME request # NoRequest PROVE RequestAgrees'
    BY DEF RequestAgrees, OnlyCall, Unchanged
  <2>1. request' = request /\ request \in Request
    BY DEF OnlyCall, Unchanged, OInv, TypeOK
  <2>2. RequestAgrees
    BY DEF OInv
  <2>3. request.queue # NoQueue => queue'[request.user] # NoQueue
    BY <2>1, <2>2 DEF RequestAgrees, OnlyCall, Request
  <2>4. ASSUME NEW d \in request.rows
        PROVE  /\ Owner[d] = request.user /\ job'[d] # NoJob
               /\ request.kind = "resume" => In(d, {"pending"})'
               /\ request.kind \in {"retry", "retry_all"} => In(d, {"failed"})'
    <3>1. d \in Calls /\ (d # c => job'[d] = job[d])
      BY <2>1 DEF OnlyCall, Request
    <3>2. /\ Owner[d] = request.user /\ job[d] # NoJob
          /\ request.kind = "resume" => In(d, {"pending"})
          /\ request.kind \in {"retry", "retry_all"} => In(d, {"failed"})
      BY <2>2 DEF RequestAgrees
    <3> QED
      BY <3>1, <3>2 DEF OnlyCall, In
  <2> QED
    BY <2>1, <2>2, <2>3, <2>4 DEF RequestAgrees
<1> QED
  BY <1>1, <1>2 DEF OInv

(* The session a call opens holds the queue row as it is.                  *)
LEMMA Loading ==
  ASSUME TypeOK, NEW c \in Calls, NEW code \in ErrorCodes \cup {"none", "exhausted"}, Load(c, code)
  PROVE  /\ tx' \in [Calls -> Tx \cup {NoTx}]
         /\ tx'[c] # NoTx /\ tx'[c] \in Tx
         /\ tx'[c].queue = queue[Owner[c]] /\ tx'[c].code = code
         /\ job[c] # NoJob => tx'[c].retries = job[c].retries
         /\ \A d \in Calls \ {c} : tx'[d] = tx[d]
<1> DEFINE x == [queue |-> queue[Owner[c]], code |-> code,
                 retries |-> IF job[c] = NoJob THEN 0 ELSE job[c].retries]
<1>1. queue[Owner[c]] \in Queue \cup {NoQueue}
  BY OrchestratorAssumption DEF TypeOK
<1>2. job[c] # NoJob => job[c].retries \in Nat
  BY DEF TypeOK, Job
<1>3. x \in Tx
  BY <1>1, <1>2 DEF Tx
<1>4. tx' = [tx EXCEPT ![c] = x]
  BY DEF Load
<1>5. x # NoTx
  BY <1>3, NullAssumption
<1> QED
  BY <1>3, <1>4, <1>5 DEF TypeOK

LEMMA EnqueueSelectKeeps ==
  ASSUME OInv, NEW c \in Calls, EnqueueSelect(c)
  PROVE  OInv'
<1>1. TypeOK /\ CallAgrees(c)
  BY DEF OInv
<1>2. /\ tx' \in [Calls -> Tx \cup {NoTx}] /\ tx'[c] # NoTx /\ tx'[c].queue = queue[Owner[c]]
      /\ \A d \in Calls \ {c} : tx'[d] = tx[d]
  BY <1>1, Loading DEF EnqueueSelect
<1>3. pc[c] = "idle" /\ pc' = [pc EXCEPT ![c] = "enqueuing"] /\ pc' \in [Calls -> Places]
  BY <1>1 DEF EnqueueSelect, Goto, TypeOK, Places
<1>4. UNCHANGED <<job, queue, tier, tried, request, requests, crashes>>
  BY DEF EnqueueSelect, Unchanged
<1>5. TypeOK'
  BY <1>1, <1>2, <1>3, <1>4 DEF TypeOK
<1>6. OnlyCall(c)
  BY <1>1, <1>2, <1>3, <1>4 DEF OnlyCall, Unchanged, TypeOK
<1>7. CallAgrees(c)'
  <2>1. pc'[c] = "enqueuing"
    BY <1>1, <1>3 DEF TypeOK
  <2> QED
    BY <1>1, <1>2, <1>3, <1>4, <2>1
       DEF CallAgrees, RowExists, SessionOpen, PlaceAgrees, TriesAgree, Sessions, Writing, In
<1> QED
  BY <1>5, <1>6, <1>7, OthersAgree

(* Steps that read, or do not open a session at all.                       *)
LEMMA ReadingKeeps ==
  ASSUME OInv, NEW c \in Calls, NEW place \in Places, Goto(c, place), UNCHANGED <<job, queue, tried>>, Unchanged,
         tier' = tier \/ (tier' = [tier EXCEPT ![c] = @ + 1] /\ tier[c] <= Tiers),
         \/ UNCHANGED tx /\ place \notin Sessions /\ pc[c] \notin Sessions
         \/ (\E code \in ErrorCodes \cup {"none", "exhausted"} : Load(c, code)) /\ place \in Writing,
         job[c] # NoJob,
         PlaceAgrees(c)', TriesAgree(c)'
  PROVE  OInv'
<1>1. TypeOK /\ CallAgrees(c)
  BY DEF OInv
<1>2. /\ tx' \in [Calls -> Tx \cup {NoTx}]
      /\ \A d \in Calls \ {c} : tx'[d] = tx[d]
      /\ \/ UNCHANGED tx /\ place \notin Sessions /\ pc[c] \notin Sessions
         \/ tx'[c] # NoTx /\ tx'[c].queue = queue[Owner[c]] /\ place \in Writing
  BY <1>1, Loading DEF TypeOK
<1>3. pc' = [pc EXCEPT ![c] = place] /\ pc' \in [Calls -> Places] /\ pc'[c] = place
  BY <1>1 DEF Goto, TypeOK
<1>4. tier' \in [Calls -> 1 .. Tiers + 1] /\ \A d \in Calls \ {c} : tier'[d] = tier[d]
  BY <1>1, OrchestratorAssumption DEF TypeOK
<1>5. TypeOK'
  BY <1>1, <1>2, <1>3, <1>4 DEF TypeOK, Unchanged
<1>6. OnlyCall(c)
  BY <1>1, <1>2, <1>3, <1>4 DEF OnlyCall, Unchanged, TypeOK
<1>7. RowExists(c)' /\ SessionOpen(c)'
  BY <1>1, <1>2, <1>3 DEF CallAgrees, RowExists, SessionOpen, Sessions
<1> QED
  BY <1>5, <1>6, <1>7, OthersAgree DEF CallAgrees

LEMMA StartSelectKeeps ==
  ASSUME OInv, NEW c \in Calls, StartSelect(c)
  PROVE  OInv'
<1>1. TypeOK /\ CallAgrees(c)
  BY DEF OInv
<1>2. Goto(c, "waiting") /\ "waiting" \in Places /\ pc'[c] = "waiting" /\ job[c] # NoJob
  BY <1>1 DEF StartSelect, Goto, Places, TypeOK, In
<1>3. PlaceAgrees(c)' /\ TriesAgree(c)'
  BY <1>1, <1>2 DEF StartSelect, CallAgrees, PlaceAgrees, TriesAgree, In
<1> QED
  BY <1>2, <1>3, ReadingKeeps DEF StartSelect, Sessions, Writing

LEMMA SkipTierKeeps ==
  ASSUME OInv, NEW c \in Calls, SkipTier(c)
  PROVE  OInv'
<1>1. TypeOK /\ CallAgrees(c)
  BY DEF OInv
<1>2. Goto(c, "next") /\ "next" \in Places /\ pc'[c] = "next" /\ job[c] # NoJob
  BY <1>1 DEF SkipTier, Goto, Places, TypeOK, In, CallAgrees, PlaceAgrees
<1>3. PlaceAgrees(c)' /\ TriesAgree(c)'
  BY <1>1, <1>2, OrchestratorAssumption DEF SkipTier, CallAgrees, PlaceAgrees, TriesAgree, In, TypeOK
<1> QED
  BY <1>2, <1>3, ReadingKeeps DEF SkipTier, Sessions, Writing

LEMMA AcquireKeeps ==
  ASSUME OInv, NEW c \in Calls, Acquire(c)
  PROVE  OInv'
<1>1. TypeOK /\ CallAgrees(c)
  BY DEF OInv
<1>2. Goto(c, "starting") /\ "starting" \in Places /\ pc'[c] = "starting" /\ job[c] # NoJob
  BY <1>1 DEF Acquire, Goto, Places, TypeOK, In, CallAgrees, PlaceAgrees
<1>3. PlaceAgrees(c)' /\ TriesAgree(c)'
  BY <1>1, <1>2 DEF Acquire, CallAgrees, PlaceAgrees, TriesAgree, In
<1> QED
  BY <1>2, <1>3, ReadingKeeps DEF Acquire, Sessions, Writing

LEMMA AnswerKeeps ==
  ASSUME OInv, NEW c \in Calls, Answer(c)
  PROVE  OInv'
<1>1. TypeOK /\ CallAgrees(c) /\ job[c] # NoJob
  BY DEF OInv, Answer, CallAgrees, PlaceAgrees, In
<1>2. CASE In(c, {"running"})
  <2>1. Goto(c, "completing") /\ "completing" \in Places /\ pc'[c] = "completing" /\ Load(c, "none")
    BY <1>1, <1>2 DEF Answer, Goto, Places, TypeOK
  <2>2. PlaceAgrees(c)' /\ TriesAgree(c)'
    BY <1>1, <2>1 DEF Answer, CallAgrees, PlaceAgrees, TriesAgree, In
  <2> QED
    BY <1>1, <2>1, <2>2, ReadingKeeps DEF Answer, Writing
<1>3. CASE ~In(c, {"running"})
  <2>1. Goto(c, "returned") /\ "returned" \in Places /\ pc'[c] = "returned" /\ UNCHANGED tx
    BY <1>1, <1>3 DEF Answer, Goto, Places, Finished, TypeOK
  <2>2. PlaceAgrees(c)' /\ TriesAgree(c)'
    BY <1>1, <1>3, <2>1 DEF Answer, CallAgrees, PlaceAgrees, TriesAgree, In
  <2> QED
    BY <1>1, <2>1, <2>2, ReadingKeeps DEF Answer, Sessions, Writing
<1> QED
  BY <1>2, <1>3

LEMMA FailKeeps ==
  ASSUME OInv, NEW c \in Calls, NEW code \in Failures[c], Fail(c, code)
  PROVE  OInv'
<1>1. TypeOK /\ CallAgrees(c) /\ job[c] # NoJob
  BY DEF OInv, Fail, CallAgrees, PlaceAgrees, In
<1>2. CASE In(c, {"running"}) \/ (code # "rate_limit" /\ In(c, {"rate_limited"}))
  <2>1. Goto(c, "failing") /\ "failing" \in Places /\ pc'[c] = "failing" /\ Load(c, code) /\ UNCHANGED tier
    BY <1>1, <1>2 DEF Fail, Goto, Places, TypeOK
  <2>2. PlaceAgrees(c)' /\ TriesAgree(c)'
    BY <1>1, <2>1 DEF Fail, CallAgrees, PlaceAgrees, TriesAgree, In
  <2>3. code \in ErrorCodes
    BY OrchestratorAssumption
  <2> QED
    BY <1>1, <2>1, <2>2, <2>3, ReadingKeeps DEF Fail, Writing
<1>3. CASE ~(In(c, {"running"}) \/ (code # "rate_limit" /\ In(c, {"rate_limited"})))
  <2>1. Goto(c, "next") /\ "next" \in Places /\ pc'[c] = "next" /\ UNCHANGED tx /\ tier[c] <= Tiers
        /\ tier' = [tier EXCEPT ![c] = @ + 1]
    BY <1>1, <1>3 DEF Fail, Goto, Places, TypeOK, CallAgrees, TriesAgree
  <2>2. PlaceAgrees(c)' /\ TriesAgree(c)'
    BY <1>1, <1>3, <2>1, OrchestratorAssumption
       DEF Fail, CallAgrees, PlaceAgrees, TriesAgree, In, TypeOK, Status, Terminal, Active
  <2> QED
    BY <1>1, <2>1, <2>2, ReadingKeeps DEF Fail, Sessions, Writing
<1> QED
  BY <1>2, <1>3

LEMMA ExhaustKeeps ==
  ASSUME OInv, NEW c \in Calls, Exhaust(c)
  PROVE  OInv'
<1>1. TypeOK /\ CallAgrees(c) /\ job[c] # NoJob
  BY DEF OInv, Exhaust, CallAgrees, PlaceAgrees, In
<1>2. CASE In(c, {"running", "rate_limited"})
  <2>1. Goto(c, "exhausting") /\ "exhausting" \in Places /\ pc'[c] = "exhausting" /\ Load(c, "exhausted")
    BY <1>1, <1>2 DEF Exhaust, Goto, Places, TypeOK
  <2>2. PlaceAgrees(c)' /\ TriesAgree(c)'
    BY <1>1, <1>2, <2>1 DEF Exhaust, CallAgrees, PlaceAgrees, TriesAgree, In
  <2> QED
    BY <1>1, <2>1, <2>2, ReadingKeeps DEF Exhaust, Writing
<1>3. CASE ~In(c, {"running", "rate_limited"})
  <2>1. Goto(c, "failed") /\ "failed" \in Places /\ pc'[c] = "failed" /\ UNCHANGED tx
    BY <1>1, <1>3 DEF Exhaust, Goto, Places, Finished, TypeOK
  <2>2. PlaceAgrees(c)' /\ TriesAgree(c)'
    BY <1>1, <2>1 DEF Exhaust, CallAgrees, PlaceAgrees, TriesAgree, In
  <2> QED
    BY <1>1, <2>1, <2>2, ReadingKeeps DEF Exhaust, Sessions, Writing
<1> QED
  BY <1>2, <1>3

(* What the worker slot's column becomes: the row of a user stays a row.   *)
LEMMA Counting ==
  ASSUME TypeOK, NEW u \in Users, queue[u] # NoQueue, NEW seen \in Queue, NEW n \in Nat
  PROVE  /\ Idler(u, seen, n) \in [Users -> Queue \cup {NoQueue}]
         /\ Busier(u, seen) \in [Users -> Queue \cup {NoQueue}]
         /\ \A v \in Users : Idler(u, seen, n)[v] = NoQueue <=> queue[v] = NoQueue
         /\ \A v \in Users : Busier(u, seen)[v] = NoQueue <=> queue[v] = NoQueue
         /\ \A v \in Users : queue[v] # NoQueue =>
              Idler(u, seen, n)[v].paused = queue[v].paused /\ Busier(u, seen)[v].paused = queue[v].paused
<1>1. queue[u] \in Queue /\ seen.active \in Nat
  BY DEF TypeOK, Queue
<1> DEFINE fewer == IF seen.active < n THEN 0 ELSE seen.active - n
<1>2. fewer \in Nat /\ seen.active + 1 \in Nat
  BY <1>1
<1>3. ASSUME NEW k \in Nat, NEW q, q = [queue EXCEPT ![u].active = k]
      PROVE  /\ q \in [Users -> Queue \cup {NoQueue}]
             /\ \A v \in Users : q[v] = NoQueue <=> queue[v] = NoQueue
             /\ \A v \in Users : queue[v] # NoQueue => q[v].paused = queue[v].paused
  <2>1. [queue[u] EXCEPT !.active = k] \in Queue /\ [queue[u] EXCEPT !.active = k].paused = queue[u].paused
    BY <1>1 DEF Queue
  <2>2. q = [queue EXCEPT ![u] = [queue[u] EXCEPT !.active = k]]
    BY <1>3
  <2>3. [queue[u] EXCEPT !.active = k] # NoQueue
    BY <2>1, NullAssumption
  <2>4. q \in [Users -> Queue \cup {NoQueue}]
    BY <2>1, <2>2 DEF TypeOK
  <2>5. q[u] = [queue[u] EXCEPT !.active = k] /\ \A v \in Users \ {u} : q[v] = queue[v]
    BY <2>2 DEF TypeOK
  <2> QED
    BY <2>1, <2>3, <2>4, <2>5
<1>4. Idler(u, seen, n) = [queue EXCEPT ![u].active = fewer]
  BY DEF Idler
<1>5. Busier(u, seen) = [queue EXCEPT ![u].active = seen.active + 1]
  BY DEF Busier
<1> HIDE DEF fewer
<1> QED
  BY <1>2, <1>3, <1>4, <1>5

(* What a count of workers leaves as it is: which rows exist, and whether  *)
(* they are paused.                                                        *)
RowsKept(q) ==
  /\ q \in [Users -> Queue \cup {NoQueue}]
  /\ \A u \in Users : q[u] = NoQueue <=> queue[u] = NoQueue
  /\ \A u \in Users : queue[u] # NoQueue => q[u].paused = queue[u].paused

(* A worker less, or one more, as the sessions of an attempt write it.     *)
LEMMA CountingKeepsRows ==
  ASSUME TypeOK, NEW u \in Users, queue[u] # NoQueue, NEW seen \in Queue
  PROVE  RowsKept(Idler(u, seen, 1)) /\ RowsKept(Busier(u, seen))
<1> DEFINE less == Idler(u, seen, 1)
           more == Busier(u, seen)
<1>1. 1 \in Nat
  OBVIOUS
<1>2. /\ less \in [Users -> Queue \cup {NoQueue}]
      /\ more \in [Users -> Queue \cup {NoQueue}]
  BY <1>1, Counting
<1>3. /\ \A v \in Users : less[v] = NoQueue <=> queue[v] = NoQueue
      /\ \A v \in Users : more[v] = NoQueue <=> queue[v] = NoQueue
  BY <1>1, Counting
<1>4. \A v \in Users : queue[v] # NoQueue =>
        less[v].paused = queue[v].paused /\ more[v].paused = queue[v].paused
  BY <1>1, Counting
<1> HIDE DEF less, more
<1>5. RowsKept(less) /\ RowsKept(more)
  BY <1>2, <1>3, <1>4 DEF RowsKept
<1> QED
  BY <1>5 DEF less, more

(* Steps that commit a session of a call.                                  *)
LEMMA CommitKeeps ==
  ASSUME OInv, NEW c \in Calls, NEW place \in Places \ Sessions, Goto(c, place), CloseSession(c), Unchanged,
         job' \in [Calls -> Job \cup {NoJob}],
         \A d \in Calls \ {c} : job'[d] = job[d],
         job'[c] = job[c] \/ job[c] = NoJob \/ (job'[c] # NoJob /\ ~In(c, {"pending", "failed"})),
         queue' \in [Users -> Queue \cup {NoQueue}],
         \A u \in Users : queue[u] # NoQueue => queue'[u] # NoQueue,
         job'[c] # NoJob => queue'[Owner[c]] # NoQueue,
         tier' = tier \/ (tier' = [tier EXCEPT ![c] = @ + 1] /\ tier[c] <= Tiers),
         tried' = tried \/ (tried' = [tried EXCEPT ![c] = @ + 1] /\ tried[c] < Tiers),
         PlaceAgrees(c)', TriesAgree(c)'
  PROVE  OInv'
<1>1. TypeOK /\ CallAgrees(c)
  BY DEF OInv
<1>2. /\ tx' \in [Calls -> Tx \cup {NoTx}] /\ tx'[c] = NoTx
      /\ \A d \in Calls \ {c} : tx'[d] = tx[d]
  BY <1>1 DEF TypeOK, CloseSession
<1>3. pc' = [pc EXCEPT ![c] = place] /\ pc' \in [Calls -> Places] /\ pc'[c] = place
  BY <1>1 DEF Goto, TypeOK
<1>4. tier' \in [Calls -> 1 .. Tiers + 1] /\ \A d \in Calls \ {c} : tier'[d] = tier[d]
  BY <1>1, OrchestratorAssumption DEF TypeOK
<1>5. tried' \in [Calls -> 0 .. Tiers] /\ \A d \in Calls \ {c} : tried'[d] = tried[d]
  BY <1>1, OrchestratorAssumption DEF TypeOK
<1>6. TypeOK'
  BY <1>1, <1>2, <1>3, <1>4, <1>5 DEF TypeOK, Unchanged
<1>7. OnlyCall(c)
  BY <1>1, <1>2, <1>3, <1>4, <1>5 DEF OnlyCall, TypeOK
<1>8. RowExists(c)' /\ SessionOpen(c)'
  BY <1>2, <1>3 DEF RowExists, SessionOpen, Sessions
<1> QED
  BY <1>6, <1>7, <1>8, OthersAgree DEF CallAgrees

LEMMA EnqueueCommitKeeps ==
  ASSUME OInv, NEW c \in Calls, EnqueueCommit(c)
  PROVE  OInv'
<1>1. TypeOK /\ CallAgrees(c) /\ tx[c] \in Tx /\ job[c] = NoJob /\ Owner[c] \in Users
      /\ tier[c] = 1 /\ tried[c] < tier[c]
  BY OrchestratorAssumption
     DEF OInv, EnqueueCommit, CallAgrees, PlaceAgrees, SessionOpen, TriesAgree, Sessions, TypeOK
<1>2. CloseSession(c) /\ Unchanged /\ UNCHANGED <<tier, tried>>
  BY DEF EnqueueCommit
<1>3. CASE Inserts(Owner[c], tx[c].queue) /\ Unique(Enqueued(c))
  <2>1. Goto(c, "next") /\ "next" \in Places \ Sessions /\ pc'[c] = "next" /\ job' = Enqueued(c)
        /\ queue' = IF tx[c].queue = NoQueue THEN [queue EXCEPT ![Owner[c]] = NewQueue] ELSE queue
    BY <1>1, <1>3 DEF EnqueueCommit, Goto, Places, Sessions, Writing, TypeOK
  <2> DEFINE new == [status |-> IF Row(tx[c].queue).paused THEN "pending" ELSE "queued", retries |-> 0]
  <2>2. new \in Job /\ new.status \in {"pending", "queued"}
    BY DEF Job, Status, Active
  <2>3. job' = [job EXCEPT ![c] = new]
    BY <2>1 DEF Enqueued
  <2>4. new # NoJob
    BY <2>2, NullAssumption
  <2> HIDE DEF new
  <2>5. job' \in [Calls -> Job \cup {NoJob}] /\ job'[c] = new /\ \A d \in Calls \ {c} : job'[d] = job[d]
    BY <1>1, <2>2, <2>3 DEF TypeOK
  <2>6. NewQueue \in Queue /\ NewQueue # NoQueue
    <3>1. NewQueue \in Queue
      BY DEF NewQueue, Queue
    <3> QED
      BY <3>1, NullAssumption
  <2>7. queue' \in [Users -> Queue \cup {NoQueue}] /\ (\A u \in Users : queue[u] # NoQueue => queue'[u] # NoQueue)
    BY <1>1, <2>1, <2>6 DEF TypeOK
  <2>8. queue'[Owner[c]] # NoQueue
    BY <1>1, <2>1, <2>6 DEF TypeOK, CallAgrees, RowExists, SessionOpen, Sessions, EnqueueCommit
  <2>9. PlaceAgrees(c)'
    BY <2>1, <2>2, <2>4, <2>5 DEF PlaceAgrees, In, Status, Active, Terminal
  <2>10. TriesAgree(c)'
    BY <1>1, <1>2, <2>1 DEF TriesAgree
  <2> QED
    BY <1>1, <1>2, <2>1, <2>5, <2>7, <2>8, <2>9, <2>10, CommitKeeps
<1>4. CASE ~(Inserts(Owner[c], tx[c].queue) /\ Unique(Enqueued(c)))
  <2>1. Goto(c, "raised") /\ "raised" \in Places \ Sessions /\ pc'[c] = "raised" /\ UNCHANGED <<job, queue>>
    BY <1>1, <1>4 DEF EnqueueCommit, Goto, Places, Finished, Sessions, Writing, TypeOK
  <2>2. PlaceAgrees(c)' /\ TriesAgree(c)'
    BY <1>1, <1>2, <2>1 DEF PlaceAgrees, TriesAgree, In
  <2> QED
    BY <1>1, <1>2, <2>1, <2>2, CommitKeeps DEF TypeOK, CallAgrees, RowExists
<1> QED
  BY <1>3, <1>4

(* The row a worker's session read, and the job it is about.               *)
LEMMA Worker ==
  ASSUME OInv, NEW c \in Calls, pc[c] \in Writing
  PROVE  /\ tx[c] \in Tx /\ tx[c].queue \in Queue /\ tx[c].retries \in Nat
         /\ Owner[c] \in Users /\ queue[Owner[c]] # NoQueue
         /\ job[c] # NoJob /\ job[c] \in Job
         /\ ~In(c, {"pending", "failed", "completed"})
<1>1. TypeOK /\ CallAgrees(c) /\ Owner[c] \in Users
  BY OrchestratorAssumption DEF OInv
<1>2. tx[c] \in Tx /\ tx[c].queue # NoQueue
  BY <1>1 DEF CallAgrees, SessionOpen, Sessions, TypeOK
<1>3. tx[c].queue \in Queue /\ tx[c].retries \in Nat
  BY <1>2 DEF Tx
<1>4. job[c] # NoJob /\ ~In(c, {"pending", "failed", "completed"})
  BY <1>1 DEF CallAgrees, PlaceAgrees, In, Writing
<1>5. queue[Owner[c]] # NoQueue
  BY <1>1, <1>4 DEF CallAgrees, RowExists
<1> QED
  BY <1>1, <1>2, <1>3, <1>4, <1>5 DEF TypeOK

(* A status written alone keeps the retry count of the row.                *)
LEMMA StatusWritten ==
  ASSUME TypeOK, NEW c \in Calls, job[c] # NoJob, NEW s \in Status,
         job' = [job EXCEPT ![c].status = s]
  PROVE  /\ job' \in [Calls -> Job \cup {NoJob}]
         /\ job'[c] # NoJob /\ job'[c].status = s /\ job'[c].retries = job[c].retries
         /\ \A d \in Calls \ {c} : job'[d] = job[d]
<1>1. job[c] \in Job
  BY DEF TypeOK
<1> DEFINE j == [job[c] EXCEPT !.status = s]
<1>2. j \in Job /\ j.status = s /\ j.retries = job[c].retries
  BY <1>1 DEF Job
<1>3. job' = [job EXCEPT ![c] = j]
  OBVIOUS
<1>4. j # NoJob
  BY <1>2, NullAssumption
<1> HIDE DEF j
<1> QED
  BY <1>2, <1>3, <1>4 DEF TypeOK

LEMMA StartCommitKeeps ==
  ASSUME OInv, NEW c \in Calls, StartCommit(c)
  PROVE  OInv'
<1>1. TypeOK /\ CallAgrees(c) /\ pc[c] = "starting"
  BY DEF OInv, StartCommit
<1>2. /\ tx[c].queue \in Queue /\ Owner[c] \in Users /\ queue[Owner[c]] # NoQueue
      /\ job[c] # NoJob /\ ~In(c, {"pending", "failed"})
  BY <1>1, Worker DEF Writing, In
<1>3. CloseSession(c) /\ Unchanged /\ UNCHANGED tier
  BY DEF StartCommit
<1>4. CASE Unique(Started(c))
  <2>1. /\ Goto(c, "calling") /\ "calling" \in Places \ Sessions /\ pc'[c] = "calling"
        /\ job' = [job EXCEPT ![c].status = "running"] /\ "running" \in Status
        /\ queue' = Busier(Owner[c], tx[c].queue)
        /\ tried' = [tried EXCEPT ![c] = @ + 1] /\ tried[c] < tier[c] /\ tier[c] <= Tiers
    BY <1>1, <1>4 DEF StartCommit, Started, Goto, Places, Sessions, Writing, Status, Active, TypeOK,
                      CallAgrees, TriesAgree
  <2>2. /\ job' \in [Calls -> Job \cup {NoJob}] /\ job'[c] # NoJob /\ job'[c].status = "running"
        /\ \A d \in Calls \ {c} : job'[d] = job[d]
    BY <1>1, <1>2, <2>1, StatusWritten
  <2>3. queue' \in [Users -> Queue \cup {NoQueue}] /\ \A u \in Users : queue'[u] = NoQueue <=> queue[u] = NoQueue
    BY <1>1, <1>2, <2>1, Counting
  <2>4. tried[c] < Tiers /\ tried'[c] = tried[c] + 1
    BY <1>1, <2>1, OrchestratorAssumption DEF TypeOK
  <2>5. PlaceAgrees(c)'
    BY <2>1, <2>2 DEF PlaceAgrees, In
  <2>6. TriesAgree(c)'
    BY <1>1, <1>3, <2>1, <2>4, OrchestratorAssumption DEF TriesAgree, TypeOK
  <2> QED
    BY <1>2, <1>3, <2>1, <2>2, <2>3, <2>4, <2>5, <2>6, CommitKeeps
<1>5. CASE ~Unique(Started(c))
  <2>1. Goto(c, "raised") /\ "raised" \in Places \ Sessions /\ pc'[c] = "raised" /\ UNCHANGED <<job, queue, tried>>
    BY <1>1, <1>5 DEF StartCommit, Goto, Places, Finished, Sessions, Writing, TypeOK
  <2>2. PlaceAgrees(c)' /\ TriesAgree(c)'
    BY <1>1, <1>3, <2>1 DEF CallAgrees, PlaceAgrees, TriesAgree, In
  <2> QED
    BY <1>1, <1>2, <1>3, <2>1, <2>2, CommitKeeps DEF TypeOK
<1> QED
  BY <1>4, <1>5

LEMMA CompleteCommitKeeps ==
  ASSUME OInv, NEW c \in Calls, CompleteCommit(c)
  PROVE  OInv'
<1>1. TypeOK /\ pc[c] = "completing"
  BY DEF OInv, CompleteCommit
<1>2. /\ tx[c].queue \in Queue /\ Owner[c] \in Users /\ queue[Owner[c]] # NoQueue
      /\ job[c] # NoJob /\ ~In(c, {"pending", "failed"})
  BY <1>1, Worker DEF Writing, In
<1>3. CloseSession(c) /\ Unchanged /\ UNCHANGED <<tier, tried>>
  BY DEF CompleteCommit
<1>4. /\ Goto(c, "returned") /\ "returned" \in Places \ Sessions /\ pc'[c] = "returned"
      /\ job' = [job EXCEPT ![c].status = "completed"] /\ "completed" \in Status
      /\ queue' = Idler(Owner[c], tx[c].queue, 1)
  BY <1>1 DEF CompleteCommit, Goto, Places, Finished, Sessions, Writing, Status, Terminal, TypeOK
<1>5. /\ job' \in [Calls -> Job \cup {NoJob}] /\ job'[c] # NoJob /\ job'[c].status = "completed"
      /\ \A d \in Calls \ {c} : job'[d] = job[d]
  BY <1>1, <1>2, <1>4, StatusWritten
<1>6. queue' \in [Users -> Queue \cup {NoQueue}] /\ \A u \in Users : queue'[u] = NoQueue <=> queue[u] = NoQueue
  BY <1>1, <1>2, <1>4, Counting
<1>7. PlaceAgrees(c)' /\ TriesAgree(c)'
  BY <1>4, <1>5 DEF PlaceAgrees, TriesAgree, In
<1> QED
  BY <1>2, <1>3, <1>4, <1>5, <1>6, <1>7, CommitKeeps

(* A failure recorded: the job waits for its retry or is failed.           *)
LEMMA FailureRecorded ==
  ASSUME OInv, NEW c \in Calls, pc[c] \in Writing, NEW retry \in BOOLEAN, RecordFailure(c, retry)
  PROVE  /\ job' \in [Calls -> Job \cup {NoJob}]
         /\ job'[c] # NoJob /\ job'[c].status \in {"retrying", "failed"}
         /\ job'[c].retries = tx[c].retries + 1
         /\ job'[c].status = "retrying" <=> retry /\ tx[c].retries + 1 < MaxRetries
         /\ \A d \in Calls \ {c} : job'[d] = job[d]
         /\ queue' \in [Users -> Queue \cup {NoQueue}]
         /\ \A u \in Users : queue'[u] = NoQueue <=> queue[u] = NoQueue
         /\ \A u \in Users : queue[u] # NoQueue => queue'[u].paused = queue[u].paused
<1>1. TypeOK /\ tx[c].queue \in Queue /\ tx[c].retries \in Nat /\ Owner[c] \in Users /\ queue[Owner[c]] # NoQueue
  BY Worker DEF OInv
<1> DEFINE again == retry /\ tx[c].retries + 1 < MaxRetries
           j == [status |-> IF again THEN "retrying" ELSE "failed", retries |-> tx[c].retries + 1]
<1>2. j \in Job /\ j.status \in {"retrying", "failed"} /\ j.retries = tx[c].retries + 1
      /\ (j.status = "retrying" <=> again)
  BY <1>1 DEF Job, Status, Active, Terminal
<1>3. j # NoJob
  BY <1>2, NullAssumption
<1>4. job' = [job EXCEPT ![c] = j] /\ (queue' = queue \/ queue' = Idler(Owner[c], tx[c].queue, 1))
  BY DEF RecordFailure
<1> HIDE DEF j
<1>5. /\ job' \in [Calls -> Job \cup {NoJob}] /\ job'[c] = j
      /\ \A d \in Calls \ {c} : job'[d] = job[d]
  BY <1>1, <1>2, <1>4 DEF TypeOK
<1>6. /\ queue' \in [Users -> Queue \cup {NoQueue}]
      /\ \A u \in Users : queue'[u] = NoQueue <=> queue[u] = NoQueue
      /\ \A u \in Users : queue[u] # NoQueue => queue'[u].paused = queue[u].paused
  <2>1. CASE queue' = queue
    BY <1>1, <2>1 DEF TypeOK
  <2>2. CASE queue' = Idler(Owner[c], tx[c].queue, 1)
    <3>1. RowsKept(queue')
      BY <1>1, <2>2, CountingKeepsRows, Zenon
    <3> QED
      BY <3>1 DEF RowsKept
  <2> QED
    BY <1>4, <2>1, <2>2
<1> QED
  BY <1>2, <1>3, <1>5, <1>6

LEMMA FailCommitKeeps ==
  ASSUME OInv, NEW c \in Calls, FailCommit(c)
  PROVE  OInv'
<1>1. TypeOK /\ CallAgrees(c) /\ pc[c] = "failing" /\ pc[c] \in Writing
  BY DEF OInv, FailCommit, Writing
<1>2. /\ tx[c].queue \in Queue /\ Owner[c] \in Users /\ queue[Owner[c]] # NoQueue
      /\ job[c] # NoJob /\ ~In(c, {"pending", "failed"})
  BY <1>1, Worker DEF In
<1>3. CloseSession(c) /\ Unchanged /\ UNCHANGED tried
  BY DEF FailCommit
<1>4. /\ Goto(c, "next") /\ "next" \in Places \ Sessions /\ pc'[c] = "next"
      /\ tier' = [tier EXCEPT ![c] = @ + 1] /\ tier'[c] = tier[c] + 1 /\ tier[c] <= Tiers /\ tried[c] <= tier[c]
  BY <1>1 DEF FailCommit, Goto, Places, Sessions, Writing, TypeOK, CallAgrees, TriesAgree
<1>5. /\ job' \in [Calls -> Job \cup {NoJob}] /\ job'[c] # NoJob
      /\ job'[c].status \in {"rate_limited", "retrying", "failed"}
      /\ \A d \in Calls \ {c} : job'[d] = job[d]
      /\ queue' \in [Users -> Queue \cup {NoQueue}]
      /\ \A u \in Users : queue'[u] = NoQueue <=> queue[u] = NoQueue
  <2>1. CASE tx[c].code = "rate_limit"
    <3>1. job' = [job EXCEPT ![c].status = "rate_limited"] /\ "rate_limited" \in Status
          /\ queue' = Idler(Owner[c], tx[c].queue, 1)
      BY <2>1 DEF FailCommit, Status, Active
    <3>2. /\ job' \in [Calls -> Job \cup {NoJob}] /\ job'[c] # NoJob /\ job'[c].status = "rate_limited"
          /\ \A d \in Calls \ {c} : job'[d] = job[d]
      BY <1>1, <1>2, <3>1, StatusWritten
    <3>3. queue' \in [Users -> Queue \cup {NoQueue}] /\ \A u \in Users : queue'[u] = NoQueue <=> queue[u] = NoQueue
      BY <1>1, <1>2, <3>1, Counting
    <3> QED
      BY <3>2, <3>3
  <2>2. CASE tx[c].code # "rate_limit"
    <3>1. RecordFailure(c, ShouldRetry(c)) /\ ShouldRetry(c) \in BOOLEAN
      BY <2>2 DEF FailCommit, ShouldRetry
    <3> QED
      BY <1>1, <3>1, FailureRecorded
  <2> QED
    BY <2>1, <2>2
<1>6. PlaceAgrees(c)'
  BY <1>4, <1>5 DEF PlaceAgrees, In, Status, Active, Terminal
<1>7. TriesAgree(c)'
  BY <1>1, <1>3, <1>4, OrchestratorAssumption DEF TriesAgree, TypeOK
<1> QED
  BY <1>2, <1>3, <1>4, <1>5, <1>6, <1>7, CommitKeeps

LEMMA ExhaustCommitKeeps ==
  ASSUME OInv, NEW c \in Calls, ExhaustCommit(c)
  PROVE  OInv'
<1>1. TypeOK /\ pc[c] \in Writing
  BY DEF OInv, ExhaustCommit, Writing
<1>2. /\ Owner[c] \in Users /\ queue[Owner[c]] # NoQueue /\ job[c] # NoJob /\ ~In(c, {"pending", "failed"})
  BY <1>1, Worker DEF In
<1>3. CloseSession(c) /\ Unchanged /\ UNCHANGED <<tier, tried>>
  BY DEF ExhaustCommit
<1>4. Goto(c, "failed") /\ "failed" \in Places \ Sessions /\ pc'[c] = "failed"
  BY <1>1 DEF ExhaustCommit, Goto, Places, Finished, Sessions, Writing, TypeOK
<1>5. /\ job' \in [Calls -> Job \cup {NoJob}] /\ job'[c] # NoJob /\ job'[c].status = "failed"
      /\ \A d \in Calls \ {c} : job'[d] = job[d]
      /\ queue' \in [Users -> Queue \cup {NoQueue}]
      /\ \A u \in Users : queue'[u] = NoQueue <=> queue[u] = NoQueue
  BY <1>1, FailureRecorded DEF ExhaustCommit
<1>6. PlaceAgrees(c)' /\ TriesAgree(c)'
  BY <1>4, <1>5 DEF PlaceAgrees, TriesAgree, In, Status, Active, Terminal
<1> QED
  BY <1>2, <1>3, <1>4, <1>5, <1>6, CommitKeeps

-----------------------------------------------------------------------------
(* Control requests and restarts                                           *)

LEMMA RowsLoaded ==
  ASSUME NEW u \in Users, NEW kind \in Kinds, NEW rows \in RowSets(kind, u)
  PROVE  /\ rows \subseteq Calls
         /\ \A c \in rows : Owner[c] = u /\ job[c] # NoJob
         /\ kind = "resume" => \A c \in rows : In(c, {"pending"})
         /\ kind \in {"retry", "retry_all"} => \A c \in rows : In(c, {"failed"})
         /\ kind \in {"status", "pause"} => rows = {}
<1>1. CASE kind \in {"status", "pause"}
  BY <1>1 DEF RowSets
<1>2. CASE kind = "resume"
  BY <1>2 DEF RowSets, JobsOf, In
<1>3. CASE kind = "cancel"
  BY <1>3 DEF RowSets, JobsOf, In
<1>4. CASE kind = "cancel_all"
  BY <1>4 DEF RowSets, JobsOf, In
<1>5. CASE kind = "retry"
  BY <1>5 DEF RowSets, JobsOf, In
<1>6. CASE kind = "retry_all"
  BY <1>6 DEF RowSets, JobsOf, In
<1> QED
  BY <1>1, <1>2, <1>3, <1>4, <1>5, <1>6 DEF Kinds

LEMMA RequestSelectKeeps ==
  ASSUME OInv, NEW u \in Users, NEW kind \in Controls, RequestSelect(u, kind)
  PROVE  OInv'
<1>1. TypeOK /\ kind \in Kinds
  BY OrchestratorAssumption DEF OInv
<1>2. PICK rows \in RowSets(kind, u) :
        request' = [kind |-> kind, user |-> u, rows |-> rows, queue |-> queue[u],
                    running |-> {c \in rows : In(c, {"running"})}]
  BY DEF RequestSelect
<1>3. UNCHANGED <<job, queue, pc, tier, tx, tried, crashes>> /\ requests' \in 0 .. MaxRequests
  BY <1>1, OrchestratorAssumption DEF RequestSelect, TypeOK
<1>4. /\ rows \subseteq Calls
      /\ \A c \in rows : Owner[c] = u /\ job[c] # NoJob
      /\ kind = "resume" => \A c \in rows : In(c, {"pending"})
      /\ kind \in {"retry", "retry_all"} => \A c \in rows : In(c, {"failed"})
      /\ kind \in {"status", "pause"} => rows = {}
  BY <1>1, RowsLoaded
<1>5. request' \in Request
  BY <1>1, <1>2, <1>4 DEF Request, TypeOK
<1>6. TypeOK'
  BY <1>1, <1>3, <1>5 DEF TypeOK
<1>7. \A c \in Calls : CallAgrees(c)'
  BY <1>3 DEF OInv, CallAgrees, RowExists, SessionOpen, PlaceAgrees, TriesAgree, In
<1>8. RequestAgrees'
  <2>1. \A c \in rows : queue[u] # NoQueue
    BY <1>4 DEF OInv, CallAgrees, RowExists
  <2> QED
    BY <1>2, <1>3, <1>4, <2>1 DEF RequestAgrees, In
<1> QED
  BY <1>6, <1>7, <1>8 DEF OInv

(* What a request does to a job: only the rows it loaded change, from the  *)
(* status it loaded them in, or to cancelled.                              *)
LEMMA JobsWritten ==
  ASSUME OInv, request # NoRequest, NEW c \in Calls
  PROVE  /\ JobsAfter[c] \in Job \cup {NoJob}
         /\ job[c] = NoJob <=> JobsAfter[c] = NoJob
         /\ \/ JobsAfter[c] = job[c]
            \/ In(c, {"pending", "failed"}) /\ JobsAfter[c].status = "queued"
            \/ JobsAfter[c].status = "cancelled" /\ request.kind \in {"cancel", "cancel_all"}
<1>1. TypeOK /\ request \in Request /\ RequestAgrees
  BY DEF OInv, TypeOK
<1>2. CASE c \notin request.rows
  <2>1. Cancelled \subseteq request.rows
    BY DEF Cancelled
  <2>2. JobsAfter[c] = job[c]
    BY <1>2, <2>1 DEF JobsAfter
  <2> QED
    BY <1>1, <2>2, NullAssumption DEF TypeOK
<1>3. CASE c \in request.rows
  <2>1. job[c] \in Job
    BY <1>1, <1>3 DEF RequestAgrees, TypeOK
  <2>2. CASE request.kind = "resume"
    <3>1. JobsAfter[c] = [job[c] EXCEPT !.status = "queued"] /\ In(c, {"pending"})
      BY <1>1, <1>3, <2>2 DEF JobsAfter, RequestAgrees
    <3> QED
      BY <2>1, <3>1, NullAssumption DEF Job, Status, Active, In
  <2>3. CASE request.kind \in {"retry", "retry_all"}
    <3>1. JobsAfter[c] = [status |-> "queued", retries |-> 0] /\ In(c, {"failed"})
      BY <1>1, <1>3, <2>3 DEF JobsAfter, RequestAgrees
    <3>2. JobsAfter[c] \in Job /\ JobsAfter[c].status = "queued"
      BY <3>1 DEF Job, Status, Active
    <3> QED
      BY <2>1, <3>1, <3>2, NullAssumption DEF In
  <2>4. CASE request.kind \in {"cancel", "cancel_all"}
    <3>1. JobsAfter[c] = job[c] \/ JobsAfter[c] = [job[c] EXCEPT !.status = "cancelled"]
      BY <2>4 DEF JobsAfter
    <3> QED
      BY <2>1, <2>4, <3>1, NullAssumption DEF Job, Status, Terminal
  <2>5. CASE request.kind \in {"status", "pause"}
    BY <1>1, <1>3, <2>5 DEF RequestAgrees
  <2> QED
    BY <1>1, <2>2, <2>3, <2>4, <2>5 DEF Request, Kinds
<1> QED
  BY <1>2, <1>3

LEMMA QueueWritten ==
  ASSUME OInv, request # NoRequest
  PROVE  /\ QueueAfter \in [Users -> Queue \cup {NoQueue}]
         /\ \A u \in Users : queue[u] # NoQueue => QueueAfter[u] # NoQueue
<1>1. TypeOK /\ request \in Request /\ RequestAgrees
  BY DEF OInv, TypeOK
<1> DEFINE u == request.user
<1>2. u \in Users /\ request.rows \subseteq Calls /\ request.kind \in Kinds
  BY <1>1 DEF Request
<1>3. NewQueue \in Queue
  BY DEF NewQueue, Queue
<1>4. ASSUME NEW row \in Queue, QueueAfter = [queue EXCEPT ![u] = row]
      PROVE  /\ QueueAfter \in [Users -> Queue \cup {NoQueue}]
             /\ \A v \in Users : queue[v] # NoQueue => QueueAfter[v] # NoQueue
  <2>1. row # NoQueue
    BY NullAssumption
  <2> QED
    BY <1>1, <1>2, <1>4, <2>1 DEF TypeOK
<1>5. CASE request.kind \in {"retry", "retry_all"}
  BY <1>1, <1>5 DEF QueueAfter, TypeOK
<1>6. CASE request.kind = "status"
  <2>1. QueueAfter = [queue EXCEPT ![u] = IF queue[u] = NoQueue THEN NewQueue ELSE queue[u]]
    BY <1>6 DEF QueueAfter
  <2>2. (IF queue[u] = NoQueue THEN NewQueue ELSE queue[u]) \in Queue
    BY <1>1, <1>2, <1>3 DEF TypeOK
  <2> QED
    BY <1>4, <2>1, <2>2
<1>7. CASE request.kind = "pause"
  <2> DEFINE row == IF queue[u] = NoQueue THEN [NewQueue EXCEPT !.paused = TRUE]
                    ELSE [queue[u] EXCEPT !.paused = TRUE]
  <2>1. QueueAfter = [queue EXCEPT ![u] = row]
    BY <1>7 DEF QueueAfter
  <2>2. row \in Queue
    BY <1>1, <1>2, <1>3 DEF TypeOK, Queue
  <2> QED
    BY <1>4, <2>1, <2>2
<1>8. CASE request.kind = "resume"
  <2> DEFINE row == IF queue[u] = NoQueue THEN NewQueue ELSE [queue[u] EXCEPT !.paused = FALSE]
  <2>1. QueueAfter = [queue EXCEPT ![u] = row]
    BY <1>8 DEF QueueAfter
  <2>2. row \in Queue
    BY <1>1, <1>2, <1>3 DEF TypeOK, Queue
  <2> QED
    BY <1>4, <2>1, <2>2
<1>9. CASE request.kind \in {"cancel", "cancel_all"}
  <2> DEFINE freed == Cancelled \cap request.running
             released == Cardinality(freed)
  <2>1. IsFiniteSet(freed) /\ freed \subseteq request.rows
    <3>1. freed \subseteq request.rows
      BY DEF Cancelled
    <3> QED
      BY <1>2, <3>1, FS_Subset, OrchestratorAssumption
  <2>2. released \in Nat
    BY <2>1, FS_CardinalityType
  <2>3. CASE released = 0
    <3>1. QueueAfter = queue
      BY <1>9, <2>3 DEF QueueAfter
    <3> QED
      BY <1>1, <3>1 DEF TypeOK
  <2>4. CASE released # 0
    <3>1. request.rows # {}
      BY <2>1, <2>4, FS_EmptySet
    <3>2. request.queue \in Queue /\ queue[u] # NoQueue
      BY <1>1, <3>1 DEF RequestAgrees, Request
    <3> DEFINE q == Idler(u, request.queue, released)
    <3>3. QueueAfter = q
      BY <1>9, <2>4 DEF QueueAfter
    <3>4. q \in [Users -> Queue \cup {NoQueue}] /\ \A v \in Users : q[v] = NoQueue <=> queue[v] = NoQueue
      <4> HIDE DEF released
      <4> QED
        BY <1>1, <1>2, <2>2, <3>2, Counting
    <3> HIDE DEF q
    <3> QED
      BY <3>3, <3>4
  <2> QED
    BY <2>3, <2>4
<1> QED
  BY <1>2, <1>5, <1>6, <1>7, <1>8, <1>9 DEF Kinds

LEMMA RequestCommitKeeps ==
  ASSUME OInv, RequestCommit
  PROVE  OInv'
<1>1. TypeOK /\ \A c \in Calls : CallAgrees(c)
  BY DEF OInv
<1>2. request # NoRequest /\ request' = NoRequest /\ UNCHANGED <<pc, tier, tx, tried, requests, crashes>>
      /\ (UNCHANGED <<job, queue>> \/ (job' = JobsAfter /\ queue' = QueueAfter))
  BY DEF RequestCommit
<1>3. RequestAgrees'
  BY <1>2 DEF RequestAgrees
<1>4. CASE UNCHANGED <<job, queue>>
  <2>1. TypeOK'
    BY <1>1, <1>2, <1>4 DEF TypeOK
  <2>2. \A c \in Calls : CallAgrees(c)'
    BY <1>1, <1>2, <1>4 DEF CallAgrees, RowExists, SessionOpen, PlaceAgrees, TriesAgree, In
  <2> QED
    BY <1>3, <2>1, <2>2 DEF OInv
<1>5. CASE job' = JobsAfter /\ queue' = QueueAfter
  <2>1. queue' \in [Users -> Queue \cup {NoQueue}] /\ \A u \in Users : queue[u] # NoQueue => queue'[u] # NoQueue
    BY <1>2, <1>5, QueueWritten
  <2>2. \A c \in Calls :
          /\ job'[c] \in Job \cup {NoJob}
          /\ job[c] = NoJob <=> job'[c] = NoJob
          /\ \/ job'[c] = job[c]
             \/ In(c, {"pending", "failed"}) /\ job'[c].status = "queued"
             \/ job'[c].status = "cancelled"
    BY <1>2, <1>5, JobsWritten
  <2>3. job' \in [Calls -> Job \cup {NoJob}]
    BY <1>5, <2>2 DEF JobsAfter
  <2>4. TypeOK'
    BY <1>1, <1>2, <2>1, <2>3 DEF TypeOK
  <2>5. ASSUME NEW c \in Calls PROVE CallAgrees(c)'
    <3>1. CallAgrees(c) /\ Owner[c] \in Users /\ pc[c] \in Places
      BY <1>1, OrchestratorAssumption DEF TypeOK
    <3>2. RowExists(c)' /\ SessionOpen(c)' /\ TriesAgree(c)'
      BY <1>2, <2>1, <2>2, <3>1 DEF CallAgrees, RowExists, SessionOpen, TriesAgree
    <3>3. CASE job'[c] = job[c]
      BY <1>2, <3>1, <3>2, <3>3 DEF CallAgrees, PlaceAgrees, In
    <3>4. CASE job[c] # NoJob /\ job'[c] # NoJob /\ job'[c].status = "cancelled"
      <4>1. PlaceAgrees(c)'
        BY <1>2, <3>1, <3>4 DEF CallAgrees, PlaceAgrees, In, Status, Terminal, Active
      <4> QED
        BY <3>2, <4>1 DEF CallAgrees
    <3>5. CASE In(c, {"pending", "failed"}) /\ job'[c] # NoJob /\ job'[c].status = "queued"
      <4>1. pc[c] \in {"next", "failed", "lost"}
        BY <3>1, <3>5 DEF CallAgrees, PlaceAgrees, In, Places, Finished
      <4>2. PlaceAgrees(c)'
        BY <1>2, <3>5, <4>1 DEF PlaceAgrees, In, Status, Terminal, Active
      <4> QED
        BY <3>2, <4>2 DEF CallAgrees
    <3>6. job[c] = NoJob => job'[c] = job[c]
      BY <2>2
    <3> QED
      BY <2>2, <3>3, <3>4, <3>5, <3>6 DEF In
  <2> QED
    BY <1>3, <2>4, <2>5 DEF OInv
<1> QED
  BY <1>2, <1>4, <1>5

LEMMA CrashKeeps ==
  ASSUME OInv, Crash
  PROVE  OInv'
<1>1. TypeOK /\ \A c \in Calls : CallAgrees(c)
  BY DEF OInv
<1>2. /\ request' = NoRequest /\ UNCHANGED <<job, queue, tier, tried, requests>>
      /\ tx' = [c \in Calls |-> NoTx]
      /\ pc' = [c \in Calls |-> IF pc[c] \in Finished \cup {"idle"} THEN pc[c] ELSE "lost"]
  BY DEF Crash
<1>3. TypeOK'
  <2>1. crashes' \in 0 .. MaxCrashes
    BY <1>1, OrchestratorAssumption DEF Crash, TypeOK
  <2>2. pc' \in [Calls -> Places]
    BY <1>1, <1>2 DEF TypeOK, Places, Finished
  <2> QED
    BY <1>1, <1>2, <2>1, <2>2 DEF TypeOK
<1>4. ASSUME NEW c \in Calls PROVE CallAgrees(c)'
  <2>1. CallAgrees(c) /\ pc[c] \in Places
    BY <1>1 DEF TypeOK
  <2>2. tx'[c] = NoTx /\ pc'[c] = IF pc[c] \in Finished \cup {"idle"} THEN pc[c] ELSE "lost"
    BY <1>2
  <2>3. RowExists(c)' /\ SessionOpen(c)' /\ TriesAgree(c)'
    BY <1>2, <2>1, <2>2
       DEF CallAgrees, RowExists, SessionOpen, TriesAgree, Finished, Sessions, Writing
  <2>4. PlaceAgrees(c)'
    <3>1. CASE pc[c] \in Finished \cup {"idle"}
      BY <1>2, <2>1, <2>2, <3>1 DEF CallAgrees, PlaceAgrees, In
    <3>2. CASE pc[c] \notin Finished \cup {"idle"}
      BY <1>2, <2>1, <2>2, <3>2 DEF CallAgrees, PlaceAgrees, In, Places, Finished
    <3> QED
      BY <3>1, <3>2
  <2> QED
    BY <2>3, <2>4 DEF CallAgrees
<1>5. RequestAgrees'
  BY <1>2 DEF RequestAgrees
<1> QED
  BY <1>3, <1>4, <1>5 DEF OInv

LEMMA InitialOInv == Init => OInv
<1> SUFFICES ASSUME Init PROVE OInv
  OBVIOUS
<1>1. TypeOK
  BY OrchestratorAssumption DEF Init, TypeOK, Places
<1>2. \A c \in Calls : CallAgrees(c)
  BY DEF Init, CallAgrees, RowExists, SessionOpen, PlaceAgrees, TriesAgree, Sessions, Writing, In
<1>3. RequestAgrees
  BY DEF Init, RequestAgrees
<1> QED
  BY <1>1, <1>2, <1>3 DEF OInv

LEMMA OInvInductive == OInv /\ [Next]_vars => OInv'
<1> SUFFICES ASSUME OInv, [Next]_vars PROVE OInv'
  OBVIOUS
<1>1. ASSUME NEW c \in Calls, Execute(c) PROVE OInv'
  BY <1>1, EnqueueSelectKeeps, EnqueueCommitKeeps, StartSelectKeeps, SkipTierKeeps, AcquireKeeps,
     StartCommitKeeps, AnswerKeeps, CompleteCommitKeeps, FailKeeps, FailCommitKeeps, ExhaustKeeps,
     ExhaustCommitKeeps DEF Execute
<1>2. ASSUME NEW u \in Users, NEW kind \in Controls, RequestSelect(u, kind) PROVE OInv'
  BY <1>2, RequestSelectKeeps
<1>3. CASE RequestCommit
  BY <1>3, RequestCommitKeeps
<1>4. CASE Crash
  BY <1>4, CrashKeeps
<1>5. CASE UNCHANGED vars
  <2>1. TypeOK'
    BY <1>5 DEF vars, OInv, TypeOK
  <2>2. \A c \in Calls : CallAgrees(c)'
    BY <1>5 DEF vars, OInv, CallAgrees, RowExists, SessionOpen, PlaceAgrees, TriesAgree, In
  <2>3. RequestAgrees'
    BY <1>5 DEF vars, OInv, RequestAgrees, In
  <2> QED
    BY <2>1, <2>2, <2>3 DEF OInv
<1> QED
  BY <1>1, <1>2, <1>3, <1>4, <1>5 DEF Next, Done

LEMMA OInvAlways == Spec => []OInv
<1> QED
  BY InitialOInv, OInvInductive, PTL DEF Spec

-----------------------------------------------------------------------------
(* Safety                                                                  *)

(* The model's type invariant.                                             *)
THEOREM TypeCorrect == Spec => []TypeOK
<1>1. OInv => TypeOK
  BY DEF OInv
<1> QED
  BY <1>1, OInvAlways, PTL

(* A call answers its caller only with a job recorded as completed, or     *)
(* cancelled while the model was at work (LLMOrchestrator.execute).        *)
THEOREM AnswersCorrect == Spec => []AnswersAreRecorded
<1>1. OInv => AnswersAreRecorded
  <2> SUFFICES ASSUME OInv, NEW c \in Calls
               PROVE  /\ pc[c] = "returned" => In(c, {"completed", "cancelled"})
                      /\ In(c, {"completed"}) => pc[c] = "returned"
    BY DEF AnswersAreRecorded
  <2>1. PlaceAgrees(c) /\ pc[c] \in Places
    BY DEF OInv, TypeOK, CallAgrees
  <2> QED
    BY <2>1 DEF PlaceAgrees, In, Places, Finished
<1> QED
  BY <1>1, OInvAlways, PTL

(* No path through the failover loop ends with the job still running.      *)
THEOREM NoneLeftRunningCorrect == Spec => []NoneLeftRunning
<1>1. OInv => NoneLeftRunning
  <2> SUFFICES ASSUME OInv, NEW c \in Calls, In(c, {"running"})
               PROVE  pc[c] \notin Finished \ {"lost"}
    BY DEF NoneLeftRunning
  <2>1. PlaceAgrees(c) /\ pc[c] \in Places
    BY DEF OInv, TypeOK, CallAgrees
  <2> QED
    BY <2>1 DEF PlaceAgrees, In, Places, Finished
<1> QED
  BY <1>1, OInvAlways, PTL

-----------------------------------------------------------------------------
(* The failover                                                            *)

(* A step of one call leaves the others where they are.                    *)
LEMMA OthersStay ==
  ASSUME TypeOK, NEW c \in Calls, Execute(c), NEW d \in Calls, d # c
  PROVE  job'[d] = job[d] /\ pc'[d] = pc[d] /\ tier'[d] = tier[d] /\ tx'[d] = tx[d] /\ tried'[d] = tried[d]
<1>1. CASE EnqueueSelect(c)
  BY <1>1 DEF EnqueueSelect, Goto, Load, TypeOK
<1>2. CASE EnqueueCommit(c)
  BY <1>2 DEF EnqueueCommit, Enqueued, Goto, CloseSession, TypeOK
<1>3. CASE StartSelect(c) \/ SkipTier(c)
  BY <1>3 DEF StartSelect, SkipTier, Goto, TypeOK
<1>4. CASE Acquire(c)
  BY <1>4 DEF Acquire, Goto, Load, TypeOK
<1>5. CASE StartCommit(c)
  BY <1>5 DEF StartCommit, Started, Goto, CloseSession, TypeOK
<1>6. CASE Answer(c)
  BY <1>6 DEF Answer, Goto, Load, TypeOK
<1>7. CASE CompleteCommit(c)
  BY <1>7 DEF CompleteCommit, Goto, CloseSession, TypeOK
<1>8. ASSUME NEW code \in Failures[c], Fail(c, code)
      PROVE  job'[d] = job[d] /\ pc'[d] = pc[d] /\ tier'[d] = tier[d] /\ tx'[d] = tx[d] /\ tried'[d] = tried[d]
  BY <1>8 DEF Fail, Goto, Load, TypeOK
<1>9. CASE FailCommit(c)
  BY <1>9 DEF FailCommit, RecordFailure, Goto, CloseSession, TypeOK
<1>10. CASE Exhaust(c)
  BY <1>10 DEF Exhaust, Goto, Load, TypeOK
<1>11. CASE ExhaustCommit(c)
  BY <1>11 DEF ExhaustCommit, RecordFailure, Goto, CloseSession, TypeOK
<1> QED
  BY <1>1, <1>2, <1>3, <1>4, <1>5, <1>6, <1>7, <1>8, <1>9, <1>10, <1>11 DEF Execute

(* No step of a call pauses a queue, nor lets a session see one paused.    *)
LEMMA CallsDoNotPause ==
  ASSUME OInv, NEW c \in Calls, Execute(c), \A u \in Users : Open(queue[u]), tx[c] # NoTx => Open(tx[c].queue)
  PROVE  (\A u \in Users : Open(queue'[u])) /\ (tx'[c] # NoTx => Open(tx'[c].queue))
<1>1. TypeOK /\ Owner[c] \in Users
  BY OrchestratorAssumption DEF OInv
<1> DEFINE Idles == queue' = Idler(Owner[c], tx[c].queue, 1)
           Loads == \E code \in ErrorCodes \cup {"none", "exhausted"} : Load(c, code)
<1>2. \/ queue' = queue
      \/ queue' = [queue EXCEPT ![Owner[c]] = NewQueue]
      \/ pc[c] \in Writing /\ queue' = Busier(Owner[c], tx[c].queue)
      \/ pc[c] \in Writing /\ Idles
  <2>1. CASE EnqueueSelect(c) \/ StartSelect(c) \/ SkipTier(c) \/ Acquire(c) \/ Answer(c) \/ Exhaust(c)
    BY <2>1 DEF EnqueueSelect, StartSelect, SkipTier, Acquire, Answer, Exhaust
  <2>2. CASE EnqueueCommit(c)
    BY <2>2 DEF EnqueueCommit
  <2>3. CASE StartCommit(c)
    BY <2>3 DEF StartCommit, Writing
  <2>4. CASE CompleteCommit(c)
    BY <2>4 DEF CompleteCommit, Writing
  <2>5. CASE \E code \in Failures[c] : Fail(c, code)
    BY <2>5 DEF Fail
  <2>6. CASE FailCommit(c)
    BY <2>6 DEF FailCommit, RecordFailure, Writing
  <2>7. CASE ExhaustCommit(c)
    BY <2>7 DEF ExhaustCommit, RecordFailure, Writing
  <2> QED
    BY <2>1, <2>2, <2>3, <2>4, <2>5, <2>6, <2>7 DEF Execute
<1>3. tx' = tx \/ CloseSession(c) \/ Loads
  <2>1. Failures[c] \subseteq ErrorCodes
    BY OrchestratorAssumption
  <2>2. CASE StartSelect(c) \/ SkipTier(c)
    BY <2>2 DEF StartSelect, SkipTier
  <2>3. CASE EnqueueSelect(c) \/ Acquire(c) \/ Answer(c) \/ Exhaust(c)
    BY <2>3 DEF EnqueueSelect, Acquire, Answer, Exhaust
  <2>4. CASE \E code \in Failures[c] : Fail(c, code)
    BY <2>1, <2>4 DEF Fail
  <2>5. CASE EnqueueCommit(c) \/ StartCommit(c) \/ CompleteCommit(c) \/ FailCommit(c) \/ ExhaustCommit(c)
    BY <2>5 DEF EnqueueCommit, StartCommit, CompleteCommit, FailCommit, ExhaustCommit
  <2> QED
    BY <2>2, <2>3, <2>4, <2>5 DEF Execute
<1>4. \A u \in Users : Open(queue'[u])
  <2>1. CASE queue' = queue
    BY <2>1
  <2>2. CASE queue' = [queue EXCEPT ![Owner[c]] = NewQueue]
    BY <1>1, <2>2 DEF TypeOK, Open, NewQueue
  <2>3. CASE pc[c] \in Writing /\ (Idles \/ queue' = Busier(Owner[c], tx[c].queue))
    <3>1. tx[c].queue \in Queue /\ queue[Owner[c]] # NoQueue
      BY <2>3, Worker
    <3>2. RowsKept(queue')
      <4>1. CASE Idles
        BY <1>1, <3>1, <4>1, CountingKeepsRows, Zenon
      <4>2. CASE queue' = Busier(Owner[c], tx[c].queue)
        BY <1>1, <3>1, <4>2, CountingKeepsRows, Zenon
      <4> QED
        BY <2>3, <4>1, <4>2
    <3> QED
      BY <3>2 DEF RowsKept, Open
  <2> QED
    BY <1>2, <2>1, <2>2, <2>3
<1>5. tx'[c] # NoTx => Open(tx'[c].queue)
  <2>1. CASE tx' = tx
    BY <2>1
  <2>2. CASE CloseSession(c)
    BY <1>1, <2>2 DEF CloseSession, TypeOK
  <2>3. CASE Loads
    <3>1. tx'[c].queue = queue[Owner[c]]
      BY <1>1, <2>3, Loading
    <3> QED
      BY <1>1, <3>1
  <2> QED
    BY <1>3, <2>1, <2>2, <2>3
<1> QED
  BY <1>4, <1>5

LEMMA FailoverStep ==
  ASSUME OInv, NEW c \in Calls, Execute(c), FailoverAgrees(c), "rate_limit" \notin Failures[c],
         tx[c] # NoTx => Open(tx[c].queue)
  PROVE  FailoverAgrees(c)'
<1>1. /\ TypeOK /\ CallAgrees(c) /\ tier[c] \in 1 .. Tiers + 1 /\ tried[c] \in 0 .. Tiers
      /\ Tiers \in Nat /\ MaxRetries \in Nat \ {0} /\ Limit \in Nat
  BY OrchestratorAssumption DEF OInv, TypeOK, Limit
<1>2. CASE EnqueueSelect(c)
  <2>1. pc[c] = "idle" /\ pc'[c] = "enqueuing" /\ tried' = tried
    BY <1>1, <1>2 DEF EnqueueSelect, Goto, TypeOK
  <2> QED
    BY <2>1 DEF FailoverAgrees
<1>3. CASE EnqueueCommit(c)
  <2>1. /\ pc[c] = "enqueuing" /\ tried' = tried /\ tier' = tier /\ tried[c] = 0 /\ tier[c] = 1
        /\ tx[c] # NoTx /\ tx[c] \in Tx
    BY <1>1, <1>3 DEF EnqueueCommit, FailoverAgrees, CallAgrees, TriesAgree, SessionOpen, Sessions, TypeOK
  <2>2. CASE pc'[c] = "raised"
    BY <2>2 DEF FailoverAgrees
  <2>3. CASE pc'[c] # "raised"
    <3>1. pc'[c] = "next" /\ job' = Enqueued(c)
      BY <1>1, <1>3, <2>3 DEF EnqueueCommit, Goto, TypeOK
    <3>2. ~Row(tx[c].queue).paused
      BY <2>1 DEF Row, Open, NewQueue
    <3>3. job'[c] = [status |-> "queued", retries |-> 0]
      BY <1>1, <3>1, <3>2 DEF Enqueued, TypeOK
    <3>4. job'[c] \in Job /\ job'[c].status = "queued" /\ job'[c].retries = 0
      BY <3>3 DEF Job, Status, Active
    <3>5. job'[c] # NoJob
      BY <3>4, NullAssumption
    <3> QED
      BY <1>1, <2>1, <3>1, <3>4, <3>5 DEF FailoverAgrees, Retried, In
  <2> QED
    BY <2>2, <2>3
<1>4. CASE StartSelect(c)
  <2>1. /\ pc[c] = "next" /\ pc'[c] = "waiting" /\ UNCHANGED <<job, tier, tried>>
        /\ In(c, {"queued", "retrying"})
    BY <1>1, <1>4 DEF StartSelect, Goto, TypeOK
  <2> QED
    BY <2>1 DEF FailoverAgrees, Retried, In
<1>5. CASE SkipTier(c)
  <2>1. pc[c] = "next" /\ pc' = pc /\ UNCHANGED <<job, tried>> /\ ~In(c, {"queued", "retrying"})
    BY <1>5 DEF SkipTier
  <2> QED
    BY <2>1 DEF FailoverAgrees, In, Limit
<1>6. CASE Acquire(c)
  <2>1. pc[c] = "waiting" /\ pc'[c] = "starting" /\ UNCHANGED <<job, tier, tried>>
    BY <1>1, <1>6 DEF Acquire, Goto, TypeOK
  <2> QED
    BY <2>1 DEF FailoverAgrees, Retried, In
<1>7. CASE StartCommit(c)
  <2>1. pc[c] = "starting" /\ tier' = tier /\ pc[c] \in Writing
    BY <1>7 DEF StartCommit, Writing
  <2>2. CASE pc'[c] = "raised"
    BY <2>2 DEF FailoverAgrees
  <2>3. CASE pc'[c] # "raised"
    <3>1. /\ pc'[c] = "calling" /\ job' = [job EXCEPT ![c].status = "running"] /\ "running" \in Status
          /\ tried'[c] = tried[c] + 1
      BY <1>1, <1>7, <2>3 DEF StartCommit, Started, Goto, TypeOK, Status, Active
    <3>2. job[c] # NoJob
      BY <2>1, Worker
    <3>3. job'[c] # NoJob /\ job'[c].status = "running" /\ job'[c].retries = job[c].retries
      BY <1>1, <3>1, <3>2, StatusWritten
    <3> QED
      BY <1>1, <2>1, <3>1, <3>3 DEF FailoverAgrees, Retried, In
  <2> QED
    BY <2>2, <2>3
<1>8. CASE Answer(c) \/ CompleteCommit(c)
  <2>1. pc'[c] \in {"completing", "returned"}
    BY <1>1, <1>8 DEF Answer, CompleteCommit, Goto, TypeOK
  <2> QED
    BY <2>1 DEF FailoverAgrees
<1>9. ASSUME NEW code \in Failures[c], Fail(c, code) PROVE FailoverAgrees(c)'
  <2>1. pc[c] = "calling" /\ UNCHANGED <<job, queue, tried>> /\ In(c, {"running"})
    BY <1>9 DEF Fail, FailoverAgrees
  <2>2. pc'[c] = "failing" /\ Load(c, code) /\ tier' = tier
    BY <1>1, <1>9, <2>1 DEF Fail, Goto, TypeOK
  <2>3. code \in ErrorCodes
    BY OrchestratorAssumption
  <2>4. tx'[c].code = code /\ tx'[c].retries = job[c].retries
    BY <1>1, <2>1, <2>2, <2>3, Loading DEF In
  <2> QED
    BY <2>1, <2>2, <2>4 DEF FailoverAgrees, Retried, In
<1>10. CASE FailCommit(c)
  <2>1. /\ pc[c] = "failing" /\ pc[c] \in Writing /\ pc'[c] = "next" /\ tried' = tried
        /\ tier'[c] = tier[c] + 1 /\ tier[c] <= Tiers
    BY <1>1, <1>10 DEF FailCommit, Writing, Goto, TypeOK, CallAgrees, TriesAgree
  <2>2. /\ tx[c].code # "rate_limit" /\ tx[c].retries = tier[c] - 1 /\ tier[c] <= MaxRetries
        /\ tried[c] = tier[c]
    BY <2>1 DEF FailoverAgrees, Retried
  <2>3. RecordFailure(c, ShouldRetry(c)) /\ ShouldRetry(c) \in BOOLEAN
    BY <1>10, <2>2 DEF FailCommit, ShouldRetry
  <2>4. /\ job'[c] # NoJob /\ job'[c].status \in {"retrying", "failed"}
        /\ job'[c].retries = tx[c].retries + 1
        /\ job'[c].status = "retrying" <=> ShouldRetry(c) /\ tx[c].retries + 1 < MaxRetries
    BY <2>1, <2>3, FailureRecorded
  <2>5. CASE job'[c].status = "retrying"
    <3>1. job'[c].retries = tier'[c] - 1 /\ tier'[c] <= MaxRetries /\ tried'[c] = tier'[c] - 1
      BY <1>1, <2>1, <2>2, <2>4, <2>5
    <3> QED
      BY <2>1, <2>4, <2>5, <3>1 DEF FailoverAgrees, Retried, In
  <2>6. CASE job'[c].status = "failed"
    <3>1. tier[c] = Tiers \/ tier[c] = MaxRetries
      BY <1>1, <2>1, <2>2, <2>4, <2>6 DEF ShouldRetry
    <3>2. tried'[c] = Limit
      BY <1>1, <2>1, <2>2, <3>1 DEF Limit
    <3> QED
      BY <2>1, <2>4, <2>6, <3>2 DEF FailoverAgrees, In, Limit
  <2> QED
    BY <2>4, <2>5, <2>6
<1>11. CASE Exhaust(c)
  <2>1. pc[c] = "next" /\ tier[c] > Tiers /\ tried' = tried
    BY <1>11 DEF Exhaust
  <2>2. ~In(c, {"running", "rate_limited"})
    BY <2>1 DEF FailoverAgrees, In
  <2>3. pc'[c] = "failed"
    BY <1>1, <1>11, <2>2 DEF Exhaust, Goto, TypeOK
  <2>4. tried[c] = Limit
    BY <1>1, <2>1 DEF FailoverAgrees, Retried, Limit
  <2> QED
    BY <2>1, <2>3, <2>4 DEF FailoverAgrees, Limit
<1>12. CASE ExhaustCommit(c)
  BY <1>12 DEF ExhaustCommit, FailoverAgrees
<1> QED
  BY <1>2, <1>3, <1>4, <1>5, <1>6, <1>7, <1>8, <1>9, <1>10, <1>11, <1>12 DEF Execute

LEMMA FInvInductive == OInv /\ FInv /\ [Next]_vars => FInv'
<1> SUFFICES ASSUME OInv, FInv, [Next]_vars, requests' = 0 PROVE FInv'
  BY DEF FInv, QueuesOpen
<1>1. requests = 0 /\ request = NoRequest /\ UNCHANGED requests
  <2>1. requests \in Nat
    BY OrchestratorAssumption DEF OInv, TypeOK
  <2>2. ASSUME NEW c \in Calls, Execute(c) PROVE requests' = requests
    BY <2>2 DEF Execute, Unchanged, EnqueueSelect, EnqueueCommit, StartSelect, SkipTier, Acquire, StartCommit,
                Answer, CompleteCommit, Fail, FailCommit, Exhaust, ExhaustCommit
  <2>3. ASSUME NEW u \in Users, NEW kind \in Controls, RequestSelect(u, kind)
        PROVE  requests' = requests + 1
    BY <2>3 DEF RequestSelect
  <2>4. ASSUME RequestCommit \/ Crash \/ UNCHANGED vars PROVE requests' = requests
    BY <2>4 DEF RequestCommit, Crash, vars
  <2>5. requests' = requests \/ requests' = requests + 1
    BY <2>2, <2>3, <2>4 DEF Next, Done
  <2>6. requests = 0
    BY <2>1, <2>5
  <2> QED
    BY <2>5, <2>6 DEF FInv, QueuesOpen
<1>2. /\ \A u \in Users : Open(queue[u])
      /\ \A c \in Calls : tx[c] # NoTx => Open(tx[c].queue)
      /\ \A c \in Calls : "rate_limit" \notin Failures[c] => FailoverAgrees(c)
  BY <1>1 DEF FInv, QueuesOpen
<1>3. ASSUME NEW c \in Calls, Execute(c) PROVE FInv'
  <2>1. (\A u \in Users : Open(queue'[u])) /\ (tx'[c] # NoTx => Open(tx'[c].queue))
    BY <1>2, <1>3, CallsDoNotPause
  <2>2. request' = NoRequest
    BY <1>1, <1>3 DEF Execute, Unchanged, EnqueueSelect, EnqueueCommit, StartSelect, SkipTier, Acquire,
                      StartCommit, Answer, CompleteCommit, Fail, FailCommit, Exhaust, ExhaustCommit
  <2>3. ASSUME NEW d \in Calls, d # c
        PROVE  /\ tx'[d] # NoTx => Open(tx'[d].queue)
               /\ "rate_limit" \notin Failures[d] => FailoverAgrees(d)'
    <3>1. job'[d] = job[d] /\ pc'[d] = pc[d] /\ tier'[d] = tier[d] /\ tx'[d] = tx[d] /\ tried'[d] = tried[d]
      BY <1>3, <2>3, OthersStay DEF OInv
    <3> QED
      BY <1>2, <3>1 DEF FailoverAgrees, Retried, In, Limit
  <2>4. "rate_limit" \notin Failures[c] => FailoverAgrees(c)'
    BY <1>2, <1>3, FailoverStep
  <2> QED
    BY <2>1, <2>2, <2>3, <2>4 DEF FInv, QueuesOpen
<1>4. CASE Crash
  <2>1. /\ request' = NoRequest /\ UNCHANGED <<job, queue, tier, tried>>
        /\ \A c \in Calls : tx'[c] = NoTx
        /\ \A c \in Calls : pc'[c] = pc[c] \/ pc'[c] = "lost"
    BY <1>4 DEF Crash
  <2>2. ASSUME NEW c \in Calls, "rate_limit" \notin Failures[c] PROVE FailoverAgrees(c)'
    <3>1. FailoverAgrees(c) /\ pc'[c] # "failing"
      BY <1>2, <1>4, <2>2 DEF Crash, Finished
    <3> QED
      BY <2>1, <3>1 DEF FailoverAgrees, Retried, In, Limit
  <2> QED
    BY <1>2, <2>1, <2>2 DEF FInv, QueuesOpen
<1>5. CASE UNCHANGED vars
  BY <1>1, <1>2, <1>5 DEF vars, FInv, QueuesOpen, FailoverAgrees, Retried, In, Limit
<1>6. ~RequestCommit /\ \A u \in Users, kind \in Controls : ~RequestSelect(u, kind)
  BY <1>1 DEF RequestCommit, RequestSelect
<1> QED
  BY <1>3, <1>4, <1>5, <1>6 DEF Next, Done

(* A call without rate limits and without control requests gives up after  *)
(* min(Tiers, MaxRetries) tries: each failure of fail_job costs one retry  *)
(* and one model, and a paused queue or a stale session loses neither.     *)
THEOREM FailoverCorrect == Spec => []FailoverIsExhaustive
<1>1. Init => FInv
  BY DEF Init, FInv, QueuesOpen, FailoverAgrees, Open
<1>2. OInv /\ FInv => FailoverIsExhaustive
  BY DEF FInv, FailoverIsExhaustive, FailoverAgrees, Limit
<1> QED
  BY <1>1, <1>2, OInvAlways, FInvInductive, PTL DEF Spec

-----------------------------------------------------------------------------
(* The lifecycle                                                           *)

(* A step of a call writes a transition of the lifecycle, if the job it    *)
(* works on cannot be cancelled under it.                                  *)
LEMMA CallsAreLegal ==
  ASSUME OInv, Uncancelled, NEW c \in Calls, Execute(c)
  PROVE  \/ job'[c] = job[c]
         \/ job'[c] # NoJob /\ <<Statuses[c], job'[c].status>> \in J!Legal /\ job'[c].status # "cancelled"
<1>1. TypeOK /\ CallAgrees(c) /\ ~In(c, {"cancelled"})
  BY DEF OInv, Uncancelled
<1>2. CASE EnqueueSelect(c) \/ StartSelect(c) \/ SkipTier(c) \/ Acquire(c) \/ Answer(c) \/ Exhaust(c)
  BY <1>2 DEF EnqueueSelect, StartSelect, SkipTier, Acquire, Answer, Exhaust
<1>3. CASE EnqueueCommit(c)
  <2>1. job[c] = NoJob /\ (job' = job \/ job' = Enqueued(c))
    BY <1>1, <1>3 DEF EnqueueCommit, CallAgrees, PlaceAgrees
  <2>2. CASE job' = Enqueued(c)
    <3>1. /\ job'[c] = [status |-> IF Row(tx[c].queue).paused THEN "pending" ELSE "queued", retries |-> 0]
          /\ Statuses[c] = "none"
      BY <1>1, <2>1, <2>2 DEF Enqueued, TypeOK, Statuses
    <3>2. job'[c] \in Job /\ job'[c].status \in {"pending", "queued"}
      BY <3>1 DEF Job, Status, Active
    <3> QED
      BY <3>1, <3>2, NullAssumption DEF J!Legal
  <2> QED
    BY <2>1, <2>2
<1>4. CASE StartCommit(c)
  <2>1. CASE job' = job
    BY <2>1
  <2>2. CASE job' # job
    <3>1. job' = [job EXCEPT ![c].status = "running"] /\ "running" \in Status /\ pc[c] = "starting"
      BY <1>4, <2>2 DEF StartCommit, Started, Status, Active
    <3>2. In(c, {"queued", "retrying"})
      BY <1>1, <3>1 DEF CallAgrees, PlaceAgrees, In
    <3>3. job'[c] # NoJob /\ job'[c].status = "running"
      BY <1>1, <3>1, <3>2, StatusWritten DEF In
    <3> QED
      BY <3>2, <3>3 DEF In, Statuses, J!Legal
  <2> QED
    BY <2>1, <2>2
<1>5. CASE CompleteCommit(c)
  <2>1. job' = [job EXCEPT ![c].status = "completed"] /\ "completed" \in Status /\ pc[c] = "completing"
    BY <1>5 DEF CompleteCommit, Status, Terminal
  <2>2. In(c, {"running"})
    BY <1>1, <2>1 DEF CallAgrees, PlaceAgrees, In
  <2>3. job'[c] # NoJob /\ job'[c].status = "completed"
    BY <1>1, <2>1, <2>2, StatusWritten DEF In
  <2> QED
    BY <2>2, <2>3 DEF In, Statuses, J!Legal
<1>6. CASE \E code \in Failures[c] : Fail(c, code)
  BY <1>6 DEF Fail
<1>7. CASE FailCommit(c)
  <2>1. pc[c] = "failing" /\ pc[c] \in Writing
    BY <1>7 DEF FailCommit, Writing
  <2>2. In(c, {"running"})
    BY <1>1, <2>1 DEF CallAgrees, PlaceAgrees, In
  <2>3. job'[c] # NoJob /\ job'[c].status \in {"rate_limited", "retrying", "failed"}
    <3>1. CASE tx[c].code = "rate_limit"
      <4>1. job' = [job EXCEPT ![c].status = "rate_limited"] /\ "rate_limited" \in Status
        BY <1>7, <3>1 DEF FailCommit, Status, Active
      <4> QED
        BY <1>1, <2>2, <4>1, StatusWritten DEF In
    <3>2. CASE tx[c].code # "rate_limit"
      <4>1. RecordFailure(c, ShouldRetry(c)) /\ ShouldRetry(c) \in BOOLEAN
        BY <1>7, <3>2 DEF FailCommit, ShouldRetry
      <4> QED
        BY <2>1, <4>1, FailureRecorded
    <3> QED
      BY <3>1, <3>2
  <2> QED
    BY <2>2, <2>3 DEF In, Statuses, J!Legal
<1>8. CASE ExhaustCommit(c)
  <2>1. pc[c] = "exhausting" /\ pc[c] \in Writing /\ RecordFailure(c, FALSE)
    BY <1>8 DEF ExhaustCommit, Writing
  <2>2. In(c, {"rate_limited"})
    BY <1>1, <2>1 DEF CallAgrees, PlaceAgrees, In
  <2>3. job'[c] # NoJob /\ job'[c].status = "failed"
    BY <2>1, FailureRecorded
  <2> QED
    BY <2>2, <2>3 DEF In, Statuses, J!Legal
<1> QED
  BY <1>2, <1>3, <1>4, <1>5, <1>6, <1>7, <1>8 DEF Execute

(* Two tables that differ by legal transitions are a step of the lifecycle.*)
LEMMA LifecycleStep ==
  ASSUME TypeOK, TypeOK',
         \A c \in Calls : \/ job'[c] = job[c]
                          \/ job'[c] # NoJob /\ <<Statuses[c], job'[c].status>> \in J!Legal
  PROVE  J!Next
<1>1. DOMAIN Statuses' = Calls
  BY DEF Statuses
<1>2. ASSUME NEW c \in Calls
      PROVE  Statuses'[c] = Statuses[c] \/ <<Statuses[c], Statuses'[c]>> \in J!Legal
  BY DEF Statuses
<1> QED
  BY <1>1, <1>2 DEF J!Next

(* Where users do not cancel (see TerminalIsFinal), the queue implements  *)
(* the lifecycle its header promises: every commit of every session writes *)
(* one of its transitions, for any number of calls, requests and restarts. *)
THEOREM LifecycleRefinement ==
  ASSUME Controls \cap {"cancel", "cancel_all"} = {}
  PROVE  Spec => ImplementsLifecycle
<1>1. Init => J!Init /\ Uncancelled
  BY DEF Init, J!Init, Statuses, Uncancelled, In
<1>2. OInv /\ OInv' /\ Uncancelled /\ [Next]_vars => Uncancelled' /\ [J!Next]_Statuses
  <2> SUFFICES ASSUME OInv, OInv', Uncancelled, [Next]_vars PROVE Uncancelled' /\ [J!Next]_Statuses
    OBVIOUS
  <2>1. TypeOK /\ TypeOK'
    BY DEF OInv
  <2>2. SUFFICES \A c \in Calls :
                   \/ job'[c] = job[c]
                   \/ /\ job'[c] # NoJob /\ <<Statuses[c], job'[c].status>> \in J!Legal
                      /\ job'[c].status # "cancelled"
    BY <2>1, LifecycleStep DEF Uncancelled, In
  <2>3. ASSUME NEW c \in Calls, Execute(c), NEW d \in Calls
        PROVE  \/ job'[d] = job[d]
               \/ /\ job'[d] # NoJob /\ <<Statuses[d], job'[d].status>> \in J!Legal
                  /\ job'[d].status # "cancelled"
    BY <2>1, <2>3, CallsAreLegal, OthersStay
  <2>4. CASE RequestCommit
    <3>1. request # NoRequest /\ (job' = job \/ job' = JobsAfter)
      BY <2>4 DEF RequestCommit
    <3>2. request.kind \notin {"cancel", "cancel_all"}
      BY <3>1 DEF OInv, RequestAgrees
    <3>3. ASSUME NEW c \in Calls, In(c, {"pending", "failed"}), JobsAfter[c].status = "queued"
          PROVE  <<Statuses[c], JobsAfter[c].status>> \in J!Legal
      BY <3>3 DEF In, Statuses, J!Legal
    <3>4. \A c \in Calls :
            /\ job[c] = NoJob <=> JobsAfter[c] = NoJob
            /\ \/ JobsAfter[c] = job[c]
               \/ In(c, {"pending", "failed"}) /\ JobsAfter[c].status = "queued"
      BY <3>1, <3>2, JobsWritten
    <3> QED
      BY <3>1, <3>3, <3>4 DEF In
  <2>5. CASE Crash \/ UNCHANGED vars \/ \E u \in Users, kind \in Controls : RequestSelect(u, kind)
    BY <2>5 DEF Crash, vars, RequestSelect
  <2> QED
    BY <2>3, <2>4, <2>5 DEF Next, Done
<1> QED
  BY <1>1, <1>2, OInvAlways, PTL DEF Spec, ImplementsLifecycle, J!Spec

-----------------------------------------------------------------------------
(* Distances.  A step of a call brings it nearer to its end, either within *)
(* the model it is at or by going on to the next one.                      *)

LEMMA PlacesAhead ==
  ASSUME NEW place \in Places
  PROVE  ToGo(place) \in 0 .. 7 /\ (place \notin Finished => ToGo(place) # 0)
<1>1. CASE place \in Finished
  BY <1>1 DEF ToGo, Finished
<1>2. CASE place \in {"idle", "enqueuing", "next", "waiting"}
  BY <1>2 DEF ToGo, Finished
<1>3. CASE place \in {"starting", "calling", "completing", "failing", "exhausting"}
  BY <1>3 DEF ToGo, Finished
<1> QED
  BY <1>1, <1>2, <1>3 DEF Places

(* A step of the call goes on within its model, or to the next one.        *)
Ahead(c) ==
  /\ pc[c] \notin Finished
  /\ \/ tier'[c] = tier[c] /\ ToGo(pc'[c]) < ToGo(pc[c])
     \/ tier'[c] = tier[c] + 1

LEMMA Nearer ==
  ASSUME TypeOK, TypeOK', NEW c \in Calls, Ahead(c)
  PROVE  Distance(c)' < Distance(c)
<1>1. /\ tier[c] \in 1 .. Tiers + 1 /\ tier'[c] \in 1 .. Tiers + 1
      /\ pc[c] \in Places /\ pc'[c] \in Places /\ Tiers \in Nat
  BY OrchestratorAssumption DEF TypeOK
<1>2. /\ ToGo(pc[c]) \in 1 .. 7 /\ ToGo(pc'[c]) \in 0 .. 7
      /\ \/ tier'[c] = tier[c] /\ ToGo(pc'[c]) < ToGo(pc[c])
         \/ tier'[c] = tier[c] + 1
  BY <1>1, PlacesAhead DEF Ahead
<1>3. Distance(c) = 8 * (Tiers + 1 - tier[c]) + ToGo(pc[c])
  BY DEF Distance, Ahead
<1>4. CASE pc'[c] \in Finished
  <2>1. Distance(c)' = 0
    BY <1>4 DEF Distance
  <2> QED
    BY <2>1, <1>1, <1>2, <1>3
<1>5. CASE pc'[c] \notin Finished
  <2>1. Distance(c)' = 8 * (Tiers + 1 - tier'[c]) + ToGo(pc'[c])
    BY <1>5 DEF Distance
  <2> QED
    BY <2>1, <1>1, <1>2, <1>3
<1> QED
  BY <1>4, <1>5

LEMMA StepsTowardsTheEnd ==
  ASSUME TypeOK, TypeOK', NEW c \in Calls, Execute(c)
  PROVE  Distance(c)' < Distance(c)
<1> SUFFICES Ahead(c)
  BY Nearer
<1>0. DOMAIN pc = Calls /\ DOMAIN tier = Calls
  BY DEF TypeOK
<1>1. CASE EnqueueSelect(c)
  BY <1>0, <1>1 DEF EnqueueSelect, Goto, Ahead, ToGo, Finished
<1>2. CASE EnqueueCommit(c)
  BY <1>0, <1>2 DEF EnqueueCommit, Goto, Ahead, ToGo, Finished
<1>3. CASE StartSelect(c) \/ Acquire(c)
  BY <1>0, <1>3 DEF StartSelect, Acquire, Goto, Ahead, ToGo, Finished
<1>4. CASE SkipTier(c)
  BY <1>0, <1>4 DEF SkipTier, Ahead, Finished
<1>5. CASE StartCommit(c)
  BY <1>0, <1>5 DEF StartCommit, Goto, Ahead, ToGo, Finished
<1>6. CASE Answer(c) \/ CompleteCommit(c)
  BY <1>0, <1>6 DEF Answer, CompleteCommit, Goto, Ahead, ToGo, Finished
<1>7. ASSUME NEW code \in Failures[c], Fail(c, code) PROVE Ahead(c)
  BY <1>0, <1>7 DEF Fail, Goto, Ahead, ToGo, Finished
<1>8. CASE FailCommit(c)
  BY <1>0, <1>8 DEF FailCommit, Ahead, Finished
<1>9. CASE Exhaust(c)
  <2>1. pc[c] = "next" /\ pc'[c] \in {"exhausting", "failed"} /\ tier' = tier
    BY <1>0, <1>9 DEF Exhaust, Goto
  <2> QED
    BY <2>1 DEF Ahead, ToGo, Finished
<1>10. CASE ExhaustCommit(c)
  BY <1>0, <1>10 DEF ExhaustCommit, Goto, Ahead, ToGo, Finished
<1> QED
  BY <1>1, <1>2, <1>3, <1>4, <1>5, <1>6, <1>7, <1>8, <1>9, <1>10 DEF Execute

(* A call takes finitely many steps, at most the distance it begins with,  *)
(* whatever its models answer and whoever retries, resumes, cancels or     *)
(* restarts in between: what CallsEnd needs besides fairness.              *)
THEOREM CallsMoveOnCorrect == Spec => CallsMoveOn
<1> DEFINE MoveOn(c) == \/ pc'[c] = pc[c] /\ tier'[c] = tier[c] /\ tried'[c] = tried[c]
                        \/ Distance(c)' < Distance(c)
<1>1. OInv /\ OInv' /\ [Next]_vars => [\A c \in Calls : MoveOn(c)]_vars
  <2> SUFFICES ASSUME OInv, OInv', Next, NEW c \in Calls PROVE MoveOn(c)
    OBVIOUS
  <2>1. TypeOK /\ TypeOK'
    BY DEF OInv
  <2>2. ASSUME NEW d \in Calls, Execute(d) PROVE MoveOn(c)
    <3>1. CASE d = c
      BY <2>1, <2>2, <3>1, StepsTowardsTheEnd
    <3>2. CASE d # c
      BY <2>1, <2>2, <3>2, OthersStay
    <3> QED
      BY <3>1, <3>2
  <2>3. CASE Crash
    <3>1. CASE pc[c] \in Finished \cup {"idle"}
      BY <2>1, <2>3, <3>1 DEF Crash, TypeOK
    <3>2. CASE pc[c] \notin Finished \cup {"idle"}
      <4>1. pc'[c] = "lost" /\ tier'[c] = tier[c]
        BY <2>1, <2>3, <3>2 DEF Crash, TypeOK
      <4>2. ToGo("lost") = 0 /\ ToGo(pc[c]) \in 0 .. 7 /\ ToGo(pc[c]) # 0
        BY <2>1, <3>2, PlacesAhead DEF TypeOK, ToGo, Finished
      <4> QED
        BY <2>1, <3>2, <4>1, <4>2, Nearer DEF Ahead
    <3> QED
      BY <3>1, <3>2
  <2>4. CASE RequestCommit \/ Done \/ \E u \in Users, kind \in Controls : RequestSelect(u, kind)
    BY <2>4 DEF RequestCommit, Done, RequestSelect, vars
  <2> QED
    BY <2>2, <2>3, <2>4 DEF Next
<1>2. CallsMoveOn <=> [][\A c \in Calls : MoveOn(c)]_vars
  BY DEF CallsMoveOn
<1> HIDE DEF MoveOn
<1> QED
  BY <1>1, <1>2, OInvAlways, PTL DEF Spec

-----------------------------------------------------------------------------
(* Row locks.  Until a session has the queue row it climbs: what it asks   *)
(* for is behind everything it holds.                                      *)

Climbs(s) == \A h \in held[s] \ {QueueRow}, r \in left[s] : h < r

Ordered(s) ==
  /\ purpose[s] \notin Purposes => held[s] = {} /\ left[s] = {} /\ asks[s] = NoRow
  /\ asks[s] # NoRow => NextRow(s, asks[s])
  /\ purpose[s] = "job" => Climbs(s) /\ (QueueRow \in held[s] => left[s] = {})
  /\ purpose[s] = "bulk" => IF QueueRow \in left[s] THEN held[s] = {} ELSE Climbs(s)
  /\ purpose[s] = "cancel_all" => QueueRow \in held[s] \cup left[s]

LockInv == LocksTypeOK /\ \A s \in LockSessions : Ordered(s)

(* A session that gets a row goes on in its order.                         *)
LEMMA LockKeeps ==
  ASSUME LockInv, NEW s \in LockSessions, NEW r \in left[s], NextRow(s, r), Free(s, r),
         purpose[s] \in Purposes, Lock(s, r), UNCHANGED purpose
  PROVE  LockInv'
<1>1. /\ r \in JobRows \cup {QueueRow} /\ LocksTypeOK /\ Ordered(s)
      /\ JobCount \in Nat /\ JobRows = 1 .. JobCount /\ QueueRow = JobCount + 1
  BY RowLocksAssumption DEF LockInv, LocksTypeOK, JobRows, QueueRow
<1>2. /\ held'[s] = held[s] \cup {r} /\ left'[s] = left[s] \ {r} /\ asks'[s] = NoRow
      /\ \A t \in LockSessions \ {s} : held'[t] = held[t] /\ left'[t] = left[t] /\ asks'[t] = asks[t]
  BY <1>1 DEF Lock, LocksTypeOK
<1>3. LocksTypeOK'
  <2>1. /\ purpose' \in [LockSessions -> Purposes \cup {"none", "over"}]
        /\ left' \in [LockSessions -> SUBSET (JobRows \cup {QueueRow})]
        /\ held' \in [LockSessions -> SUBSET (JobRows \cup {QueueRow})]
        /\ asks' \in [LockSessions -> JobRows \cup {QueueRow, NoRow}]
    BY <1>1 DEF Lock, LocksTypeOK
  <2>2. ASSUME NEW t \in LockSessions
        PROVE  /\ asks'[t] # NoRow => asks'[t] \in left'[t]
               /\ held'[t] \cap left'[t] = {}
    BY <1>1, <1>2 DEF LocksTypeOK
  <2>3. ASSUME NEW t \in LockSessions, NEW q \in LockSessions, t # q
        PROVE  held'[t] \cap held'[q] = {}
    BY <1>1, <1>2, <2>3 DEF LocksTypeOK, Free
  <2> QED
    BY <2>1, <2>2, <2>3 DEF LocksTypeOK, JobRows, QueueRow
<1>4. ASSUME NEW t \in LockSessions \ {s} PROVE Ordered(t)'
  <2>1. Ordered(t) /\ purpose'[t] = purpose[t]
    BY DEF LockInv
  <2> QED
    BY <1>2, <2>1 DEF Ordered, Climbs, NextRow, Lowest, QueueRow
<1>5. Ordered(s)'
  <2>1. CASE purpose[s] = "job"
    <3>1. Lowest(left[s], r) /\ Climbs(s) /\ QueueRow \notin held[s]
      BY <1>1, <2>1 DEF Ordered, NextRow
    <3>2. \A q \in left[s] : r <= q /\ q \in 1 .. JobCount + 1
      BY <1>1, <3>1 DEF Lowest, LocksTypeOK
    <3>3. \A q \in left'[s] : r < q
      BY <1>1, <1>2, <3>2
    <3>4. Climbs(s)'
      BY <1>2, <3>1, <3>3 DEF Climbs, QueueRow
    <3>5. QueueRow \in held'[s] => left'[s] = {}
      BY <1>1, <1>2, <3>1, <3>2, <3>3
    <3> QED
      BY <1>2, <2>1, <3>4, <3>5 DEF Ordered, QueueRow, Purposes
  <2>2. CASE purpose[s] = "bulk" /\ QueueRow \in left[s]
    <3>1. r = QueueRow /\ held[s] = {}
      BY <1>1, <2>2 DEF Ordered, NextRow
    <3> QED
      BY <1>2, <2>2, <3>1 DEF Ordered, Climbs, QueueRow, Purposes
  <2>3. CASE purpose[s] = "bulk" /\ QueueRow \notin left[s]
    <3>1. Lowest(left[s], r) /\ Climbs(s)
      BY <1>1, <2>3 DEF Ordered, NextRow
    <3>2. \A q \in left'[s] : r < q
      BY <1>1, <1>2, <3>1 DEF Lowest, LocksTypeOK
    <3>3. Climbs(s)'
      BY <1>2, <3>1, <3>2 DEF Climbs, QueueRow
    <3> QED
      BY <1>2, <2>3, <3>3 DEF Ordered, QueueRow, Purposes
  <2>4. CASE purpose[s] = "cancel_all"
    BY <1>1, <1>2, <2>4 DEF Ordered, QueueRow, Purposes
  <2> QED
    BY <2>1, <2>2, <2>3, <2>4 DEF Purposes
<1> QED
  BY <1>3, <1>4, <1>5 DEF LockInv

(* A session that ends, like one that has not begun, holds nothing.        *)
LEMMA EndKeeps ==
  ASSUME LockInv, NEW s \in LockSessions, Ends(s)
  PROVE  LockInv'
<1>1. /\ purpose'[s] = "over" /\ held'[s] = {} /\ left'[s] = {} /\ asks'[s] = NoRow
      /\ \A t \in LockSessions \ {s} : /\ purpose'[t] = purpose[t] /\ held'[t] = held[t]
                                       /\ left'[t] = left[t] /\ asks'[t] = asks[t]
  BY DEF LockInv, LocksTypeOK, Ends
<1>2. LocksTypeOK'
  <2>1. /\ purpose' \in [LockSessions -> Purposes \cup {"none", "over"}]
        /\ left' \in [LockSessions -> SUBSET (JobRows \cup {QueueRow})]
        /\ held' \in [LockSessions -> SUBSET (JobRows \cup {QueueRow})]
        /\ asks' \in [LockSessions -> JobRows \cup {QueueRow, NoRow}]
    BY DEF LockInv, LocksTypeOK, Ends
  <2> QED
    BY <1>1, <2>1 DEF LockInv, LocksTypeOK, JobRows, QueueRow
<1>3. ASSUME NEW t \in LockSessions PROVE Ordered(t)'
  <2>1. CASE t = s
    BY <1>1, <2>1 DEF Ordered, Purposes
  <2>2. CASE t # s
    BY <1>1, <2>2 DEF LockInv, Ordered, Climbs, NextRow, Lowest, QueueRow
  <2> QED
    BY <2>1, <2>2
<1> QED
  BY <1>2, <1>3 DEF LockInv

LEMMA BeginKeeps ==
  ASSUME LockInv, NEW s \in LockSessions, NEW kind \in Purposes, Begin(s, kind)
  PROVE  LockInv'
<1>1. PICK rows \in RowsToWrite(kind) : left' = [left EXCEPT ![s] = rows]
  BY DEF Begin
<1>2. /\ rows \in SUBSET (JobRows \cup {QueueRow})
      /\ kind = "cancel_all" => QueueRow \in rows
  BY <1>1 DEF RowsToWrite, Purposes
<1>3. /\ held[s] = {} /\ asks[s] = NoRow /\ UNCHANGED <<held, asks>>
      /\ purpose'[s] = kind /\ left'[s] = rows
      /\ \A t \in LockSessions \ {s} : purpose'[t] = purpose[t] /\ left'[t] = left[t]
  BY <1>1 DEF Begin, LockInv, LocksTypeOK, Ordered, Purposes
<1>4. LocksTypeOK'
  <2>1. /\ purpose' \in [LockSessions -> Purposes \cup {"none", "over"}]
        /\ left' \in [LockSessions -> SUBSET (JobRows \cup {QueueRow})]
    BY <1>1, <1>2 DEF LockInv, LocksTypeOK, Begin
  <2> QED
    BY <1>3, <2>1 DEF LockInv, LocksTypeOK, JobRows, QueueRow
<1>5. ASSUME NEW t \in LockSessions PROVE Ordered(t)'
  <2>1. CASE t = s
    BY <1>2, <1>3, <2>1 DEF Ordered, Climbs, Purposes, QueueRow
  <2>2. CASE t # s
    BY <1>3, <2>2 DEF LockInv, Ordered, Climbs, NextRow, Lowest, QueueRow
  <2> QED
    BY <2>1, <2>2
<1> QED
  BY <1>4, <1>5 DEF LockInv

LEMMA WaitKeeps ==
  ASSUME LockInv, NEW s \in LockSessions, NEW r \in left[s], NextRow(s, r),
         purpose[s] \in Purposes, asks' = [asks EXCEPT ![s] = r], UNCHANGED <<purpose, left, held>>
  PROVE  LockInv'
<1>1. asks'[s] = r /\ \A t \in LockSessions \ {s} : asks'[t] = asks[t]
  BY DEF LockInv, LocksTypeOK
<1>2. LocksTypeOK'
  <2>1. asks' \in [LockSessions -> JobRows \cup {QueueRow, NoRow}]
    BY DEF LockInv, LocksTypeOK
  <2> QED
    BY <1>1, <2>1 DEF LockInv, LocksTypeOK, JobRows, QueueRow
<1>3. ASSUME NEW t \in LockSessions PROVE Ordered(t)'
  <2>1. CASE t = s
    BY <1>1, <2>1 DEF LockInv, Ordered, Climbs, NextRow, Lowest, QueueRow
  <2>2. CASE t # s
    BY <1>1, <2>2 DEF LockInv, Ordered, Climbs, NextRow, Lowest, QueueRow
  <2> QED
    BY <2>1, <2>2
<1> QED
  BY <1>2, <1>3 DEF LockInv

LEMMA PassOverKeeps ==
  ASSUME LockInv, NEW s \in LockSessions, PassOver(s)
  PROVE  LockInv'
<1>1. PICK j \in left[s] \ {QueueRow} : left' = [left EXCEPT ![s] = @ \ {j}]
  BY DEF PassOver
<1>2. /\ UNCHANGED <<purpose, held, asks>> /\ purpose[s] = "cancel_all" /\ asks[s] = NoRow
      /\ left'[s] = left[s] \ {j} /\ \A t \in LockSessions \ {s} : left'[t] = left[t]
  BY <1>1 DEF PassOver, Running, LockInv, LocksTypeOK
<1>3. LocksTypeOK'
  <2>1. left' \in [LockSessions -> SUBSET (JobRows \cup {QueueRow})]
    BY <1>1 DEF LockInv, LocksTypeOK
  <2> QED
    BY <1>2, <2>1 DEF LockInv, LocksTypeOK, JobRows, QueueRow
<1>4. ASSUME NEW t \in LockSessions PROVE Ordered(t)'
  <2>1. CASE t = s
    BY <1>1, <1>2, <2>1 DEF LockInv, Ordered, Purposes, QueueRow
  <2>2. CASE t # s
    BY <1>2, <2>2 DEF LockInv, Ordered, Climbs, NextRow, Lowest, QueueRow
  <2> QED
    BY <2>1, <2>2
<1> QED
  BY <1>3, <1>4 DEF LockInv

LEMMA LockInvInductive == LockInv /\ [LockNext]_lockVars => LockInv'
<1> SUFFICES ASSUME LockInv, [LockNext]_lockVars PROVE LockInv'
  OBVIOUS
<1>1. ASSUME NEW s \in LockSessions, NEW kind \in Purposes, Begin(s, kind) PROVE LockInv'
  BY <1>1, BeginKeeps
<1>2. ASSUME NEW s \in LockSessions, Write(s) PROVE LockInv'
  <2>1. PICK r \in left[s] :
          /\ NextRow(s, r)
          /\ \/ Free(s, r) /\ Lock(s, r)
             \/ asks' = [asks EXCEPT ![s] = r] /\ UNCHANGED <<left, held>>
    BY <1>2 DEF Write
  <2>2. purpose[s] \in Purposes /\ UNCHANGED purpose
    BY <1>2 DEF Write, Running
  <2> QED
    BY <2>1, <2>2, LockKeeps, WaitKeeps
<1>3. ASSUME NEW s \in LockSessions, Granted(s) PROVE LockInv'
  <2>1. /\ asks[s] \in left[s] /\ NextRow(s, asks[s]) /\ purpose[s] \in Purposes
        /\ Free(s, asks[s]) /\ Lock(s, asks[s]) /\ UNCHANGED purpose
    BY <1>3 DEF Granted, LockInv, LocksTypeOK, Ordered
  <2> QED
    BY <2>1, LockKeeps
<1>4. ASSUME NEW s \in LockSessions, PassOver(s) \/ Commit(s) \/ Victim(s) PROVE LockInv'
  BY <1>4, PassOverKeeps, EndKeeps DEF Commit, Victim
<1>5. CASE UNCHANGED lockVars
  BY <1>5 DEF lockVars, LockInv, LocksTypeOK, Ordered, Climbs, NextRow, Lowest, JobRows, QueueRow
<1> QED
  BY <1>1, <1>2, <1>3, <1>4, <1>5 DEF LockNext, LockDone, Works

LEMMA LockInvAlways == LockSpec => []LockInv
<1>1. LockInit => LockInv
  BY DEF LockInit, LockInv, LocksTypeOK, Ordered, Purposes, JobRows, QueueRow
<1> QED
  BY <1>1, LockInvInductive, PTL DEF LockSpec

(* Rows are locked by one session, which asks for nothing it holds.        *)
THEOREM LocksTypeCorrect == LockSpec => []LocksTypeOK
<1>1. LockInv => LocksTypeOK
  BY DEF LockInv
<1> QED
  BY <1>1, LockInvAlways, PTL

(* Nonempty sets of rows have a last one.                                  *)
LEMMA LastOf ==
  ASSUME NEW N \in Nat, NEW S, S \subseteq 0 .. N, S # {}
  PROVE  \E x \in S : \A y \in S : y <= x
<1> DEFINE T == {n \in Nat : \E x \in S : n = N - x}
           less == OpToRel(<, Nat)
<1>1. \A n, m \in Nat : n < m => <<n, m>> \in less
  BY DEF OpToRel
<1>2. IsWellFoundedOn(less, Nat)
  BY NatLessThanWellFounded
<1>3. T \subseteq Nat /\ \A x \in S : N - x \in T
  OBVIOUS
<1>4. \A n \in T : \E x \in S : n = N - x
  OBVIOUS
<1> HIDE DEF less, T
<1>5. T # {}
  BY <1>3
<1>6. PICK n \in T : \A m \in T : ~(<<m, n>> \in less)
  BY <1>3, <1>2, <1>5, WFMin
<1>7. PICK x \in S : n = N - x
  BY <1>4, <1>6
<1>8. ASSUME NEW y \in S PROVE y <= x
  <2>1. N - y \in T /\ N - y \in Nat /\ n \in Nat /\ ~(N - y < n)
    BY <1>1, <1>3, <1>6
  <2> QED
    BY <1>7, <2>1
<1> QED
  BY <1>8

LEMMA ClimbersAskAhead ==
  ASSUME LockInv, NEW s \in LockSessions, asks[s] # NoRow, QueueRow \notin held[s]
  PROVE  \A h \in held[s] : h < asks[s]
<1>1. /\ asks[s] \in left[s] /\ NextRow(s, asks[s]) /\ purpose[s] \in Purposes
      /\ held[s] \subseteq JobRows /\ Ordered(s)
  BY DEF LockInv, LocksTypeOK, Ordered
<1>2. CASE purpose[s] \in {"job", "bulk"}
  BY <1>1, <1>2 DEF Ordered, Climbs
<1>3. CASE purpose[s] = "cancel_all"
  <2>1. held[s] # {} => asks[s] = QueueRow
    BY <1>1, <1>3 DEF Ordered, NextRow
  <2> QED
    BY <1>1, <2>1, RowLocksAssumption DEF JobRows, QueueRow
<1> QED
  BY <1>1, <1>2, <1>3 DEF Purposes

(* Of sessions that wait for each other, the one whose row is asked for by *)
(* the session that asks for the last row of all cannot climb: it has the  *)
(* queue row.  So it is a resume or a cancel of all jobs at a later job.   *)
THEOREM DeadlockCorrect == LockSpec => []DeadlockNeedsQueueRow
<1>1. LockInv => DeadlockNeedsQueueRow
  <2> SUFFICES ASSUME LockInv, NEW group \in SUBSET LockSessions, Deadlocked(group)
               PROVE  \E s \in group : /\ QueueRow \in held[s] /\ asks[s] \in JobRows
                                       /\ purpose[s] \in {"bulk", "cancel_all"}
    BY DEF DeadlockNeedsQueueRow
  <2> DEFINE asked == {asks[s] : s \in group}
  <2>1. /\ group # {}
        /\ \A s \in group : asks[s] # NoRow /\ asks[s] \in left[s]
    BY DEF Deadlocked, WaitsFor, LockInv, LocksTypeOK
  <2>2. asked # {} /\ asked \subseteq 0 .. JobCount + 1 /\ JobCount + 1 \in Nat
    BY <2>1, RowLocksAssumption DEF LockInv, LocksTypeOK, JobRows, QueueRow
  <2>3. PICK s \in group : \A t \in group : asks[t] <= asks[s]
    BY <2>2, LastOf
  <2>4. PICK t \in group : asks[s] \in held[t]
    BY DEF Deadlocked, WaitsFor
  <2>5. asks[s] \in Int /\ asks[t] \in Int /\ asks[t] <= asks[s]
    BY <2>2, <2>3
  <2>6. QueueRow \in held[t]
    BY <2>1, <2>4, <2>5, ClimbersAskAhead
  <2>7. asks[t] \in left[t] /\ asks[t] # QueueRow /\ asks[t] \in JobRows
    BY <2>1, <2>6 DEF LockInv, LocksTypeOK
  <2>8. purpose[t] \in {"bulk", "cancel_all"}
    BY <2>6, <2>7 DEF LockInv, Ordered, Purposes
  <2> QED
    BY <2>6, <2>7, <2>8
<1> QED
  BY <1>1, LockInvAlways, PTL

-----------------------------------------------------------------------------
(* Both views beside each other, as the run explores them.                 *)

(* A behaviour of both is one of each: neither writes what the other owns. *)
THEOREM QueueImplementsBoth == QueueSpec => Spec /\ LockSpec
<1>1. QueueInit => Init /\ LockInit
  BY DEF QueueInit
<1>2. [QueueNext]_queueVars => [Next]_vars /\ [LockNext]_lockVars
  BY DEF QueueNext, queueVars
<1> QED
  BY <1>1, <1>2, PTL DEF QueueSpec, Spec, LockSpec

(* The invariants of the run, of the system the run explores, the types of *)
(* both views among them.                                                  *)
THEOREM QueueCorrect ==
  QueueSpec =>
    [](QueueTypeOK /\ AnswersAreRecorded /\ NoneLeftRunning /\ DeadlockNeedsQueueRow)
<1>1. TypeOK /\ LocksTypeOK => QueueTypeOK
  BY DEF QueueTypeOK
<1> QED
  BY <1>1, QueueImplementsBoth, TypeCorrect, LocksTypeCorrect, AnswersCorrect,
     NoneLeftRunningCorrect, DeadlockCorrect, PTL
=============================================================================
