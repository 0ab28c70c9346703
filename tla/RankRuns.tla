------------------------------ MODULE RankRuns ------------------------------
(***************************************************************************)
(* Submission of ranking runs (app/api/v1/rank.py, app/services/           *)
(* rank_jobs.py) on the execution queue's tables.  A POST works with two   *)
(* sessions: the request's, whose charge is flushed at the gate and        *)
(* committed when the route returns, and the one start opens for itself.   *)
(* Each holds a connection of one bounded pool.                            *)
(*                                                                         *)
(* A run is named after the request that created it.  The worker that      *)
(* processes the items lives in another repository; it is modelled from    *)
(* the columns and statuses this code provides for it.                     *)
(***************************************************************************)
EXTENDS Integers, FiniteSets, FiniteSetsExt

CONSTANTS
  Requests, Users, Postings,
  Owners,       \* who may send the requests, out of [Requests -> Users]
  Key,          \* [Requests -> Idempotency-Key header, or NoKey]
  Chosen,       \* [Requests -> job_ids of the payload]
  Payers,       \* the users the gate charges: administrators pay nothing
  RateLimit,    \* rate_limit_attempts, within one window
  PoolSizes,    \* values of pool_size + max_overflow
  MaxControls,  \* bound: control requests
  MaxCrashes,   \* bound: restarts of the process
  NoKey, NoRequest

ASSUME RankRunsAssumption ==
  /\ Owners \subseteq [Requests -> Users] /\ DOMAIN Key = Requests
  /\ Chosen \in [Requests -> SUBSET Postings]
  /\ Payers \subseteq Users
  /\ RateLimit \in Nat /\ PoolSizes \subseteq Nat \ {0}
  /\ MaxControls \in Nat /\ MaxCrashes \in Nat
  /\ NoRequest \notin Requests /\ IsFiniteSet(Requests)

VARIABLES
  run,      \* table execution_jobs: [a set of requests -> status]
  keyed,    \* the runs whose idempotency_key is set
  items,    \* table execution_job_items: [Requests -> [a set of postings -> status]]
  posted,   \* table job_postings: the postings imported so far
  ledger,   \* the requests whose charge is committed
  relinked, \* the charges whose ledger row points at the run
  paused,   \* the users whose queue is paused
  pc,       \* where each request is
  missing,  \* the postings the session of each request has to import
  answer,   \* the run each request is answered with
  lock,     \* [Users -> the request that holds the lock on the credit account]
  told,     \* history: runs whose cancellation the rank router confirmed
  owner,    \* [Requests -> Users]
  pool,     \* connections the process may hold
  controls, crashes

vars == <<run, keyed, items, posted, ledger, relinked, paused, pc, missing, answer, lock,
          told, owner, pool, controls, crashes>>

tables == <<run, keyed, items, posted, relinked>>
others == <<paused, told, owner, pool, controls, crashes>>

Active == {"queued", "running"}
Terminal == {"completed", "failed", "cancelled"}
Ended == {"answered", "refused", "lost"}

RunsOf(u) == {r \in DOMAIN run : owner[r] = u}
ActiveRuns(u) == {r \in RunsOf(u) : run[r] \in Active}

(* Connections in use: the session of the route, and that of start.        *)
Connections(r) ==
  IF pc[r] \in {"idle"} \union Ended THEN 0
  ELSE IF pc[r] \in {"counted", "gated", "answering"} THEN 1 ELSE 2
PoolIsFull == MapThenSumSet(Connections, Requests) >= pool

Goto(r, place) == pc' = [pc EXCEPT ![r] = place]

(* start returns run q: its session is closed and rolled back.             *)
Returns(r, q) ==
  /\ Goto(r, "answering") /\ answer' = [answer EXCEPT ![r] = q]
  /\ missing' = [missing EXCEPT ![r] = {}]

(* Mutant of Raises: the lock outlives the session.                        *)
RaisesKeepingLock(r) ==
  /\ Goto(r, "refused")
  /\ missing' = [missing EXCEPT ![r] = {}]
  /\ UNCHANGED <<answer, lock>>

(* An exception: both sessions are rolled back, the charge with them.      *)
Raises(r) ==
  /\ Goto(r, "refused")
  /\ missing' = [missing EXCEPT ![r] = {}]
  /\ lock' = [lock EXCEPT ![owner[r]] = IF @ = r THEN NoRequest ELSE @]
  /\ UNCHANGED answer

-----------------------------------------------------------------------------
(* POST /rank                                                              *)

(* The runs of the window are counted first.                               *)
CountRecent(r) ==
  /\ pc[r] = "idle" /\ ~PoolIsFull
  /\ IF Cardinality(RunsOf(owner[r])) >= RateLimit THEN Goto(r, "refused")
                                                   ELSE Goto(r, "counted")
  /\ UNCHANGED <<tables, others, ledger, missing, answer, lock>>

(* enforce_action_gate: the flushed charge keeps the account locked until  *)
(* the route returns.                                                      *)
Gate(r) ==
  /\ pc[r] = "counted" /\ lock[owner[r]] = NoRequest
  /\ lock' = IF owner[r] \in Payers THEN [lock EXCEPT ![owner[r]] = r] ELSE lock
  /\ Goto(r, "gated")
  /\ UNCHANGED <<tables, others, ledger, missing, answer>>

SameKey(r) == {q \in keyed : Key[q] = Key[r] /\ Key[r] # NoKey}

(* start opens its session and looks the key up.                           *)
CheckKey(r) ==
  /\ pc[r] = "gated" /\ ~PoolIsFull
  /\ IF SameKey(r) # {} THEN \E q \in SameKey(r) : Returns(r, q)
                        ELSE Goto(r, "loading") /\ UNCHANGED <<missing, answer>>
  /\ UNCHANGED <<tables, others, ledger, lock>>

(* Mutant of PoolTimeout: the pool has no timeout.                         *)
PoolWaits(r) == pc[r] = "gated" /\ PoolIsFull /\ UNCHANGED vars

(* The pool gives up after pool_timeout seconds.                           *)
PoolTimeout(r) ==
  /\ pc[r] = "gated" /\ PoolIsFull
  /\ Raises(r)
  /\ UNCHANGED <<tables, others, ledger>>

LoadPostings(r) ==
  /\ pc[r] = "loading"
  /\ IF Chosen[r] = {} THEN Returns(r, NoRequest)
     ELSE /\ missing' = [missing EXCEPT ![r] = Chosen[r] \ posted]
          /\ Goto(r, "loaded") /\ UNCHANGED answer
  /\ UNCHANGED <<tables, others, ledger, lock>>

(* The INSERT of a posting another session imported meanwhile waits for    *)
(* that session and then violates the primary key.                         *)
Flushed == {r \in Requests : pc[r] \in {"flushed", "clear"}}
(* Mutant of FlushPostings: the exception is swallowed.                    *)
FlushSwallowed(r) ==
  /\ pc[r] = "loaded"
  /\ \A q \in Flushed : missing[q] \intersect missing[r] = {}
  /\ IF missing[r] \intersect posted # {}
     THEN Returns(r, NoRequest)
     ELSE Goto(r, "flushed") /\ UNCHANGED <<missing, answer>>
  /\ UNCHANGED <<tables, others, ledger, lock>>

FlushPostings(r) ==
  /\ pc[r] = "loaded"
  /\ \A q \in Flushed : missing[q] \intersect missing[r] = {}
  /\ IF missing[r] \intersect posted # {}
     THEN Raises(r)
     ELSE Goto(r, "flushed") /\ UNCHANGED <<missing, answer, lock>>
  /\ UNCHANGED <<tables, others, ledger>>

CheckActive(r) ==
  /\ pc[r] = "flushed"
  /\ IF ActiveRuns(owner[r]) # {}
     THEN \E q \in ActiveRuns(owner[r]) : Returns(r, q)
     ELSE Goto(r, "clear") /\ UNCHANGED <<missing, answer>>
  /\ UNCHANGED <<tables, others, ledger, lock>>

(* ExecutionQueue.enqueue commits the run together with the postings,      *)
(* unless uq_active_rank_per_user finds another active one.                *)
EnqueueStatus(r) == IF owner[r] \in paused THEN "pending" ELSE "queued"
(* Mutant of Enqueue: there is no unique index.                            *)
EnqueueUnindexed(r) ==
  /\ pc[r] = "clear"
  /\ run' = [q \in DOMAIN run \union {r} |-> IF q = r THEN EnqueueStatus(r) ELSE run[q]]
  /\ posted' = posted \union missing[r]
  /\ Goto(r, "enqueued") /\ missing' = [missing EXCEPT ![r] = {}]
  /\ UNCHANGED <<keyed, items, relinked, others, ledger, answer, lock>>

Enqueue(r) ==
  /\ pc[r] = "clear"
  /\ IF EnqueueStatus(r) = "queued" /\ ActiveRuns(owner[r]) # {}
     THEN Goto(r, "recovering") /\ UNCHANGED <<run, posted>>
     ELSE /\ run' = [q \in DOMAIN run \union {r} |-> IF q = r THEN EnqueueStatus(r) ELSE run[q]]
          /\ posted' = posted \union missing[r]
          /\ Goto(r, "enqueued")
  /\ missing' = [missing EXCEPT ![r] = {}]
  /\ UNCHANGED <<keyed, items, relinked, others, ledger, answer, lock>>

RecoverActive(r) ==
  /\ pc[r] = "recovering"
  /\ IF ActiveRuns(owner[r]) # {}
     THEN (\E q \in ActiveRuns(owner[r]) : Returns(r, q)) /\ UNCHANGED lock
     ELSE Raises(r)
  /\ UNCHANGED <<tables, others, ledger>>

(* Mutant of AttachItems: the items are not inserted.                      *)
AttachKeyOnly(r) ==
  /\ pc[r] = "enqueued"
  /\ keyed' = keyed \union {r} /\ Returns(r, r)
  /\ UNCHANGED <<run, items, posted, relinked, others, ledger, lock>>

(* The key and the items, in a commit of their own; the key is unique.     *)
AttachItems(r) ==
  /\ pc[r] = "enqueued"
  /\ IF SameKey(r) # {}
     THEN Raises(r) /\ UNCHANGED <<keyed, items>>
     ELSE /\ keyed' = IF Key[r] = NoKey THEN keyed ELSE keyed \union {r}
          /\ items' = [items EXCEPT ![r] = [p \in Chosen[r] |-> "queued"]]
          /\ Goto(r, "attached") /\ UNCHANGED <<missing, answer, lock>>
  /\ UNCHANGED <<run, posted, relinked, others, ledger>>

(* relink_transaction looks for a committed ledger row, then pg_notify.    *)
Relink(r) ==
  /\ pc[r] = "attached"
  /\ relinked' = relinked \union ({r} \intersect ledger)
  /\ Returns(r, r)
  /\ UNCHANGED <<run, keyed, items, posted, others, ledger, lock>>

(* get_db commits the request's session: the charge.                       *)
Answer(r) ==
  /\ pc[r] = "answering"
  /\ ledger' = IF lock[owner[r]] = r THEN ledger \union {r} ELSE ledger
  /\ lock' = [lock EXCEPT ![owner[r]] = IF @ = r THEN NoRequest ELSE @]
  /\ Goto(r, "answered")
  /\ UNCHANGED <<tables, others, missing, answer>>

Post(r) ==
  \/ Gate(r) \/ CheckKey(r) \/ PoolTimeout(r)
  \/ LoadPostings(r) \/ FlushPostings(r) \/ CheckActive(r)
  \/ Enqueue(r) \/ RecoverActive(r) \/ AttachItems(r) \/ Relink(r) \/ Answer(r)

-----------------------------------------------------------------------------
(* The other requests                                                      *)

requests == <<ledger, pc, missing, answer, lock>>

(* rank_jobs.get counts the items by status.                               *)
ItemsIn(r, statuses) == {p \in DOMAIN items[r] : items[r][p] \in statuses}

Control == controls < MaxControls /\ controls' = controls + 1

(* POST /rank/cancel: rank_jobs.cancel leaves its session without a commit,*)
(* so the flushed status is rolled back, and answers that it cancelled.    *)
CancelRun(r) ==
  /\ Control
  /\ r \in DOMAIN run /\ run[r] \notin Terminal
  /\ told' = told \union {r}
  /\ UNCHANGED <<requests, tables, paused, owner, pool, crashes>>

(* The queue control requests, each committed by get_db: cancel, pause and *)
(* resume, which fails when it would queue a second run of the pipeline.   *)
ControlCancel(r) ==
  /\ Control
  /\ r \in DOMAIN run /\ run[r] \notin Terminal
  /\ run' = [run EXCEPT ![r] = "cancelled"]
  /\ UNCHANGED <<requests, keyed, items, posted, relinked, paused, told, owner, pool, crashes>>

Pause(u) ==
  /\ Control
  /\ paused' = paused \union {u}
  /\ UNCHANGED <<requests, tables, told, owner, pool, crashes>>

Resume(u) ==
  /\ Control
  /\ Cardinality({r \in RunsOf(u) : run[r] \in Active \union {"pending"}}) <= 1
  /\ paused' = paused \ {u}
  /\ run' = [r \in DOMAIN run |-> IF owner[r] = u /\ run[r] = "pending" THEN "queued"
                                  ELSE run[r]]
  /\ UNCHANGED <<requests, keyed, items, posted, relinked, told, owner, pool, crashes>>

-----------------------------------------------------------------------------
(* The worker of the other repository claims items one by one under a      *)
(* lease (locked_until) and closes the run with its last item.             *)

Claim(r, p) ==
  /\ r \in DOMAIN run /\ run[r] \in Active
  /\ p \in ItemsIn(r, {"queued"})
  /\ items' = [items EXCEPT ![r][p] = "running"]
  /\ run' = [run EXCEPT ![r] = "running"]
  /\ UNCHANGED <<requests, keyed, posted, relinked, others>>

Finish(r, p) ==
  /\ p \in ItemsIn(r, {"running"})
  /\ \E status \in {"completed", "failed"} : items' = [items EXCEPT ![r][p] = status]
  /\ run' = IF run[r] = "running" /\ ItemsIn(r, {"queued", "running"}) = {p}
            THEN [run EXCEPT ![r] = "completed"] ELSE run
  /\ UNCHANGED <<requests, keyed, posted, relinked, others>>

LeaseExpires(r, p) ==
  /\ p \in ItemsIn(r, {"running"})
  /\ items' = [items EXCEPT ![r][p] = "queued"]
  /\ UNCHANGED <<requests, run, keyed, posted, relinked, others>>

Worker == \E r \in Requests, p \in Postings : Claim(r, p) \/ Finish(r, p) \/ LeaseExpires(r, p)

-----------------------------------------------------------------------------
Crash ==
  /\ crashes < MaxCrashes /\ crashes' = crashes + 1
  /\ pc' = [r \in Requests |-> IF pc[r] \in {"idle"} \union Ended THEN pc[r] ELSE "lost"]
  /\ missing' = [r \in Requests |-> {}]
  /\ lock' = [u \in Users |-> NoRequest]
  /\ UNCHANGED <<tables, ledger, paused, answer, told, owner, pool, controls>>

Init ==
  /\ run = <<>> /\ keyed = {} /\ items = [r \in Requests |-> <<>>] /\ posted = {}
  /\ ledger = {} /\ relinked = {} /\ paused = {}
  /\ pc = [r \in Requests |-> "idle"]
  /\ missing = [r \in Requests |-> {}]
  /\ answer = [r \in Requests |-> NoRequest]
  /\ lock = [u \in Users |-> NoRequest]
  /\ owner \in Owners /\ pool \in PoolSizes
  /\ told = {} /\ controls = 0 /\ crashes = 0

Done == (\A r \in Requests : pc[r] \in Ended) /\ UNCHANGED vars

Next ==
  \/ \E r \in Requests : CountRecent(r) \/ Post(r) \/ CancelRun(r) \/ ControlCancel(r)
  \/ \E u \in Users : Pause(u) \/ Resume(u)
  \/ Worker
  \/ Crash
  \/ Done

Spec == Init /\ [][Next]_vars

(* The event loop runs every ready request; a waiter for a connection      *)
(* either gets one or times out.                                           *)
Fairness == \A r \in Requests : WF_vars(Post(r))

FairSpec == Spec /\ Fairness

-----------------------------------------------------------------------------
(* Properties                                                              *)

Places == {"idle", "counted", "gated", "loading", "loaded", "flushed", "clear", "recovering",
           "enqueued", "attached", "answering"} \union Ended

(* Types; the credit account is locked only by a request in flight, and    *)
(* every item belongs to a run and to an imported posting.                 *)
TypeOK ==
  /\ DOMAIN run \subseteq Requests
  /\ \A r \in DOMAIN run : run[r] \in Active \union Terminal \union {"pending"}
  /\ keyed \subseteq DOMAIN run /\ told \subseteq DOMAIN run
  /\ \A r \in Requests :
       /\ DOMAIN items[r] \subseteq posted
       /\ ItemsIn(r, {"queued", "running", "completed", "failed"}) = DOMAIN items[r]
       /\ items[r] # <<>> => r \in DOMAIN run
  /\ posted \subseteq Postings /\ paused \subseteq Users
  /\ ledger \subseteq Requests /\ relinked \subseteq ledger
  /\ pc \in [Requests -> Places]
  /\ missing \in [Requests -> SUBSET Postings]
  /\ answer \in [Requests -> Requests \union {NoRequest}]
  /\ \A u \in Users : lock[u] # NoRequest =>
       /\ owner[lock[u]] = u
       /\ pc[lock[u]] \notin {"idle", "counted"} \union Ended
       /\ lock[u] \notin ledger
  /\ owner \in Owners /\ pool \in PoolSizes /\ controls \in 0 .. MaxControls /\ crashes \in 0 .. MaxCrashes

(* "Verify no other active rank job exists": a user never has two active   *)
(* runs, although requests check and insert in steps of their own and      *)
(* pauses, resumes and the worker move runs in between.                    *)
OneRunAtATime == \A u \in Users : Cardinality(ActiveRuns(u)) <= 1

(* A run that has no items although its request has ended is worked on by  *)
(* nobody and blocks the user's next runs.  Only a restart between the two *)
(* commits, or another run with the same idempotency key, leaves one.      *)
StrandedOnlyByKeyOrRestart ==
  \A r \in DOMAIN run :
    pc[r] \in Ended /\ items[r] = <<>> =>
      pc[r] = "lost" \/ (pc[r] = "refused" /\ SameKey(r) \ {r} # {})

(* A user is charged for a request only when it is answered, and then the  *)
(* run it is answered with exists; a restart or an exception between the   *)
(* commits costs the user nothing.                                         *)
ChargedIsAnswered ==
  \A r \in ledger : pc[r] = "answered" /\ (answer[r] \in DOMAIN run \/ Chosen[r] = {})

(* Every request that passed the rate limit ends, although requests that   *)
(* hold a connection wait for a second one of the same pool.               *)
RequestsEnd == \A r \in Requests : pc[r] = "counted" ~> pc[r] \in Ended

(* "Cancel a ranking job": a run whose cancellation was confirmed is       *)
(* cancelled.                                                              *)
CancelIsKept == \A r \in told : run[r] = "cancelled"

=============================================================================
