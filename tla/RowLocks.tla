------------------------------ MODULE RowLocks ------------------------------
(***************************************************************************)
(* The row locks inside the sessions of one user's queue                   *)
(* (app/services/orchestrator/execution_queue.py).  A flush sends the      *)
(* UPDATEs of the changed rows, and every SELECT flushes first, so a       *)
(* session locks row after row and keeps the locks until it ends:          *)
(*   - what starts, completes, fails, limits or cancels a job: the job,    *)
(*     flushed by the SELECT of _get_or_create_queue_state, then the queue *)
(*     row; a retry, and a failure that will be retried: the job only;     *)
(*   - a retry of all failed jobs: these jobs in one flush, by primary key;*)
(*   - pause_queue: the queue row;                                         *)
(*   - resume_queue: the queue row, if it was paused, flushed by the SELECT*)
(*     of the pending jobs, then these by primary key;                     *)
(*   - a cancel of all jobs: a job, the queue row, the other jobs, in the  *)
(*     order of created_at and so in any order of the keys.                *)
(* Jobs are numbered by their primary keys; the queue row, of another      *)
(* table, bears the number behind theirs.  The row exists and no UPDATE    *)
(* waits for an entry of the unique index.                                 *)
(***************************************************************************)
EXTENDS Integers, FiniteSets

CONSTANTS
  LockSessions,  \* database sessions, each one transaction
  JobCount,      \* jobs of the user
  NoRow

ASSUME RowLocksAssumption == JobCount \in Nat \ {0} /\ NoRow \notin 1 .. JobCount + 1

VARIABLES
  purpose,  \* what each session is about; "none" before it, "over" after
  left,     \* the rows it has still to write
  held,     \* the rows it has locked
  asks      \* the row its UPDATE waits for

lockVars == <<purpose, left, held, asks>>

JobRows == 1 .. JobCount
QueueRow == JobCount + 1

(* A bulk session is a pause, a resume, a retry of all failed jobs, or an  *)
(* enqueue, whose new job nobody else sees.                                *)
Purposes == {"job", "bulk", "cancel_all"}

(* The rows a session may have to write.                                   *)
RowsToWrite(kind) ==
  CASE kind = "job"        -> {{j} : j \in JobRows} \cup {{j, QueueRow} : j \in JobRows}
    [] kind = "bulk"       -> SUBSET (JobRows \cup {QueueRow}) \ {{}}
    [] kind = "cancel_all" -> {jobs \cup {QueueRow} : jobs \in SUBSET JobRows \ {{}}}

Begin(s, kind) ==
  /\ purpose[s] = "none"
  /\ purpose' = [purpose EXCEPT ![s] = kind]
  /\ \E rows \in RowsToWrite(kind) : left' = [left EXCEPT ![s] = rows]
  /\ UNCHANGED <<held, asks>>

Running(s) == purpose[s] \in Purposes /\ asks[s] = NoRow

Lowest(rows, r) == r \in rows /\ \A q \in rows : r <= q

(* Mutant of NextRow: rows are sent in the order they were loaded in.      *)
NextRowUnsorted(s, r) ==
  IF purpose[s] = "cancel_all" /\ held[s] = {} THEN r \in left[s] \ {QueueRow} ELSE r \in left[s]

(* The row a session writes next.                                          *)
NextRow(s, r) ==
  CASE purpose[s] = "bulk" /\ QueueRow \in left[s] -> r = QueueRow
    [] purpose[s] = "cancel_all" ->
         IF held[s] # {} /\ QueueRow \in left[s] THEN r = QueueRow ELSE r \in left[s] \ {QueueRow}
    [] OTHER -> Lowest(left[s], r)

Lock(s, r) ==
  /\ held' = [held EXCEPT ![s] = @ \cup {r}]
  /\ left' = [left EXCEPT ![s] = @ \ {r}]
  /\ asks' = [asks EXCEPT ![s] = NoRow]

Free(s, r) == \A t \in LockSessions \ {s} : r \notin held[t]

(* An UPDATE locks its row, or waits for the transaction that holds it.    *)
Write(s) ==
  /\ Running(s)
  /\ \E r \in left[s] :
       /\ NextRow(s, r)
       /\ IF Free(s, r) THEN Lock(s, r)
          ELSE asks' = [asks EXCEPT ![s] = r] /\ UNCHANGED <<left, held>>
  /\ UNCHANGED purpose

Granted(s) ==
  /\ asks[s] # NoRow /\ Free(s, asks[s])
  /\ Lock(s, asks[s])
  /\ UNCHANGED purpose

(* cancel_job finds that a job has ended since it was listed.              *)
PassOver(s) ==
  /\ Running(s) /\ purpose[s] = "cancel_all"
  /\ \E j \in left[s] \ {QueueRow} : left' = [left EXCEPT ![s] = @ \ {j}]
  /\ UNCHANGED <<purpose, held, asks>>

Ends(s) ==
  /\ purpose' = [purpose EXCEPT ![s] = "over"]
  /\ held' = [held EXCEPT ![s] = {}]
  /\ left' = [left EXCEPT ![s] = {}]
  /\ asks' = [asks EXCEPT ![s] = NoRow]

(* The commit releases the locks; a cancel that passed over all jobs has   *)
(* not touched the queue row.                                              *)
Commit(s) ==
  /\ Running(s)
  /\ left[s] = {} \/ (purpose[s] = "cancel_all" /\ left[s] = {QueueRow} /\ held[s] = {})
  /\ Ends(s)

WaitsFor(s, t) == t # s /\ asks[s] # NoRow /\ asks[s] \in held[t]

(* Sessions none of which can go on before another of them ends.           *)
Deadlocked(group) == group # {} /\ \A s \in group : \E t \in group : WaitsFor(s, t)

(* PostgreSQL aborts a transaction of a cycle.                             *)
Victim(s) ==
  /\ \E group \in SUBSET LockSessions :
       /\ s \in group /\ Deadlocked(group)
       /\ \A part \in SUBSET group : Deadlocked(part) => part = group
  /\ Ends(s)

Works(s) == Write(s) \/ Granted(s) \/ PassOver(s) \/ Commit(s) \/ Victim(s)

LockInit ==
  /\ purpose = [s \in LockSessions |-> "none"]
  /\ left = [s \in LockSessions |-> {}] /\ held = [s \in LockSessions |-> {}]
  /\ asks = [s \in LockSessions |-> NoRow]

LockDone == (\A s \in LockSessions : purpose[s] = "over") /\ UNCHANGED lockVars

LockNext ==
  \/ \E s \in LockSessions, kind \in Purposes : Begin(s, kind)
  \/ \E s \in LockSessions : Works(s)
  \/ LockDone

LockSpec == LockInit /\ [][LockNext]_lockVars

-----------------------------------------------------------------------------
(* Properties                                                              *)

(* Types; a row is locked by one session, and no session asks for a row it *)
(* holds or need not write.                                                *)
LocksTypeOK ==
  /\ purpose \in [LockSessions -> Purposes \cup {"none", "over"}]
  /\ left \in [LockSessions -> SUBSET (JobRows \cup {QueueRow})]
  /\ held \in [LockSessions -> SUBSET (JobRows \cup {QueueRow})]
  /\ asks \in [LockSessions -> JobRows \cup {QueueRow, NoRow}]
  /\ \A s \in LockSessions : asks[s] # NoRow => asks[s] \in left[s]
  /\ \A s \in LockSessions : held[s] \cap left[s] = {}
  /\ \A s, t \in LockSessions : s # t => held[s] \cap held[t] = {}

(* Whatever waits for each other, one of them has written the queue row    *)
(* and goes on to a job: a resume, or a cancel of all jobs at its second   *)
(* one.  Workers, pauses, retries and cancels of single jobs, in any       *)
(* number, never deadlock among themselves.                                *)
DeadlockNeedsQueueRow ==
  \A group \in SUBSET LockSessions :
    Deadlocked(group) =>
      \E s \in group : /\ QueueRow \in held[s] /\ asks[s] \in JobRows
                       /\ purpose[s] \in {"bulk", "cancel_all"}

=============================================================================
