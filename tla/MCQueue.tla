------------------------------- MODULE MCQueue -------------------------------
(* The queue seen twice: sessions that take effect when they commit, and   *)
(* the row locks they collect until then.  The views share no state, so    *)
(* every behaviour follows one of them.                                    *)
EXTENDS MCOrchestrator, RowLocks

VARIABLE view

queueVars == <<view, vars, lockVars>>

QueueInit == view \in {"sessions", "locks"} /\ Init /\ LockInit

QueueNext ==
  \/ view = "sessions" /\ Next /\ UNCHANGED <<view, lockVars>>
  \/ view = "locks" /\ LockNext /\ UNCHANGED <<view, vars>>

QueueSpec == QueueInit /\ [][QueueNext]_queueVars

(* The types of both views.                                                *)
QueueTypeOK == TypeOK /\ LocksTypeOK
=============================================================================
