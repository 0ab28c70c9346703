---------------------------- MODULE JobLifecycle ----------------------------
(***************************************************************************)
(* What the ExecutionQueue promises about one job, whatever runs beside    *)
(* it: "Job lifecycle: pending -> queued -> running -> completed / failed  *)
(* / cancelled" (app/services/orchestrator/execution_queue.py), with the   *)
(* two detours of a running job, retrying and rate_limited, and the user's *)
(* retry of a failed one.  Completed and cancelled are final.              *)
(***************************************************************************)
CONSTANT Jobs

VARIABLE status   \* [Jobs -> status, or "none" before the job is inserted]

Legal ==
  {<<"none", "pending">>, <<"none", "queued">>, <<"pending", "queued">>}
    \cup ({"queued", "retrying"} \X {"running"})
    \cup ({"running"} \X {"completed", "retrying", "rate_limited", "failed"})
    \cup ({"rate_limited"} \X {"retrying", "failed"})
    \cup {<<"failed", "queued">>}
    \cup ({"pending", "queued", "running", "retrying", "rate_limited"} \X {"cancelled"})

Init == status = [j \in Jobs |-> "none"]

Next ==
  /\ DOMAIN status' = Jobs
  /\ \A j \in Jobs : status'[j] = status[j] \/ <<status[j], status'[j]>> \in Legal

Spec == Init /\ [][Next]_status
=============================================================================
