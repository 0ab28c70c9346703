----------------------------- MODULE MCBilling -----------------------------
(* Instances of Billing for TLC: a client and an administrator, a weekly   *)
(* free plan and a paid plan with a billing period.                        *)
EXTENDS Billing

CONSTANTS rank, verify

FreePlan == [credits |-> 1, cadence |-> "weekly", paid |-> FALSE, daily |-> 0, weekly |-> 0,
             actions |-> {rank}, active |-> TRUE]

MaxPlan == [credits |-> 2, cadence |-> "period", paid |-> TRUE, daily |-> 0, weekly |-> 0,
            actions |-> {rank}, active |-> TRUE]

(* The plan an administrator edits: with quotas, then deactivated, or      *)
(* turned into a weekly one with a smaller allowance.                      *)
QuotaPlan   == [MaxPlan EXCEPT !.daily = 1, !.weekly = 2]
RetiredPlan == [QuotaPlan EXCEPT !.active = FALSE]
ShrunkPlan  == [QuotaPlan EXCEPT !.cadence = "weekly", !.credits = 0]

MCInitialPlans == [k \in PlanKeys |-> IF k = FreeTier THEN FreePlan ELSE MaxPlan]
MCQuotaPlans == [k \in PlanKeys |-> IF k = FreeTier THEN FreePlan ELSE QuotaPlan]

Versions == {RetiredPlan, ShrunkPlan}

MCCost == [act \in Actions |-> 1]
VerifyIsFree == [act \in Actions |-> IF act = verify THEN 0 ELSE 2]

MCSpan == [c \in Cycles |-> IF c = Monthly THEN 1 ELSE 2]
MCAdjustments == {-1, 1}
Removal == {-1}
=============================================================================
