---------------------------- MODULE RequestDesk ----------------------------
(***************************************************************************)
(* Requests of one user that an administrator settles by hand: purchases,  *)
(* top-ups, refunds and upgrades (app/api/v1/billing.py) become            *)
(* notifications of the first administrator (app/services/notifications.py)*)
(* and any administrator approves them (app/api/v1/admin.py), under the    *)
(* refund policy (app/services/billing_policy.py) and the top-up packs     *)
(* (app/services/topups.py) in force at that moment.                       *)
(*                                                                         *)
(* Money is whole credits and plan prices; weekly plans, manual            *)
(* adjustments and lapsing subscriptions are those of module Billing.      *)
(***************************************************************************)
EXTENDS Integers, Sequences, FiniteSets

CONSTANTS
  Approvers, First,  \* the administrators, and the one created first
  PlanRank,       \* price of every paid plan
  Allowance,      \* [plans -> credits of a period]
  Packs,          \* credits a pack may hold
  Thresholds,     \* values of refund_credit_threshold
  MaxSubs, MaxTickets, MaxChanges  \* bounds

PaidPlans == DOMAIN PlanRank
Cycles == {"monthly", "yearly"}

(* ge=0 in the schema of a plan, and _valid_pack.                           *)
ASSUME DeskAssumption ==
  First \in Approvers /\ Allowance \in [PaidPlans -> Nat] /\ Packs \subseteq Nat

VARIABLES
  subs,       \* user_subscriptions: [plan, cycle, status, due, late]
  credits,    \* credit_accounts.balance
  consumed,   \* credits spent on actions in the current period
  negative,   \* the negative ledger rows since its start
  granted,    \* history: [topups, plans, spent, expired, revoked]
  tickets,    \* app_notifications: [ids -> [kind, owner, read, late, pack, by]]
  threshold, pack,  \* app_config: billing_policy and topup_packs
  changes

deskVars == <<subs, credits, consumed, negative, granted, tickets, threshold, pack, changes>>

moneyVars == <<credits, consumed, negative, granted>>
configVars == <<threshold, pack>>

ActiveRows == {i \in DOMAIN subs : subs[i].status = "active"}
Subscribed == ActiveRows # {}
CurrentRow == CHOOSE i \in ActiveRows : \A k \in ActiveRows : k <= i
CurrentSub == subs[CurrentRow]
Change == changes < MaxChanges /\ changes' = changes + 1

-----------------------------------------------------------------------------
(* The account, as far as the requests depend on it                        *)

(* refill_if_due resets the balance to the allowance; what is left of the  *)
(* period before is an expiry, a negative row of the new period.           *)
RefillDue == Subscribed /\ CurrentSub.due
Refill ==
  LET delta == Allowance[CurrentSub.plan] - credits
      lost == IF delta < 0 THEN - delta ELSE 0
  IN [credits  |-> Allowance[CurrentSub.plan],
      negative |-> negative + lost,
      granted  |-> [granted EXCEPT !.expired = @ + lost, !.plans = @ + delta + lost]]
Refilled == IF RefillDue THEN Refill
            ELSE [credits |-> credits, negative |-> negative, granted |-> granted]
Settled == IF RefillDue THEN [subs EXCEPT ![CurrentRow].due = FALSE] ELSE subs

(* An action that costs one credit.                                        *)
Spend ==
  /\ Change /\ Refilled.credits > 0
  /\ subs' = Settled
  /\ credits' = Refilled.credits - 1
  /\ consumed' = consumed + 1
  /\ negative' = Refilled.negative + 1
  /\ granted' = [Refilled.granted EXCEPT !.spent = @ + 1]
  /\ UNCHANGED <<tickets, configVars>>

-----------------------------------------------------------------------------
(* Requests                                                                *)

(* notify_admin: the first administrator, whoever is at work.  Ids are     *)
(* random in the code; one that was deleted may serve again.               *)
TicketIds == 1 .. MaxTickets
NotifyAdmin(kind, size) ==
  /\ TicketIds \ DOMAIN tickets # {}
  /\ LET id == CHOOSE i \in TicketIds : i \notin DOMAIN tickets
         new == [kind |-> kind, owner |-> First, read |-> FALSE, late |-> FALSE, pack |-> size,
                 by |-> {}]
     IN tickets' = [i \in DOMAIN tickets \union {id} |-> IF i = id THEN new ELSE tickets[i]]
  /\ UNCHANGED <<subs, moneyVars, configVars, changes>>

RequestPurchase == NotifyAdmin("purchase_request", 0)
RequestTopup == Subscribed /\ NotifyAdmin("topup_request", pack)

(* compute_usage_in_period and check_refund_eligibility                    *)
UsageInPeriod == negative
Eligible(sub, usage) ==
  IF sub.cycle = "yearly" THEN ~sub.late ELSE usage < threshold
RequestRefund ==
  /\ Subscribed /\ Eligible(CurrentSub, UsageInPeriod)
  /\ NotifyAdmin("refund_request", 0)

(* Only a plan with a positive prorated due is an upgrade.                 *)
IsUpgrade(from, to) == PlanRank[to] > PlanRank[from]
RequestUpgrade ==
  /\ Subscribed /\ \E plan \in PaidPlans : IsUpgrade(CurrentSub.plan, plan)
  /\ NotifyAdmin("upgrade_prorate", 0)

-----------------------------------------------------------------------------
(* Approvals                                                               *)

(* Mutant of MarkNotificationsRead: whoever's they are.                    *)
ReadForAnyone(list, d, kinds, only) ==
  [i \in DOMAIN list |->
     IF list[i].kind \in kinds /\ i \in only THEN [list[i] EXCEPT !.read = TRUE] ELSE list[i]]

(* mark_notifications_read touches those of the approving administrator.   *)
MarkNotificationsRead(list, d, kinds, only) ==
  [i \in DOMAIN list |->
     IF list[i].owner = d /\ list[i].kind \in kinds /\ i \in only
     THEN [list[i] EXCEPT !.read = TRUE] ELSE list[i]]
Approved(list, d, only) ==
  [i \in DOMAIN list |-> IF i \in only THEN [list[i] EXCEPT !.by = @ \union {d}] ELSE list[i]]

(* POST /admin/credits/topup, for a pack that is still sold and a user who *)
(* is still subscribed; the ticket is named, and may be approved again.    *)
ApproveTopup(d, i) ==
  /\ Change
  /\ tickets[i].kind = "topup_request" /\ tickets[i].pack = pack
  /\ Subscribed
  /\ subs' = Settled
  /\ credits' = Refilled.credits + pack
  /\ negative' = Refilled.negative
  /\ granted' = [Refilled.granted EXCEPT !.topups = @ + pack]
  /\ tickets' = Approved(MarkNotificationsRead(tickets, d, {"topup_request"}, {i}), d, {i})
  /\ UNCHANGED <<consumed, configVars>>

(* POST /admin/credits/refund revokes what is left and marks whatever      *)
(* subscription is current; without one a former refund is confirmed.  The *)
(* balance is read before adjust_credits refills.                          *)
ApproveRefund(d, i) ==
  /\ Change
  /\ tickets[i].kind = "refund_request"
  /\ \/ Subscribed \/ \E k \in DOMAIN subs : subs[k].status = "refunded"
  /\ IF ~Subscribed THEN UNCHANGED <<subs, moneyVars>>
     ELSE IF credits > 0
     THEN LET revoked == IF credits < Refilled.credits THEN credits ELSE Refilled.credits IN
          /\ credits' = Refilled.credits - revoked
          /\ negative' = Refilled.negative + revoked
          /\ granted' = [Refilled.granted EXCEPT !.revoked = @ + revoked]
          /\ subs' = [Settled EXCEPT ![CurrentRow].status = "refunded"]
          /\ UNCHANGED consumed
     ELSE subs' = [subs EXCEPT ![CurrentRow].status = "refunded"] /\ UNCHANGED moneyVars
  /\ tickets' = Approved(MarkNotificationsRead(tickets, d, {"refund_request"}, {i}), d, {i})
  /\ UNCHANGED configVars

(* POST /admin/subscriptions supersedes what is active, starts a period    *)
(* and closes every purchase and upgrade request of the user.              *)
CreateSubscription(d, plan, cycle) ==
  /\ Change /\ Len(subs) < MaxSubs
  /\ subs' = Append([i \in DOMAIN subs |->
               IF i \in ActiveRows THEN [subs[i] EXCEPT !.status = "cancelled"] ELSE subs[i]],
               [plan |-> plan, cycle |-> cycle, status |-> "active", due |-> TRUE, late |-> FALSE])
  /\ consumed' = 0 /\ negative' = 0
  /\ LET kinds == {"purchase_request", "upgrade_prorate"} IN
     tickets' = Approved(MarkNotificationsRead(tickets, d, kinds, DOMAIN tickets), d,
                         {i \in DOMAIN tickets : tickets[i].kind \in kinds})
  /\ UNCHANGED <<credits, granted, configVars>>

-----------------------------------------------------------------------------
(* Notifications and configuration                                         *)

(* The owner reads one or all of them, or deletes all.                     *)
MarkRead(i) ==
  /\ Change
  /\ tickets' = [tickets EXCEPT ![i].read = TRUE, ![i].by = @ \union {tickets[i].owner}]
  /\ UNCHANGED <<subs, moneyVars, configVars>>
ClearNotifications ==
  /\ Change /\ DOMAIN tickets # {} /\ tickets' = <<>>
  /\ UNCHANGED <<subs, moneyVars, configVars>>

(* Any user's list purges what is older than the TTL, read or not.         *)
PurgeExpired ==
  /\ \E i \in DOMAIN tickets : tickets[i].late
  /\ tickets' = [i \in {k \in DOMAIN tickets : ~tickets[k].late} |-> tickets[i]]
  /\ UNCHANGED <<subs, moneyVars, configVars, changes>>

(* The TTL of the notifications and the cooling days of a refund pass.     *)
DaysPass ==
  /\ Change
  /\ subs' = [i \in DOMAIN subs |-> [subs[i] EXCEPT !.late = TRUE]]
  /\ tickets' = [i \in DOMAIN tickets |-> [tickets[i] EXCEPT !.late = TRUE]]
  /\ UNCHANGED <<moneyVars, configVars>>

SetBillingPolicy ==
  /\ Change /\ threshold' \in Thresholds /\ UNCHANGED <<subs, moneyVars, tickets, pack>>
SetTopupPacks ==
  /\ Change /\ pack' \in Packs /\ UNCHANGED <<subs, moneyVars, tickets, threshold>>

DeskInit ==
  /\ subs = <<>> /\ credits = 0 /\ consumed = 0 /\ negative = 0
  /\ granted = [topups |-> 0, plans |-> 0, spent |-> 0, expired |-> 0, revoked |-> 0]
  /\ tickets = <<>> /\ threshold \in Thresholds /\ pack \in Packs /\ changes = 0

DeskNext ==
  \/ Spend \/ RequestPurchase \/ RequestTopup \/ RequestRefund \/ RequestUpgrade
  \/ \E d \in Approvers, i \in DOMAIN tickets : ApproveTopup(d, i) \/ ApproveRefund(d, i)
  \/ \E d \in Approvers, plan \in PaidPlans, cycle \in Cycles : CreateSubscription(d, plan, cycle)
  \/ \E i \in DOMAIN tickets : MarkRead(i)
  \/ ClearNotifications \/ PurgeExpired \/ DaysPass \/ SetBillingPolicy \/ SetTopupPacks

DeskSpec == DeskInit /\ [][DeskNext]_deskVars

-----------------------------------------------------------------------------
(* Properties                                                              *)

(* However requests, approvals and purchases interleave: a request is off  *)
(* the first administrator's list exactly when he approved it or put it    *)
(* aside himself, so another administrator's approval leaves it open; the  *)
(* balance is what plans and top-ups granted less what was spent, expired  *)
(* or revoked; at most one subscription is active; and a refund leaves     *)
(* nothing but what a refill granted in the same step.                     *)
RequestsAreSettled ==
  /\ \A i \in DOMAIN tickets : tickets[i].read <=> tickets[i].owner \in tickets[i].by
  /\ credits = granted.plans + granted.topups - granted.spent - granted.expired - granted.revoked
  /\ credits >= 0 /\ Cardinality(ActiveRows) <= 1
  /\ consumed <= negative

(* "Idempotent -- approving twice never re-runs the zero-out": a refund    *)
(* request refunds the subscription it was made for and no later one.      *)
RefundOnce ==
  [][\A d \in Approvers, i \in DOMAIN tickets :
       ApproveRefund(d, i) /\ Subscribed => tickets[i].by = {}]_deskVars

(* "Credits consumed within the current billing period": the usage that    *)
(* decides a refund counts consumption only.                               *)
UsageIsConsumption == Subscribed => UsageInPeriod = consumed

(* "The admin therefore never sees an invalid refund_request".             *)
PendingRefundsAreValid ==
  \A i \in DOMAIN tickets :
    tickets[i].kind = "refund_request" /\ ~tickets[i].read =>
      Subscribed /\ Eligible(CurrentSub, UsageInPeriod)
=============================================================================
