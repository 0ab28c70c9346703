------------------------------ MODULE Billing -------------------------------
(***************************************************************************)
(* Credits, subscriptions and plans: app/services/credits.py,              *)
(* subscriptions.py, topups.py, access_gate.py and the billing routes.     *)
(*                                                                         *)
(* One action is one request that commits: get_db opens one transaction    *)
(* per request, so a request that raises (402, 403, 404, 409, 429) rolls   *)
(* everything back and is a stuttering step here.  Requests are serial in  *)
(* this module; GateTransactions interleaves them.                         *)
(*                                                                         *)
(* Time is counted in ticks; Day, Week and the spans of the billing cycles *)
(* are numbers of ticks.                                                   *)
(***************************************************************************)
EXTENDS Integers, Sequences

CONSTANTS
  Users,          \* accounts
  Admins,         \* the users whose role is admin
  PlanKeys,       \* plan keys an administrator may create
  FreeTier,       \* the plan key "free"
  AdminPlan,      \* the plan key "max" given to administrators
  EditablePlans,  \* the plans an administrator edits or deletes
  PlanVersions,   \* the contents an edit may give to a plan
  InitialPlans,   \* the catalog of the bootstrap migration
  Actions,        \* billable actions
  Ungated,        \* the actions whose catalog entry has no feature_gate
  Cost,           \* credit cost of an action
  Cycles,         \* billing cycles
  Span,           \* PERIOD_DAYS: ticks of a cycle
  YearlySpan,     \* the span from which renewal infers a yearly cycle
  Yearly, Monthly,
  Day, Week,      \* quota windows; Week is also the weekly refill cadence
  Adjustments,    \* the deltas an administrator tries
  Packs,          \* the credits of the top-up packs
  TierEdits,      \* the tiers an administrator sets by hand
  MaxClock,       \* bound: the last tick
  MaxSubs,        \* bound: rows of user_subscriptions
  MaxEarned,      \* bound: credits an account may have earned by hand
  Never,          \* a null timestamp
  NoPlan, NoSub, NoAccount

Plan == [credits : Nat, cadence : {"weekly", "period"}, paid : BOOLEAN,
         daily : Nat, weekly : Nat, actions : SUBSET Actions, active : BOOLEAN]

ASSUME BillingAssumption ==
  /\ Admins \subseteq Users
  /\ {FreeTier, AdminPlan} \subseteq PlanKeys
  /\ PlanVersions \subseteq Plan
  /\ NoPlan \notin Plan
  /\ EditablePlans \subseteq PlanKeys
  /\ InitialPlans \in [PlanKeys -> Plan \cup {NoPlan}]
  /\ Ungated \subseteq Actions
  /\ Cost \in [Actions -> Nat]
  /\ {Yearly, Monthly} \subseteq Cycles
  /\ Span \in [Cycles -> Nat \ {0}]
  /\ YearlySpan \in Nat
  /\ Day \in Nat \ {0} /\ Week \in Nat \ {0}
  /\ Adjustments \subseteq Int
  /\ Packs \subseteq Nat
  /\ TierEdits \subseteq PlanKeys
  /\ MaxClock \in Nat /\ MaxSubs \in Nat /\ MaxEarned \in Nat
  /\ Never \notin Int

VARIABLES
  clock,     \* now
  plans,     \* table plans: PlanKeys -> a version or NoPlan
  tier,      \* users.tier
  subs,      \* table user_subscriptions, in the order of created_at
  account,   \* table credit_accounts: one row per user, created lazily
  ledger,    \* table credit_transactions: the sum of the rows per kind
  periods,   \* history: periods opened per user (activations and renewals)
  refills    \* history: refills granted per user

vars == <<clock, plans, tier, subs, account, ledger, periods, refills>>

(* The balances by user; a user without a row has none.                    *)
Balances == [u \in Users |-> IF account[u] = NoAccount THEN 0 ELSE account[u].balance]

L == INSTANCE CreditLedger WITH balance <- Balances

Time == Nat

Subscription ==
  [user : Users, plan : PlanKeys, start : Time, end : Time,
   status : {"active", "expired", "cancelled", "refunded"},
   renew : BOOLEAN, cancelled : BOOLEAN]

Account ==
  [balance : Nat, earned : Nat, used : Nat,
   refilled : Int \cup {Never}, created : Time,
   dayUsed : Nat, dayStart : Time, weekUsed : Nat, weekStart : Time]

ASSUME NullAssumption == NoSub \notin Subscription /\ NoAccount \notin Account

TypeOK ==
  /\ clock \in Time
  /\ plans \in [PlanKeys -> Plan \cup {NoPlan}]
  /\ tier \in [Users -> PlanKeys]
  /\ subs \in Seq(Subscription)
  /\ account \in [Users -> Account \cup {NoAccount}]
  /\ ledger \in [Users -> L!Sums]
  /\ periods \in [Users -> Nat]
  /\ refills \in [Users -> Nat]

-----------------------------------------------------------------------------
(* Subscriptions                                                           *)

ActiveRows(S, u) == {i \in DOMAIN S : S[i].user = u /\ S[i].status = "active"}

(* The latest active row (order_by created_at desc, limit 1).              *)
Latest(S, u) == CHOOSE i \in ActiveRows(S, u) : \A j \in ActiveRows(S, u) : j <= i

Current(S, u) == IF ActiveRows(S, u) = {} THEN NoSub ELSE S[Latest(S, u)]

PlanOf(s) == IF s = NoSub THEN NoPlan ELSE plans[s.plan]

NewSubscription(u, key, cycle, renew) ==
  [user |-> u, plan |-> key, start |-> clock, end |-> clock + Span[cycle],
   status |-> "active", renew |-> renew, cancelled |-> FALSE]

(* Mutant of Superseded: the other active rows are left alone.             *)
SupersedesNothing(S, u) == S

(* A new active row that supersedes the user's other active rows.          *)
Superseded(S, u) ==
  [i \in DOMAIN S |->
     IF i \in ActiveRows(S, u) THEN [S[i] EXCEPT !.status = "cancelled", !.cancelled = TRUE]
     ELSE S[i]]

Activated(S, u, key, cycle, renew) ==
  Append(Superseded(S, u), NewSubscription(u, key, cycle, renew))

Overdue(s) == s.status = "active" /\ s.end < clock

(* renew_subscription: the cycle is inferred from the previous span.       *)
Renewed(s) ==
  [s EXCEPT !.start = clock,
            !.end = clock + Span[IF s.end - s.start >= YearlySpan THEN Yearly ELSE Monthly],
            !.renew = TRUE]

Expired(s) == [s EXCEPT !.status = "expired"]

Processed(S) ==
  [i \in DOMAIN S |->
     IF ~Overdue(S[i]) THEN S[i] ELSE IF S[i].renew THEN Renewed(S[i]) ELSE Expired(S[i])]

OverdueRows(S, u, renew) ==
  {i \in DOMAIN S : S[i].user = u /\ Overdue(S[i]) /\ S[i].renew = renew}

(* Mutant of EndedPlans: renewed subscriptions count as ended.             *)
RenewalsEndPlans(S, u) == {S[i].plan : i \in OverdueRows(S, u, FALSE) \cup OverdueRows(S, u, TRUE)}

EndedPlans(S, u) == {S[i].plan : i \in OverdueRows(S, u, FALSE)}

(* Mutant of TierAfter: the tier survives the end of its plan.             *)
TierStays(t, endedPlans) == t

(* The tier falls back to free only if it is still the ended plan's key.   *)
TierAfter(t, endedPlans) == IF t \in endedPlans THEN FreeTier ELSE t

-----------------------------------------------------------------------------
(* Credit accounts                                                         *)

(* The refill anchor of a new account lies one week back, so the first     *)
(* weekly check is due.                                                    *)
NewAccount ==
  [balance |-> 0, earned |-> 0, used |-> 0, refilled |-> clock - Week,
   created |-> clock, dayUsed |-> 0, dayStart |-> clock, weekUsed |-> 0, weekStart |-> clock]

Acct(u) == IF account[u] = NoAccount THEN NewAccount ELSE account[u]

(* A new subscription clears the anchor of an existing account.            *)
Linked(u) ==
  IF account[u] = NoAccount THEN NewAccount ELSE [account[u] EXCEPT !.refilled = Never]

Anchor(a) == IF a.refilled = Never THEN a.created ELSE a.refilled

(* Mutant of RefillDue: the period refill is due again in its own tick.    *)
RefillDueAgain(a, s) ==
  /\ PlanOf(s) # NoPlan
  /\ PlanOf(s).active
  /\ IF PlanOf(s).cadence = "weekly"
     THEN clock >= Anchor(a) + Week
     ELSE a.refilled = Never \/ s.start >= a.refilled

RefillDue(a, s) ==
  /\ PlanOf(s) # NoPlan
  /\ PlanOf(s).active
  /\ IF PlanOf(s).cadence = "weekly"
     THEN clock >= Anchor(a) + Week
     ELSE a.refilled = Never \/ s.start > a.refilled

RefillDelta(a, s) == PlanOf(s).credits - a.balance

(* The balance is reset to the allowance: what was left over expires.      *)
Refilled(a, s) ==
  IF ~RefillDue(a, s) THEN a
  ELSE [a EXCEPT !.balance = PlanOf(s).credits,
                 !.earned = IF RefillDelta(a, s) > 0 THEN @ + RefillDelta(a, s) ELSE @,
                 !.refilled = clock]

(* Mutant of RefillKind: an expiry is booked as a refill.                  *)
AlwaysRefill(a, s) == "refill"

RefillKind(a, s) == IF RefillDelta(a, s) > 0 THEN "refill" ELSE "expiry"

Post(sums, kind, delta) == [sums EXCEPT ![kind] = @ + delta]

PostRefill(sums, a, s) ==
  IF RefillDue(a, s) THEN Post(sums, RefillKind(a, s), RefillDelta(a, s)) ELSE sums

RefillsAfter(u, a, s) ==
  IF RefillDue(a, s) /\ RefillKind(a, s) = "refill"
  THEN [refills EXCEPT ![u] = @ + 1] ELSE refills

(* Mutant of Clamped: the balance may go below zero.                       *)
Unclamped(a, delta) == a.balance + delta

(* adjust_credits clamps the balance at zero and posts what it applied.    *)
Clamped(a, delta) == IF a.balance + delta < 0 THEN 0 ELSE a.balance + delta

Applied(a, delta) == Clamped(a, delta) - a.balance

Adjusted(a, delta) ==
  [a EXCEPT !.balance = Clamped(a, delta),
            !.earned = IF Applied(a, delta) > 0 THEN @ + Applied(a, delta) ELSE @,
            !.used = IF Applied(a, delta) < 0 THEN @ - Applied(a, delta) ELSE @]

Spent(a, cost) == [a EXCEPT !.balance = @ - cost, !.used = @ + cost]

(* Mutant of DayRestarted: a new day starts with the old count.            *)
DayKeepsCount(a) == IF clock >= a.dayStart + Day THEN [a EXCEPT !.dayStart = clock] ELSE a

(* Quota windows restart lazily, when they are next looked at.             *)
DayRestarted(a) ==
  IF clock >= a.dayStart + Day THEN [a EXCEPT !.dayUsed = 0, !.dayStart = clock] ELSE a

WeekRestarted(a) ==
  IF clock >= a.weekStart + Week THEN [a EXCEPT !.weekUsed = 0, !.weekStart = clock] ELSE a

QuotaReset(a) == WeekRestarted(DayRestarted(a))

FitsQuota(a, p) ==
  /\ p.daily > 0 => a.dayUsed + 1 <= p.daily
  /\ p.weekly > 0 => a.weekUsed + 1 <= p.weekly

QuotaCharged(a) == [a EXCEPT !.dayUsed = @ + 1, !.weekUsed = @ + 1]

HasQuota(p) == p # NoPlan /\ (p.daily > 0 \/ p.weekly > 0)

-----------------------------------------------------------------------------
(* Requests                                                                *)

Init ==
  /\ clock = 0
  /\ plans = InitialPlans
  /\ tier = [u \in Users |-> FreeTier]
  /\ subs = <<>>
  /\ account = [u \in Users |-> NoAccount]
  /\ ledger = [u \in Users |-> L!EmptySums]
  /\ periods = [u \in Users |-> 0]
  /\ refills = [u \in Users |-> 0]

(* enforce_action_gate lets a client through: feature, quota, balance.     *)
MayUse(p, act) == act \in Ungated \/ (p # NoPlan /\ act \in p.actions)

GateAction(u, act) ==
  LET s == Current(subs, u)
      p == PlanOf(s)
      q == QuotaReset(Acct(u))
      a == IF HasQuota(p) THEN QuotaCharged(q) ELSE Acct(u)
      r == Refilled(a, s)
  IN /\ u \notin Admins
     /\ MayUse(p, act)
     /\ HasQuota(p) => FitsQuota(q, p)
     /\ IF Cost[act] = 0
        THEN /\ HasQuota(p)
             /\ account' = [account EXCEPT ![u] = a]
             /\ UNCHANGED <<ledger, refills>>
        ELSE /\ r.balance >= Cost[act]
             /\ account' = [account EXCEPT ![u] = Spent(r, Cost[act])]
             /\ ledger' = [ledger EXCEPT ![u] = Post(PostRefill(@, a, s), "spend", - Cost[act])]
             /\ refills' = RefillsAfter(u, a, s)
     /\ UNCHANGED <<clock, plans, tier, subs, periods>>

(* GET /billing/status: gives an administrator a subscription, ends or     *)
(* renews the overdue subscriptions of every user, then refills and resets *)
(* the quota windows of the caller.                                        *)
AdminNeedsPlan(u) ==
  /\ u \in Admins
  /\ Current(subs, u) = NoSub
  /\ plans[AdminPlan] # NoPlan
  /\ plans[AdminPlan].active

Granted(u) ==
  IF AdminNeedsPlan(u) THEN Activated(subs, u, AdminPlan, Monthly, TRUE) ELSE subs

(* A renewal clears the refill anchor of the row's owner; a row created    *)
(* for an administrator links his account.                                 *)
Relinked(u, v) ==
  IF v = u /\ AdminNeedsPlan(u) THEN Linked(v)
  ELSE IF OverdueRows(Granted(u), v, TRUE) # {} /\ account[v] # NoAccount
       THEN [account[v] EXCEPT !.refilled = Never]
       ELSE account[v]

BillingStatus(u) ==
  LET ensured == AdminNeedsPlan(u)
      S == Granted(u)
      own == IF Relinked(u, u) = NoAccount THEN NewAccount ELSE Relinked(u, u)
      s == Current(Processed(S), u)
  IN /\ ensured => Len(subs) < MaxSubs
     /\ subs' = Processed(S)
     /\ tier' = [v \in Users |->
                  TierAfter(IF v = u /\ ensured THEN AdminPlan ELSE tier[v], EndedPlans(S, v))]
     /\ periods' = [v \in Users |->
                     periods[v] + (IF v = u /\ ensured THEN 1 ELSE 0)
                                + (IF OverdueRows(S, v, TRUE) # {} THEN 1 ELSE 0)]
     /\ account' = [v \in Users |->
                     IF v = u THEN QuotaReset(Refilled(own, s)) ELSE Relinked(u, v)]
     /\ ledger' = [ledger EXCEPT ![u] = PostRefill(@, own, s)]
     /\ refills' = RefillsAfter(u, own, s)
     /\ UNCHANGED <<clock, plans>>

(* adjust_credits, reached from three routes: refill, then add or remove.  *)
Adjust(u, kind, delta) ==
  LET a == Acct(u)
      s == Current(subs, u)
      r == Refilled(a, s)
  IN /\ account' = [account EXCEPT ![u] = Adjusted(r, delta)]
     /\ ledger' = [ledger EXCEPT ![u] = Post(PostRefill(@, a, s), kind, Applied(r, delta))]
     /\ refills' = RefillsAfter(u, a, s)

(* POST /admin/credits/adjust                                              *)
AdminAdjust(u, delta) ==
  /\ delta > 0 => Acct(u).earned + delta <= MaxEarned
  /\ Adjust(u, "admin_adjust", delta)
  /\ UNCHANGED <<clock, plans, tier, subs, periods>>

(* POST /admin/credits/topup: the paid-plan rule is checked again here.    *)
ApproveTopup(u, pack) ==
  /\ PlanOf(Current(subs, u)) # NoPlan
  /\ PlanOf(Current(subs, u)).active
  /\ PlanOf(Current(subs, u)).paid
  /\ Acct(u).earned + pack <= MaxEarned
  /\ Adjust(u, "topup", pack)
  /\ UNCHANGED <<clock, plans, tier, subs, periods>>

(* POST /admin/credits/refund: the balance is read, then adjust_credits    *)
(* refills if that is due and removes what was read.                       *)
ApproveRefund(u) ==
  LET s == Current(subs, u)
  IN /\ s # NoSub
     /\ IF Acct(u).balance > 0
        THEN Adjust(u, "refund_revoke", - Acct(u).balance)
        ELSE /\ account' = [account EXCEPT ![u] = Acct(u)]
             /\ UNCHANGED <<ledger, refills>>
     /\ subs' = [subs EXCEPT ![Latest(subs, u)].status = "refunded", ![Latest(subs, u)].cancelled = TRUE]
     /\ tier' = [tier EXCEPT ![u] = TierAfter(@, {s.plan})]
     /\ UNCHANGED <<clock, plans, periods>>

(* POST /admin/subscriptions                                               *)
CreateSubscription(u, key, cycle, renew) ==
  /\ plans[key] # NoPlan
  /\ plans[key].active
  /\ Len(subs) < MaxSubs
  /\ subs' = Activated(subs, u, key, cycle, renew)
  /\ tier' = [tier EXCEPT ![u] = key]
  /\ account' = [account EXCEPT ![u] = Linked(u)]
  /\ periods' = [periods EXCEPT ![u] = @ + 1]
  /\ UNCHANGED <<clock, plans, ledger, refills>>

(* Mutant of CancelSubscription: the renewal flag is forgotten.            *)
CancelKeepsRenewal(u) ==
  LET s == Current(subs, u)
  IN /\ s # NoSub
     /\ ~s.cancelled
     /\ subs' = [subs EXCEPT ![Latest(subs, u)].cancelled = TRUE]
     /\ UNCHANGED <<clock, plans, tier, account, ledger, periods, refills>>

(* POST /billing/cancel: the paid days remain.                             *)
CancelSubscription(u) ==
  LET s == Current(subs, u)
  IN /\ s # NoSub
     /\ ~s.cancelled
     /\ subs' = [subs EXCEPT ![Latest(subs, u)].renew = FALSE, ![Latest(subs, u)].cancelled = TRUE]
     /\ UNCHANGED <<clock, plans, tier, account, ledger, periods, refills>>

(* PATCH /admin/users/{id}: the tier is set by hand, the subscription stays. *)
UpdateUser(u, key) ==
  /\ plans[key] # NoPlan
  /\ tier' = [tier EXCEPT ![u] = key]
  /\ UNCHANGED <<clock, plans, subs, account, ledger, periods, refills>>

(* PUT and DELETE /admin/plans/{key}                                       *)
PutPlan(key, version) ==
  /\ plans' = [plans EXCEPT ![key] = version]
  /\ UNCHANGED <<clock, tier, subs, account, ledger, periods, refills>>

RemovePlan(key) ==
  /\ plans[key] # NoPlan
  /\ plans' = [plans EXCEPT ![key] = NoPlan]
  /\ UNCHANGED <<clock, tier, subs, account, ledger, periods, refills>>

Tick ==
  /\ clock < MaxClock
  /\ clock' = clock + 1
  /\ UNCHANGED <<plans, tier, subs, account, ledger, periods, refills>>

Next ==
  \/ \E u \in Users, act \in Actions : GateAction(u, act)
  \/ \E u \in Users : BillingStatus(u)
  \/ \E u \in Users, delta \in Adjustments : AdminAdjust(u, delta)
  \/ \E u \in Users, pack \in Packs : ApproveTopup(u, pack)
  \/ \E u \in Users : ApproveRefund(u)
  \/ \E u \in Users, key \in PlanKeys, cycle \in Cycles, renew \in BOOLEAN :
       CreateSubscription(u, key, cycle, renew)
  \/ \E u \in Users : CancelSubscription(u)
  \/ \E u \in Users, key \in TierEdits : UpdateUser(u, key)
  \/ \E key \in EditablePlans, version \in PlanVersions : PutPlan(key, version)
  \/ \E key \in EditablePlans : RemovePlan(key)
  \/ Tick

Spec == Init /\ [][Next]_vars

-----------------------------------------------------------------------------
(* Safety                                                                  *)

Holders == {u \in Users : account[u] # NoAccount}

(* The ledger is "the single source of truth for balances": the spendable  *)
(* balance is the sum of the user's rows, through lazy refills, expiries   *)
(* and clamped adjustments.                                                *)
BalanceIsLedgerSum ==
  \A u \in Users :
    L!Total(ledger[u]) = IF account[u] = NoAccount THEN 0 ELSE account[u].balance

OneActive(S) ==
  \A i, j \in DOMAIN S :
    S[i].user = S[j].user /\ S[i].status = "active" /\ S[j].status = "active" => i = j

(* "Only one active subscription per user" (activate_subscription):        *)
(* activation supersedes, and renewal revives only rows that are active.   *)
OneActiveSubscription == OneActive(subs)

(* users.tier, which the tier checks of deps.py read, follows the          *)
(* subscription through activation, supersession, renewal, expiry and      *)
(* refund, as long as no administrator sets it by hand.                    *)
TierFollowsSubscription ==
  \A u \in Users :
    tier[u] = IF Current(subs, u) = NoSub THEN FreeTier ELSE Current(subs, u).plan

(* An allowance is granted at most once per opened period and once per     *)
(* elapsed week, whatever the order of plan changes, gates and statuses.   *)
RefillsAreBounded ==
  \A u \in Users : refills[u] <= periods[u] + clock \div Week

(* The quota windows restart at different moments but count the same       *)
(* actions: a day window that began within the week window counts no more  *)
(* actions than it, and the other way round.                               *)
QuotaWindowsNest ==
  \A u \in Holders :
    LET a == account[u]
    IN /\ a.weekStart <= a.dayStart => a.dayUsed <= a.weekUsed
       /\ a.dayStart <= a.weekStart => a.weekUsed <= a.dayUsed

(* Once its owner cancelled it, an active subscription is never renewed:   *)
(* it keeps its paid days until it expires, is superseded or refunded.     *)
CancelledIsNeverRenewed ==
  [][\A i \in DOMAIN subs : subs[i].cancelled =>
       subs'[i].end = subs[i].end /\ subs'[i].start = subs[i].start]_vars

(* "Revokes the exact remaining balance" (approve_refund).                 *)
RefundZeroesBalance ==
  [][\A u \in Users :
       (\E i \in DOMAIN subs :
          subs[i].user = u /\ subs[i].status = "active" /\ subs'[i].status = "refunded")
       => account'[u].balance = 0]_vars

(* The requests implement the abstract ledger: however a request combines  *)
(* refill, expiry, clamping and charging, it appends rows of the right     *)
(* sign to one user's ledger and leaves the balance at their sum.          *)
ImplementsLedger == L!Spec
=============================================================================
