--------------------------- MODULE BillingProofs ---------------------------
(***************************************************************************)
(* Theorems about Billing, for every set of users, every plan catalog,     *)
(* every cost table and every bound.                                       *)
(*                                                                         *)
(* The invariant is BInv: types, one active subscription per user, and the *)
(* balance as the sum of the ledger.  The second part makes Current        *)
(* well-defined, which the type of a refill needs; the third is what the   *)
(* theorems are about.  The later sections each add the conjunct their     *)
(* property needs: NoRenewalAfterCancel, WindowInv, AllowanceInv, TierInv. *)
(***************************************************************************)
EXTENDS Billing, TLAPS

BInv == TypeOK /\ OneActiveSubscription /\ BalanceIsLedgerSum

-----------------------------------------------------------------------------
(* Appending a row moves the sum of the ledger by the row's delta.         *)
LEMMA PostSum ==
  ASSUME NEW sums \in L!Sums, NEW kind \in L!Kinds, NEW delta \in Int
  PROVE  /\ Post(sums, kind, delta) \in L!Sums
         /\ L!Total(Post(sums, kind, delta)) = L!Total(sums) + delta
BY DEF Post, L!Sums, L!Kinds, L!Credits, L!Debits, L!Total

(* A row whose sign its kind allows extends the ledger.                    *)
LEMMA PostExtends ==
  ASSUME NEW sums \in L!Sums, NEW kind \in L!Kinds, NEW delta \in Int,
         kind \in L!Credits => delta >= 0, kind \in L!Debits => delta <= 0
  PROVE  L!Extends(Post(sums, kind, delta), sums)
BY DEF Post, L!Sums, L!Kinds, L!Credits, L!Debits, L!Extends

LEMMA ExtendsTransitive ==
  ASSUME NEW x \in L!Sums, NEW y \in L!Sums, NEW z \in L!Sums, L!Extends(y, x), L!Extends(z, y)
  PROVE  L!Extends(z, x)
BY DEF L!Extends, L!Sums, L!Kinds, L!Credits, L!Debits

(* The account a request works on is well typed, created or not.           *)
LEMMA AcctType ==
  ASSUME TypeOK, NEW u \in Users
  PROVE  /\ NewAccount \in Account
         /\ Acct(u) \in Account
         /\ Linked(u) \in Account
<1>1. NewAccount \in Account
  BY BillingAssumption DEF TypeOK, NewAccount, Account, Time
<1>2. account[u] \in Account \cup {NoAccount}
  BY DEF TypeOK
<1>3. Acct(u) \in Account
  BY <1>1, <1>2 DEF Acct
<1>4. ASSUME account[u] \in Account
      PROVE  [account[u] EXCEPT !.refilled = Never] \in Account
  BY <1>4 DEF Account
<1> QED
  BY <1>1, <1>2, <1>3, <1>4 DEF Linked

(* With one active row per user, Current is that row.                      *)
LEMMA CurrentType ==
  ASSUME NEW S \in Seq(Subscription), OneActive(S), NEW u \in Users,
         ActiveRows(S, u) # {}
  PROVE  /\ Latest(S, u) \in DOMAIN S
         /\ ActiveRows(S, u) = {Latest(S, u)}
         /\ Current(S, u) = S[Latest(S, u)]
         /\ Current(S, u) \in Subscription
         /\ Current(S, u) # NoSub
         /\ Current(S, u).user = u
         /\ Current(S, u).status = "active"
<1>1. PICK i \in ActiveRows(S, u) : TRUE
  OBVIOUS
<1>2. i \in DOMAIN S /\ S[i].user = u /\ S[i].status = "active" /\ S[i] \in Subscription
  BY <1>1 DEF ActiveRows
<1>3. \A j \in ActiveRows(S, u) : j = i
  BY <1>2 DEF ActiveRows, OneActive
<1>4. ActiveRows(S, u) = {i}
  BY <1>1, <1>3
<1>5. i \in Int
  BY <1>2
<1>6. Latest(S, u) = i
  BY <1>4, <1>5 DEF Latest
<1> QED
  BY <1>2, <1>4, <1>6, NullAssumption DEF Current

LEMMA CurrentOrNone ==
  ASSUME NEW S \in Seq(Subscription), OneActive(S), NEW u \in Users
  PROVE  Current(S, u) \in Subscription \cup {NoSub}
BY CurrentType DEF Current

(* A refill keeps the types and posts exactly what it moves.               *)
LEMMA RefillSum ==
  ASSUME TypeOK, NEW a \in Account, NEW s \in Subscription \cup {NoSub}, NEW sums \in L!Sums
  PROVE  /\ Refilled(a, s) \in Account
         /\ PostRefill(sums, a, s) \in L!Sums
         /\ L!Total(PostRefill(sums, a, s)) = L!Total(sums) + Refilled(a, s).balance - a.balance
         /\ L!Extends(PostRefill(sums, a, s), sums)
<1>1. CASE ~RefillDue(a, s)
  BY <1>1 DEF Refilled, PostRefill, Account, L!Total, L!Sums, L!Kinds, L!Credits, L!Debits, L!Extends
<1>2. CASE RefillDue(a, s)
  <2>1. PlanOf(s) \in Plan
    BY <1>2, NullAssumption DEF RefillDue, PlanOf, TypeOK, Subscription
  <2>2. RefillDelta(a, s) \in Int /\ RefillDelta(a, s) = PlanOf(s).credits - a.balance
    BY <2>1 DEF RefillDelta, Plan, Account
  <2>3. Refilled(a, s) \in Account /\ Refilled(a, s).balance = a.balance + RefillDelta(a, s)
    <3>1. /\ PlanOf(s).credits \in Nat
          /\ clock \in Int
          /\ a.earned + RefillDelta(a, s) \in Nat \/ RefillDelta(a, s) <= 0
      <4>1. PlanOf(s).credits \in Nat /\ a.earned \in Nat
        BY <2>1 DEF Plan, Account
      <4>2. clock \in Int
        BY DEF TypeOK, Time
      <4> QED
        BY <2>2, <4>1, <4>2
    <3> DEFINE e == IF RefillDelta(a, s) > 0 THEN a.earned + RefillDelta(a, s) ELSE a.earned
    <3>2. e \in Nat
      BY <3>1, <2>2 DEF Account
    <3>3. Refilled(a, s) = [a EXCEPT !.balance = PlanOf(s).credits, !.earned = e, !.refilled = clock]
      BY <1>2 DEF Refilled
    <3> HIDE DEF e
    <3>4. Refilled(a, s) \in Account /\ Refilled(a, s).balance = PlanOf(s).credits
      BY <3>1, <3>2, <3>3 DEF Account
    <3> QED
      BY <3>1, <3>4, <2>2 DEF Account
  <2>4. RefillKind(a, s) \in L!Kinds
    BY DEF RefillKind, L!Kinds, L!Credits, L!Debits
  <2>5. /\ PostRefill(sums, a, s) \in L!Sums
        /\ L!Total(PostRefill(sums, a, s)) = L!Total(sums) + RefillDelta(a, s)
    BY <1>2, <2>2, <2>4, PostSum DEF PostRefill
  <2>6. L!Total(sums) \in Int
    BY DEF L!Total, L!Sums, L!Kinds, L!Credits, L!Debits
  <2>7. L!Extends(PostRefill(sums, a, s), sums)
    <3>1. PostRefill(sums, a, s) = Post(sums, RefillKind(a, s), RefillDelta(a, s))
      BY <1>2 DEF PostRefill
    <3>2. \/ RefillKind(a, s) \in L!Credits /\ RefillDelta(a, s) >= 0
          \/ RefillKind(a, s) \in L!Debits /\ RefillDelta(a, s) <= 0
      BY <2>2 DEF RefillKind, L!Credits, L!Debits
    <3> QED
      BY <2>2, <2>4, <3>1, <3>2, PostExtends DEF L!Credits, L!Debits
  <2> QED
    BY <2>2, <2>3, <2>5, <2>6, <2>7 DEF Account
<1> QED
  BY <1>1, <1>2

(* An adjustment never leaves a negative balance and posts what it applied. *)
LEMMA AdjustSum ==
  ASSUME NEW a \in Account, NEW delta \in Int
  PROVE  /\ Applied(a, delta) \in Int
         /\ Adjusted(a, delta) \in Account
         /\ Adjusted(a, delta).balance = a.balance + Applied(a, delta)
         /\ delta >= 0 => Applied(a, delta) >= 0
         /\ delta <= 0 => Applied(a, delta) <= 0
<1>1. /\ Clamped(a, delta) \in Nat
      /\ Applied(a, delta) \in Int
      /\ Clamped(a, delta) = a.balance + Applied(a, delta)
      /\ delta >= 0 => Applied(a, delta) >= 0
      /\ delta <= 0 => Applied(a, delta) <= 0
  BY DEF Clamped, Applied, Account
<1> DEFINE e == IF Applied(a, delta) > 0 THEN a.earned + Applied(a, delta) ELSE a.earned
           n == IF Applied(a, delta) < 0 THEN a.used - Applied(a, delta) ELSE a.used
<1>2. e \in Nat /\ n \in Nat
  BY <1>1 DEF Account
<1>3. Adjusted(a, delta) = [a EXCEPT !.balance = Clamped(a, delta), !.earned = e, !.used = n]
  BY DEF Adjusted
<1> HIDE DEF e, n
<1>4. Adjusted(a, delta) \in Account /\ Adjusted(a, delta).balance = Clamped(a, delta)
  BY <1>1, <1>2, <1>3 DEF Account
<1> QED
  BY <1>1, <1>4

(* Quota bookkeeping never touches the balance.                            *)
LEMMA QuotaKeepsBalance ==
  ASSUME TypeOK, NEW a \in Account
  PROVE  /\ QuotaReset(a) \in Account
         /\ QuotaReset(a).balance = a.balance
         /\ QuotaCharged(a) \in Account
         /\ QuotaCharged(a).balance = a.balance
<1>1. ASSUME NEW b \in Account
      PROVE  DayRestarted(b) \in Account /\ DayRestarted(b).balance = b.balance
  BY DEF DayRestarted, Account, TypeOK, Time
<1>2. ASSUME NEW b \in Account
      PROVE  WeekRestarted(b) \in Account /\ WeekRestarted(b).balance = b.balance
  BY DEF WeekRestarted, Account, TypeOK, Time
<1>3. QuotaCharged(a) \in Account /\ QuotaCharged(a).balance = a.balance
  <2> DEFINE d == a.dayUsed + 1
             w == a.weekUsed + 1
  <2>1. d \in Nat /\ w \in Nat
    BY DEF Account
  <2>2. QuotaCharged(a) = [a EXCEPT !.dayUsed = d, !.weekUsed = w]
    BY DEF QuotaCharged
  <2> HIDE DEF d, w
  <2> QED
    BY <2>1, <2>2 DEF Account
<1> QED
  BY <1>1, <1>2, <1>3 DEF QuotaReset

-----------------------------------------------------------------------------
(* Subscriptions: superseding and processing keep the rows well typed and  *)
(* leave at most one active row per user.                                  *)
LEMMA ActivatedRows ==
  ASSUME TypeOK, NEW S \in Seq(Subscription), OneActive(S), NEW u \in Users,
         NEW key \in PlanKeys, NEW cycle \in Cycles, NEW renew \in BOOLEAN
  PROVE  /\ Activated(S, u, key, cycle, renew) \in Seq(Subscription)
         /\ OneActive(Activated(S, u, key, cycle, renew))
<1> DEFINE A == Activated(S, u, key, cycle, renew)
           P == Superseded(S, u)
           n == NewSubscription(u, key, cycle, renew)
<1>1. n \in Subscription /\ n.user = u
  BY BillingAssumption DEF NewSubscription, Subscription, TypeOK, Time
<1>2. ASSUME NEW i \in DOMAIN S
      PROVE  /\ P[i] \in Subscription
             /\ P[i].user = S[i].user
             /\ P[i].status = "active" => S[i].status = "active" /\ S[i].user # u
  <2>1. S[i] \in Subscription
    OBVIOUS
  <2> QED
    BY <2>1 DEF Superseded, ActiveRows, Subscription
<1>3. /\ Len(S) \in Nat
      /\ DOMAIN S = 1 .. Len(S)
      /\ P = [i \in 1 .. Len(S) |-> P[i]]
  BY DEF Superseded
<1>4. P \in Seq(Subscription) /\ Len(P) = Len(S)
  BY <1>2, <1>3
<1>5. /\ A \in Seq(Subscription)
      /\ Len(A) = Len(S) + 1
      /\ A[Len(S) + 1] = n
      /\ \A i \in 1 .. Len(S) : A[i] = P[i]
  BY <1>1, <1>4 DEF Activated
<1>6. OneActive(A)
  <2> SUFFICES ASSUME NEW i \in DOMAIN A, NEW j \in DOMAIN A,
                      A[i].user = A[j].user, A[i].status = "active", A[j].status = "active"
               PROVE  i = j
    BY DEF OneActive
  <2>1. DOMAIN A = 1 .. (Len(S) + 1)
    BY <1>5
  <2>2. CASE i \in 1 .. Len(S) /\ j \in 1 .. Len(S)
    BY <2>2, <1>2, <1>3, <1>5 DEF OneActive
  <2>3. CASE i \in 1 .. Len(S) /\ j = Len(S) + 1
    BY <2>3, <1>1, <1>2, <1>3, <1>5
  <2>4. CASE i = Len(S) + 1 /\ j \in 1 .. Len(S)
    BY <2>4, <1>1, <1>2, <1>3, <1>5
  <2> QED
    BY <2>1, <2>2, <2>3, <2>4, <1>3
<1> QED
  BY <1>5, <1>6

LEMMA ProcessedRows ==
  ASSUME TypeOK, NEW S \in Seq(Subscription), OneActive(S)
  PROVE  /\ Processed(S) \in Seq(Subscription)
         /\ OneActive(Processed(S))
<1>1. ASSUME NEW i \in DOMAIN S
      PROVE  /\ Processed(S)[i] \in Subscription
             /\ Processed(S)[i].user = S[i].user
             /\ Processed(S)[i].status = "active" => S[i].status = "active"
  <2>1. S[i] \in Subscription
    OBVIOUS
  <2>2. Renewed(S[i]) \in Subscription /\ Renewed(S[i]).user = S[i].user
    <3>1. ASSUME NEW e \in Nat
          PROVE  [S[i] EXCEPT !.start = clock, !.end = e, !.renew = TRUE] \in Subscription
      BY <2>1, <3>1 DEF Subscription, TypeOK, Time
    <3>2. clock + Span[IF S[i].end - S[i].start >= YearlySpan THEN Yearly ELSE Monthly] \in Nat
      BY BillingAssumption DEF TypeOK, Time
    <3> QED
      BY <2>1, <3>1, <3>2 DEF Renewed, Subscription
  <2>3. Expired(S[i]) \in Subscription /\ Expired(S[i]).user = S[i].user
        /\ Expired(S[i]).status = "expired"
    BY <2>1 DEF Expired, Subscription
  <2> QED
    BY <2>1, <2>2, <2>3 DEF Processed, Overdue
<1>2. /\ Len(S) \in Nat
      /\ DOMAIN S = 1 .. Len(S)
      /\ Processed(S) = [i \in 1 .. Len(S) |-> Processed(S)[i]]
  BY DEF Processed
<1>3. Processed(S) \in Seq(Subscription) /\ DOMAIN Processed(S) = DOMAIN S
  BY <1>1, <1>2
<1> QED
  BY <1>1, <1>3 DEF OneActive

-----------------------------------------------------------------------------
(* A request that ends with account b and ledger l for user u keeps both   *)
(* tables typed and in agreement when b's balance is the sum of l.         *)
LEMMA CreditMove ==
  ASSUME TypeOK, BalanceIsLedgerSum, NEW u \in Users, NEW b \in Account, NEW l \in L!Sums,
         L!Total(l) = b.balance, L!Extends(l, ledger[u]),
         account' = [account EXCEPT ![u] = b], ledger' = [ledger EXCEPT ![u] = l]
  PROVE  /\ account' \in [Users -> Account \cup {NoAccount}]
         /\ ledger' \in [Users -> L!Sums]
         /\ BalanceIsLedgerSum'
         /\ L!Move(u)
<1>1. account' \in [Users -> Account \cup {NoAccount}] /\ ledger' \in [Users -> L!Sums]
  BY DEF TypeOK
<1>2. ASSUME NEW v \in Users
      PROVE  L!Total(ledger'[v]) = IF account'[v] = NoAccount THEN 0 ELSE account'[v].balance
  <2>1. CASE v = u
    BY <2>1, NullAssumption DEF TypeOK
  <2>2. CASE v # u
    BY <2>2 DEF TypeOK, BalanceIsLedgerSum
  <2> QED
    BY <2>1, <2>2
<1>3. BalanceIsLedgerSum'
  BY <1>1, <1>2 DEF BalanceIsLedgerSum, L!Total
<1>4. L!Move(u)
  <2>1. L!Extends(ledger'[u], ledger[u]) /\ \A v \in Users \ {u} : ledger'[v] = ledger[v]
    BY DEF TypeOK
  <2>2. \A v \in Users : (IF account'[v] = NoAccount THEN 0 ELSE account'[v].balance) \in Nat
    BY <1>1 DEF Account
  <2> QED
    BY <1>1, <1>2, <2>1, <2>2 DEF L!Move, Balances
<1> QED
  BY <1>1, <1>3, <1>4

LEMMA OwnSum ==
  ASSUME TypeOK, BalanceIsLedgerSum, NEW u \in Users
  PROVE  /\ ledger[u] \in L!Sums
         /\ L!Total(ledger[u]) = Acct(u).balance
BY DEF TypeOK, BalanceIsLedgerSum, Acct, NewAccount

LEMMA RefillsType ==
  ASSUME TypeOK, NEW u \in Users, NEW a, NEW s
  PROVE  RefillsAfter(u, a, s) \in [Users -> Nat]
BY DEF TypeOK, RefillsAfter

(* adjust_credits: refill, then apply the clamped delta.                   *)
LEMMA AdjustStep ==
  ASSUME BInv, NEW u \in Users, NEW kind \in L!Kinds, NEW delta \in Int, Adjust(u, kind, delta),
         kind \in L!Credits => delta >= 0, kind \in L!Debits => delta <= 0
  PROVE  /\ account' \in [Users -> Account \cup {NoAccount}]
         /\ ledger' \in [Users -> L!Sums]
         /\ refills' \in [Users -> Nat]
         /\ BalanceIsLedgerSum'
         /\ L!Move(u)
<1> USE DEF BInv
<1> DEFINE a == Acct(u)
           s == Current(subs, u)
           r == Refilled(a, s)
           l == PostRefill(ledger[u], a, s)
<1>1. a \in Account /\ s \in Subscription \cup {NoSub}
  BY AcctType, CurrentOrNone DEF TypeOK, OneActiveSubscription
<1>2. ledger[u] \in L!Sums /\ L!Total(ledger[u]) = a.balance
  BY OwnSum
<1>3. /\ r \in Account
      /\ l \in L!Sums
      /\ L!Total(l) = r.balance
      /\ L!Extends(l, ledger[u])
  <2>1. /\ L!Total(l) = L!Total(ledger[u]) + r.balance - a.balance
        /\ r \in Account
        /\ l \in L!Sums
        /\ L!Extends(l, ledger[u])
    BY <1>1, <1>2, RefillSum
  <2> QED
    BY <1>1, <1>2, <2>1 DEF Account
<1>4. /\ Applied(r, delta) \in Int
      /\ Adjusted(r, delta) \in Account
      /\ Adjusted(r, delta).balance = r.balance + Applied(r, delta)
      /\ kind \in L!Credits => Applied(r, delta) >= 0
      /\ kind \in L!Debits => Applied(r, delta) <= 0
  BY <1>3, AdjustSum
<1>5. /\ Post(l, kind, Applied(r, delta)) \in L!Sums
      /\ L!Total(Post(l, kind, Applied(r, delta))) = Adjusted(r, delta).balance
      /\ L!Extends(Post(l, kind, Applied(r, delta)), ledger[u])
  <2>1. /\ Post(l, kind, Applied(r, delta)) \in L!Sums
        /\ L!Total(Post(l, kind, Applied(r, delta))) = Adjusted(r, delta).balance
    BY <1>3, <1>4, PostSum
  <2>2. L!Extends(Post(l, kind, Applied(r, delta)), l)
    BY <1>3, <1>4, PostExtends
  <2> QED
    BY <1>2, <1>3, <2>1, <2>2, ExtendsTransitive
<1>6. /\ account' = [account EXCEPT ![u] = Adjusted(r, delta)]
      /\ ledger' = [ledger EXCEPT ![u] = Post(l, kind, Applied(r, delta))]
      /\ refills' = RefillsAfter(u, a, s)
  BY DEF Adjust, TypeOK
<1> HIDE DEF a, s, r, l
<1> QED
  BY <1>4, <1>5, <1>6, CreditMove, RefillsType

LEMMA GateStep ==
  ASSUME BInv, NEW u \in Users, NEW act \in Actions, GateAction(u, act)
  PROVE  BInv' /\ L!Move(u)
<1> USE DEF BInv
<1> DEFINE s == Current(subs, u)
           p == PlanOf(s)
           q == QuotaReset(Acct(u))
           a == IF HasQuota(p) THEN QuotaCharged(q) ELSE Acct(u)
           r == Refilled(a, s)
           l == PostRefill(ledger[u], a, s)
<1>1. Acct(u) \in Account /\ s \in Subscription \cup {NoSub}
  BY AcctType, CurrentOrNone DEF TypeOK, OneActiveSubscription
<1>2. ledger[u] \in L!Sums /\ L!Total(ledger[u]) = Acct(u).balance
  BY OwnSum
<1>3. a \in Account /\ a.balance = Acct(u).balance
  BY <1>1, QuotaKeepsBalance
<1>4. /\ r \in Account
      /\ l \in L!Sums
      /\ L!Total(l) = r.balance
      /\ L!Extends(l, ledger[u])
  <2>1. /\ L!Total(l) = L!Total(ledger[u]) + r.balance - a.balance
        /\ r \in Account
        /\ l \in L!Sums
        /\ L!Extends(l, ledger[u])
    BY <1>1, <1>2, <1>3, RefillSum
  <2> QED
    BY <1>2, <1>3, <2>1 DEF Account
<1>5. UNCHANGED <<clock, plans, tier, subs, periods>>
  BY DEF GateAction
<1>6. /\ account' \in [Users -> Account \cup {NoAccount}]
      /\ ledger' \in [Users -> L!Sums]
      /\ refills' \in [Users -> Nat]
      /\ BalanceIsLedgerSum'
      /\ L!Move(u)
  <2>1. CASE Cost[act] = 0
    <3>1. account' = [account EXCEPT ![u] = a] /\ UNCHANGED <<ledger, refills>>
      BY <2>1 DEF GateAction
    <3>2. ledger' = [ledger EXCEPT ![u] = ledger[u]]
      BY <3>1 DEF TypeOK
    <3>3. L!Extends(ledger[u], ledger[u])
      BY <1>2 DEF L!Extends, L!Sums, L!Kinds, L!Credits, L!Debits
    <3> HIDE DEF a
    <3> QED
      BY <1>2, <1>3, <3>1, <3>2, <3>3, CreditMove DEF TypeOK
  <2>2. CASE Cost[act] # 0
    <3>1. /\ r.balance >= Cost[act]
          /\ account' = [account EXCEPT ![u] = Spent(r, Cost[act])]
          /\ ledger' = [ledger EXCEPT ![u] = Post(l, "spend", - Cost[act])]
          /\ refills' = RefillsAfter(u, a, s)
      BY <2>2 DEF GateAction, TypeOK
    <3>2. Cost[act] \in Nat
      BY BillingAssumption
    <3> HIDE DEF r, l, a, s
    <3>3. Spent(r, Cost[act]) \in Account /\ Spent(r, Cost[act]).balance = r.balance - Cost[act]
      <4> DEFINE b == r.balance - Cost[act]
                 n == r.used + Cost[act]
      <4>1. b \in Nat /\ n \in Nat
        BY <1>4, <3>1, <3>2 DEF Account
      <4>2. Spent(r, Cost[act]) = [r EXCEPT !.balance = b, !.used = n]
        BY DEF Spent
      <4> HIDE DEF b, n
      <4>3. Spent(r, Cost[act]) \in Account /\ Spent(r, Cost[act]).balance = b
        BY <1>4, <4>1, <4>2 DEF Account
      <4> QED
        BY <4>3 DEF b
    <3>4. /\ Post(l, "spend", - Cost[act]) \in L!Sums
          /\ L!Total(Post(l, "spend", - Cost[act])) = r.balance - Cost[act]
          /\ L!Extends(Post(l, "spend", - Cost[act]), ledger[u])
      <4>1. "spend" \in L!Kinds /\ - Cost[act] \in Int
        BY <3>2 DEF L!Kinds, L!Debits
      <4>2. /\ Post(l, "spend", - Cost[act]) \in L!Sums
            /\ L!Total(Post(l, "spend", - Cost[act])) = L!Total(l) + (- Cost[act])
        BY <1>4, <4>1, PostSum
      <4>3. L!Extends(Post(l, "spend", - Cost[act]), l)
        BY <1>4, <3>2, <4>1, PostExtends DEF L!Credits
      <4>4. L!Extends(Post(l, "spend", - Cost[act]), ledger[u])
        BY <1>2, <1>4, <4>2, <4>3, ExtendsTransitive
      <4> QED
        BY <1>4, <3>2, <4>2, <4>4 DEF Account
    <3> QED
      BY <3>1, <3>3, <3>4, CreditMove, RefillsType
  <2> QED
    BY <2>1, <2>2
<1> QED
  BY <1>5, <1>6 DEF TypeOK, OneActiveSubscription

(* Accounts whose anchor or quota moves, or that appear empty, keep the    *)
(* ledger and the abstract balance of everybody.                           *)
LEMMA SameCredits ==
  ASSUME TypeOK, BalanceIsLedgerSum, UNCHANGED ledger,
         account' \in [Users -> Account \cup {NoAccount}],
         \A v \in Users :
           (IF account'[v] = NoAccount THEN 0 ELSE account'[v].balance)
             = IF account[v] = NoAccount THEN 0 ELSE account[v].balance
  PROVE  /\ BalanceIsLedgerSum'
         /\ UNCHANGED <<Balances, ledger>>
BY DEF BalanceIsLedgerSum, TypeOK, L!Total, Balances

LEMMA NewAccountBalance == NewAccount.balance = 0
BY DEF NewAccount

LEMMA ApproveRefundStep ==
  ASSUME BInv, NEW u \in Users, ApproveRefund(u)
  PROVE  /\ BInv'
         /\ \/ L!Move(u)
            \/ UNCHANGED <<Balances, ledger>>
<1> USE DEF BInv
<1> DEFINE s == Current(subs, u)
           i == Latest(subs, u)
<1>1. /\ ActiveRows(subs, u) # {}
      /\ subs \in Seq(Subscription)
      /\ OneActive(subs)
  BY DEF ApproveRefund, Current, TypeOK, OneActiveSubscription
<1>2. i \in DOMAIN subs /\ s = subs[i] /\ s \in Subscription /\ s.status = "active" /\ s.user = u
  BY <1>1, CurrentType
<1>3. /\ subs' = [subs EXCEPT ![i].status = "refunded", ![i].cancelled = TRUE]
      /\ tier' = [tier EXCEPT ![u] = TierAfter(@, {s.plan})]
      /\ UNCHANGED <<clock, plans, periods>>
  BY DEF ApproveRefund
<1>4. subs' \in Seq(Subscription) /\ OneActive(subs')
  <2>1. subs' = [subs EXCEPT ![i] = [subs[i] EXCEPT !.status = "refunded", !.cancelled = TRUE]]
    BY <1>2, <1>3
  <2>2. /\ [subs[i] EXCEPT !.status = "refunded", !.cancelled = TRUE] \in Subscription
        /\ [subs[i] EXCEPT !.status = "refunded", !.cancelled = TRUE].status # "active"
    BY <1>2 DEF Subscription
  <2>3. subs' \in Seq(Subscription) /\ DOMAIN subs' = DOMAIN subs
    BY <1>1, <1>2, <2>1, <2>2
  <2>4. \A j \in DOMAIN subs : subs'[j].status = "active" => subs'[j] = subs[j]
    BY <1>1, <1>2, <2>1, <2>2
  <2> QED
    BY <1>1, <2>3, <2>4 DEF OneActive
<1>5. tier' \in [Users -> PlanKeys]
  BY <1>3, BillingAssumption DEF TypeOK, TierAfter
<1>6. Acct(u) \in Account
  BY AcctType
<1>7. CASE Acct(u).balance > 0
  <2>1. Adjust(u, "refund_revoke", - Acct(u).balance)
    BY <1>7 DEF ApproveRefund
  <2>2. /\ "refund_revoke" \in L!Kinds \ L!Credits
        /\ - Acct(u).balance \in Int
        /\ - Acct(u).balance <= 0
    BY <1>6 DEF L!Kinds, L!Credits, L!Debits, Account
  <2> QED
    BY <1>3, <1>4, <1>5, <2>1, <2>2, AdjustStep DEF TypeOK, OneActiveSubscription
<1>8. CASE ~(Acct(u).balance > 0)
  <2>1. account' = [account EXCEPT ![u] = Acct(u)] /\ UNCHANGED <<ledger, refills>>
    BY <1>8 DEF ApproveRefund
  <2>2. account' \in [Users -> Account \cup {NoAccount}]
    BY <1>6, <2>1 DEF TypeOK
  <2>3. \A v \in Users :
           (IF account'[v] = NoAccount THEN 0 ELSE account'[v].balance)
             = IF account[v] = NoAccount THEN 0 ELSE account[v].balance
    BY <1>6, <2>1, NewAccountBalance, NullAssumption DEF Acct, TypeOK
  <2> QED
    BY <1>3, <1>4, <1>5, <2>1, <2>2, <2>3, SameCredits DEF TypeOK, OneActiveSubscription
<1> QED
  BY <1>7, <1>8

LEMMA CreateSubscriptionStep ==
  ASSUME BInv, NEW u \in Users, NEW key \in PlanKeys, NEW cycle \in Cycles, NEW renew \in BOOLEAN,
         CreateSubscription(u, key, cycle, renew)
  PROVE  /\ BInv'
         /\ UNCHANGED <<Balances, ledger>>
<1> USE DEF BInv
<1>1. /\ subs' = Activated(subs, u, key, cycle, renew)
      /\ tier' = [tier EXCEPT ![u] = key]
      /\ account' = [account EXCEPT ![u] = Linked(u)]
      /\ periods' = [periods EXCEPT ![u] = @ + 1]
      /\ UNCHANGED <<clock, plans, ledger, refills>>
  BY DEF CreateSubscription
<1>2. subs' \in Seq(Subscription) /\ OneActive(subs')
  BY <1>1, ActivatedRows DEF TypeOK, OneActiveSubscription
<1>3. Linked(u) \in Account
  BY AcctType
<1>4. account' \in [Users -> Account \cup {NoAccount}]
  BY <1>1, <1>3 DEF TypeOK
<1>5. Linked(u).balance = IF account[u] = NoAccount THEN 0 ELSE account[u].balance
  BY <1>3, NewAccountBalance DEF Linked, TypeOK, Account
<1>6. \A v \in Users :
        (IF account'[v] = NoAccount THEN 0 ELSE account'[v].balance)
          = IF account[v] = NoAccount THEN 0 ELSE account[v].balance
  BY <1>1, <1>3, <1>5, NullAssumption DEF TypeOK
<1> QED
  BY <1>1, <1>2, <1>4, <1>6, SameCredits DEF TypeOK, OneActiveSubscription

LEMMA CancelSubscriptionStep ==
  ASSUME BInv, NEW u \in Users, CancelSubscription(u)
  PROVE  BInv' /\ UNCHANGED <<account, ledger>>
<1> USE DEF BInv
<1> DEFINE i == Latest(subs, u)
<1>1. /\ subs' = [subs EXCEPT ![i].renew = FALSE, ![i].cancelled = TRUE]
      /\ UNCHANGED <<clock, plans, tier, account, ledger, periods, refills>>
  BY DEF CancelSubscription
<1>2. i \in DOMAIN subs /\ subs[i] \in Subscription
  BY CurrentType DEF CancelSubscription, Current, TypeOK, OneActiveSubscription
<1>3. subs' = [subs EXCEPT ![i] = [subs[i] EXCEPT !.renew = FALSE, !.cancelled = TRUE]]
  BY <1>1, <1>2
<1>4. /\ [subs[i] EXCEPT !.renew = FALSE, !.cancelled = TRUE] \in Subscription
      /\ [subs[i] EXCEPT !.renew = FALSE, !.cancelled = TRUE].status = subs[i].status
      /\ [subs[i] EXCEPT !.renew = FALSE, !.cancelled = TRUE].user = subs[i].user
  BY <1>2 DEF Subscription
<1>5. subs' \in Seq(Subscription) /\ DOMAIN subs' = DOMAIN subs
  BY <1>2, <1>3, <1>4 DEF TypeOK
<1>6. \A j \in DOMAIN subs : subs'[j].status = subs[j].status /\ subs'[j].user = subs[j].user
  BY <1>2, <1>3, <1>4 DEF TypeOK
<1>7. OneActiveSubscription'
  BY <1>5, <1>6 DEF OneActiveSubscription, OneActive
<1> QED
  BY <1>1, <1>5, <1>7 DEF TypeOK, BalanceIsLedgerSum, L!Total

LEMMA GrantedRows ==
  ASSUME BInv, NEW u \in Users
  PROVE  Granted(u) \in Seq(Subscription) /\ OneActive(Granted(u))
BY BillingAssumption, ActivatedRows DEF BInv, TypeOK, OneActiveSubscription, Granted

LEMMA RelinkedAccount ==
  ASSUME TypeOK, NEW u \in Users, NEW v \in Users
  PROVE  /\ Relinked(u, v) \in Account \cup {NoAccount}
         /\ (IF Relinked(u, v) = NoAccount THEN 0 ELSE Relinked(u, v).balance)
              = IF account[v] = NoAccount THEN 0 ELSE account[v].balance
<1>1. /\ Linked(v) \in Account
      /\ Linked(v).balance = IF account[v] = NoAccount THEN 0 ELSE account[v].balance
  <2>1. Linked(v) \in Account
    BY AcctType
  <2> QED
    BY <2>1, NewAccountBalance DEF Linked, TypeOK, Account
<1>2. ASSUME account[v] \in Account
      PROVE  /\ [account[v] EXCEPT !.refilled = Never] \in Account
             /\ [account[v] EXCEPT !.refilled = Never].balance = account[v].balance
  BY <1>2 DEF Account
<1>3. account[v] \in Account \cup {NoAccount}
  BY DEF TypeOK
<1> QED
  BY <1>1, <1>2, <1>3, NullAssumption DEF Relinked

LEMMA BillingStatusStep ==
  ASSUME BInv, NEW u \in Users, BillingStatus(u)
  PROVE  BInv' /\ L!Move(u)
<1> USE DEF BInv
<1> DEFINE S == Granted(u)
           own == IF Relinked(u, u) = NoAccount THEN NewAccount ELSE Relinked(u, u)
           s == Current(Processed(S), u)
           b == QuotaReset(Refilled(own, s))
           l == PostRefill(ledger[u], own, s)
<1>1. /\ subs' = Processed(S)
      /\ tier' = [v \in Users |->
                   TierAfter(IF v = u /\ AdminNeedsPlan(u) THEN AdminPlan ELSE tier[v], EndedPlans(S, v))]
      /\ periods' = [v \in Users |->
                      periods[v] + (IF v = u /\ AdminNeedsPlan(u) THEN 1 ELSE 0)
                                 + (IF OverdueRows(S, v, TRUE) # {} THEN 1 ELSE 0)]
      /\ account' = [v \in Users |-> IF v = u THEN b ELSE Relinked(u, v)]
      /\ ledger' = [ledger EXCEPT ![u] = l]
      /\ refills' = RefillsAfter(u, own, s)
      /\ UNCHANGED <<clock, plans>>
  BY DEF BillingStatus, TypeOK
<1>2. S \in Seq(Subscription) /\ OneActive(S)
  BY GrantedRows
<1>3. Processed(S) \in Seq(Subscription) /\ OneActive(Processed(S))
  BY <1>2, ProcessedRows
<1>4. s \in Subscription \cup {NoSub}
  BY <1>3, CurrentOrNone
<1>5. own \in Account /\ own.balance = L!Total(ledger[u])
  <2>1. own \in Account
    BY AcctType, RelinkedAccount
  <2>2. own.balance = IF account[u] = NoAccount THEN 0 ELSE account[u].balance
    BY RelinkedAccount, NewAccountBalance
  <2> QED
    BY <2>1, <2>2 DEF BalanceIsLedgerSum
<1>6. ledger[u] \in L!Sums
  BY DEF TypeOK
<1>7. /\ b \in Account
      /\ l \in L!Sums
      /\ L!Total(l) = b.balance
      /\ L!Extends(l, ledger[u])
  <2>1. /\ Refilled(own, s) \in Account
        /\ l \in L!Sums
        /\ L!Total(l) = L!Total(ledger[u]) + Refilled(own, s).balance - own.balance
        /\ L!Extends(l, ledger[u])
    BY <1>4, <1>5, <1>6, RefillSum
  <2>2. b \in Account /\ b.balance = Refilled(own, s).balance
    BY <2>1, QuotaKeepsBalance
  <2> QED
    BY <1>5, <2>1, <2>2 DEF Account
<1>8. refills' \in [Users -> Nat]
  BY <1>1, RefillsType
<1> HIDE DEF S, own, s, b, l
<1>9. tier' \in [Users -> PlanKeys] /\ periods' \in [Users -> Nat]
  <2>1. ASSUME NEW v \in Users
        PROVE  TierAfter(IF v = u /\ AdminNeedsPlan(u) THEN AdminPlan ELSE tier[v], EndedPlans(S, v))
                 \in PlanKeys
    BY BillingAssumption DEF TypeOK, TierAfter
  <2>2. ASSUME NEW v \in Users
        PROVE  periods[v] + (IF v = u /\ AdminNeedsPlan(u) THEN 1 ELSE 0)
                          + (IF OverdueRows(S, v, TRUE) # {} THEN 1 ELSE 0) \in Nat
    <3> DEFINE granted == IF v = u /\ AdminNeedsPlan(u) THEN 1 ELSE 0
               renewed == IF OverdueRows(S, v, TRUE) # {} THEN 1 ELSE 0
    <3>1. periods[v] \in Nat
      BY DEF TypeOK
    <3>2. granted \in Nat /\ renewed \in Nat
      OBVIOUS
    <3> HIDE DEF granted, renewed
    <3>3. periods[v] + granted + renewed \in Nat
      BY <3>1, <3>2
    <3> QED
      BY <3>3 DEF granted, renewed
  <2>3. tier' \in [Users -> PlanKeys]
    BY <1>1, <2>1
  <2>4. periods' \in [Users -> Nat]
    BY <1>1, <2>2
  <2> QED
    BY <2>3, <2>4
<1>10. account' \in [Users -> Account \cup {NoAccount}] /\ ledger' \in [Users -> L!Sums]
  BY <1>1, <1>7, RelinkedAccount DEF TypeOK
<1>11. ASSUME NEW v \in Users
       PROVE  L!Total(ledger'[v]) = IF account'[v] = NoAccount THEN 0 ELSE account'[v].balance
  <2>1. CASE v = u
    BY <1>1, <1>7, <2>1, NullAssumption DEF TypeOK
  <2>2. CASE v # u
    <3>1. ledger'[v] = ledger[v] /\ account'[v] = Relinked(u, v)
      BY <1>1, <2>2 DEF TypeOK
    <3> QED
      BY <3>1, RelinkedAccount DEF BalanceIsLedgerSum
  <2> QED
    BY <2>1, <2>2
<1>12. BalanceIsLedgerSum'
  BY <1>10, <1>11 DEF BalanceIsLedgerSum, L!Total
<1>13. L!Move(u)
  <2>1. L!Extends(ledger'[u], ledger[u]) /\ \A v \in Users \ {u} : ledger'[v] = ledger[v]
    BY <1>1, <1>7 DEF TypeOK
  <2>2. \A v \in Users : (IF account'[v] = NoAccount THEN 0 ELSE account'[v].balance) \in Nat
    BY <1>10 DEF Account
  <2> QED
    BY <1>10, <1>11, <2>1, <2>2 DEF L!Move, Balances
<1> QED
  BY <1>1, <1>3, <1>8, <1>9, <1>10, <1>12, <1>13 DEF TypeOK, OneActiveSubscription

-----------------------------------------------------------------------------
LEMMA BInvInit == Init => BInv
<1> SUFFICES ASSUME Init PROVE BInv
  OBVIOUS
<1>1. TypeOK
  BY BillingAssumption DEF Init, TypeOK, Time, L!EmptySums, L!Sums
<1>2. OneActiveSubscription
  BY DEF Init, OneActiveSubscription, OneActive
<1>3. L!Total(L!EmptySums) = 0
  BY DEF L!EmptySums, L!Total, L!Kinds, L!Credits, L!Debits
<1>4. BalanceIsLedgerSum
  <2> SUFFICES ASSUME NEW u \in Users
               PROVE  L!Total(ledger[u]) = IF account[u] = NoAccount THEN 0 ELSE account[u].balance
    BY DEF BalanceIsLedgerSum
  <2>1. ledger[u] = L!EmptySums /\ account[u] = NoAccount
    BY DEF Init
  <2> QED
    BY <1>3, <2>1
<1> QED
  BY <1>1, <1>2, <1>4 DEF BInv

(* Every step keeps the invariant and is a step, or a stutter, of the      *)
(* abstract ledger.                                                        *)
LEMMA BInvStep ==
  ASSUME BInv, [Next]_vars
  PROVE  /\ BInv'
         /\ \/ L!Next
            \/ UNCHANGED <<Balances, ledger>>
<1>1. ASSUME NEW u \in Users, NEW act \in Actions, GateAction(u, act)
      PROVE  BInv' /\ L!Next
  BY <1>1, GateStep DEF L!Next
<1>2. ASSUME NEW u \in Users, BillingStatus(u)
      PROVE  BInv' /\ L!Next
  BY <1>2, BillingStatusStep DEF L!Next
<1>3. ASSUME NEW u \in Users, NEW delta \in Adjustments, AdminAdjust(u, delta)
      PROVE  BInv' /\ L!Next
  <2>1. /\ "admin_adjust" \in L!Kinds \ (L!Credits \cup L!Debits)
        /\ delta \in Int
        /\ Adjust(u, "admin_adjust", delta)
        /\ UNCHANGED <<clock, plans, tier, subs, periods>>
    BY <1>3, BillingAssumption DEF AdminAdjust, L!Kinds, L!Credits, L!Debits
  <2> QED
    BY <2>1, AdjustStep DEF BInv, TypeOK, OneActiveSubscription, L!Next
<1>4. ASSUME NEW u \in Users, NEW pack \in Packs, ApproveTopup(u, pack)
      PROVE  BInv' /\ L!Next
  <2>1. /\ "topup" \in L!Kinds \ L!Debits
        /\ pack \in Int
        /\ pack >= 0
        /\ Adjust(u, "topup", pack)
        /\ UNCHANGED <<clock, plans, tier, subs, periods>>
    BY <1>4, BillingAssumption DEF ApproveTopup, L!Kinds, L!Credits, L!Debits
  <2> QED
    BY <2>1, AdjustStep DEF BInv, TypeOK, OneActiveSubscription, L!Next
<1>5. ASSUME NEW u \in Users, ApproveRefund(u)
      PROVE  /\ BInv'
             /\ \/ L!Next
                \/ UNCHANGED <<Balances, ledger>>
  BY <1>5, ApproveRefundStep DEF L!Next
<1>6. ASSUME NEW u \in Users, NEW key \in PlanKeys, NEW cycle \in Cycles, NEW renew \in BOOLEAN,
             CreateSubscription(u, key, cycle, renew)
      PROVE  /\ BInv'
             /\ UNCHANGED <<Balances, ledger>>
  BY <1>6, CreateSubscriptionStep
<1>7. ASSUME NEW u \in Users, CancelSubscription(u)
      PROVE  BInv' /\ UNCHANGED <<account, ledger>>
  BY <1>7, CancelSubscriptionStep
<1>8. ASSUME NEW u \in Users, NEW key \in TierEdits, UpdateUser(u, key)
      PROVE  BInv' /\ UNCHANGED <<account, ledger>>
  BY <1>8, BillingAssumption
     DEF UpdateUser, BInv, TypeOK, OneActiveSubscription, OneActive, BalanceIsLedgerSum, L!Total
<1>9. ASSUME NEW key \in EditablePlans, NEW version \in PlanVersions, PutPlan(key, version)
      PROVE  BInv' /\ UNCHANGED <<account, ledger>>
  BY <1>9, BillingAssumption
     DEF PutPlan, BInv, TypeOK, OneActiveSubscription, OneActive, BalanceIsLedgerSum, L!Total
<1>10. ASSUME NEW key \in EditablePlans, RemovePlan(key)
       PROVE  BInv' /\ UNCHANGED <<account, ledger>>
  BY <1>10 DEF RemovePlan, BInv, TypeOK, OneActiveSubscription, OneActive, BalanceIsLedgerSum, L!Total
<1>11. ASSUME Tick PROVE BInv'
  BY <1>11 DEF Tick, Time, BInv, TypeOK, OneActiveSubscription, OneActive, BalanceIsLedgerSum, L!Total
<1>12. ASSUME UNCHANGED vars PROVE BInv'
  BY <1>12 DEF vars, BInv, TypeOK, OneActiveSubscription, OneActive, BalanceIsLedgerSum, L!Total
<1>13. UNCHANGED account => UNCHANGED Balances
  BY DEF Balances
<1>14. (Tick \/ UNCHANGED vars) => UNCHANGED <<account, ledger>>
  BY DEF Tick, vars
<1>15. CASE Tick \/ UNCHANGED vars
  BY <1>11, <1>12, <1>13, <1>14, <1>15
<1> QED
  BY <1>1, <1>2, <1>3, <1>4, <1>5, <1>6, <1>7, <1>8, <1>9, <1>10, <1>13, <1>15 DEF Next

LEMMA SpecBInv == Spec => []BInv
<1>1. BInv /\ [Next]_vars => BInv'
  BY BInvStep
<1> QED
  BY BInvInit, <1>1, PTL DEF Spec

(* The tables keep their types: in particular no balance, credit total or  *)
(* quota counter ever becomes negative.                                    *)
THEOREM TypeCorrect == Spec => []TypeOK
<1>1. BInv => TypeOK
  BY DEF BInv
<1> QED
  BY SpecBInv, <1>1, PTL

(* The balance of every account is the sum of its ledger rows.             *)
THEOREM BalanceCorrect == Spec => []BalanceIsLedgerSum
<1>1. BInv => BalanceIsLedgerSum
  BY DEF BInv
<1> QED
  BY SpecBInv, <1>1, PTL

(* No sequence of activations, renewals and expiries leaves a user with    *)
(* two active subscriptions.                                               *)
THEOREM OneActiveCorrect == Spec => []OneActiveSubscription
<1>1. BInv => OneActiveSubscription
  BY DEF BInv
<1> QED
  BY SpecBInv, <1>1, PTL

(* The requests refine the abstract append-only ledger.                    *)
THEOREM LedgerRefinement == Spec => ImplementsLedger
<1>1. Init => L!Init
  BY DEF Init, L!Init, Balances
<1>2. BInv /\ [Next]_vars
        => [L!Next]_<<Balances, ledger>>
  BY BInvStep
<1> QED
  BY SpecBInv, <1>1, <1>2, PTL DEF Spec, L!Spec, ImplementsLedger

-----------------------------------------------------------------------------
(* Cancelled subscriptions                                                 *)

(* What keeps a cancelled subscription from being renewed: while it is     *)
(* still active, its renewal flag is down.                                 *)
NoRenewalAfterCancel(S) ==
  \A i \in DOMAIN S : S[i].status = "active" /\ S[i].cancelled => ~S[i].renew

(* A row of S that is cancelled stays so in T and keeps its paid days.     *)
KeepsPaidDays(S, T) ==
  \A i \in DOMAIN S : S[i].cancelled =>
    /\ i \in DOMAIN T
    /\ T[i].cancelled
    /\ T[i].end = S[i].end
    /\ T[i].start = S[i].start

(* What an activation leaves in each row of S, and the row n it appends.   *)
ActivationEffect(S, A, u, n) ==
  /\ A \in Seq(Subscription)
  /\ Len(S) \in Nat
  /\ DOMAIN S = 1 .. Len(S)
  /\ DOMAIN A = 1 .. (Len(S) + 1)
  /\ A[Len(S) + 1] = n
  /\ \A i \in DOMAIN S :
       /\ A[i].user = S[i].user
       /\ A[i].start = S[i].start
       /\ A[i].end = S[i].end
       /\ i \notin ActiveRows(S, u) => A[i] = S[i]
       /\ i \in ActiveRows(S, u) => A[i].status = "cancelled" /\ A[i].cancelled = TRUE

LEMMA ActivatedEffect ==
  ASSUME TypeOK, NEW S \in Seq(Subscription), NEW u \in Users,
         NEW key \in PlanKeys, NEW cycle \in Cycles, NEW renew \in BOOLEAN
  PROVE  ActivationEffect(S, Activated(S, u, key, cycle, renew), u,
                          NewSubscription(u, key, cycle, renew))
<1> DEFINE A == Activated(S, u, key, cycle, renew)
           P == Superseded(S, u)
           n == NewSubscription(u, key, cycle, renew)
<1>1. n \in Subscription
  BY BillingAssumption DEF NewSubscription, Subscription, TypeOK, Time
<1>2. \A i \in DOMAIN S : P[i] = IF i \in ActiveRows(S, u)
        THEN [S[i] EXCEPT !.status = "cancelled", !.cancelled = TRUE] ELSE S[i]
  BY DEF Superseded
<1>3. ASSUME NEW i \in DOMAIN S PROVE P[i] \in Subscription
  <2>1. S[i] \in Subscription
    OBVIOUS
  <2>2. [S[i] EXCEPT !.status = "cancelled", !.cancelled = TRUE] \in Subscription
    BY <2>1 DEF Subscription
  <2> QED
    BY <1>2, <2>1, <2>2
<1>4. /\ Len(S) \in Nat
      /\ DOMAIN S = 1 .. Len(S)
      /\ P = [i \in 1 .. Len(S) |-> P[i]]
  BY DEF Superseded
<1>5. P \in Seq(Subscription) /\ Len(P) = Len(S)
  BY <1>3, <1>4
<1>6. /\ A \in Seq(Subscription)
      /\ Len(A) = Len(S) + 1
      /\ A[Len(S) + 1] = n
      /\ \A i \in 1 .. Len(S) : A[i] = P[i]
  BY <1>1, <1>5 DEF Activated
<1>7. ASSUME NEW i \in DOMAIN S
      PROVE  /\ P[i].user = S[i].user
             /\ P[i].start = S[i].start
             /\ P[i].end = S[i].end
             /\ i \notin ActiveRows(S, u) => P[i] = S[i]
             /\ i \in ActiveRows(S, u) => P[i].status = "cancelled" /\ P[i].cancelled = TRUE
  <2>1. S[i] \in Subscription
    OBVIOUS
  <2> QED
    BY <1>2, <2>1 DEF Subscription
<1> HIDE DEF P, n, A
<1>8. DOMAIN A = 1 .. (Len(S) + 1)
  BY <1>6
<1> QED
  BY <1>4, <1>6, <1>7, <1>8 DEF ActivationEffect, n, A

LEMMA ActivationKeepsPaidDays ==
  ASSUME NEW S, NEW A, NEW u, NEW n, ActivationEffect(S, A, u, n),
         n.cancelled = FALSE, NoRenewalAfterCancel(S)
  PROVE  /\ NoRenewalAfterCancel(A)
         /\ KeepsPaidDays(S, A)
<1>2. A[Len(S) + 1].cancelled = FALSE
  BY DEF ActivationEffect
<1>3. ASSUME NEW i \in DOMAIN S
      PROVE  /\ A[i].status = "active" => A[i] = S[i]
             /\ S[i].cancelled => A[i].cancelled
             /\ A[i].start = S[i].start /\ A[i].end = S[i].end
  BY DEF ActivationEffect, ActiveRows
<1>4. NoRenewalAfterCancel(A)
  <2> SUFFICES ASSUME NEW i \in DOMAIN A, A[i].status = "active", A[i].cancelled PROVE ~A[i].renew
    BY DEF NoRenewalAfterCancel
  <2>1. i # Len(S) + 1
    BY <1>2
  <2>2. i \in DOMAIN S
    BY <2>1 DEF ActivationEffect
  <2> QED
    BY <1>3, <2>2 DEF NoRenewalAfterCancel
<1>5. KeepsPaidDays(S, A)
  BY <1>3 DEF KeepsPaidDays, ActivationEffect
<1> QED
  BY <1>4, <1>5

(* The renewal run renews only rows whose renewal flag is up.              *)
LEMMA ProcessingKeepsPaidDays ==
  ASSUME NEW S \in Seq(Subscription), NoRenewalAfterCancel(S)
  PROVE  /\ NoRenewalAfterCancel(Processed(S))
         /\ KeepsPaidDays(S, Processed(S))
<1> DEFINE T == Processed(S)
<1>1. DOMAIN T = DOMAIN S
  BY DEF Processed
<1>2. ASSUME NEW i \in DOMAIN S
      PROVE  /\ T[i].cancelled = S[i].cancelled
             /\ T[i].status = "active" /\ T[i].cancelled => ~T[i].renew
             /\ S[i].cancelled => T[i].end = S[i].end /\ T[i].start = S[i].start
  <2>1. S[i] \in Subscription
    OBVIOUS
  <2>2. CASE ~Overdue(S[i])
    BY <2>2 DEF Processed, NoRenewalAfterCancel
  <2>3. CASE Overdue(S[i]) /\ S[i].renew
    <3>1. T[i] = Renewed(S[i]) /\ S[i].cancelled = FALSE
      BY <2>1, <2>3 DEF Processed, NoRenewalAfterCancel, Overdue, Subscription
    <3>2. T[i].cancelled = S[i].cancelled
      BY <2>1, <3>1 DEF Renewed, Subscription
    <3> QED
      BY <3>1, <3>2
  <2>4. CASE Overdue(S[i]) /\ ~S[i].renew
    BY <2>1, <2>4 DEF Processed, Expired, Subscription
  <2> QED
    BY <2>2, <2>3, <2>4
<1> QED
  BY <1>1, <1>2 DEF NoRenewalAfterCancel, KeepsPaidDays

LEMMA KeepsPaidDaysTransitive ==
  ASSUME NEW S, NEW T, NEW W, KeepsPaidDays(S, T), KeepsPaidDays(T, W)
  PROVE  KeepsPaidDays(S, W)
BY DEF KeepsPaidDays

LEMMA NewIsUncancelled ==
  ASSUME NEW u, NEW key, NEW cycle, NEW renew
  PROVE  NewSubscription(u, key, cycle, renew).cancelled = FALSE
BY DEF NewSubscription

LEMMA NoRenewalStep ==
  ASSUME BInv, NoRenewalAfterCancel(subs), [Next]_vars
  PROVE  NoRenewalAfterCancel(subs') /\ KeepsPaidDays(subs, subs')
<1> USE DEF BInv
<1>0. subs \in Seq(Subscription) /\ OneActive(subs)
  BY DEF TypeOK, OneActiveSubscription
<1>1. ASSUME UNCHANGED subs
      PROVE  NoRenewalAfterCancel(subs') /\ KeepsPaidDays(subs, subs')
  BY <1>1 DEF KeepsPaidDays
<1>2. ASSUME NEW u \in Users, BillingStatus(u)
      PROVE  NoRenewalAfterCancel(subs') /\ KeepsPaidDays(subs, subs')
  <2>1. subs' = Processed(Granted(u))
    BY <1>2 DEF BillingStatus
  <2>2. Granted(u) \in Seq(Subscription)
    BY GrantedRows
  <2>3. NoRenewalAfterCancel(Granted(u)) /\ KeepsPaidDays(subs, Granted(u))
    <3>1. CASE AdminNeedsPlan(u)
      <4>1. ActivationEffect(subs, Granted(u), u, NewSubscription(u, AdminPlan, Monthly, TRUE))
        BY <1>0, <3>1, ActivatedEffect, BillingAssumption DEF Granted
      <4> QED
        BY <4>1, ActivationKeepsPaidDays, NewIsUncancelled
    <3>2. CASE ~AdminNeedsPlan(u)
      BY <3>2 DEF Granted, KeepsPaidDays
    <3> QED
      BY <3>1, <3>2
  <2> QED
    BY <2>1, <2>2, <2>3, ProcessingKeepsPaidDays, KeepsPaidDaysTransitive
<1>3. ASSUME NEW u \in Users, ApproveRefund(u)
      PROVE  NoRenewalAfterCancel(subs') /\ KeepsPaidDays(subs, subs')
  <2> DEFINE i == Latest(subs, u)
  <2>1. i \in DOMAIN subs /\ subs[i] \in Subscription
    BY <1>0, <1>3, CurrentType DEF ApproveRefund, Current
  <2>2. subs' = [subs EXCEPT ![i] = [subs[i] EXCEPT !.status = "refunded", !.cancelled = TRUE]]
    BY <1>3, <2>1 DEF ApproveRefund
  <2> HIDE DEF i
  <2>3. subs'[i] = [subs[i] EXCEPT !.status = "refunded", !.cancelled = TRUE]
    BY <2>1, <2>2
  <2>4. /\ subs'[i].status = "refunded"
        /\ subs'[i].cancelled
        /\ subs'[i].end = subs[i].end
        /\ subs'[i].start = subs[i].start
    BY <2>1, <2>3 DEF Subscription
  <2>5. DOMAIN subs' = DOMAIN subs /\ \A j \in DOMAIN subs : j # i => subs'[j] = subs[j]
    BY <2>1, <2>2
  <2> QED
    BY <2>4, <2>5 DEF NoRenewalAfterCancel, KeepsPaidDays
<1>4. ASSUME NEW u \in Users, NEW key \in PlanKeys, NEW cycle \in Cycles, NEW renew \in BOOLEAN,
             CreateSubscription(u, key, cycle, renew)
      PROVE  NoRenewalAfterCancel(subs') /\ KeepsPaidDays(subs, subs')
  <2>1. ActivationEffect(subs, subs', u, NewSubscription(u, key, cycle, renew))
    BY <1>0, <1>4, ActivatedEffect DEF CreateSubscription
  <2> QED
    BY <2>1, ActivationKeepsPaidDays, NewIsUncancelled
<1>5. ASSUME NEW u \in Users, CancelSubscription(u)
      PROVE  NoRenewalAfterCancel(subs') /\ KeepsPaidDays(subs, subs')
  <2> DEFINE i == Latest(subs, u)
  <2>1. i \in DOMAIN subs /\ subs[i] \in Subscription
    BY <1>0, <1>5, CurrentType DEF CancelSubscription, Current
  <2>2. subs' = [subs EXCEPT ![i] = [subs[i] EXCEPT !.renew = FALSE, !.cancelled = TRUE]]
    BY <1>5, <2>1 DEF CancelSubscription
  <2> HIDE DEF i
  <2>3. subs'[i] = [subs[i] EXCEPT !.renew = FALSE, !.cancelled = TRUE]
    BY <2>1, <2>2
  <2>4. /\ subs'[i].renew = FALSE
        /\ subs'[i].cancelled
        /\ subs'[i].end = subs[i].end
        /\ subs'[i].start = subs[i].start
    BY <2>1, <2>3 DEF Subscription
  <2>5. DOMAIN subs' = DOMAIN subs /\ \A j \in DOMAIN subs : j # i => subs'[j] = subs[j]
    BY <2>1, <2>2
  <2> QED
    BY <2>4, <2>5 DEF NoRenewalAfterCancel, KeepsPaidDays
<1>6. ASSUME NEW u \in Users, NEW act \in Actions, GateAction(u, act) PROVE UNCHANGED subs
  BY <1>6 DEF GateAction
<1>7. CASE UNCHANGED subs
  BY <1>1, <1>7
<1> QED
  BY <1>1, <1>2, <1>3, <1>4, <1>5, <1>6
     DEF Next, AdminAdjust, ApproveTopup, UpdateUser, PutPlan, RemovePlan, Tick, vars

(* A subscription its owner cancelled is never renewed.                    *)
THEOREM CancelCorrect == Spec => CancelledIsNeverRenewed
<1> DEFINE N == NoRenewalAfterCancel(subs)
<1>1. Init => N
  BY DEF Init, NoRenewalAfterCancel
<1>2. BInv /\ N /\ [Next]_vars => N'
  <2> SUFFICES ASSUME BInv, N, [Next]_vars PROVE NoRenewalAfterCancel(subs')
    BY DEF NoRenewalAfterCancel
  <2> QED
    BY NoRenewalStep
<1>3. BInv /\ N /\ [Next]_vars
        => [\A i \in DOMAIN subs : subs[i].cancelled =>
              subs'[i].end = subs[i].end /\ subs'[i].start = subs[i].start]_vars
  BY NoRenewalStep DEF KeepsPaidDays
<1> HIDE DEF N
<1> QED
  BY SpecBInv, <1>1, <1>2, <1>3, PTL DEF Spec, CancelledIsNeverRenewed

-----------------------------------------------------------------------------
(* Quota windows                                                           *)

(* The nesting alone is not inductive: it also needs that neither window   *)
(* is ever a whole length older than the other, which holds because every  *)
(* look at the quota restarts both windows that are due, in one tick.      *)
WindowsNest(a) ==
  /\ a.weekStart < a.dayStart + Day
  /\ a.dayStart < a.weekStart + Week
  /\ a.weekStart <= a.dayStart => a.dayUsed <= a.weekUsed
  /\ a.dayStart <= a.weekStart => a.weekUsed <= a.dayUsed

SameWindows(a, b) ==
  /\ b.dayStart = a.dayStart
  /\ b.weekStart = a.weekStart
  /\ b.dayUsed = a.dayUsed
  /\ b.weekUsed = a.weekUsed

WindowInv == \A u \in Holders : WindowsNest(account[u])

LEMMA SameWindowsNest ==
  ASSUME NEW a, NEW b, WindowsNest(a), SameWindows(a, b)
  PROVE  WindowsNest(b)
BY DEF WindowsNest, SameWindows

LEMMA WindowsRestart ==
  ASSUME TypeOK, NEW a \in Account, WindowsNest(a)
  PROVE  /\ QuotaReset(a) \in Account
         /\ WindowsNest(QuotaReset(a))
         /\ WindowsNest(QuotaCharged(QuotaReset(a)))
<1> DEFINE d == DayRestarted(a)
           q == QuotaReset(a)
<1>0. clock \in Nat /\ Day \in Nat \ {0} /\ Week \in Nat \ {0}
  BY BillingAssumption DEF TypeOK, Time
<1>1. /\ d \in Account
      /\ d.weekStart = a.weekStart
      /\ d.weekUsed = a.weekUsed
      /\ IF clock >= a.dayStart + Day THEN d.dayStart = clock /\ d.dayUsed = 0
         ELSE d.dayStart = a.dayStart /\ d.dayUsed = a.dayUsed
  BY <1>0 DEF DayRestarted, Account, Time
<1>2. /\ q \in Account
      /\ q.dayStart = d.dayStart
      /\ q.dayUsed = d.dayUsed
      /\ IF clock >= d.weekStart + Week THEN q.weekStart = clock /\ q.weekUsed = 0
         ELSE q.weekStart = d.weekStart /\ q.weekUsed = d.weekUsed
  <2> HIDE DEF d
  <2> QED
    BY <1>0, <1>1 DEF QuotaReset, WeekRestarted, Account, Time, d
<1> HIDE DEF d, q
<1>3. /\ a.dayStart \in Nat /\ a.weekStart \in Nat /\ a.dayUsed \in Nat /\ a.weekUsed \in Nat
      /\ q.dayStart \in Nat /\ q.weekStart \in Nat /\ q.dayUsed \in Nat /\ q.weekUsed \in Nat
  BY <1>2 DEF Account, Time
<1>4. WindowsNest(q)
  BY <1>0, <1>1, <1>2, <1>3 DEF WindowsNest
<1>5. /\ QuotaCharged(q).dayStart = q.dayStart
      /\ QuotaCharged(q).weekStart = q.weekStart
      /\ QuotaCharged(q).dayUsed = q.dayUsed + 1
      /\ QuotaCharged(q).weekUsed = q.weekUsed + 1
  BY <1>2 DEF QuotaCharged, Account
<1>6. WindowsNest(QuotaCharged(q))
  BY <1>3, <1>4, <1>5 DEF WindowsNest
<1> QED
  BY <1>2, <1>4, <1>6 DEF q

LEMMA NewWindowsNest ==
  ASSUME TypeOK
  PROVE  WindowsNest(NewAccount)
BY BillingAssumption DEF NewAccount, WindowsNest, TypeOK, Time

(* The moves of the balance leave the windows alone.                       *)
LEMMA MovesKeepWindows ==
  ASSUME NEW a \in Account
  PROVE  /\ \A s : SameWindows(a, Refilled(a, s))
         /\ \A delta : SameWindows(a, Adjusted(a, delta))
         /\ \A cost : SameWindows(a, Spent(a, cost))
         /\ SameWindows(a, [a EXCEPT !.refilled = Never])
BY DEF SameWindows, Refilled, Adjusted, Spent, Account

LEMMA AcctWindows ==
  ASSUME TypeOK, WindowInv, NEW u \in Users
  PROVE  /\ Acct(u) \in Account /\ WindowsNest(Acct(u))
         /\ WindowsNest(Linked(u))
<1>1. Acct(u) \in Account
  BY AcctType
<1>2. WindowsNest(Acct(u))
  BY NewWindowsNest DEF Acct, WindowInv, Holders
<1>3. CASE account[u] = NoAccount
  BY <1>1, <1>2, <1>3, NewWindowsNest DEF Linked
<1>4. CASE account[u] # NoAccount
  <2>1. account[u] \in Account
    BY <1>4 DEF TypeOK
  <2> QED
    BY <1>1, <1>2, <1>4, <2>1, MovesKeepWindows, SameWindowsNest DEF Linked, WindowInv, Holders
<1> QED
  BY <1>3, <1>4

LEMMA RefilledWindows ==
  ASSUME BInv, NEW a \in Account, WindowsNest(a), NEW s \in Subscription \cup {NoSub}
  PROVE  Refilled(a, s) \in Account /\ WindowsNest(Refilled(a, s))
<1>1. Refilled(a, s) \in Account
  <2>1. L!EmptySums \in L!Sums
    BY DEF L!EmptySums, L!Sums
  <2> QED
    BY <2>1, RefillSum DEF BInv
<1>2. WindowsNest(Refilled(a, s))
  BY MovesKeepWindows, SameWindowsNest
<1> QED
  BY <1>1, <1>2

(* One request moves the account of one user.                              *)
LEMMA WindowMove ==
  ASSUME TypeOK, WindowInv, NEW u \in Users, NEW b, WindowsNest(b),
         account' = [account EXCEPT ![u] = b]
  PROVE  WindowInv'
<1>1. ASSUME NEW v \in Users, account'[v] # NoAccount PROVE WindowsNest(account'[v])
  BY <1>1 DEF TypeOK, WindowInv, Holders
<1> QED
  BY <1>1 DEF WindowInv, Holders, WindowsNest

LEMMA AdjustWindows ==
  ASSUME BInv, WindowInv, NEW u \in Users, NEW kind, NEW delta \in Int, Adjust(u, kind, delta)
  PROVE  WindowInv'
<1> DEFINE s == Current(subs, u)
           r == Refilled(Acct(u), s)
<1>1. s \in Subscription \cup {NoSub}
  BY CurrentOrNone DEF BInv, TypeOK, OneActiveSubscription
<1>2. r \in Account /\ WindowsNest(r)
  BY <1>1, AcctWindows, RefilledWindows DEF BInv
<1>3. account' = [account EXCEPT ![u] = Adjusted(r, delta)]
  BY DEF Adjust
<1> HIDE DEF s, r
<1>4. WindowsNest(Adjusted(r, delta))
  BY <1>2, MovesKeepWindows, SameWindowsNest
<1> QED
  BY <1>3, <1>4, WindowMove DEF BInv

LEMMA WindowStep ==
  ASSUME BInv, WindowInv, [Next]_vars
  PROVE  WindowInv'
<1>0. TypeOK
  BY DEF BInv
<1>1. ASSUME UNCHANGED account PROVE WindowInv'
  BY <1>1 DEF WindowInv, Holders, WindowsNest
<1>2. ASSUME NEW u \in Users, NEW act \in Actions, GateAction(u, act)
      PROVE  WindowInv'
  <2> DEFINE s == Current(subs, u)
             q == QuotaReset(Acct(u))
             a == IF HasQuota(PlanOf(s)) THEN QuotaCharged(q) ELSE Acct(u)
             r == Refilled(a, s)
  <2>1. s \in Subscription \cup {NoSub}
    BY CurrentOrNone DEF BInv, TypeOK, OneActiveSubscription
  <2>2. Acct(u) \in Account /\ WindowsNest(Acct(u))
    BY <1>0, AcctWindows
  <2>3. q \in Account /\ WindowsNest(QuotaCharged(q))
    BY <1>0, <2>2, WindowsRestart
  <2>4. a \in Account /\ WindowsNest(a)
    BY <1>0, <2>2, <2>3, QuotaKeepsBalance
  <2>5. \/ account' = [account EXCEPT ![u] = a]
        \/ account' = [account EXCEPT ![u] = Spent(r, Cost[act])]
    BY <1>2 DEF GateAction
  <2> HIDE DEF a, s
  <2>6. r \in Account /\ WindowsNest(r)
    BY <2>1, <2>4, RefilledWindows
  <2> HIDE DEF r
  <2>7. WindowsNest(Spent(r, Cost[act]))
    BY <2>6, MovesKeepWindows, SameWindowsNest
  <2> QED
    BY <1>0, <2>4, <2>5, <2>7, WindowMove
<1>3. ASSUME NEW u \in Users, BillingStatus(u)
      PROVE  WindowInv'
  <2> DEFINE own == IF Relinked(u, u) = NoAccount THEN NewAccount ELSE Relinked(u, u)
             s == Current(Processed(Granted(u)), u)
             b == QuotaReset(Refilled(own, s))
  <2>1. account' = [v \in Users |-> IF v = u THEN b ELSE Relinked(u, v)]
    BY <1>3 DEF BillingStatus
  <2>2. s \in Subscription \cup {NoSub}
    BY <1>0, GrantedRows, ProcessedRows, CurrentOrNone
  <2>3. ASSUME NEW v \in Users, Relinked(u, v) # NoAccount
        PROVE  Relinked(u, v) \in Account /\ WindowsNest(Relinked(u, v))
    <3>1. Relinked(u, v) \in Account
      BY <1>0, <2>3, RelinkedAccount
    <3>2. CASE v = u /\ AdminNeedsPlan(u)
      BY <1>0, <3>1, <3>2, AcctWindows DEF Relinked
    <3>3. CASE ~(v = u /\ AdminNeedsPlan(u)) /\ account[v] # NoAccount
      <4>1. account[v] \in Account /\ WindowsNest(account[v])
        BY <1>0, <3>3 DEF TypeOK, WindowInv, Holders
      <4>2. WindowsNest([account[v] EXCEPT !.refilled = Never])
        BY <4>1, MovesKeepWindows, SameWindowsNest
      <4> QED
        BY <3>1, <3>3, <4>1, <4>2 DEF Relinked
    <3>4. CASE ~(v = u /\ AdminNeedsPlan(u)) /\ account[v] = NoAccount
      BY <2>3, <3>4 DEF Relinked
    <3> QED
      BY <3>2, <3>3, <3>4
  <2>4. own \in Account /\ WindowsNest(own)
    BY <1>0, <2>3, AcctType, NewWindowsNest
  <2> HIDE DEF own, s
  <2>5. WindowsNest(b)
    BY <1>0, <2>2, <2>4, RefilledWindows, WindowsRestart
  <2> HIDE DEF b
  <2>6. ASSUME NEW v \in Users, account'[v] # NoAccount PROVE WindowsNest(account'[v])
    BY <2>1, <2>3, <2>5, <2>6
  <2> QED
    BY <2>6 DEF WindowInv, Holders, WindowsNest
<1>4. ASSUME NEW u \in Users, ApproveRefund(u)
      PROVE  WindowInv'
  <2>1. Acct(u) \in Account /\ WindowsNest(Acct(u))
    BY <1>0, AcctWindows
  <2>2. CASE Acct(u).balance > 0
    <3>1. Adjust(u, "refund_revoke", - Acct(u).balance) /\ - Acct(u).balance \in Int
      BY <1>4, <2>1, <2>2 DEF ApproveRefund, Account
    <3> QED
      BY <3>1, AdjustWindows
  <2>3. CASE ~(Acct(u).balance > 0)
    BY <1>0, <1>4, <2>1, <2>3, WindowMove DEF ApproveRefund
  <2> QED
    BY <2>2, <2>3
<1>5. ASSUME NEW u \in Users, NEW key \in PlanKeys, NEW cycle \in Cycles, NEW renew \in BOOLEAN,
             CreateSubscription(u, key, cycle, renew)
      PROVE  WindowInv'
  BY <1>0, <1>5, AcctWindows, WindowMove DEF CreateSubscription
<1>6. ASSUME NEW u \in Users, NEW delta \in Adjustments, AdminAdjust(u, delta)
      PROVE  WindowInv'
  BY <1>6, AdjustWindows, BillingAssumption DEF AdminAdjust
<1>7. ASSUME NEW u \in Users, NEW pack \in Packs, ApproveTopup(u, pack)
      PROVE  WindowInv'
  <2>1. pack \in Int /\ Adjust(u, "topup", pack)
    BY <1>7, BillingAssumption DEF ApproveTopup
  <2> QED
    BY <2>1, AdjustWindows
<1>8. CASE UNCHANGED account
  BY <1>1, <1>8
<1> QED
  BY <1>2, <1>3, <1>4, <1>5, <1>6, <1>7, <1>8
     DEF Next, CancelSubscription, UpdateUser, PutPlan, RemovePlan, Tick, vars

(* The day and the week window of an account never disagree about the      *)
(* actions both have seen.                                                 *)
THEOREM QuotaWindowsCorrect == Spec => []QuotaWindowsNest
<1>1. Init => WindowInv
  BY DEF Init, WindowInv, Holders
<1>2. BInv /\ WindowInv /\ [Next]_vars => WindowInv'
  BY WindowStep
<1>3. WindowInv => QuotaWindowsNest
  BY DEF WindowInv, WindowsNest, QuotaWindowsNest
<1> QED
  BY SpecBInv, <1>1, <1>2, <1>3, PTL DEF Spec

-----------------------------------------------------------------------------
(* Refills                                                                 *)

LEMMA DivMonotone ==
  ASSUME NEW w \in Nat \ {0}, NEW m \in Int, NEW n \in Int, m <= n
  PROVE  m \div w <= n \div w
OBVIOUS

LEMMA DivNext ==
  ASSUME NEW w \in Nat \ {0}, NEW m \in Int
  PROVE  (m + w) \div w = (m \div w) + 1
OBVIOUS

LEMMA WeekType == Week \in Nat \ {0}
BY BillingAssumption

LEMMA DivType ==
  ASSUME NEW w \in Nat \ {0}, NEW m \in Int
  PROVE  /\ m \div w \in Int
         /\ m >= 0 => m \div w \in Nat
OBVIOUS

(* Why refills f stay within periods p and elapsed weeks. A cleared anchor *)
(* stands for one period whose refill is still to come; a set anchor       *)
(* covers the weeks up to it, and no active subscription is younger.  An   *)
(* account that was never refilled may have any anchor.                    *)
AllowanceFits(u, a, f, p, S, c) ==
  /\ a = NoAccount => f = 0
  /\ a # NoAccount /\ a.refilled = Never => f + 1 <= p + (c \div Week)
  /\ a # NoAccount /\ a.refilled # Never =>
       /\ a.refilled <= c
       /\ f # 0 => /\ f <= p + (a.refilled \div Week)
                   /\ \A i \in ActiveRows(S, u) : S[i].start <= a.refilled

(* A user with a subscription, ended or not, has opened a period.          *)
PeriodOpened(u, S, p) == (\E i \in DOMAIN S : S[i].user = u) => p >= 1

StartsPast(S, c) == \A i \in DOMAIN S : S[i].start <= c

AllowanceInv ==
  /\ StartsPast(subs, clock)
  /\ \A u \in Users : /\ AllowanceFits(u, account[u], refills[u], periods[u], subs, clock)
                      /\ PeriodOpened(u, subs, periods[u])

(* Active rows of T were active in S and keep their start.                 *)
NoNewRows(S, T, u) ==
  \A i \in ActiveRows(T, u) : i \in ActiveRows(S, u) /\ T[i].start = S[i].start

LEMMA FewerRowsFit ==
  ASSUME NEW u, NEW a, NEW f, NEW p, NEW S, NEW T, NEW c,
         AllowanceFits(u, a, f, p, S, c), NoNewRows(S, T, u)
  PROVE  AllowanceFits(u, a, f, p, T, c)
BY DEF AllowanceFits, NoNewRows

LEMMA SameAnchorFits ==
  ASSUME NEW u, NEW a \in Account, NEW b \in Account, b.refilled = a.refilled,
         NEW f, NEW p, NEW S, NEW c, AllowanceFits(u, a, f, p, S, c)
  PROVE  AllowanceFits(u, b, f, p, S, c)
BY NullAssumption DEF AllowanceFits

(* Time and further periods only leave more room.                          *)
LEMMA LaterFits ==
  ASSUME NEW u, NEW a \in Account \cup {NoAccount}, NEW f \in Nat, NEW p \in Nat, NEW q \in Nat,
         NEW S, NEW c \in Nat, NEW d \in Nat, p <= q, c <= d,
         AllowanceFits(u, a, f, p, S, c)
  PROVE  AllowanceFits(u, a, f, q, S, d)
<1>1. c \div Week <= d \div Week /\ c \div Week \in Int /\ d \div Week \in Int
  BY DivMonotone, DivType, WeekType
<1>2. CASE a = NoAccount
  BY <1>2 DEF AllowanceFits
<1>3. CASE a # NoAccount /\ a.refilled = Never
  BY <1>1, <1>3 DEF AllowanceFits
<1>4. CASE a # NoAccount /\ a.refilled # Never
  <2>1. a.refilled \in Int
    BY <1>4 DEF Account
  <2>2. a.refilled \div Week \in Int
    BY <2>1, DivType, WeekType
  <2> QED
    BY <1>4, <2>1, <2>2 DEF AllowanceFits
<1> QED
  BY <1>2, <1>3, <1>4

(* Clearing the anchor is paid for by a new period.                        *)
LEMMA ClearedFits ==
  ASSUME NEW u, NEW a \in Account, NEW f \in Nat, NEW p \in Nat, NEW q \in Nat, NEW S, NEW T,
         NEW c \in Nat, q >= p + 1, AllowanceFits(u, a, f, p, S, c)
  PROVE  AllowanceFits(u, [a EXCEPT !.refilled = Never], f, q, T, c)
<1> DEFINE b == [a EXCEPT !.refilled = Never]
<1>1. b \in Account /\ b.refilled = Never /\ b # NoAccount /\ a # NoAccount
  BY NullAssumption DEF Account
<1>2. c \div Week \in Nat
  BY DivType, WeekType
<1> HIDE DEF b
<1>3. f + 1 <= q + (c \div Week)
  <2>1. CASE a.refilled = Never
    BY <1>1, <1>2, <2>1 DEF AllowanceFits
  <2>2. CASE a.refilled # Never
    <3>1. a.refilled \in Int /\ a.refilled <= c
      BY <1>1, <2>2 DEF Account, AllowanceFits
    <3>2. a.refilled \div Week \in Int /\ a.refilled \div Week <= c \div Week
      <4>1. c \in Int
        OBVIOUS
      <4>2. a.refilled \div Week \in Int
        BY <3>1, DivType, WeekType
      <4>3. a.refilled \div Week <= c \div Week
        BY <3>1, <4>1, DivMonotone, WeekType
      <4> QED
        BY <4>2, <4>3
    <3> QED
      BY <1>1, <1>2, <2>2, <3>2 DEF AllowanceFits
  <2> QED
    BY <2>1, <2>2
<1>4. AllowanceFits(u, b, f, q, T, c)
  BY <1>1, <1>3 DEF AllowanceFits
<1> QED
  BY <1>4 DEF b

LEMMA NewFits ==
  ASSUME TypeOK, NEW u, NEW p, NEW S
  PROVE  AllowanceFits(u, NewAccount, 0, p, S, clock)
<1>1. NewAccount.refilled = clock - Week
  BY DEF NewAccount
<1>2. clock - Week \in Int /\ clock - Week <= clock /\ clock - Week # Never
  BY BillingAssumption DEF TypeOK, Time
<1>3. NewAccount # NoAccount
  <2>1. NewAccount \in Account
    BY BillingAssumption DEF TypeOK, NewAccount, Account, Time
  <2> QED
    BY <2>1, NullAssumption
<1> QED
  BY <1>1, <1>2, <1>3 DEF AllowanceFits

(* A refill that is due uses up an open period or a whole week.            *)
LEMMA RefillFits ==
  ASSUME TypeOK, NEW S \in Seq(Subscription), OneActive(S), NEW u \in Users,
         NEW a \in Account, NEW f \in Nat, NEW p \in Nat, NEW s, s = Current(S, u),
         StartsPast(S, clock), PeriodOpened(u, S, p),
         AllowanceFits(u, a, f, p, S, clock),
         NEW g, g = IF RefillDue(a, s) /\ RefillKind(a, s) = "refill" THEN f + 1 ELSE f
  PROVE  /\ Refilled(a, s) \in Account
         /\ AllowanceFits(u, Refilled(a, s), g, p, S, clock)
<1>0. s \in Subscription \cup {NoSub} /\ clock \in Nat /\ clock # Never /\ a # NoAccount
  BY CurrentOrNone, BillingAssumption, NullAssumption DEF TypeOK, Time
<1>1. Refilled(a, s) \in Account
  <2>1. L!EmptySums \in L!Sums
    BY DEF L!EmptySums, L!Sums
  <2> QED
    BY <1>0, <2>1, RefillSum
<1>2. CASE ~RefillDue(a, s)
  BY <1>1, <1>2 DEF Refilled
<1>3. CASE RefillDue(a, s)
  <2>1. s # NoSub
    BY <1>3 DEF RefillDue, PlanOf
  <2>2. ActiveRows(S, u) # {}
    BY <2>1 DEF Current
  <2>3. /\ Latest(S, u) \in DOMAIN S
        /\ ActiveRows(S, u) = {Latest(S, u)}
        /\ s = S[Latest(S, u)]
        /\ s \in Subscription
        /\ s.user = u
    BY <2>2, CurrentType
  <2>4. s.start <= clock /\ s.start \in Nat /\ p >= 1
    BY <2>3 DEF StartsPast, PeriodOpened, Subscription, Time
  <2>5. Refilled(a, s).refilled = clock
    BY <1>3 DEF Refilled, Account
  <2>6. g \in Nat /\ g <= f + 1
    OBVIOUS
  <2>7. clock \div Week \in Nat
    <3>1. clock \in Int /\ clock >= 0
      BY <1>0
    <3> QED
      BY <3>1, DivType, WeekType
  <2>8. g <= p + (clock \div Week)
    <3>1. CASE a.refilled = Never
      BY <1>0, <2>6, <2>7, <3>1 DEF AllowanceFits
    <3>2. CASE a.refilled # Never /\ f = 0
      BY <2>4, <2>6, <2>7, <3>2
    <3>3. CASE a.refilled # Never /\ f # 0
      <4>1. /\ a.refilled \in Int
            /\ a.refilled <= clock
            /\ f <= p + (a.refilled \div Week)
            /\ s.start <= a.refilled
        BY <1>0, <2>3, <3>3 DEF AllowanceFits, Account
      <4>2. clock >= a.refilled + Week
        BY <1>3, <2>4, <3>3, <4>1 DEF RefillDue, Anchor
      <4>3. (a.refilled + Week) \div Week = (a.refilled \div Week) + 1 /\ a.refilled \div Week \in Int
        BY <4>1, DivNext, DivType, WeekType
      <4>4. (a.refilled + Week) \div Week <= clock \div Week
        <5>1. a.refilled + Week \in Int /\ clock \in Int /\ a.refilled + Week <= clock
          BY <1>0, <4>1, <4>2, WeekType
        <5> QED
          BY <5>1, DivMonotone, WeekType
      <4> QED
        BY <2>6, <2>7, <4>1, <4>3, <4>4
    <3> QED
      BY <3>1, <3>2, <3>3
  <2> QED
    BY <1>0, <1>1, <2>3, <2>4, <2>5, <2>8, NullAssumption DEF AllowanceFits
<1> QED
  BY <1>2, <1>3

(* Rows that only end: none appears, none becomes active, none restarts.   *)
RowsOnlyEnd(S, T) ==
  /\ DOMAIN T = DOMAIN S
  /\ \A i \in DOMAIN S : /\ T[i].user = S[i].user
                         /\ T[i].start = S[i].start
                         /\ T[i].status = "active" => S[i].status = "active"

LEMMA RowsOnlyEndFits ==
  ASSUME NEW S, NEW T, RowsOnlyEnd(S, T)
  PROVE  /\ \A u : NoNewRows(S, T, u)
         /\ \A u, p : PeriodOpened(u, S, p) => PeriodOpened(u, T, p)
         /\ \A c : StartsPast(S, c) => StartsPast(T, c)
BY DEF RowsOnlyEnd, NoNewRows, PeriodOpened, StartsPast, ActiveRows

(* Requests that move one account, count its refill and at most end rows.  *)
LEMMA OneAccountStep ==
  ASSUME BInv, AllowanceInv, NEW u \in Users, NEW b, NEW g,
         AllowanceFits(u, b, g, periods[u], subs, clock),
         account' = [account EXCEPT ![u] = b],
         \A v \in Users : refills'[v] = IF v = u THEN g ELSE refills[v],
         RowsOnlyEnd(subs, subs'), UNCHANGED <<clock, periods>>
  PROVE  AllowanceInv'
<1>1. StartsPast(subs', clock')
  BY RowsOnlyEndFits DEF AllowanceInv
<1>2. ASSUME NEW v \in Users
      PROVE  /\ AllowanceFits(v, account'[v], refills'[v], periods'[v], subs', clock')
             /\ PeriodOpened(v, subs', periods'[v])
  <2>1. PeriodOpened(v, subs', periods'[v])
    BY RowsOnlyEndFits DEF AllowanceInv
  <2>2. NoNewRows(subs, subs', v)
    BY RowsOnlyEndFits
  <2>3. AllowanceFits(v, account'[v], refills'[v], periods'[v], subs, clock')
    <3>1. CASE v = u
      BY <3>1 DEF BInv, TypeOK
    <3>2. CASE v # u
      BY <3>2 DEF BInv, TypeOK, AllowanceInv
    <3> QED
      BY <3>1, <3>2
  <2> QED
    BY <2>1, <2>2, <2>3, FewerRowsFit
<1> QED
  BY <1>1, <1>2 DEF AllowanceInv, StartsPast, PeriodOpened, AllowanceFits, ActiveRows

LEMMA RefillsAfterOf ==
  ASSUME TypeOK, NEW u \in Users, NEW a, NEW s, refills' = RefillsAfter(u, a, s), NEW v \in Users
  PROVE  refills'[v] = IF v = u
                       THEN IF RefillDue(a, s) /\ RefillKind(a, s) = "refill"
                            THEN refills[u] + 1 ELSE refills[u]
                       ELSE refills[v]
BY DEF RefillsAfter, TypeOK

LEMMA AcctFits ==
  ASSUME BInv, AllowanceInv, NEW u \in Users
  PROVE  /\ Acct(u) \in Account
         /\ AllowanceFits(u, Acct(u), refills[u], periods[u], subs, clock)
<1>1. Acct(u) \in Account
  BY AcctType DEF BInv
<1>2. AllowanceFits(u, account[u], refills[u], periods[u], subs, clock)
  BY DEF AllowanceInv
<1>3. CASE account[u] = NoAccount
  BY <1>1, <1>2, <1>3, NewFits DEF BInv, Acct, AllowanceFits
<1>4. CASE account[u] # NoAccount
  BY <1>1, <1>2, <1>4 DEF Acct
<1> QED
  BY <1>3, <1>4

(* The account after a refill, with the count of refills after it.         *)
LEMMA RefilledFits ==
  ASSUME BInv, AllowanceInv, NEW u \in Users, NEW a \in Account,
         AllowanceFits(u, a, refills[u], periods[u], subs, clock),
         NEW g, g = IF RefillDue(a, Current(subs, u)) /\ RefillKind(a, Current(subs, u)) = "refill"
                    THEN refills[u] + 1 ELSE refills[u]
  PROVE  /\ Refilled(a, Current(subs, u)) \in Account
         /\ AllowanceFits(u, Refilled(a, Current(subs, u)), g, periods[u], subs, clock)
<1>1. /\ TypeOK
      /\ subs \in Seq(Subscription)
      /\ OneActive(subs)
      /\ refills[u] \in Nat
      /\ periods[u] \in Nat
      /\ StartsPast(subs, clock)
      /\ PeriodOpened(u, subs, periods[u])
  BY DEF BInv, TypeOK, OneActiveSubscription, AllowanceInv
<1> QED
  BY <1>1, RefillFits

LEMMA AdjustFits ==
  ASSUME BInv, AllowanceInv, NEW u \in Users, NEW kind, NEW delta \in Int, Adjust(u, kind, delta),
         RowsOnlyEnd(subs, subs'), UNCHANGED <<clock, periods>>
  PROVE  AllowanceInv'
<1> DEFINE a == Acct(u)
           s == Current(subs, u)
           r == Refilled(a, s)
           g == IF RefillDue(a, s) /\ RefillKind(a, s) = "refill" THEN refills[u] + 1 ELSE refills[u]
<1>1. a \in Account /\ AllowanceFits(u, a, refills[u], periods[u], subs, clock)
  BY AcctFits
<1>2. r \in Account /\ AllowanceFits(u, r, g, periods[u], subs, clock)
  BY <1>1, RefilledFits
<1>3. account' = [account EXCEPT ![u] = Adjusted(r, delta)] /\ refills' = RefillsAfter(u, a, s)
  BY DEF Adjust
<1>4. \A v \in Users : refills'[v] = IF v = u THEN g ELSE refills[v]
  BY <1>3, RefillsAfterOf DEF BInv
<1> HIDE DEF a, s, r, g
<1>5. Adjusted(r, delta) \in Account /\ Adjusted(r, delta).refilled = r.refilled
  <2>1. Adjusted(r, delta) \in Account
    BY <1>2, AdjustSum
  <2>2. Adjusted(r, delta).refilled = r.refilled
    BY <1>2 DEF Adjusted, Account
  <2> QED
    BY <2>1, <2>2
<1>6. AllowanceFits(u, Adjusted(r, delta), g, periods[u], subs, clock)
  BY <1>2, <1>5, SameAnchorFits
<1> QED
  BY <1>3, <1>4, <1>6, OneAccountStep

LEMMA QuotaKeepsAnchor ==
  ASSUME TypeOK, NEW a \in Account
  PROVE  /\ QuotaReset(a) \in Account
         /\ QuotaReset(a).refilled = a.refilled
         /\ QuotaCharged(a) \in Account
         /\ QuotaCharged(a).refilled = a.refilled
<1>1. QuotaReset(a) \in Account /\ QuotaCharged(a) \in Account
  BY QuotaKeepsBalance
<1>2. DayRestarted(a).refilled = a.refilled /\ DayRestarted(a) \in Account
  BY DEF DayRestarted, Account, TypeOK, Time
<1>3. ASSUME NEW b \in Account PROVE WeekRestarted(b).refilled = b.refilled
  BY DEF WeekRestarted, Account
<1>4. QuotaReset(a).refilled = a.refilled
  BY <1>2, <1>3 DEF QuotaReset
<1>5. QuotaCharged(a).refilled = a.refilled
  BY DEF QuotaCharged, Account
<1> QED
  BY <1>1, <1>4, <1>5

LEMMA SpentType ==
  ASSUME NEW a \in Account, NEW cost \in Nat, a.balance >= cost
  PROVE  Spent(a, cost) \in Account /\ Spent(a, cost).refilled = a.refilled
<1> DEFINE b == a.balance - cost
           n == a.used + cost
<1>1. b \in Nat /\ n \in Nat
  BY DEF Account
<1>2. Spent(a, cost) = [a EXCEPT !.balance = b, !.used = n]
  BY DEF Spent
<1> HIDE DEF b, n
<1> QED
  BY <1>1, <1>2 DEF Account

LEMMA GateFits ==
  ASSUME BInv, AllowanceInv, NEW u \in Users, NEW act \in Actions, GateAction(u, act)
  PROVE  AllowanceInv'
<1> DEFINE s == Current(subs, u)
           q == QuotaReset(Acct(u))
           a == IF HasQuota(PlanOf(s)) THEN QuotaCharged(q) ELSE Acct(u)
           r == Refilled(a, s)
           g == IF RefillDue(a, s) /\ RefillKind(a, s) = "refill" THEN refills[u] + 1 ELSE refills[u]
<1>0. TypeOK
  BY DEF BInv
<1>1. Acct(u) \in Account /\ AllowanceFits(u, Acct(u), refills[u], periods[u], subs, clock)
  BY AcctFits
<1>2. a \in Account /\ a.refilled = Acct(u).refilled
  BY <1>0, <1>1, QuotaKeepsAnchor
<1>3. UNCHANGED <<clock, subs, periods>>
  BY DEF GateAction
<1>4. RowsOnlyEnd(subs, subs')
  BY <1>3 DEF RowsOnlyEnd
<1>5. \/ account' = [account EXCEPT ![u] = a] /\ UNCHANGED refills
      \/ /\ r.balance >= Cost[act]
         /\ account' = [account EXCEPT ![u] = Spent(r, Cost[act])]
         /\ refills' = RefillsAfter(u, a, s)
  BY DEF GateAction
<1> HIDE DEF a
<1>6. AllowanceFits(u, a, refills[u], periods[u], subs, clock)
  BY <1>1, <1>2, SameAnchorFits
<1>7. r \in Account /\ AllowanceFits(u, r, g, periods[u], subs, clock)
  BY <1>2, <1>6, RefilledFits
<1>8. CASE account' = [account EXCEPT ![u] = a] /\ UNCHANGED refills
  <2>1. \A v \in Users : refills'[v] = IF v = u THEN refills[u] ELSE refills[v]
    BY <1>8
  <2> QED
    BY <1>3, <1>4, <1>6, <1>8, <2>1, OneAccountStep
<1>9. CASE /\ r.balance >= Cost[act]
           /\ account' = [account EXCEPT ![u] = Spent(r, Cost[act])]
           /\ refills' = RefillsAfter(u, a, s)
  <2>1. \A v \in Users : refills'[v] = IF v = u THEN g ELSE refills[v]
    BY <1>0, <1>9, RefillsAfterOf
  <2>2. AllowanceFits(u, Spent(r, Cost[act]), g, periods[u], subs, clock)
    <3>1. Cost[act] \in Nat
      BY BillingAssumption
    <3> HIDE DEF r, g, s
    <3>2. Spent(r, Cost[act]) \in Account /\ Spent(r, Cost[act]).refilled = r.refilled
      BY <1>7, <1>9, <3>1, SpentType
    <3> QED
      BY <1>7, <3>2, SameAnchorFits
  <2> QED
    BY <1>3, <1>4, <1>9, <2>1, <2>2, OneAccountStep
<1> QED
  BY <1>5, <1>8, <1>9

LEMMA LinkedFits ==
  ASSUME BInv, AllowanceInv, NEW u \in Users, NEW q \in Nat, q >= periods[u] + 1, NEW T
  PROVE  AllowanceFits(u, Linked(u), refills[u], q, T, clock)
<1>1. /\ AllowanceFits(u, account[u], refills[u], periods[u], subs, clock)
      /\ refills[u] \in Nat /\ periods[u] \in Nat /\ clock \in Nat
      /\ account[u] \in Account \cup {NoAccount}
  BY DEF AllowanceInv, BInv, TypeOK, Time
<1>2. CASE account[u] = NoAccount
  <2>1. refills[u] = 0 /\ Linked(u) = NewAccount
    BY <1>1, <1>2 DEF AllowanceFits, Linked
  <2> QED
    BY <2>1, NewFits DEF BInv
<1>3. CASE account[u] # NoAccount
  BY <1>1, <1>3, ClearedFits DEF Linked
<1> QED
  BY <1>2, <1>3

(* An activation appends one row, of one user, that starts now.            *)
LEMMA ActivationRows ==
  ASSUME NEW S, NEW A, NEW u, NEW n, ActivationEffect(S, A, u, n), n.user = u
  PROVE  /\ \A c : StartsPast(S, c) /\ n.start <= c => StartsPast(A, c)
         /\ \A v : v # u => NoNewRows(S, A, v)
         /\ \A v, p : v # u /\ PeriodOpened(v, S, p) => PeriodOpened(v, A, p)
<1>1. ASSUME NEW i \in DOMAIN A, i \notin DOMAIN S PROVE A[i] = n
  BY <1>1 DEF ActivationEffect
<1>2. ASSUME NEW i \in DOMAIN S
      PROVE  /\ A[i].user = S[i].user
             /\ A[i].start = S[i].start
             /\ A[i].status = "active" => A[i] = S[i]
  BY DEF ActivationEffect, ActiveRows
<1>3. ASSUME NEW c, StartsPast(S, c), n.start <= c PROVE StartsPast(A, c)
  BY <1>1, <1>2, <1>3 DEF StartsPast
<1>4. ASSUME NEW v, v # u PROVE NoNewRows(S, A, v)
  BY <1>1, <1>2, <1>4 DEF NoNewRows, ActiveRows
<1>5. ASSUME NEW v, NEW p, v # u, PeriodOpened(v, S, p) PROVE PeriodOpened(v, A, p)
  BY <1>1, <1>2, <1>5 DEF PeriodOpened
<1> QED
  BY <1>3, <1>4, <1>5

LEMMA NewRow ==
  ASSUME TypeOK, NEW u, NEW key, NEW cycle, NEW renew
  PROVE  /\ NewSubscription(u, key, cycle, renew).user = u
         /\ NewSubscription(u, key, cycle, renew).start <= clock
BY DEF NewSubscription, TypeOK, Time

(* The renewal run restarts only overdue rows, and restarts them now.      *)
LEMMA ProcessedStarts ==
  ASSUME TypeOK, NEW S \in Seq(Subscription), StartsPast(S, clock)
  PROVE  /\ StartsPast(Processed(S), clock)
         /\ \A v : OverdueRows(S, v, TRUE) = {} => NoNewRows(S, Processed(S), v)
         /\ \A v, p : PeriodOpened(v, S, p) => PeriodOpened(v, Processed(S), p)
<1> DEFINE T == Processed(S)
<1>0. DOMAIN T = DOMAIN S
  BY DEF Processed
<1>1. ASSUME NEW i \in DOMAIN S
      PROVE  /\ T[i].user = S[i].user
             /\ T[i].start = S[i].start \/ T[i].start = clock
             /\ T[i].status = "active" => \/ S[i].status = "active" /\ T[i].start = S[i].start
                                          \/ Overdue(S[i]) /\ S[i].renew = TRUE
  <2>1. S[i] \in Subscription
    OBVIOUS
  <2>2. CASE ~Overdue(S[i])
    BY <2>2 DEF Processed
  <2>3. CASE Overdue(S[i]) /\ S[i].renew
    <3>1. T[i] = Renewed(S[i]) /\ S[i].renew = TRUE
      BY <2>1, <2>3 DEF Processed, Subscription
    <3>2. Renewed(S[i]).user = S[i].user /\ Renewed(S[i]).start = clock
      BY <2>1 DEF Renewed, Subscription
    <3> QED
      BY <2>3, <3>1, <3>2
  <2>4. CASE Overdue(S[i]) /\ ~S[i].renew
    BY <2>1, <2>4 DEF Processed, Expired, Subscription
  <2> QED
    BY <2>2, <2>3, <2>4
<1> HIDE DEF T
<1>2. StartsPast(T, clock)
  <2> SUFFICES ASSUME NEW i \in DOMAIN S PROVE T[i].start <= clock
    BY <1>0 DEF StartsPast
  <2>1. S[i].start <= clock /\ clock \in Nat
    BY DEF StartsPast, TypeOK, Time
  <2>2. T[i].start = S[i].start \/ T[i].start = clock
    BY <1>1
  <2>3. clock <= clock
    BY <2>1
  <2> QED
    BY <2>1, <2>2, <2>3
<1>3. ASSUME NEW v, OverdueRows(S, v, TRUE) = {} PROVE NoNewRows(S, T, v)
  BY <1>0, <1>1, <1>3 DEF NoNewRows, ActiveRows, OverdueRows
<1>4. ASSUME NEW v, NEW p, PeriodOpened(v, S, p) PROVE PeriodOpened(v, T, p)
  BY <1>0, <1>1, <1>4 DEF PeriodOpened
<1> QED
  BY <1>2, <1>3, <1>4 DEF T

LEMMA CreateFits ==
  ASSUME BInv, AllowanceInv, NEW u \in Users, NEW key \in PlanKeys, NEW cycle \in Cycles,
         NEW renew \in BOOLEAN, CreateSubscription(u, key, cycle, renew)
  PROVE  AllowanceInv'
<1> DEFINE n == NewSubscription(u, key, cycle, renew)
<1>0. TypeOK
  BY DEF BInv
<1>1. ActivationEffect(subs, subs', u, n)
  BY <1>0, ActivatedEffect DEF CreateSubscription, TypeOK
<1>2. n.user = u /\ n.start <= clock
  BY <1>0, NewRow
<1> HIDE DEF n
<1>3. /\ StartsPast(subs', clock)
      /\ \A v : v # u => NoNewRows(subs, subs', v)
      /\ \A v, p : v # u /\ PeriodOpened(v, subs, p) => PeriodOpened(v, subs', p)
  BY <1>1, <1>2, ActivationRows DEF AllowanceInv
<1>4. /\ account' = [account EXCEPT ![u] = Linked(u)]
      /\ periods' = [periods EXCEPT ![u] = @ + 1]
      /\ UNCHANGED <<clock, refills>>
  BY DEF CreateSubscription
<1>5. ASSUME NEW v \in Users
      PROVE  /\ AllowanceFits(v, account'[v], refills'[v], periods'[v], subs', clock')
             /\ PeriodOpened(v, subs', periods'[v])
  <2>1. CASE v = u
    <3>1. account'[v] = Linked(u) /\ periods'[v] = periods[u] + 1 /\ periods[u] \in Nat
      BY <1>0, <1>4, <2>1 DEF TypeOK
    <3>2. AllowanceFits(u, Linked(u), refills[u], periods[u] + 1, subs', clock)
      <4>1. periods[u] + 1 \in Nat /\ periods[u] + 1 >= periods[u] + 1
        BY <3>1
      <4> HIDE DEF AllowanceInv
      <4> QED
        BY <4>1, LinkedFits
    <3>3. PeriodOpened(v, subs', periods'[v])
      BY <3>1 DEF PeriodOpened
    <3> QED
      BY <1>4, <2>1, <3>1, <3>2, <3>3
  <2>2. CASE v # u
    <3>1. account'[v] = account[v] /\ periods'[v] = periods[v]
      BY <1>0, <1>4, <2>2 DEF TypeOK
    <3>2. AllowanceFits(v, account[v], refills[v], periods[v], subs, clock)
          /\ PeriodOpened(v, subs, periods[v])
      BY DEF AllowanceInv
    <3>3. AllowanceFits(v, account[v], refills[v], periods[v], subs', clock)
      BY <1>3, <2>2, <3>2, FewerRowsFit
    <3> QED
      BY <1>3, <1>4, <2>2, <3>1, <3>2, <3>3
  <2> QED
    BY <2>1, <2>2
<1>6. StartsPast(subs', clock')
  BY <1>3, <1>4
<1> QED
  BY <1>5, <1>6 DEF AllowanceInv, StartsPast, PeriodOpened, AllowanceFits, ActiveRows

LEMMA StatusFits ==
  ASSUME BInv, AllowanceInv, NEW u \in Users, BillingStatus(u)
  PROVE  AllowanceInv'
<1> DEFINE G == Granted(u)
           T == Processed(G)
           own == IF Relinked(u, u) = NoAccount THEN NewAccount ELSE Relinked(u, u)
           s == Current(T, u)
           r == Refilled(own, s)
           granted(v) == IF v = u /\ AdminNeedsPlan(u) THEN 1 ELSE 0
           renewed(v) == IF OverdueRows(G, v, TRUE) # {} THEN 1 ELSE 0
<1>0. TypeOK /\ subs \in Seq(Subscription) /\ clock \in Nat /\ StartsPast(subs, clock)
  BY DEF BInv, TypeOK, Time, AllowanceInv
<1>1. /\ subs' = T
      /\ account' = [v \in Users |-> IF v = u THEN QuotaReset(r) ELSE Relinked(u, v)]
      /\ refills' = RefillsAfter(u, own, s)
      /\ periods' = [v \in Users |-> periods[v] + granted(v) + renewed(v)]
      /\ clock' = clock
  BY DEF BillingStatus
<1>2. G \in Seq(Subscription) /\ OneActive(G)
  BY GrantedRows
<1>3. /\ StartsPast(G, clock)
      /\ \A v : ~(v = u /\ AdminNeedsPlan(u)) =>
           /\ NoNewRows(subs, G, v)
           /\ \A p : PeriodOpened(v, subs, p) => PeriodOpened(v, G, p)
  <2>1. CASE AdminNeedsPlan(u)
    <3> DEFINE n == NewSubscription(u, AdminPlan, Monthly, TRUE)
    <3>1. ActivationEffect(subs, G, u, n)
      BY <1>0, <2>1, ActivatedEffect, BillingAssumption DEF Granted
    <3>2. n.user = u /\ n.start <= clock
      BY <1>0, NewRow
    <3> HIDE DEF G, n
    <3>3. /\ \A c : StartsPast(subs, c) /\ n.start <= c => StartsPast(G, c)
          /\ \A v : v # u => NoNewRows(subs, G, v)
          /\ \A v, p : v # u /\ PeriodOpened(v, subs, p) => PeriodOpened(v, G, p)
      BY <3>1, <3>2, ActivationRows
    <3> QED
      BY <1>0, <2>1, <3>2, <3>3
  <2>2. CASE ~AdminNeedsPlan(u)
    BY <1>0, <2>2 DEF Granted, NoNewRows
  <2> QED
    BY <2>1, <2>2
<1>4. T \in Seq(Subscription) /\ OneActive(T)
  BY <1>0, <1>2, ProcessedRows
<1> HIDE DEF G
<1>5. /\ StartsPast(T, clock)
      /\ \A v : OverdueRows(G, v, TRUE) = {} => NoNewRows(G, T, v)
      /\ \A v, p : PeriodOpened(v, G, p) => PeriodOpened(v, T, p)
  BY <1>0, <1>2, <1>3, ProcessedStarts
<1> HIDE DEF T
<1>6. ASSUME NEW v \in Users
      PROVE  /\ Relinked(u, v) \in Account \cup {NoAccount}
             /\ AllowanceFits(v, Relinked(u, v), refills[v], periods'[v], T, clock)
             /\ PeriodOpened(v, T, periods'[v])
             /\ periods'[v] \in Nat
  <2>1. periods'[v] = periods[v] + granted(v) + renewed(v)
    BY <1>1
  <2>2. periods[v] \in Nat /\ granted(v) \in Nat /\ renewed(v) \in Nat /\ refills[v] \in Nat
    BY <1>0 DEF TypeOK
  <2>3. /\ AllowanceFits(v, account[v], refills[v], periods[v], subs, clock)
        /\ PeriodOpened(v, subs, periods[v])
    BY DEF AllowanceInv
  <2>4. Relinked(u, v) \in Account \cup {NoAccount}
    BY <1>0, RelinkedAccount
  <2>5. CASE v = u /\ AdminNeedsPlan(u)
    <3>1. granted(v) = 1
      BY <2>5
    <3> HIDE DEF granted, renewed
    <3>2. periods'[v] \in Nat /\ periods'[v] >= periods[v] + 1
      BY <2>1, <2>2, <3>1
    <3>3. Relinked(u, v) = Linked(v)
      BY <2>5 DEF Relinked
    <3>4. AllowanceFits(v, Linked(v), refills[v], periods'[v], T, clock)
      BY <3>2, LinkedFits
    <3>5. PeriodOpened(v, T, periods'[v])
      BY <2>2, <3>2 DEF PeriodOpened
    <3> QED
      BY <2>4, <3>2, <3>3, <3>4, <3>5
  <2>6. CASE ~(v = u /\ AdminNeedsPlan(u))
    <3>1. NoNewRows(subs, G, v) /\ PeriodOpened(v, T, periods[v])
      BY <1>3, <1>5, <2>3, <2>6
    <3>2. periods'[v] \in Nat /\ periods'[v] >= periods[v]
      <4> HIDE DEF granted, renewed
      <4> QED
        BY <2>1, <2>2
    <3>3. PeriodOpened(v, T, periods'[v])
      BY <2>2, <3>1, <3>2 DEF PeriodOpened
    <3>4. CASE account[v] = NoAccount
      BY <2>3, <2>4, <2>6, <3>2, <3>3, <3>4 DEF Relinked, AllowanceFits
    <3>5. CASE account[v] # NoAccount /\ OverdueRows(G, v, TRUE) # {}
      <4>1. renewed(v) = 1
        BY <3>5
      <4> HIDE DEF granted, renewed
      <4>2. periods'[v] >= periods[v] + 1
        BY <2>1, <2>2, <4>1
      <4>3. Relinked(u, v) = [account[v] EXCEPT !.refilled = Never] /\ account[v] \in Account
        BY <1>0, <2>6, <3>5 DEF Relinked, G, TypeOK
      <4>4. AllowanceFits(v, [account[v] EXCEPT !.refilled = Never], refills[v], periods'[v], T, clock)
        BY <1>0, <2>2, <2>3, <3>2, <4>2, <4>3, ClearedFits
      <4> QED
        BY <2>4, <3>2, <3>3, <4>3, <4>4
    <3>6. CASE account[v] # NoAccount /\ OverdueRows(G, v, TRUE) = {}
      <4>1. Relinked(u, v) = account[v] /\ account[v] \in Account
        BY <1>0, <2>6, <3>6 DEF Relinked, G, TypeOK
      <4>2. AllowanceFits(v, account[v], refills[v], periods[v], G, clock)
        BY <2>3, <3>1, FewerRowsFit
      <4>3. AllowanceFits(v, account[v], refills[v], periods[v], T, clock)
        BY <1>5, <3>6, <4>2, FewerRowsFit
      <4>4. AllowanceFits(v, account[v], refills[v], periods'[v], T, clock)
        BY <1>0, <2>2, <3>2, <4>1, <4>3, LaterFits
      <4> QED
        BY <2>4, <3>2, <3>3, <4>1, <4>4
    <3> QED
      BY <3>4, <3>5, <3>6
  <2> QED
    BY <2>5, <2>6
<1>7. /\ own \in Account
      /\ AllowanceFits(u, own, refills[u], periods'[u], T, clock)
  <2>1. NewAccount \in Account
    BY <1>0, AcctType
  <2>2. CASE Relinked(u, u) = NoAccount
    <3>1. refills[u] = 0
      BY <1>6, <2>2 DEF AllowanceFits
    <3> QED
      BY <1>0, <2>1, <2>2, <3>1, NewFits
  <2>3. CASE Relinked(u, u) # NoAccount
    BY <1>6, <2>3
  <2> QED
    BY <2>2, <2>3
<1> DEFINE g == IF RefillDue(own, s) /\ RefillKind(own, s) = "refill" THEN refills[u] + 1 ELSE refills[u]
<1>8. \A v \in Users : refills'[v] = IF v = u THEN g ELSE refills[v]
  BY <1>0, <1>1, RefillsAfterOf
<1> HIDE DEF own
<1>9. r \in Account /\ AllowanceFits(u, r, g, periods'[u], T, clock)
  <2>1. refills[u] \in Nat /\ periods'[u] \in Nat /\ PeriodOpened(u, T, periods'[u])
    BY <1>0, <1>6 DEF TypeOK
  <2> QED
    BY <1>0, <1>4, <1>5, <1>7, <2>1, RefillFits
<1> HIDE DEF r, g, s
<1>10. AllowanceFits(u, QuotaReset(r), g, periods'[u], T, clock)
  BY <1>0, <1>9, QuotaKeepsAnchor, SameAnchorFits
<1>11. ASSUME NEW v \in Users
       PROVE  /\ AllowanceFits(v, account'[v], refills'[v], periods'[v], subs', clock')
              /\ PeriodOpened(v, subs', periods'[v])
  <2>1. CASE v = u
    BY <1>1, <1>6, <1>8, <1>10, <2>1
  <2>2. CASE v # u
    BY <1>1, <1>6, <1>8, <2>2
  <2> QED
    BY <2>1, <2>2
<1>12. StartsPast(subs', clock')
  BY <1>1, <1>5
<1> QED
  BY <1>11, <1>12 DEF AllowanceInv, StartsPast, PeriodOpened, AllowanceFits, ActiveRows

LEMMA AllowanceStep ==
  ASSUME BInv, AllowanceInv, [Next]_vars
  PROVE  AllowanceInv'
<1>0. TypeOK /\ clock \in Nat
  BY DEF BInv, TypeOK, Time
<1>1. ASSUME NEW u \in Users, ApproveRefund(u)
      PROVE  AllowanceInv'
  <2> DEFINE i == Latest(subs, u)
  <2>1. i \in DOMAIN subs /\ subs[i] \in Subscription
    BY <1>1, CurrentType DEF ApproveRefund, Current, BInv, TypeOK, OneActiveSubscription
  <2>2. subs' = [subs EXCEPT ![i] = [subs[i] EXCEPT !.status = "refunded", !.cancelled = TRUE]]
    BY <1>1, <2>1 DEF ApproveRefund
  <2> HIDE DEF i
  <2>3. subs'[i] = [subs[i] EXCEPT !.status = "refunded", !.cancelled = TRUE]
    BY <2>1, <2>2
  <2>4. /\ subs'[i].status = "refunded"
        /\ subs'[i].user = subs[i].user
        /\ subs'[i].start = subs[i].start
    BY <2>1, <2>3 DEF Subscription
  <2>5. DOMAIN subs' = DOMAIN subs /\ \A j \in DOMAIN subs : j # i => subs'[j] = subs[j]
    BY <2>1, <2>2
  <2>6. RowsOnlyEnd(subs, subs')
    BY <2>4, <2>5 DEF RowsOnlyEnd
  <2>7. UNCHANGED <<clock, periods>>
    BY <1>1 DEF ApproveRefund
  <2>8. Acct(u) \in Account /\ AllowanceFits(u, Acct(u), refills[u], periods[u], subs, clock)
    BY AcctFits
  <2>9. CASE Acct(u).balance > 0
    <3>1. Adjust(u, "refund_revoke", - Acct(u).balance) /\ - Acct(u).balance \in Int
      BY <1>1, <2>8, <2>9 DEF ApproveRefund, Account
    <3> QED
      BY <2>6, <2>7, <3>1, AdjustFits
  <2>10. CASE ~(Acct(u).balance > 0)
    <3>1. account' = [account EXCEPT ![u] = Acct(u)] /\ UNCHANGED refills
      BY <1>1, <2>10 DEF ApproveRefund
    <3>2. \A v \in Users : refills'[v] = IF v = u THEN refills[u] ELSE refills[v]
      BY <3>1
    <3> QED
      BY <2>6, <2>7, <2>8, <3>1, <3>2, OneAccountStep
  <2> QED
    BY <2>9, <2>10
<1>2. ASSUME NEW u \in Users, NEW delta \in Adjustments, AdminAdjust(u, delta)
      PROVE  AllowanceInv'
  <2>1. Adjust(u, "admin_adjust", delta) /\ delta \in Int /\ UNCHANGED <<clock, subs, periods>>
    BY <1>2, BillingAssumption DEF AdminAdjust
  <2>2. RowsOnlyEnd(subs, subs')
    BY <2>1 DEF RowsOnlyEnd
  <2> QED
    BY <2>1, <2>2, AdjustFits
<1>3. ASSUME NEW u \in Users, NEW pack \in Packs, ApproveTopup(u, pack)
      PROVE  AllowanceInv'
  <2>1. Adjust(u, "topup", pack) /\ pack \in Int /\ UNCHANGED <<clock, subs, periods>>
    BY <1>3, BillingAssumption DEF ApproveTopup
  <2>2. RowsOnlyEnd(subs, subs')
    BY <2>1 DEF RowsOnlyEnd
  <2> QED
    BY <2>1, <2>2, AdjustFits
<1>4. ASSUME NEW u \in Users, CancelSubscription(u)
      PROVE  AllowanceInv'
  <2> DEFINE i == Latest(subs, u)
  <2>1. i \in DOMAIN subs /\ subs[i] \in Subscription
    BY <1>4, CurrentType DEF CancelSubscription, Current, BInv, TypeOK, OneActiveSubscription
  <2>2. subs' = [subs EXCEPT ![i] = [subs[i] EXCEPT !.renew = FALSE, !.cancelled = TRUE]]
    BY <1>4, <2>1 DEF CancelSubscription
  <2> HIDE DEF i
  <2>3. subs'[i] = [subs[i] EXCEPT !.renew = FALSE, !.cancelled = TRUE]
    BY <2>1, <2>2
  <2>4. /\ subs'[i].status = subs[i].status
        /\ subs'[i].user = subs[i].user
        /\ subs'[i].start = subs[i].start
    BY <2>1, <2>3 DEF Subscription
  <2>5. DOMAIN subs' = DOMAIN subs /\ \A j \in DOMAIN subs : j # i => subs'[j] = subs[j]
    BY <2>1, <2>2
  <2>6. RowsOnlyEnd(subs, subs')
    BY <2>4, <2>5 DEF RowsOnlyEnd
  <2>7. UNCHANGED <<clock, periods, account, refills>>
    BY <1>4 DEF CancelSubscription
  <2> QED
    BY <2>6, <2>7, RowsOnlyEndFits, FewerRowsFit
       DEF AllowanceInv, StartsPast, PeriodOpened, AllowanceFits, NoNewRows, ActiveRows
<1>5. ASSUME Tick PROVE AllowanceInv'
  <2>1. clock' = clock + 1 /\ UNCHANGED <<subs, account, periods, refills>>
    BY <1>5 DEF Tick
  <2>2. StartsPast(subs, clock + 1)
    <3>1. ASSUME NEW i \in DOMAIN subs PROVE subs[i].start <= clock + 1
      <4>1. subs[i] \in Subscription
        BY <1>0 DEF TypeOK
      <4> QED
        BY <1>0, <4>1 DEF AllowanceInv, StartsPast, Subscription, Time
    <3> QED
      BY <3>1 DEF StartsPast
  <2>3. ASSUME NEW v \in Users
        PROVE  AllowanceFits(v, account[v], refills[v], periods[v], subs, clock + 1)
    <3>1. /\ account[v] \in Account \cup {NoAccount}
          /\ refills[v] \in Nat /\ periods[v] \in Nat /\ clock + 1 \in Nat
          /\ periods[v] <= periods[v] /\ clock <= clock + 1
          /\ AllowanceFits(v, account[v], refills[v], periods[v], subs, clock)
      BY <1>0 DEF TypeOK, AllowanceInv
    <3> QED
      BY <1>0, <3>1, LaterFits
  <2> QED
    BY <2>1, <2>2, <2>3 DEF AllowanceInv, StartsPast, PeriodOpened, AllowanceFits, ActiveRows
<1>6. ASSUME UNCHANGED <<clock, subs, account, periods, refills>> PROVE AllowanceInv'
  BY <1>6 DEF AllowanceInv, StartsPast, PeriodOpened, AllowanceFits, ActiveRows
<1>7. CASE UNCHANGED vars
  BY <1>6, <1>7 DEF vars
<1> QED
  BY <1>1, <1>2, <1>3, <1>4, <1>5, <1>6, <1>7, GateFits, StatusFits, CreateFits
     DEF Next, UpdateUser, PutPlan, RemovePlan

(* An allowance is granted at most once per opened period and once per     *)
(* elapsed week.                                                           *)
THEOREM RefillsCorrect == Spec => []RefillsAreBounded
<1>1. Init => AllowanceInv
  BY DEF Init, AllowanceInv, StartsPast, PeriodOpened, AllowanceFits
<1>2. BInv /\ AllowanceInv /\ [Next]_vars => AllowanceInv'
  BY AllowanceStep
<1>3. BInv /\ AllowanceInv => RefillsAreBounded
  <2> SUFFICES ASSUME BInv, AllowanceInv, NEW u \in Users
               PROVE  refills[u] <= periods[u] + clock \div Week
    BY DEF RefillsAreBounded
  <2>1. /\ refills[u] \in Nat /\ periods[u] \in Nat /\ clock \in Nat
        /\ account[u] \in Account \cup {NoAccount}
        /\ AllowanceFits(u, account[u], refills[u], periods[u], subs, clock)
    BY DEF BInv, TypeOK, Time, AllowanceInv
  <2>2. clock \div Week \in Nat
    <3>1. clock \in Int /\ clock >= 0
      BY <2>1
    <3> QED
      BY <3>1, DivType, WeekType
  <2>3. CASE refills[u] = 0
    BY <2>1, <2>2, <2>3
  <2>4. CASE refills[u] # 0 /\ account[u].refilled = Never
    BY <2>1, <2>2, <2>4 DEF AllowanceFits
  <2>5. CASE refills[u] # 0 /\ account[u].refilled # Never
    <3>1. /\ account[u].refilled \in Int
          /\ account[u].refilled <= clock
          /\ refills[u] <= periods[u] + (account[u].refilled \div Week)
      BY <2>1, <2>5 DEF AllowanceFits, Account
    <3>2. account[u].refilled \div Week \in Int
      BY <3>1, DivType, WeekType
    <3>3. account[u].refilled \div Week <= clock \div Week
      <4>1. clock \in Int
        BY <2>1
      <4> QED
        BY <3>1, <4>1, DivMonotone, WeekType
    <3> QED
      BY <2>1, <2>2, <3>1, <3>2, <3>3
  <2> QED
    BY <2>3, <2>4, <2>5
<1> QED
  BY SpecBInv, <1>1, <1>2, <1>3, PTL DEF Spec

-----------------------------------------------------------------------------
(* Tiers                                                                   *)

TierOf(S, u) == IF Current(S, u) = NoSub THEN FreeTier ELSE Current(S, u).plan

LEMMA TierOfRow ==
  ASSUME NEW S \in Seq(Subscription), OneActive(S), NEW u \in Users, NEW i \in ActiveRows(S, u)
  PROVE  /\ TierOf(S, u) = S[i].plan
         /\ ActiveRows(S, u) = {i}
         /\ i \in DOMAIN S /\ S[i] \in Subscription
         /\ S[i].user = u /\ S[i].status = "active"
<1>1. ActiveRows(S, u) # {}
  OBVIOUS
<1>2. /\ Latest(S, u) \in DOMAIN S
      /\ ActiveRows(S, u) = {Latest(S, u)}
      /\ Current(S, u) = S[Latest(S, u)]
      /\ Current(S, u) # NoSub
      /\ Current(S, u) \in Subscription
      /\ Current(S, u).user = u
      /\ Current(S, u).status = "active"
  BY <1>1, CurrentType
<1>3. i = Latest(S, u)
  BY <1>2
<1> QED
  BY <1>2, <1>3 DEF TierOf

LEMMA TierOfNone ==
  ASSUME NEW S, NEW u, ActiveRows(S, u) = {}
  PROVE  TierOf(S, u) = FreeTier
BY DEF TierOf, Current

(* The tier depends on the active rows and their plans only.               *)
LEMMA TierOfSame ==
  ASSUME NEW S \in Seq(Subscription), OneActive(S), NEW T \in Seq(Subscription), OneActive(T),
         NEW u \in Users, ActiveRows(T, u) = ActiveRows(S, u),
         \A i \in ActiveRows(S, u) : T[i].plan = S[i].plan
  PROVE  TierOf(T, u) = TierOf(S, u)
<1>1. CASE ActiveRows(S, u) = {}
  BY <1>1, TierOfNone
<1>2. CASE ActiveRows(S, u) # {}
  <2>1. PICK i \in ActiveRows(S, u) : TRUE
    BY <1>2
  <2>2. TierOf(S, u) = S[i].plan /\ TierOf(T, u) = T[i].plan
    BY <2>1, TierOfRow
  <2> QED
    BY <2>1, <2>2
<1> QED
  BY <1>1, <1>2

(* An activation gives its user the new plan and leaves the others theirs. *)
LEMMA ActivationTier ==
  ASSUME NEW S \in Seq(Subscription), OneActive(S), NEW A \in Seq(Subscription), OneActive(A),
         NEW u \in Users, NEW n, ActivationEffect(S, A, u, n), n.user = u, n.status = "active",
         NEW v \in Users
  PROVE  TierOf(A, v) = IF v = u THEN n.plan ELSE TierOf(S, v)
<1>1. /\ Len(S) + 1 \in DOMAIN A
      /\ A[Len(S) + 1] = n
      /\ \A i \in DOMAIN A : i \in DOMAIN S \/ i = Len(S) + 1
      /\ DOMAIN S \subseteq DOMAIN A
  BY DEF ActivationEffect
<1>2. CASE v = u
  <2>1. Len(S) + 1 \in ActiveRows(A, u)
    BY <1>1 DEF ActiveRows
  <2> QED
    BY <1>1, <1>2, <2>1, TierOfRow
<1>3. CASE v # u
  <2>1. ASSUME NEW i \in DOMAIN S, S[i].user = v PROVE A[i] = S[i]
    BY <1>3, <2>1 DEF ActivationEffect, ActiveRows
  <2>2. ASSUME NEW i \in DOMAIN S PROVE A[i].user = S[i].user
    BY DEF ActivationEffect
  <2>3. ActiveRows(A, v) = ActiveRows(S, v)
    BY <1>1, <1>3, <2>1, <2>2 DEF ActiveRows
  <2>4. \A i \in ActiveRows(S, v) : A[i].plan = S[i].plan
    BY <2>1 DEF ActiveRows
  <2> QED
    BY <1>3, <2>3, <2>4, TierOfSame
<1> QED
  BY <1>2, <1>3

(* The renewal run ends a tier exactly when it ends its subscription.      *)
LEMMA ProcessedTier ==
  ASSUME TypeOK, NEW S \in Seq(Subscription), OneActive(S), NEW v \in Users
  PROVE  TierOf(Processed(S), v) = TierAfter(TierOf(S, v), EndedPlans(S, v))
<1> DEFINE T == Processed(S)
<1>1. T \in Seq(Subscription) /\ OneActive(T)
  BY ProcessedRows
<1>2. DOMAIN T = DOMAIN S
  BY DEF Processed
<1>3. ASSUME NEW i \in DOMAIN S
      PROVE  /\ T[i].user = S[i].user
             /\ T[i].plan = S[i].plan
             /\ T[i].status = "active" <=> S[i].status = "active" /\ ~(Overdue(S[i]) /\ S[i].renew = FALSE)
  <2>1. S[i] \in Subscription
    OBVIOUS
  <2>2. CASE ~Overdue(S[i])
    BY <2>2 DEF Processed
  <2>3. CASE Overdue(S[i]) /\ S[i].renew
    <3>1. T[i] = Renewed(S[i])
      BY <2>3 DEF Processed
    <3>2. /\ Renewed(S[i]).user = S[i].user
          /\ Renewed(S[i]).plan = S[i].plan
          /\ Renewed(S[i]).status = S[i].status
      BY <2>1 DEF Renewed, Subscription
    <3> QED
      BY <2>3, <3>1, <3>2 DEF Overdue
  <2>4. CASE Overdue(S[i]) /\ ~S[i].renew
    <3>1. T[i] = Expired(S[i]) /\ S[i].renew = FALSE
      BY <2>1, <2>4 DEF Processed, Subscription
    <3>2. /\ Expired(S[i]).user = S[i].user
          /\ Expired(S[i]).plan = S[i].plan
          /\ Expired(S[i]).status = "expired"
      BY <2>1 DEF Expired, Subscription
    <3> QED
      BY <2>4, <3>1, <3>2
  <2> QED
    BY <2>2, <2>3, <2>4
<1> HIDE DEF T
<1>4. CASE ActiveRows(S, v) = {}
  <2>1. ActiveRows(T, v) = {}
    BY <1>2, <1>3, <1>4 DEF ActiveRows
  <2>2. EndedPlans(S, v) = {}
    BY <1>4 DEF EndedPlans, OverdueRows, Overdue, ActiveRows
  <2>3. TierOf(S, v) = FreeTier /\ TierOf(T, v) = FreeTier
    BY <1>4, <2>1, TierOfNone
  <2> QED
    BY <2>2, <2>3 DEF TierAfter, T
<1>5. CASE ActiveRows(S, v) # {}
  <2>1. PICK i \in ActiveRows(S, v) : TRUE
    BY <1>5
  <2>2. /\ TierOf(S, v) = S[i].plan
        /\ ActiveRows(S, v) = {i}
        /\ i \in DOMAIN S /\ S[i].user = v /\ S[i].status = "active"
    BY <2>1, TierOfRow
  <2>3. \A j \in OverdueRows(S, v, FALSE) : j = i
    BY <2>2 DEF OverdueRows, Overdue, ActiveRows
  <2>4. CASE Overdue(S[i]) /\ S[i].renew = FALSE
    <3>1. ActiveRows(T, v) = {}
      <4> SUFFICES ASSUME NEW j \in ActiveRows(T, v) PROVE FALSE
        OBVIOUS
      <4>1. j \in DOMAIN S /\ T[j].user = v /\ T[j].status = "active"
        BY <1>2 DEF ActiveRows
      <4>2. S[j].user = v /\ S[j].status = "active" /\ ~(Overdue(S[j]) /\ S[j].renew = FALSE)
        BY <1>3, <4>1
      <4>3. j \in ActiveRows(S, v)
        BY <4>1, <4>2 DEF ActiveRows
      <4>4. j = i
        BY <2>2, <4>3
      <4> QED
        BY <2>4, <4>2, <4>4
    <3>2. i \in OverdueRows(S, v, FALSE)
      BY <2>2, <2>4 DEF OverdueRows
    <3>3. S[i].plan \in EndedPlans(S, v)
      BY <3>2 DEF EndedPlans
    <3> QED
      BY <2>2, <3>1, <3>3, TierOfNone DEF TierAfter, T
  <2>5. CASE ~(Overdue(S[i]) /\ S[i].renew = FALSE)
    <3>1. i \in ActiveRows(T, v)
      BY <1>2, <1>3, <2>2, <2>5 DEF ActiveRows
    <3>2. i \notin OverdueRows(S, v, FALSE)
      BY <2>5 DEF OverdueRows
    <3>3. EndedPlans(S, v) = {}
      BY <2>3, <3>2 DEF EndedPlans
    <3>4. TierOf(T, v) = T[i].plan
      BY <1>1, <3>1, TierOfRow DEF T
    <3> QED
      BY <1>3, <2>2, <3>3, <3>4 DEF TierAfter, T
  <2> QED
    BY <2>4, <2>5
<1> QED
  BY <1>4, <1>5

TierInv == \A u \in Users : tier[u] = TierOf(subs, u)

LEMMA NewRowTier ==
  ASSUME NEW u, NEW key, NEW cycle, NEW renew
  PROVE  /\ NewSubscription(u, key, cycle, renew).user = u
         /\ NewSubscription(u, key, cycle, renew).status = "active"
         /\ NewSubscription(u, key, cycle, renew).plan = key
BY DEF NewSubscription

LEMMA TierStep ==
  ASSUME TierEdits = {}, BInv, TierInv, [Next]_vars
  PROVE  TierInv'
<1>0. TypeOK /\ subs \in Seq(Subscription) /\ OneActive(subs)
  BY DEF BInv, TypeOK, OneActiveSubscription
<1>1. ASSUME NEW u \in Users, BillingStatus(u)
      PROVE  TierInv'
  <2> DEFINE G == Granted(u)
             base(v) == IF v = u /\ AdminNeedsPlan(u) THEN AdminPlan ELSE tier[v]
  <2>1. /\ subs' = Processed(G)
        /\ tier' = [v \in Users |-> TierAfter(base(v), EndedPlans(G, v))]
    BY <1>1 DEF BillingStatus
  <2>2. G \in Seq(Subscription) /\ OneActive(G)
    BY GrantedRows
  <2>3. ASSUME NEW v \in Users PROVE base(v) = TierOf(G, v)
    <3>1. CASE AdminNeedsPlan(u)
      <4> DEFINE n == NewSubscription(u, AdminPlan, Monthly, TRUE)
      <4>1. ActivationEffect(subs, G, u, n)
        BY <1>0, <3>1, ActivatedEffect, BillingAssumption DEF Granted
      <4>2. n.user = u /\ n.status = "active" /\ n.plan = AdminPlan
        BY DEF NewSubscription
      <4> HIDE DEF G, n
      <4>3. TierOf(G, v) = IF v = u THEN n.plan ELSE TierOf(subs, v)
        BY <1>0, <2>2, <4>1, <4>2, ActivationTier
      <4> QED
        BY <3>1, <4>2, <4>3 DEF TierInv
    <3>2. CASE ~AdminNeedsPlan(u)
      BY <3>2 DEF Granted, TierInv
    <3> QED
      BY <3>1, <3>2
  <2> HIDE DEF G, base
  <2>4. ASSUME NEW v \in Users PROVE tier'[v] = TierOf(subs', v)
    BY <1>0, <2>1, <2>2, <2>3, ProcessedTier
  <2> QED
    BY <2>4 DEF TierInv, TierOf, Current, ActiveRows, Latest
<1>2. ASSUME NEW u \in Users, ApproveRefund(u)
      PROVE  TierInv'
  <2> DEFINE i == Latest(subs, u)
  <2>1. /\ i \in ActiveRows(subs, u)
        /\ i \in DOMAIN subs /\ subs[i] \in Subscription
        /\ Current(subs, u) = subs[i]
    BY <1>0, <1>2, CurrentType DEF ApproveRefund, Current
  <2>2. subs' = [subs EXCEPT ![i] = [subs[i] EXCEPT !.status = "refunded", !.cancelled = TRUE]]
    BY <1>2, <2>1 DEF ApproveRefund
  <2>3. tier' = [tier EXCEPT ![u] = TierAfter(@, {subs[i].plan})]
    BY <1>2, <2>1 DEF ApproveRefund
  <2> HIDE DEF i
  <2>4. subs'[i] = [subs[i] EXCEPT !.status = "refunded", !.cancelled = TRUE]
    BY <2>1, <2>2
  <2>5. subs'[i].status # "active"
    BY <2>1, <2>4 DEF Subscription
  <2>6. DOMAIN subs' = DOMAIN subs /\ \A j \in DOMAIN subs : j # i => subs'[j] = subs[j]
    BY <2>1, <2>2
  <2>7. subs' \in Seq(Subscription) /\ OneActive(subs')
    BY <1>2, ApproveRefundStep DEF BInv, TypeOK, OneActiveSubscription
  <2>8. ASSUME NEW v \in Users PROVE tier'[v] = TierOf(subs', v)
    <3>1. CASE v = u
      <4>1. tier[u] = subs[i].plan /\ ActiveRows(subs, u) = {i}
        BY <1>0, <2>1, TierOfRow DEF TierInv
      <4>2. tier'[u] = FreeTier
        BY <1>0, <2>3, <4>1 DEF TierAfter, TypeOK
      <4>3. ActiveRows(subs', u) = {}
        BY <2>5, <2>6, <4>1 DEF ActiveRows
      <4> QED
        BY <3>1, <4>2, <4>3, TierOfNone
    <3>2. CASE v # u
      <4>1. subs[i].user = u
        BY <2>1 DEF ActiveRows
      <4>2. ActiveRows(subs', v) = ActiveRows(subs, v)
        <5>1. ASSUME NEW j \in DOMAIN subs
              PROVE  j \in ActiveRows(subs', v) <=> j \in ActiveRows(subs, v)
          <6>1. CASE j = i
            BY <2>5, <2>6, <3>2, <4>1, <6>1 DEF ActiveRows
          <6>2. CASE j # i
            BY <2>6, <6>2 DEF ActiveRows
          <6> QED
            BY <6>1, <6>2
        <5> QED
          BY <2>6, <5>1 DEF ActiveRows
      <4>3. \A j \in ActiveRows(subs, v) : subs'[j].plan = subs[j].plan
        BY <2>6, <3>2, <4>1 DEF ActiveRows
      <4>4. TierOf(subs', v) = TierOf(subs, v)
        BY <1>0, <2>7, <4>2, <4>3, TierOfSame
      <4> QED
        BY <1>0, <2>3, <3>2, <4>4 DEF TypeOK, TierInv
    <3> QED
      BY <3>1, <3>2
  <2> QED
    BY <2>8 DEF TierInv, TierOf, Current, ActiveRows, Latest
<1>3. ASSUME NEW u \in Users, NEW key \in PlanKeys, NEW cycle \in Cycles, NEW renew \in BOOLEAN,
             CreateSubscription(u, key, cycle, renew)
      PROVE  TierInv'
  <2> DEFINE n == NewSubscription(u, key, cycle, renew)
  <2>1. ActivationEffect(subs, subs', u, n)
    BY <1>0, <1>3, ActivatedEffect DEF CreateSubscription
  <2>2. n.user = u /\ n.status = "active" /\ n.plan = key
    BY NewRowTier
  <2>3. subs' \in Seq(Subscription) /\ OneActive(subs')
    BY <1>3, CreateSubscriptionStep DEF BInv, TypeOK, OneActiveSubscription
  <2>4. tier' = [tier EXCEPT ![u] = key]
    BY <1>3 DEF CreateSubscription
  <2> HIDE DEF n
  <2>5. ASSUME NEW v \in Users PROVE tier'[v] = TierOf(subs', v)
    <3>1. TierOf(subs', v) = IF v = u THEN n.plan ELSE TierOf(subs, v)
      BY <1>0, <2>1, <2>2, <2>3, ActivationTier
    <3> QED
      BY <1>0, <2>2, <2>4, <3>1 DEF TypeOK, TierInv
  <2> QED
    BY <2>5 DEF TierInv, TierOf, Current, ActiveRows, Latest
<1>4. ASSUME NEW u \in Users, CancelSubscription(u)
      PROVE  TierInv'
  <2> DEFINE i == Latest(subs, u)
  <2>1. i \in DOMAIN subs /\ subs[i] \in Subscription
    BY <1>0, <1>4, CurrentType DEF CancelSubscription, Current
  <2>2. subs' = [subs EXCEPT ![i] = [subs[i] EXCEPT !.renew = FALSE, !.cancelled = TRUE]]
    BY <1>4, <2>1 DEF CancelSubscription
  <2> HIDE DEF i
  <2>3. subs'[i] = [subs[i] EXCEPT !.renew = FALSE, !.cancelled = TRUE]
    BY <2>1, <2>2
  <2>4. /\ subs'[i].status = subs[i].status
        /\ subs'[i].user = subs[i].user
        /\ subs'[i].plan = subs[i].plan
    BY <2>1, <2>3 DEF Subscription
  <2>5. DOMAIN subs' = DOMAIN subs /\ \A j \in DOMAIN subs : j # i => subs'[j] = subs[j]
    BY <2>1, <2>2
  <2>6. \A j \in DOMAIN subs : /\ subs'[j].status = subs[j].status
                               /\ subs'[j].user = subs[j].user
                               /\ subs'[j].plan = subs[j].plan
    BY <2>4, <2>5
  <2>7. subs' \in Seq(Subscription) /\ OneActive(subs')
    BY <1>4, CancelSubscriptionStep DEF BInv, TypeOK, OneActiveSubscription
  <2>8. UNCHANGED tier
    BY <1>4 DEF CancelSubscription
  <2>9. ASSUME NEW v \in Users PROVE tier'[v] = TierOf(subs', v)
    <3>1. ActiveRows(subs', v) = ActiveRows(subs, v)
      BY <2>5, <2>6 DEF ActiveRows
    <3>2. \A j \in ActiveRows(subs, v) : subs'[j].plan = subs[j].plan
      BY <2>6 DEF ActiveRows
    <3>3. TierOf(subs', v) = TierOf(subs, v)
      BY <1>0, <2>7, <3>1, <3>2, TierOfSame
    <3> QED
      BY <2>8, <3>3 DEF TierInv
  <2> QED
    BY <2>9 DEF TierInv, TierOf, Current, ActiveRows, Latest
<1>5. ASSUME UNCHANGED <<subs, tier>> PROVE TierInv'
  <2>1. ASSUME NEW v \in Users PROVE tier'[v] = TierOf(subs', v)
    <3>1. subs' = subs /\ tier' = tier
      BY <1>5
    <3> QED
      BY <3>1 DEF TierInv
  <2> QED
    BY <2>1 DEF TierInv, TierOf, Current, ActiveRows, Latest
<1>6. CASE UNCHANGED vars
  BY <1>5, <1>6 DEF vars
<1>7. ASSUME NEW u \in Users, NEW act \in Actions, GateAction(u, act) PROVE UNCHANGED <<subs, tier>>
  BY <1>7 DEF GateAction
<1> QED
  BY <1>1, <1>2, <1>3, <1>4, <1>5, <1>6, <1>7
     DEF Next, AdminAdjust, ApproveTopup, PutPlan, RemovePlan, Tick

(* As long as no administrator edits a tier by hand, users.tier follows    *)
(* the subscription.                                                       *)
THEOREM TierCorrect ==
  ASSUME TierEdits = {}
  PROVE  Spec => []TierFollowsSubscription
<1>1. Init => TierInv
  <2> SUFFICES ASSUME Init, NEW u \in Users PROVE tier[u] = TierOf(subs, u)
    BY DEF TierInv
  <2>1. ActiveRows(subs, u) = {}
    BY DEF Init, ActiveRows
  <2> QED
    BY <2>1, TierOfNone DEF Init
<1>2. BInv /\ TierInv /\ [Next]_vars => TierInv'
  BY TierStep
<1>3. TierInv => TierFollowsSubscription
  BY DEF TierInv, TierOf, TierFollowsSubscription
<1> QED
  BY SpecBInv, <1>1, <1>2, <1>3, PTL DEF Spec
=============================================================================
