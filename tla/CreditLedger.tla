---------------------------- MODULE CreditLedger ----------------------------
(***************************************************************************)
(* What the billing code promises about credits, stated without saying     *)
(* how: every user has a balance, the balance never goes below zero, and   *)
(* it is at every moment the sum of the rows of an append-only ledger      *)
(* (the docstrings of CreditAccount and CreditTransaction in               *)
(* app/db/models.py).  A row's sign follows its kind: a refill or a top-up *)
(* adds, consumption, expiry and the refund zero-out remove, and only an   *)
(* administrator's adjustment goes both ways.                              *)
(*                                                                         *)
(* The rows of one kind are kept as their sum: no promise depends on the   *)
(* order of two rows.                                                      *)
(***************************************************************************)
EXTENDS Integers

CONSTANT Users

VARIABLES
  balance,   \* [Users -> Nat], credit_accounts.balance
  ledger     \* [Users -> Sums], the sum of credits_delta per kind of row

(* The kinds of row (CreditTransaction.action); every billable action of   *)
(* the catalog is one kind, "spend".                                       *)
Credits == {"refill", "topup"}
Debits  == {"spend", "expiry", "refund_revoke"}
Kinds   == Credits \cup Debits \cup {"admin_adjust"}

Sums == [Kinds -> Int]

Total(sums) ==
  sums["refill"] + sums["topup"] + sums["spend"] + sums["expiry"]
    + sums["refund_revoke"] + sums["admin_adjust"]

EmptySums == [k \in Kinds |-> 0]

Init ==
  /\ balance = [u \in Users |-> 0]
  /\ ledger = [u \in Users |-> EmptySums]

(* Rows are only appended, with the sign their kind allows.                *)
Extends(new, old) ==
  /\ \A k \in Credits : new[k] >= old[k]
  /\ \A k \in Debits  : new[k] <= old[k]

(* One request moves the credits of one user: it appends rows and leaves   *)
(* the balance equal to the sum of all rows.                               *)
Move(u) ==
  /\ ledger' \in [Users -> Sums]
  /\ Extends(ledger'[u], ledger[u])
  /\ \A v \in Users \ {u} : ledger'[v] = ledger[v]
  /\ \A v \in Users : balance'[v] = Total(ledger'[v])
  /\ balance' \in [Users -> Nat]

Next == \E u \in Users : Move(u)

Spec == Init /\ [][Next]_<<balance, ledger>>
=============================================================================
