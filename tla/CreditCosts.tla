---------------------------- MODULE CreditCosts ----------------------------
(***************************************************************************)
(* The prices of the billable actions (app/services/credit_costs.py) and   *)
(* their optimistic versions: administrators load the catalog, edit it and *)
(* PUT it back.  A PUT reads the rows and checks them in one statement and *)
(* writes them in a later one, so two PUTs may pass the check together.    *)
(***************************************************************************)
EXTENDS Integers, FiniteSets

CONSTANTS
  Admins,
  CostActions,   \* CREDIT_ACTION_CATALOG
  Legacy,        \* the values of the JSON the table was migrated from
  Edits,         \* what a PUT may carry: functions from action names to values
  MaxPuts,       \* bound: PUT requests
  NoRow, Invalid

Row == [cost : Nat, version : Nat]
ASSUME CostAssumption == NoRow \notin Row

DefaultCost == 1

VARIABLES
  cost,      \* table credit_cost_config: [CostActions -> [cost, version], or NoRow]
  writes,    \* history: [CostActions -> times written since the start]
  admin,     \* [Admins -> [at, seen, seenWrites, edit, expects, read]]
  puts,
  overlap,   \* history: two PUTs were between check and commit at once
  blind      \* history: edits that replaced a version they had not seen

costVars == <<cost, writes, admin, puts, overlap, blind>>

(* compute_backfill keeps what is a price and replaces anything else.      *)
Backfill(legacy) ==
  [a \in CostActions |-> [cost |-> IF legacy[a] \in Nat THEN legacy[a] ELSE DefaultCost, version |-> 1]]

(* get_catalog, get_effective_costs and get_action_cost: a missing row     *)
(* counts as the default in version 1, an unknown action is free.          *)
VersionOf(a) == IF cost[a] = NoRow THEN 1 ELSE cost[a].version
EffectiveCost(a) ==
  IF a \notin CostActions THEN 0 ELSE IF cost[a] = NoRow THEN DefaultCost ELSE cost[a].cost

Away == [at |-> "away"]

(* GET /admin/credit-costs                                                 *)
GetCatalog(d) ==
  /\ admin[d].at = "away" /\ puts < MaxPuts
  /\ admin' = [admin EXCEPT ![d] =
       [at |-> "viewing", seen |-> [a \in CostActions |-> VersionOf(a)], seenWrites |-> writes]]
  /\ UNCHANGED <<cost, writes, puts, overlap, blind>>

Valid(edit) == DOMAIN edit \subseteq CostActions /\ \A a \in DOMAIN edit : edit[a] \in Nat

(* A row that is missing has version 1, any other is compared.             *)
Stale(d, edit) == \E a \in DOMAIN edit : VersionOf(a) # admin[d].seen[a]

(* PUT /admin/credit-costs up to the flush: 422, 409, or on to writing.    *)
(* Versions may be left out, and nothing is compared then.                 *)
PutCosts(d) ==
  /\ admin[d].at = "viewing" /\ puts < MaxPuts /\ puts' = puts + 1
  /\ \E edit \in Edits, expects \in BOOLEAN :
       IF ~Valid(edit) \/ (expects /\ Stale(d, edit))
       THEN admin' = [admin EXCEPT ![d] = Away] /\ UNCHANGED overlap
       ELSE /\ admin' = [admin EXCEPT ![d] =
                 [at |-> "writing", seen |-> @.seen, seenWrites |-> @.seenWrites, edit |-> edit,
                  expects |-> expects, read |-> [a \in DOMAIN edit |-> cost[a]]]]
            /\ overlap' = (overlap \/ \E e \in Admins : admin[e].at = "writing")
  /\ UNCHANGED <<cost, writes, blind>>

(* Mutant of WrittenRow: an update keeps the version.                      *)
UnversionedRow(row, value) ==
  IF row = NoRow THEN [cost |-> value, version |-> 1] ELSE [cost |-> value, version |-> row.version]

(* The flush writes the version that was read plus one, and inserts a row  *)
(* that was missing, which fails when another PUT inserted it meanwhile.   *)
WrittenRow(row, value) ==
  IF row = NoRow THEN [cost |-> value, version |-> 1] ELSE [cost |-> value, version |-> row.version + 1]

CommitCosts(d) ==
  /\ admin[d].at = "writing"
  /\ LET edit == admin[d].edit
         read == admin[d].read
         clash == \E a \in DOMAIN edit : read[a] = NoRow /\ cost[a] # NoRow
     IN IF clash THEN UNCHANGED <<cost, writes, blind>>
        ELSE /\ cost' = [a \in CostActions |->
                           IF a \in DOMAIN edit THEN WrittenRow(read[a], edit[a]) ELSE cost[a]]
             /\ writes' = [a \in CostActions |-> writes[a] + IF a \in DOMAIN edit THEN 1 ELSE 0]
             /\ blind' = blind \union
                  {a \in DOMAIN edit : admin[d].expects /\ admin[d].seenWrites[a] # writes[a]}
  /\ admin' = [admin EXCEPT ![d] = Away]
  /\ UNCHANGED <<puts, overlap>>

CostInit ==
  /\ cost \in {[a \in CostActions |-> NoRow], Backfill(Legacy)}
  /\ writes = [a \in CostActions |-> 0]
  /\ admin = [d \in Admins |-> Away]
  /\ puts = 0 /\ overlap = FALSE /\ blind = {}

CostNext == \E d \in Admins : GetCatalog(d) \/ PutCosts(d) \/ CommitCosts(d)

CostSpec == CostInit /\ [][CostNext]_costVars

-----------------------------------------------------------------------------
(* Properties                                                              *)

(* The versions do their work as far as they can: no edit that sent the   *)
(* versions it was shown replaces a change its administrator has not seen, *)
(* unless two PUTs were between check and commit at once or the change     *)
(* inserted a row that had been missing, which starts in the version a     *)
(* missing row is shown with.  Every other version counts the writes.      *)
BornMissing(a) == cost[a] # NoRow /\ cost[a].version = writes[a]
CostsFollowVersions ==
  /\ \A a \in CostActions : EffectiveCost(a) \in Nat /\ VersionOf(a) <= 1 + writes[a]
  /\ ~overlap =>
       /\ \A a \in blind : BornMissing(a)
       /\ \A a \in CostActions : BornMissing(a) \/ VersionOf(a) = 1 + writes[a]

(* "Concurrent admin edit detected -- map to HTTP 409": no edit that sends *)
(* the versions it was shown replaces a change it has not seen.            *)
EditsAreSeen == blind = {}
=============================================================================
