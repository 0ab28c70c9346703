--------------------------- MODULE ServicesProofs ---------------------------
(***************************************************************************)
(* Five services with settings, messages or tickets of their own: the      *)
(* credit costs that administrators edit, the queue feed of the WebSocket, *)
(* the configuration of the LLM provider, registration and login, and the  *)
(* desk of the administrators.  They share no state; each part has the     *)
(* inductive invariant of one of them, a lemma for each action that needs  *)
(* one, and the theorem of its property.                                   *)
(***************************************************************************)
EXTENDS CreditCosts, QueueFeed, ProviderConfig, Accounts, RequestDesk, FiniteSetTheorems, SequenceTheorems, TLAPS

-----------------------------------------------------------------------------
(***************************************************************************)
(* CostsFollowVersions for any number of administrators, actions and       *)
(* edits.  What an administrator is shown is at most one version ahead of  *)
(* the writes he has seen, so an unchanged version means unseen writes     *)
(* only where the row was missing; and as long as no two PUTs overlap, the *)
(* rows that the one writing has read are the rows of the table.           *)
(***************************************************************************)

Rows ==
  /\ cost \in [CostActions -> Row \union {NoRow}]
  /\ writes \in [CostActions -> Nat]
  /\ \A a \in CostActions : VersionOf(a) <= 1 + writes[a]

AdminAt(d, places) == admin[d].at \in places

(* What an administrator has loaded.                                       *)
Shown ==
  /\ DOMAIN admin = Admins
  /\ \A d \in Admins : AdminAt(d, {"away", "viewing", "writing"})
  /\ \A d \in Admins : AdminAt(d, {"viewing", "writing"}) =>
       \A a \in CostActions :
         /\ admin[d].seen[a] \in Nat /\ admin[d].seenWrites[a] \in Nat
         /\ admin[d].seen[a] <= 1 + admin[d].seenWrites[a]
         /\ admin[d].seenWrites[a] <= writes[a]

(* What a PUT has read before it writes.                                   *)
Reading ==
  \A d \in Admins : AdminAt(d, {"writing"}) =>
    /\ DOMAIN admin[d].edit \subseteq CostActions
    /\ \A a \in DOMAIN admin[d].edit :
         /\ admin[d].edit[a] \in Nat
         /\ admin[d].read[a] \in Row \union {NoRow}
         /\ admin[d].read[a] # NoRow => admin[d].read[a].version <= 1 + writes[a]

(* Without overlap, at most one PUT writes, and nothing changed since its  *)
(* check.                                                                  *)
Alone ==
  ~overlap =>
    /\ \A d, e \in Admins : AdminAt(d, {"writing"}) /\ AdminAt(e, {"writing"}) => d = e
    /\ \A d \in Admins : AdminAt(d, {"writing"}) =>
         \A a \in DOMAIN admin[d].edit :
           /\ admin[d].read[a] = cost[a]
           /\ admin[d].expects => VersionOf(a) = admin[d].seen[a]

Counted ==
  ~overlap =>
    /\ blind \subseteq CostActions /\ \A a \in blind : BornMissing(a)
    /\ \A a \in CostActions : BornMissing(a) \/ VersionOf(a) = 1 + writes[a]

CostInv == Rows /\ Shown /\ Reading /\ Alone /\ Counted

LEMMA InitialCosts == CostInit => CostInv
<1> SUFFICES ASSUME CostInit PROVE CostInv
  OBVIOUS
<1>1. Rows
  BY CostAssumption DEF CostInit, Backfill, DefaultCost, Rows, Row, VersionOf
<1>2. Shown /\ Reading /\ Alone
  BY DEF CostInit, Away, Shown, Reading, Alone, AdminAt
<1>3. Counted
  BY <1>1, CostAssumption DEF CostInit, Backfill, Counted, BornMissing, VersionOf, Rows, Row
<1> QED
  BY <1>1, <1>2, <1>3 DEF CostInv

LEMMA CostLoadKeeps ==
  ASSUME CostInv, NEW d \in Admins, GetCatalog(d)
  PROVE  CostInv'
<1> USE DEF CostInv, GetCatalog
<1>1. Rows'
  BY DEF Rows, VersionOf
<1>2. Shown'
  <2>1. \A a \in CostActions : VersionOf(a) \in Nat /\ VersionOf(a) <= 1 + writes[a] /\ writes[a] \in Nat
    BY DEF Rows, VersionOf, Row
  <2> QED
    BY <2>1 DEF Shown, AdminAt
<1>3. Reading' /\ Alone' /\ Counted'
  BY DEF Reading, Alone, Counted, Shown, AdminAt, VersionOf, BornMissing
<1> QED
  BY <1>1, <1>2, <1>3

LEMMA CostCheckKeeps ==
  ASSUME CostInv, NEW d \in Admins, PutCosts(d)
  PROVE  CostInv'
<1> USE DEF CostInv
<1>1. Rows' /\ UNCHANGED <<cost, writes, blind>>
  BY DEF PutCosts, Rows, VersionOf
<1>2. PICK edit \in Edits, expects \in BOOLEAN :
        IF ~Valid(edit) \/ (expects /\ Stale(d, edit))
        THEN admin' = [admin EXCEPT ![d] = Away] /\ UNCHANGED overlap
        ELSE /\ admin' = [admin EXCEPT ![d] =
                  [at |-> "writing", seen |-> @.seen, seenWrites |-> @.seenWrites, edit |-> edit,
                   expects |-> expects, read |-> [a \in DOMAIN edit |-> cost[a]]]]
             /\ overlap' = (overlap \/ \E e \in Admins : admin[e].at = "writing")
  BY DEF PutCosts
<1>3. CASE ~Valid(edit) \/ (expects /\ Stale(d, edit))
  <2>1. Shown' /\ Reading'
    BY <1>1, <1>2, <1>3 DEF Shown, Reading, Away, AdminAt
  <2>2. Alone' /\ Counted'
    BY <1>1, <1>2, <1>3 DEF Alone, Counted, Shown, Away, AdminAt, VersionOf, BornMissing
  <2> QED
    BY <1>1, <2>1, <2>2
<1>4. CASE ~(~Valid(edit) \/ (expects /\ Stale(d, edit)))
  <2>1. admin[d].at = "viewing"
    BY DEF PutCosts
  <2>2. /\ admin'[d].at = "writing" /\ admin'[d].seen = admin[d].seen
        /\ admin'[d].seenWrites = admin[d].seenWrites /\ admin'[d].edit = edit
        /\ admin'[d].expects = expects /\ admin'[d].read = [a \in DOMAIN edit |-> cost[a]]
        /\ DOMAIN admin' = Admins
        /\ \A e \in Admins : e # d => admin'[e] = admin[e]
    BY <1>2, <1>4 DEF Shown
  <2>3. DOMAIN edit \subseteq CostActions /\ \A a \in DOMAIN edit : edit[a] \in Nat
    BY <1>4 DEF Valid
  <2>4. Shown'
    BY <1>1, <2>1, <2>2 DEF Shown, AdminAt
  <2>5. Reading'
    <3>1. \A a \in DOMAIN edit : /\ cost[a] \in Row \union {NoRow}
                                 /\ cost[a] # NoRow => cost[a].version <= 1 + writes[a]
      BY <2>3 DEF Rows, VersionOf
    <3> QED
      BY <1>1, <2>2, <2>3, <3>1 DEF Reading, AdminAt
  <2>6. Alone'
    <3>1. expects => \A a \in DOMAIN edit : VersionOf(a) = admin[d].seen[a]
      BY <1>4 DEF Stale
    <3>2. ~overlap' => \A e \in Admins : admin[e].at # "writing"
      BY <1>2, <1>4
    <3>3. \A a \in CostActions : VersionOf(a)' = VersionOf(a)
      BY <1>1 DEF VersionOf
    <3> QED
      BY <1>1, <2>2, <2>3, <3>1, <3>2, <3>3 DEF Alone, AdminAt
  <2>7. Counted'
    BY <1>1, <1>2, <1>4 DEF Counted, VersionOf, BornMissing
  <2> QED
    BY <1>1, <2>4, <2>5, <2>6, <2>7
<1> QED
  BY <1>3, <1>4

(* What a successful commit does to a row, its version and its writes.     *)
LEMMA WriteOfRow ==
  ASSUME Rows, NEW a \in CostActions, NEW read \in Row \union {NoRow}, NEW value \in Nat,
         read # NoRow => read.version <= 1 + writes[a]
  PROVE  /\ WrittenRow(read, value) \in Row
         /\ WrittenRow(read, value).version <= 2 + writes[a]
         /\ read = cost[a] /\ (BornMissing(a) \/ VersionOf(a) = 1 + writes[a]) =>
              \/ WrittenRow(read, value).version = 1 + writes[a]
              \/ WrittenRow(read, value).version = 2 + writes[a]
         /\ read = cost[a] /\ BornMissing(a) => WrittenRow(read, value).version = 1 + writes[a]
         /\ read = NoRow /\ cost[a] = NoRow /\ VersionOf(a) = 1 + writes[a] =>
              WrittenRow(read, value).version = 1 + writes[a]
BY CostAssumption DEF Rows, Row, WrittenRow, BornMissing, VersionOf

(* A commit that fails, or that writes nothing.                            *)
LEMMA CostRollbackKeeps ==
  ASSUME CostInv, NEW d \in Admins, AdminAt(d, {"writing"}),
         UNCHANGED <<cost, writes, blind, overlap>>, admin' = [admin EXCEPT ![d] = Away]
  PROVE  CostInv'
<1> USE DEF CostInv
<1>1. Rows' /\ Shown' /\ Reading'
  BY DEF Rows, VersionOf, Shown, Reading, AdminAt, Away
<1>2. Alone' /\ Counted'
  BY DEF Alone, Counted, Shown, AdminAt, Away, VersionOf, BornMissing
<1> QED
  BY <1>1, <1>2

LEMMA CostCommitKeeps ==
  ASSUME CostInv, NEW d \in Admins, CommitCosts(d)
  PROVE  CostInv'
<1> DEFINE edit == admin[d].edit
           read == admin[d].read
           clash == \E a \in DOMAIN edit : read[a] = NoRow /\ cost[a] # NoRow
<1> USE DEF CostInv
<1>1. AdminAt(d, {"writing"}) /\ admin' = [admin EXCEPT ![d] = Away] /\ UNCHANGED overlap
  BY DEF CommitCosts, AdminAt
<1>2. CASE clash
  BY <1>1, <1>2, CostRollbackKeeps DEF CommitCosts
<1>3. CASE ~clash
  <2>1. /\ cost' = [a \in CostActions |->
                      IF a \in DOMAIN edit THEN WrittenRow(read[a], edit[a]) ELSE cost[a]]
        /\ writes' = [a \in CostActions |-> writes[a] + IF a \in DOMAIN edit THEN 1 ELSE 0]
        /\ blind' = blind \union
             {a \in DOMAIN edit : admin[d].expects /\ admin[d].seenWrites[a] # writes[a]}
    BY <1>3 DEF CommitCosts
  <2>2. DOMAIN edit \subseteq CostActions
    BY <1>1 DEF Reading
  <2>3. \A a \in DOMAIN edit :
          /\ edit[a] \in Nat /\ read[a] \in Row \union {NoRow}
          /\ read[a] # NoRow => read[a].version <= 1 + writes[a]
    BY <1>1 DEF Reading
  <2>4. /\ DOMAIN admin' = Admins /\ admin'[d] = Away
        /\ \A e \in Admins : e # d => admin'[e] = admin[e]
    BY <1>1 DEF Shown
  <2>5. \A a \in CostActions :
          /\ a \in DOMAIN edit => cost'[a] = WrittenRow(read[a], edit[a]) /\ writes'[a] = writes[a] + 1
          /\ a \notin DOMAIN edit => cost'[a] = cost[a] /\ writes'[a] = writes[a]
          /\ writes[a] \in Nat /\ writes[a] <= writes'[a]
    BY <2>1 DEF Rows
  <2>6. Rows'
    <3>1. \A a \in CostActions : cost'[a] \in Row \union {NoRow} /\ VersionOf(a)' <= 1 + writes'[a]
      <4> TAKE a \in CostActions
      <4>1. CASE a \in DOMAIN edit
        BY <2>3, <2>5, <4>1, WriteOfRow, CostAssumption DEF VersionOf
      <4>2. CASE a \notin DOMAIN edit
        BY <2>5, <4>2 DEF Rows, VersionOf
      <4> QED
        BY <4>1, <4>2
    <3> QED
      BY <2>1, <3>1 DEF Rows
  <2>7. Shown'
    <3>1. \A e \in Admins : AdminAt(e, {"away", "viewing", "writing"})'
      BY <2>4 DEF Shown, AdminAt, Away
    <3>2. ASSUME NEW e \in Admins, AdminAt(e, {"viewing", "writing"})'
          PROVE  e # d /\ admin'[e] = admin[e] /\ AdminAt(e, {"viewing", "writing"})
      BY <2>4, <3>2 DEF AdminAt, Away
    <3> QED
      BY <2>4, <2>5, <3>1, <3>2 DEF Shown
  <2>8. Reading'
    <3>1. ASSUME NEW e \in Admins, AdminAt(e, {"writing"})'
          PROVE  admin'[e] = admin[e] /\ AdminAt(e, {"writing"})
      BY <2>4, <3>1 DEF AdminAt, Away
    <3>2. \A a \in CostActions, n \in Nat : n <= 1 + writes[a] => n <= 1 + writes'[a]
      BY <2>5
    <3> QED
      BY <3>1, <3>2 DEF Reading, Row
  <2>9. Alone'
    BY <1>1, <2>4 DEF Alone, AdminAt, Away
  <2>10. Counted'
    <3> SUFFICES ASSUME ~overlap PROVE Counted'
      BY <1>1 DEF Counted
    <3>1. \A a \in DOMAIN edit : read[a] = cost[a] /\ (admin[d].expects => VersionOf(a) = admin[d].seen[a])
      BY <1>1 DEF Alone
    <3>2. \A a \in CostActions : BornMissing(a) \/ VersionOf(a) = 1 + writes[a]
      BY DEF Counted
    <3>3. \A a \in CostActions : BornMissing(a) => BornMissing(a)'
      <4> TAKE a \in CostActions
      <4>1. CASE a \in DOMAIN edit
        <5>1. cost'[a] \in Row /\ cost'[a] # NoRow
          BY <2>3, <2>5, <4>1, WriteOfRow, CostAssumption
        <5>2. BornMissing(a) => cost'[a].version = 1 + writes[a]
          BY <2>3, <2>5, <3>1, <4>1, WriteOfRow
        <5> QED
          BY <2>5, <4>1, <5>1, <5>2 DEF BornMissing
      <4>2. CASE a \notin DOMAIN edit
        BY <2>5, <4>2 DEF BornMissing
      <4> QED
        BY <4>1, <4>2
    <3>4. \A a \in CostActions : BornMissing(a)' \/ VersionOf(a)' = 1 + writes'[a]
      <4> TAKE a \in CostActions
      <4>1. CASE a \in DOMAIN edit
        <5>1. cost'[a] \in Row /\ cost'[a] # NoRow
          BY <2>3, <2>5, <4>1, WriteOfRow, CostAssumption
        <5>2. cost'[a].version = 1 + writes[a] \/ cost'[a].version = 2 + writes[a]
          BY <2>3, <2>5, <3>1, <3>2, <4>1, WriteOfRow
        <5> QED
          BY <2>5, <4>1, <5>1, <5>2 DEF BornMissing, VersionOf
      <4>2. CASE a \notin DOMAIN edit
        BY <2>5, <3>2, <4>2 DEF BornMissing, VersionOf
      <4> QED
        BY <4>1, <4>2
    <3>5. ASSUME NEW a \in DOMAIN edit, admin[d].expects, admin[d].seenWrites[a] # writes[a]
          PROVE  BornMissing(a)
      <4>1. /\ admin[d].seen[a] \in Nat /\ admin[d].seenWrites[a] \in Nat /\ writes[a] \in Nat
            /\ admin[d].seen[a] <= 1 + admin[d].seenWrites[a]
            /\ admin[d].seenWrites[a] <= writes[a]
        BY <1>1, <2>2, <2>5 DEF Shown, AdminAt
      <4>2. VersionOf(a) = admin[d].seen[a]
        BY <3>1, <3>5
      <4> QED
        BY <2>2, <3>2, <3>5, <4>1, <4>2
    <3> QED
      BY <1>1, <2>1, <2>2, <3>3, <3>4, <3>5 DEF Counted
  <2> QED
    BY <2>6, <2>7, <2>8, <2>9, <2>10
<1> QED
  BY <1>2, <1>3

-----------------------------------------------------------------------------
LEMMA StepKeepsCosts == CostInv /\ [CostNext]_costVars => CostInv'
<1> SUFFICES ASSUME CostInv, [CostNext]_costVars PROVE CostInv'
  OBVIOUS
<1>1. CASE CostNext
  BY <1>1, CostLoadKeeps, CostCheckKeeps, CostCommitKeeps DEF CostNext
<1>2. CASE UNCHANGED costVars
  BY <1>2 DEF costVars, CostInv, Rows, Shown, Reading, Alone, Counted, AdminAt, VersionOf, BornMissing
<1> QED
  BY <1>1, <1>2

LEMMA CostInvSuffices == CostInv => CostsFollowVersions
<1> SUFFICES ASSUME CostInv PROVE CostsFollowVersions
  OBVIOUS
<1>1. \A a \in CostActions : EffectiveCost(a) \in Nat
  BY DEF CostInv, Rows, Row, EffectiveCost, DefaultCost
<1> QED
  BY <1>1 DEF CostInv, Rows, Counted, CostsFollowVersions

(* However many administrators edit the prices, no edit that sent the      *)
(* versions it was shown replaces a change its administrator has not seen, *)
(* except where two PUTs overlap or the change inserted a missing row; and *)
(* every price stays a natural number (set_effective_costs).               *)
THEOREM CostsCorrect == CostSpec => []CostsFollowVersions
<1>1. CostInit => CostInv
  BY InitialCosts
<1>2. CostInv /\ [CostNext]_costVars => CostInv'
  BY StepKeepsCosts
<1>3. CostInv => CostsFollowVersions
  BY CostInvSuffices
<1> QED
  BY <1>1, <1>2, <1>3, PTL DEF CostSpec

-----------------------------------------------------------------------------
(***************************************************************************)
(* SleepersAreCurrent for any number of sessions and connections: a change *)
(* committed before its notice is in what a handler fetches after it, and  *)
(* the notices a handler has heard of tell whether it fetched after.       *)
(***************************************************************************)

Counters ==
  /\ committed \in Nat /\ notices \in Nat
  /\ announced \in Nat /\ announced <= committed

Handler ==
  [at : {"away", "fetching", "fetched", "asleep", "closed"}, read : Nat,
   shown : Nat \union {Nothing}, heard : Nat, last : {"none", "sent", "failed"}]

(* What a handler holds is as old as the notices it has heard of.          *)
FeedReads(h) == h.at = "fetched" => h.heard <= notices /\ (h.heard = notices => announced <= h.read)
FeedShows(h) ==
  h.at = "asleep" /\ h.last = "sent" =>
    /\ h.shown \in Nat /\ h.heard <= notices
    /\ h.heard = notices => announced <= h.shown

Handlers ==
  /\ feed \in [Watchers -> Handler]
  /\ \A w \in Watchers : FeedReads(feed[w]) /\ FeedShows(feed[w])

FeedInv == Counters /\ Handlers

LEMMA InitialFeed == FeedInit => FeedInv
<1> SUFFICES ASSUME FeedInit PROVE FeedInv
  OBVIOUS
<1>1. Disconnected \in Handler
  BY DEF Disconnected, Handler
<1>2. Disconnected.at = "away"
  BY DEF Disconnected
<1> QED
  BY <1>1, <1>2 DEF FeedInit, FeedInv, Counters, Handlers, FeedReads, FeedShows

(* A notice makes everything that was fetched before old, and wakes all    *)
(* who sleep.                                                              *)
LEMMA NoticeKeeps ==
  ASSUME FeedInv, Notify, committed' = committed, announced' \in {announced, committed}
  PROVE  FeedInv'
<1>1. Counters' /\ notices' = notices + 1
  <2>1. notices' = notices + 1
    BY DEF Notify
  <2> QED
    BY <2>1 DEF FeedInv, Counters
<1>2. ASSUME NEW w \in Watchers
      PROVE  feed'[w] \in Handler /\ FeedReads(feed[w])' /\ FeedShows(feed[w])'
  <2>1. feed[w] \in Handler /\ FeedReads(feed[w])
    BY DEF FeedInv, Handlers
  <2>2. CASE feed[w].at = "asleep"
    <3> DEFINE h == [feed[w] EXCEPT !.at = "fetching", !.heard = 0]
    <3>1. h \in Handler /\ h.at = "fetching"
      BY <2>1 DEF Handler
    <3>2. feed'[w] = h
      BY <2>2 DEF Notify
    <3> QED
      BY <3>1, <3>2 DEF FeedReads, FeedShows
  <2>3. CASE feed[w].at # "asleep"
    <3>1. feed'[w] = feed[w]
      BY <2>3 DEF Notify
    <3>2. feed[w].heard \in Nat /\ notices \in Nat
      BY <2>1 DEF Handler, FeedInv, Counters
    <3> QED
      BY <1>1, <2>1, <2>3, <3>1, <3>2 DEF FeedReads, FeedShows
  <2> QED
    BY <2>2, <2>3
<1>3. feed' \in [Watchers -> Handler]
  BY <1>2 DEF Notify
<1> QED
  BY <1>1, <1>2, <1>3 DEF FeedInv, Handlers

(* Without a notice, a commit takes nothing from what is held.             *)
LEMMA CommitsKeep ==
  ASSUME FeedInv, UNCHANGED <<feed, notices, announced>>, committed' \in {committed, committed + 1}
  PROVE  FeedInv'
BY DEF FeedInv, Counters, Handlers, FeedReads, FeedShows

(* A step of one handler that leaves it in order.                          *)
LEMMA HandlerKeeps ==
  ASSUME FeedInv, NEW w \in Watchers, NEW h \in Handler, feed' = [feed EXCEPT ![w] = h],
         UNCHANGED <<committed, notices, announced>>, FeedReads(h), FeedShows(h)
  PROVE  FeedInv'
<1>1. \A v \in Watchers : feed'[v] = IF v = w THEN h ELSE feed[v]
  BY DEF FeedInv, Handlers
<1>2. feed' \in [Watchers -> Handler]
  BY DEF FeedInv, Handlers
<1>3. \A v \in Watchers : FeedReads(feed[v])' /\ FeedShows(feed[v])'
  BY <1>1 DEF FeedInv, Handlers, FeedReads, FeedShows
<1> QED
  BY <1>2, <1>3 DEF FeedInv, Counters, Handlers

LEMMA WatchingKeeps ==
  ASSUME FeedInv, NEW w \in Watchers, Connect(w) \/ Fetch(w) \/ Send(w) \/ FetchFails(w) \/ SendFails(w)
  PROVE  FeedInv'
<1>1. /\ feed[w] \in Handler /\ FeedReads(feed[w])
      /\ committed \in Nat /\ notices \in Nat /\ announced \in Nat /\ announced <= committed
  BY DEF FeedInv, Handlers, Counters
<1>2. CASE Connect(w)
  <2> DEFINE h == [feed[w] EXCEPT !.at = "fetching"]
  <2>1. h \in Handler /\ h.at = "fetching"
    BY <1>1 DEF Handler
  <2>2. feed' = [feed EXCEPT ![w] = h] /\ UNCHANGED <<committed, notices, announced>>
    BY <1>2 DEF Connect, clientVars
  <2> QED
    BY <2>1, <2>2, HandlerKeeps DEF FeedReads, FeedShows
<1>3. CASE Fetch(w)
  <2> DEFINE h == [feed[w] EXCEPT !.at = "fetched", !.read = committed, !.heard = notices]
  <2>1. h \in Handler /\ h.at = "fetched" /\ h.read = committed /\ h.heard = notices
    BY <1>1 DEF Handler
  <2>2. feed' = [feed EXCEPT ![w] = h] /\ UNCHANGED <<committed, notices, announced>>
    BY <1>3 DEF Fetch, Fetched, clientVars
  <2>3. FeedReads(h) /\ FeedShows(h)
    BY <1>1, <2>1 DEF FeedReads, FeedShows
  <2> QED
    BY <2>1, <2>2, <2>3, HandlerKeeps
<1>4. CASE Send(w)
  <2> DEFINE sent == [feed[w] EXCEPT !.shown = feed[w].read, !.last = "sent"]
             h == [sent EXCEPT !.at = "asleep", !.read = 0]
  <2>1. /\ h \in Handler /\ h.at = "asleep" /\ h.shown = feed[w].read /\ h.heard = feed[w].heard
        /\ feed[w].read \in Nat
    BY <1>1 DEF Handler
  <2>2. /\ feed' = [feed EXCEPT ![w] = h] /\ UNCHANGED <<committed, notices, announced>>
        /\ feed[w].at = "fetched"
    BY <1>4 DEF Send, Asleep, clientVars
  <2>3. FeedReads(h) /\ FeedShows(h)
    BY <1>1, <2>1, <2>2 DEF FeedReads, FeedShows
  <2> QED
    BY <2>1, <2>2, <2>3, HandlerKeeps
<1>5. Closed \in Handler /\ Closed.at = "closed"
  BY DEF Closed, Disconnected, Handler
<1>6. CASE FetchFails(w)
  <2>1. CASE feed[w].shown = Nothing
    <3>1. feed' = [feed EXCEPT ![w] = Closed] /\ UNCHANGED <<committed, notices, announced>>
      BY <1>6, <2>1 DEF FetchFails, clientVars
    <3> QED
      BY <1>5, <3>1, HandlerKeeps DEF FeedReads, FeedShows
  <2>2. CASE feed[w].shown # Nothing
    <3> DEFINE tried == [feed[w] EXCEPT !.last = "failed"]
               h == [tried EXCEPT !.at = "asleep", !.read = 0]
    <3>1. h \in Handler /\ h.at = "asleep" /\ h.last = "failed"
      BY <1>1 DEF Handler
    <3>2. feed' = [feed EXCEPT ![w] = h] /\ UNCHANGED <<committed, notices, announced>>
      BY <1>6, <2>2 DEF FetchFails, Asleep, clientVars
    <3> QED
      BY <3>1, <3>2, HandlerKeeps DEF FeedReads, FeedShows
  <2> QED
    BY <2>1, <2>2
<1>7. CASE SendFails(w)
  <2>1. feed' = [feed EXCEPT ![w] = Closed] /\ UNCHANGED <<committed, notices, announced>>
    BY <1>7 DEF SendFails, clientVars
  <2> QED
    BY <1>5, <2>1, HandlerKeeps DEF FeedReads, FeedShows
<1> QED
  BY <1>2, <1>3, <1>4, <1>6, <1>7

LEMMA StepKeepsFeed == FeedInv /\ [FeedNext]_feedVars => FeedInv'
<1> SUFFICES ASSUME FeedInv, [FeedNext]_feedVars PROVE FeedInv'
  OBVIOUS
<1>1. ASSUME NEW c \in Changes, NotifyEnqueued(c) \/ FlushAndNotify(c)
      PROVE  FeedInv'
  <2>1. Notify /\ committed' = committed /\ announced' \in {announced, committed}
    BY <1>1 DEF NotifyEnqueued, FlushAndNotify, clientVars
  <2> QED
    BY <2>1, NoticeKeeps
<1>2. ASSUME NEW c \in Changes, CommitEnqueue(c) \/ EndSession(c) \/ CommitSilently(c)
      PROVE  FeedInv'
  BY <1>2, CommitsKeep DEF CommitEnqueue, EndSession, CommitSilently, clientVars
<1>3. CASE PollReads \/ PollStores \/ CacheAges \/ UNCHANGED feedVars
  BY <1>3, CommitsKeep DEF PollReads, PollStores, CacheAges, clientVars, feedVars
<1> QED
  BY <1>1, <1>2, <1>3, WatchingKeeps DEF FeedNext

(* A client whose WebSocket handler sleeps has been shown every change     *)
(* that was committed before its notice, unless its last fetch failed or a *)
(* notice fell between that fetch and the sleep (wait_for_change).         *)
THEOREM FeedCorrect == FeedSpec => []SleepersAreCurrent
<1>1. FeedInit => FeedInv
  BY InitialFeed
<1>2. FeedInv /\ [FeedNext]_feedVars => FeedInv'
  BY StepKeepsFeed
<1>3. FeedInv => SleepersAreCurrent
  BY DEF FeedInv, Handlers, FeedShows, SleepersAreCurrent
<1> QED
  BY <1>1, <1>2, <1>3, PTL DEF FeedSpec

-----------------------------------------------------------------------------
(***************************************************************************)
(* For any number of requests: the key of the row is its provider's unless *)
(* a PUT left the key of another one or two writes raced, and there are no *)
(* more unread alerts than requests that overlapped.                       *)
(***************************************************************************)

(* A row by itself; an unconfigured row that nothing raced for has no key. *)
OwnKey == config # NoConfig /\ config.key \notin {Unset, config.provider} => kept \/ raced

(* What a write carries.                                                   *)
CarriedBodies == \A k \in Clients :
  client[k].at = "writing" /\ "delete" \notin DOMAIN client[k].op => client[k].op \in Puts

Counts ==
  /\ DOMAIN client = Clients
  /\ unread \in Nat /\ crowd \in Nat
  /\ AlertsAreFew

ProviderInv == OwnKey /\ CarriedBodies /\ Counts

LEMMA FewAlerting ==
  /\ IsFiniteSet(Alerting) /\ Cardinality(Alerting) \in Nat
  /\ IsFiniteSet(Alerting') /\ Cardinality(Alerting') \in Nat
<1>1. Alerting \subseteq Clients /\ Alerting' \subseteq Clients
  BY DEF Alerting
<1> QED
  BY <1>1, FS_Subset, FS_CardinalityType, ProviderAssumption

LEMMA InitialProvider == ProviderInit => ProviderInv
<1> SUFFICES ASSUME ProviderInit PROVE ProviderInv
  OBVIOUS
<1>1. OwnKey /\ CarriedBodies
  BY DEF ProviderInit, OwnKey, CarriedBodies
<1>2. Alerting = {}
  BY DEF ProviderInit, Alerting
<1>3. Counts
  BY <1>2, FS_EmptySet DEF ProviderInit, Counts, AlertsAreFew
<1> QED
  BY <1>1, <1>3 DEF ProviderInv

(* A step that alerts nobody new leaves the counts as they are.            *)
LEMMA CountsKept ==
  ASSUME Counts, DOMAIN client' = Clients, Alerting' = Alerting, unread' \in Nat, unread' <= unread,
         crowd' = crowd
  PROVE  Counts'
BY FewAlerting DEF Counts, AlertsAreFew

LEMMA GoneKeeps ==
  ASSUME CarriedBodies, Counts, NEW k \in Clients, Gone(k), client[k].at # "alerting"
  PROVE  CarriedBodies' /\ DOMAIN client' = Clients /\ Alerting' = Alerting
BY DEF CarriedBodies, Counts, Gone, Alerting

LEMMA ShowsKeeps ==
  ASSUME CarriedBodies, Counts, NEW k \in Clients, NEW row, Shows(k, row), client[k].at # "alerting"
  PROVE  CarriedBodies' /\ DOMAIN client' = Clients /\ Alerting' = Alerting
BY DEF CarriedBodies, Counts, Shows, Alerting

LEMMA ConfigLoadKeeps == ASSUME ProviderInv, NEW k \in Clients, LoadConfig(k) PROVE ProviderInv'
<1>1. CarriedBodies /\ Counts /\ client[k].at = "new"
  BY DEF ProviderInv, LoadConfig
<1>2. OwnKey'
  BY DEF ProviderInv, OwnKey, LoadConfig
<1>3. CarriedBodies' /\ DOMAIN client' = Clients /\ Alerting' = Alerting
  <2>1. CASE Shows(k, config)
    BY <1>1, <2>1, ShowsKeeps
  <2>2. CASE Writing(k, [delete |-> TRUE])
    BY <1>1, <2>2 DEF Writing, CarriedBodies, Counts, Alerting
  <2>3. ASSUME NEW put \in Puts, Writing(k, put)
        PROVE  CarriedBodies' /\ DOMAIN client' = Clients /\ Alerting' = Alerting
    BY <1>1, <2>3 DEF Writing, CarriedBodies, Counts, Alerting
  <2>4. CASE Gone(k)
    BY <1>1, <2>4, GoneKeeps
  <2> QED
    BY <2>1, <2>2, <2>3, <2>4 DEF LoadConfig
<1>4. Counts'
  <2>1. unread' = unread /\ crowd' = crowd /\ unread \in Nat
    BY <1>1 DEF LoadConfig, Counts
  <2> QED
    BY <1>1, <1>3, <2>1, CountsKept
<1> QED
  BY <1>2, <1>3, <1>4 DEF ProviderInv

(* A commit that changed nothing under it writes the row as merged.        *)
LEMMA PutKeeps ==
  ASSUME ProviderInv, NEW k \in Clients, CommitConfig(k), "delete" \notin DOMAIN client[k].op
  PROVE  OwnKey'
<1> DEFINE put == client[k].op
           read == client[k].row
<1>1. put \in Puts /\ put.key \in {Unset, "masked", "", "typed"}
  BY ProviderAssumption DEF ProviderInv, CarriedBodies, CommitConfig
<1>2. CASE read = NoConfig /\ config # NoConfig
  BY <1>2 DEF CommitConfig, ProviderInv, OwnKey
<1>3. CASE read = NoConfig /\ config = NoConfig
  <2>1. config' = Merged(NoConfig, put)
    BY <1>3 DEF CommitConfig
  <2>2. config'.provider = put.provider /\ config'.key = MergedKey(NoConfig, put)
    BY <2>1 DEF Merged
  <2>3. Stored(NoConfig).key = Unset
    BY DEF Stored, Empty, Columns
  <2> QED
    BY <2>2, <2>3 DEF MergedKey, OwnKey
<1>4. CASE read # NoConfig
  <2>1. /\ config' = [Updated(config, read, Merged(read, put)) EXCEPT
                        !.key = IF put.key = "typed" THEN put.provider ELSE @]
        /\ kept' = (kept \/ (KeyLeft(put) /\ read.provider # put.provider))
        /\ raced' = (raced \/ config # read)
    BY <1>4 DEF CommitConfig
  <2> SUFFICES ASSUME ~kept', ~raced'
               PROVE  config'.key \in {Unset, config'.provider}
    BY DEF OwnKey
  <2>2. config = read /\ ~kept /\ ~raced
    BY <2>1
  <2>3. config.key \in {Unset, config.provider}
    BY <1>4, <2>2 DEF ProviderInv, OwnKey
  <2> DEFINE new == Merged(read, put)
             updated == Updated(config, read, new)
  <2>4. new.provider = put.provider /\ new.key = MergedKey(read, put)
    BY DEF Merged
  <2>5. updated.provider = put.provider /\ updated.key = MergedKey(read, put)
    BY <2>2, <2>4 DEF Updated, Columns
  <2>6. config'.provider = put.provider /\ config'.key \in {put.provider, MergedKey(read, put)}
    BY <2>1, <2>5 DEF Updated, Columns
  <2>7. KeyLeft(put) => read.provider = put.provider
    BY <2>1
  <2>8. MergedKey(read, put) \in {Unset, put.provider}
    BY <1>4, <2>2, <2>3, <2>7 DEF MergedKey, Stored
  <2> QED
    BY <2>6, <2>8
<1> QED
  BY <1>2, <1>3, <1>4

LEMMA DeleteKeeps ==
  ASSUME ProviderInv, NEW k \in Clients, CommitConfig(k), "delete" \in DOMAIN client[k].op
  PROVE  OwnKey'
<1> DEFINE read == client[k].row
<1>1. CASE read = NoConfig
  BY <1>1 DEF CommitConfig, ProviderInv, OwnKey
<1>2. CASE read # NoConfig
  <2>1. /\ config' = Updated(config, read, Empty)
        /\ raced' = (raced \/ config # read)
    BY <1>2 DEF CommitConfig
  <2>2. config = read => config'.key = Unset
    BY <2>1 DEF Updated, Empty, Columns
  <2> QED
    BY <2>1, <2>2 DEF OwnKey
<1> QED
  BY <1>1, <1>2

LEMMA ConfigCommitKeeps == ASSUME ProviderInv, NEW k \in Clients, CommitConfig(k) PROVE ProviderInv'
<1>1. OwnKey'
  BY PutKeeps, DeleteKeeps
<1>2. CarriedBodies /\ Counts /\ client[k].at = "writing"
  BY DEF ProviderInv, CommitConfig
<1>3. Gone(k) \/ \E row : Shows(k, row)
  BY DEF CommitConfig
<1>4. CarriedBodies' /\ DOMAIN client' = Clients /\ Alerting' = Alerting
  <2>1. CASE Gone(k)
    BY <1>2, <2>1, GoneKeeps
  <2>2. ASSUME NEW row, Shows(k, row)
        PROVE  CarriedBodies' /\ DOMAIN client' = Clients /\ Alerting' = Alerting
    BY <1>2, <2>2, ShowsKeeps
  <2> QED
    BY <1>3, <2>1, <2>2
<1>5. Counts'
  <2>1. unread' = unread /\ crowd' = crowd /\ unread \in Nat
    BY <1>2 DEF CommitConfig, Counts
  <2> QED
    BY <1>2, <1>4, <2>1, CountsKept
<1> QED
  BY <1>1, <1>4, <1>5 DEF ProviderInv

LEMMA AlertCheckKeeps == ASSUME ProviderInv, NEW k \in Clients, AlertCheck(k) PROVE ProviderInv'
<1>1. CarriedBodies /\ Counts /\ client[k].at = "showing" /\ k \notin Alerting
  BY DEF ProviderInv, AlertCheck, Alerting
<1>2. OwnKey' /\ unread' = unread /\ unread \in Nat /\ crowd \in Nat
  BY <1>1 DEF ProviderInv, AlertCheck, OwnKey, Counts
<1>3. CASE Gone(k) /\ UNCHANGED crowd
  <2>1. CarriedBodies' /\ DOMAIN client' = Clients /\ Alerting' = Alerting
    BY <1>1, <1>3, GoneKeeps
  <2>2. Counts'
    BY <1>1, <1>2, <1>3, <2>1, CountsKept
  <2> QED
    BY <1>2, <2>1, <2>2 DEF ProviderInv
<1>4. CASE unread = 0 /\ client' = [client EXCEPT ![k] = [at |-> "alerting"]]
  <2>1. CarriedBodies' /\ DOMAIN client' = Clients /\ Alerting' = Alerting \union {k}
    BY <1>1, <1>4 DEF CarriedBodies, Counts, Alerting
  <2>2. Cardinality(Alerting') = Cardinality(Alerting) + 1
    BY <1>1, <2>1, FewAlerting, FS_AddElement
  <2>3. crowd' = IF Cardinality(Alerting) < crowd THEN crowd ELSE Cardinality(Alerting) + 1
    BY <1>1, <1>4, <2>1 DEF AlertCheck, Gone, Alerting, Counts
  <2>4. crowd' \in Nat /\ Cardinality(Alerting') <= crowd'
    BY <1>2, <2>2, <2>3, FewAlerting
  <2>5. Counts'
    BY <1>2, <1>4, <2>1, <2>4, FewAlerting DEF Counts, AlertsAreFew
  <2> QED
    BY <1>2, <2>1, <2>5 DEF ProviderInv
<1> QED
  BY <1>3, <1>4 DEF AlertCheck

LEMMA AlertCommitKeeps == ASSUME ProviderInv, NEW k \in Clients, AlertCommit(k) PROVE ProviderInv'
<1>1. CarriedBodies /\ Counts /\ k \in Alerting
  BY DEF ProviderInv, AlertCommit, Alerting
<1>2. OwnKey'
  BY DEF ProviderInv, AlertCommit, OwnKey
<1>3. CarriedBodies' /\ DOMAIN client' = Clients /\ Alerting' = Alerting \ {k}
  BY <1>1 DEF AlertCommit, Gone, CarriedBodies, Counts, Alerting
<1>4. Cardinality(Alerting') = Cardinality(Alerting) - 1
  BY <1>1, <1>3, FewAlerting, FS_RemoveElement
<1>5. Counts'
  <2>1. unread' = unread + 1 /\ crowd' = crowd
    BY DEF AlertCommit
  <2> QED
    BY <1>1, <1>3, <1>4, <2>1, FewAlerting DEF Counts, AlertsAreFew
<1> QED
  BY <1>2, <1>3, <1>5 DEF ProviderInv

LEMMA ProviderStep == ProviderInv /\ [ProviderNext]_providerVars => ProviderInv'
<1> SUFFICES ASSUME ProviderInv, [ProviderNext]_providerVars PROVE ProviderInv'
  OBVIOUS
<1>1. CASE UNCHANGED providerVars
  BY <1>1 DEF providerVars, ProviderInv, OwnKey, CarriedBodies, Counts, AlertsAreFew, Alerting
<1>2. CASE ReadAlerts
  <2>1. Counts /\ CarriedBodies /\ OwnKey
    BY DEF ProviderInv
  <2>2. /\ UNCHANGED <<config, client, crowd, kept, raced>>
        /\ unread' \in Nat /\ unread' <= unread
    BY <1>2, <2>1 DEF ReadAlerts, Counts
  <2>3. OwnKey' /\ CarriedBodies' /\ Alerting' = Alerting
    BY <2>1, <2>2 DEF OwnKey, CarriedBodies, Alerting
  <2>4. Counts'
    BY <2>1, <2>2, <2>3, CountsKept DEF Counts
  <2> QED
    BY <2>3, <2>4 DEF ProviderInv
<1> QED
  BY <1>1, <1>2, ConfigLoadKeeps, ConfigCommitKeeps, AlertCheckKeeps, AlertCommitKeeps DEF ProviderNext

(* A row, and what a session works on: a body that was let through and the *)
(* row it found, which is not deleted meanwhile.                           *)
IsRow(row) ==
  DOMAIN row = Columns /\ row.provider \in Providers \union {Unset} /\ row.key \in Providers \union {Unset}

WriteFits(c) ==
  c.at = "writing" =>
    /\ "delete" \notin DOMAIN c.op => c.op \in Puts /\ c.op.provider \in Providers
    /\ c.row = NoConfig \/ (IsRow(c.row) /\ IsRow(config))

RowFits ==
  /\ config = NoConfig \/ IsRow(config)
  /\ DOMAIN client = Clients /\ \A k \in Clients : WriteFits(client[k])
  /\ crowd \in 0 .. Cardinality(Clients)

LEMMA EmptyIsRow == IsRow(Empty)
BY DEF IsRow, Empty, Columns

LEMMA MergedIsRow ==
  ASSUME NEW row, row = NoConfig \/ IsRow(row), NEW put \in Puts, put.provider \in Providers
  PROVE  IsRow(Merged(row, put))
<1>1. Stored(row).key \in Providers \union {Unset}
  BY EmptyIsRow DEF Stored, IsRow
<1>2. MergedKey(row, put) \in Providers \union {Unset}
  BY <1>1 DEF MergedKey
<1>3. /\ DOMAIN Merged(row, put) = Columns
      /\ Merged(row, put).provider = put.provider /\ Merged(row, put).key = MergedKey(row, put)
  BY DEF Merged, Columns
<1> QED
  BY <1>2, <1>3 DEF IsRow

LEMMA UpdatedIsRow ==
  ASSUME NEW row, IsRow(row), NEW read, NEW new, IsRow(new)
  PROVE  IsRow(Updated(row, read, new))
BY DEF IsRow, Updated, Columns

(* A request that goes on or ends writes nothing.                          *)
LEMMA OthersWrite ==
  ASSUME RowFits, NEW k \in Clients, Gone(k) \/ \E row : Shows(k, row),
         config' = config \/ IsRow(config')
  PROVE  DOMAIN client' = Clients /\ \A m \in Clients : WriteFits(client[m])'
<1>1. DOMAIN client' = Clients /\ client'[k].at # "writing" /\ \A m \in Clients \ {k} : client'[m] = client[m]
  <2>1. CASE Gone(k)
    BY <2>1 DEF RowFits, Gone
  <2>2. ASSUME NEW row, Shows(k, row)
        PROVE  DOMAIN client' = Clients /\ client'[k].at # "writing"
               /\ \A m \in Clients \ {k} : client'[m] = client[m]
    BY <2>2 DEF RowFits, Shows
  <2> QED
    BY <2>1, <2>2
<1>2. ASSUME NEW m \in Clients PROVE WriteFits(client[m])'
  <2>1. CASE m = k
    BY <1>1, <2>1 DEF WriteFits
  <2>2. CASE m # k
    <3>1. client'[m] = client[m] /\ WriteFits(client[m])
      BY <1>1, <2>2 DEF RowFits
    <3> QED
      BY <3>1 DEF WriteFits
  <2> QED
    BY <2>1, <2>2
<1> QED
  BY <1>1, <1>2

LEMMA CommitFitsRow == ASSUME RowFits, NEW k \in Clients, CommitConfig(k) PROVE RowFits'
<1> DEFINE put == client[k].op
           read == client[k].row
<1>1. /\ config = NoConfig \/ IsRow(config)
      /\ read = NoConfig \/ (IsRow(read) /\ IsRow(config))
      /\ "delete" \notin DOMAIN put => put \in Puts /\ put.provider \in Providers
  BY DEF CommitConfig, RowFits, WriteFits
<1>2. Gone(k) \/ \E row : Shows(k, row)
  BY DEF CommitConfig
<1>3. crowd' = crowd
  BY DEF CommitConfig
<1>4. config' = config \/ IsRow(config')
  <2>1. CASE "delete" \notin DOMAIN put /\ read = NoConfig
    <3>1. config' = config \/ config' = Merged(NoConfig, put)
      BY <2>1 DEF CommitConfig
    <3> QED
      BY <1>1, <2>1, <3>1, MergedIsRow
  <2>2. CASE "delete" \notin DOMAIN put /\ read # NoConfig
    <3>1. PICK new : new = Updated(config, read, Merged(read, put))
      OBVIOUS
    <3>2. IsRow(new)
      BY <1>1, <2>2, <3>1, MergedIsRow, UpdatedIsRow
    <3>3. config' = [new EXCEPT !.key = IF put.key = "typed" THEN put.provider ELSE @]
      BY <2>2, <3>1 DEF CommitConfig
    <3> QED
      BY <1>1, <2>2, <3>2, <3>3 DEF IsRow, Columns
  <2>3. CASE "delete" \in DOMAIN put
    <3>1. config' = config \/ (read # NoConfig /\ config' = Updated(config, read, Empty))
      BY <2>3 DEF CommitConfig
    <3> QED
      BY <1>1, <3>1, EmptyIsRow, UpdatedIsRow
  <2> QED
    BY <2>1, <2>2, <2>3
<1>5. DOMAIN client' = Clients /\ \A m \in Clients : WriteFits(client[m])'
  BY <1>2, <1>4, OthersWrite
<1> QED
  BY <1>1, <1>3, <1>4, <1>5 DEF RowFits

LEMMA LoadFitsRow == ASSUME RowFits, NEW k \in Clients, LoadConfig(k) PROVE RowFits'
<1>1. UNCHANGED <<config, crowd>>
  BY DEF LoadConfig
<1>2. CASE Gone(k) \/ \E row : Shows(k, row)
  BY <1>1, <1>2, OthersWrite DEF RowFits
<1>3. ASSUME NEW op, Writing(k, op), "delete" \notin DOMAIN op => op \in Puts /\ op.provider \in Providers
      PROVE  RowFits'
  <2>1. /\ DOMAIN client' = Clients /\ client'[k].op = op /\ client'[k].row = config
        /\ \A m \in Clients \ {k} : client'[m] = client[m]
    BY <1>3 DEF Writing, RowFits
  <2>2. ASSUME NEW m \in Clients PROVE WriteFits(client[m])'
    <3>1. CASE m = k
      BY <1>1, <1>3, <2>1, <3>1 DEF WriteFits, RowFits
    <3>2. CASE m # k
      <4>1. client'[m] = client[m] /\ WriteFits(client[m])
        BY <2>1, <3>2 DEF RowFits
      <4> QED
        BY <1>1, <4>1 DEF WriteFits
    <3> QED
      BY <3>1, <3>2
  <2> QED
    BY <1>1, <2>1, <2>2 DEF RowFits
<1>4. \/ Gone(k) \/ \E row : Shows(k, row)
      \/ \E op : Writing(k, op) /\ ("delete" \notin DOMAIN op => op \in Puts /\ op.provider \in Providers)
  <2>1. CASE Writing(k, [delete |-> TRUE])
    <3>1. "delete" \in DOMAIN [delete |-> TRUE]
      OBVIOUS
    <3> QED
      BY <2>1, <3>1
  <2> QED
    BY <2>1 DEF LoadConfig
<1> QED
  BY <1>2, <1>3, <1>4

LEMMA AlertFitsRow ==
  ASSUME RowFits, NEW k \in Clients, AlertCheck(k) \/ AlertCommit(k) PROVE RowFits'
<1>1. config' = config
  BY DEF AlertCheck, AlertCommit
<1>2. CASE Gone(k) /\ crowd' = crowd
  BY <1>1, <1>2, OthersWrite DEF RowFits
<1>3. CASE AlertCheck(k) /\ client' = [client EXCEPT ![k] = [at |-> "alerting"]]
           /\ crowd' = IF Cardinality(Alerting) < crowd THEN crowd ELSE Cardinality(Alerting) + 1
  <2>1. DOMAIN client' = Clients /\ client'[k].at = "alerting" /\ \A m \in Clients \ {k} : client'[m] = client[m]
    BY <1>3 DEF RowFits
  <2>2. \A m \in Clients : WriteFits(client[m])'
    BY <1>1, <2>1 DEF WriteFits, RowFits
  <2>3. k \notin Alerting /\ Alerting \union {k} \subseteq Clients
    BY <1>3 DEF AlertCheck, Alerting
  <2>4. Cardinality(Alerting) + 1 <= Cardinality(Clients)
    <3>1. IsFiniteSet(Clients) /\ IsFiniteSet(Alerting)
      BY FewAlerting, ProviderAssumption
    <3>2. Cardinality(Alerting \union {k}) = Cardinality(Alerting) + 1
      BY <2>3, <3>1, FS_AddElement
    <3> QED
      BY <2>3, <3>1, <3>2, FS_Subset
  <2>5. crowd' \in 0 .. Cardinality(Clients)
    BY <1>3, <2>4, FewAlerting DEF RowFits
  <2> QED
    BY <1>1, <2>1, <2>2, <2>5 DEF RowFits
<1> QED
  BY <1>2, <1>3 DEF AlertCheck, AlertCommit

LEMMA RowFitsAlways == ProviderSpec => []RowFits
<1>1. ProviderInit => RowFits
  <2> SUFFICES ASSUME ProviderInit PROVE RowFits
    OBVIOUS
  <2>1. Cardinality(Clients) \in Nat
    BY ProviderAssumption, FS_CardinalityType
  <2> QED
    BY <2>1 DEF ProviderInit, RowFits, WriteFits
<1>2. RowFits /\ [ProviderNext]_providerVars => RowFits'
  <2> SUFFICES ASSUME RowFits, [ProviderNext]_providerVars PROVE RowFits'
    OBVIOUS
  <2>1. CASE UNCHANGED providerVars \/ ReadAlerts
    BY <2>1 DEF providerVars, ReadAlerts, RowFits, WriteFits
  <2> QED
    BY <2>1, LoadFitsRow, CommitFitsRow, AlertFitsRow DEF ProviderNext
<1> QED
  BY <1>1, <1>2, PTL DEF ProviderSpec

LEMMA AcceptedWhenTested == ASSUME RowFits PROVE TestIsAccepted
<1> PICK active : active = ActiveConfig(config)
  OBVIOUS
<1>1. DOMAIN active = Columns
  BY DEF RowFits, IsRow, ActiveConfig, Configured, Empty
<1>2. PICK bare : bare = [active EXCEPT !.base = Unset]
  OBVIOUS
<1>3. bare.key = active.key /\ bare.provider = active.provider
  BY <1>1, <1>2 DEF Columns
<1>4. Tested(active) => Orchestrated(active) \/ (active.provider = "gemini" /\ active.key = Unset)
  BY DEF Tested, Orchestrated
<1>5. Tested(active) => Direct(bare) \/ active.provider = "custom"
  BY <1>3 DEF Tested, Direct
<1>6. Tested(active) => Listable(active) \/ (active.provider \in Local /\ active.base = Unset)
  BY DEF Tested, Direct, Listable, Local
<1> QED
  BY <1>2, <1>4, <1>5, <1>6 DEF TestIsAccepted, Writes

(* The plan names the active model first and no model twice.               *)
Once(list) == \A i, j \in DOMAIN list : list[i] = list[j] => i = j

LEMMA WithoutOnce ==
  ASSUME NEW M, NEW list \in Seq(M), Once(list), NEW m
  PROVE  /\ Without(list, m) \in Seq(M) /\ Once(Without(list, m))
         /\ \A i \in DOMAIN Without(list, m) : Without(list, m)[i] # m
<1>1. CASE ~\E k \in DOMAIN list : list[k] = m
  BY <1>1 DEF Without
<1>2. CASE \E k \in DOMAIN list : list[k] = m
  <2>1. PICK k : k = CHOOSE h \in DOMAIN list : list[h] = m
    OBVIOUS
  <2>2. k \in 1 .. Len(list) /\ list[k] = m
    BY <1>2, <2>1
  <2>3. PICK front : front = SubSeq(list, 1, k - 1)
    OBVIOUS
  <2>4. PICK back : back = SubSeq(list, k + 1, Len(list))
    OBVIOUS
  <2>5. PICK rest : rest = front \o back
    OBVIOUS
  <2>6. Without(list, m) = rest
    BY <1>2, <2>1, <2>3, <2>4, <2>5 DEF Without
  <2>7. front \in Seq(M) /\ Len(front) = k - 1 /\ \A i \in 1 .. k - 1 : front[i] = list[i]
    <3>1. k - 1 \in Int /\ 1 \in Int /\ \A i \in 1 .. k - 1 : list[i] \in M
      BY <2>2
    <3>2. /\ front \in Seq(M) /\ Len(front) = IF 1 <= k - 1 THEN (k - 1) - 1 + 1 ELSE 0
          /\ \A i \in 1 .. (k - 1) - 1 + 1 : front[i] = list[1 + i - 1]
      BY <2>3, <3>1, SubSeqProperties
    <3> QED
      BY <2>2, <3>2
  <2>8. back \in Seq(M) /\ Len(back) = Len(list) - k /\ \A i \in 1 .. Len(list) - k : back[i] = list[k + i]
    <3>1. k + 1 \in Int /\ Len(list) \in Int /\ \A i \in k + 1 .. Len(list) : list[i] \in M
      BY <2>2
    <3>2. /\ back \in Seq(M) /\ Len(back) = IF k + 1 <= Len(list) THEN Len(list) - (k + 1) + 1 ELSE 0
          /\ \A i \in 1 .. Len(list) - (k + 1) + 1 : back[i] = list[(k + 1) + i - 1]
      BY <2>4, <3>1, SubSeqProperties
    <3> QED
      BY <2>2, <3>2
  <2>9. /\ rest \in Seq(M) /\ Len(rest) = (k - 1) + (Len(list) - k)
        /\ \A i \in 1 .. (k - 1) + (Len(list) - k) :
             rest[i] = IF i <= k - 1 THEN front[i] ELSE back[i - (k - 1)]
    <3>1. /\ rest \in Seq(M) /\ Len(rest) = Len(front) + Len(back)
          /\ \A i \in 1 .. Len(front) + Len(back) :
               rest[i] = IF i <= Len(front) THEN front[i] ELSE back[i - Len(front)]
      BY <2>5, <2>7, <2>8, ConcatProperties
    <3> QED
      BY <2>7, <2>8, <3>1
  <2>10. Len(rest) = Len(list) - 1 /\ DOMAIN rest = 1 .. Len(list) - 1
    BY <2>2, <2>9
  <2>11. ASSUME NEW i \in 1 .. Len(list) - 1
         PROVE  (i < k => rest[i] = list[i]) /\ (~(i < k) => rest[i] = list[i + 1])
    <3>1. CASE i < k
      <4>1. i \in 1 .. (k - 1) + (Len(list) - k) /\ i <= k - 1 /\ i \in 1 .. k - 1
        BY <2>2, <3>1
      <4>2. rest[i] = front[i] /\ front[i] = list[i]
        BY <2>7, <2>9, <4>1
      <4> QED
        BY <3>1, <4>2
    <3>2. CASE ~(i < k)
      <4>1. PICK h \in 1 .. Len(list) - k : h = i - (k - 1)
        BY <2>2, <3>2
      <4>2. rest[i] = back[h] /\ k + h = i + 1
        BY <2>2, <2>9, <3>2, <4>1
      <4>3. back[h] = list[k + h]
        BY <2>8
      <4> QED
        BY <3>2, <4>2, <4>3
    <3> QED
      BY <3>1, <3>2
  <2> DEFINE Source(i) == IF i < k THEN i ELSE i + 1
  <2>12. ASSUME NEW i \in DOMAIN rest
         PROVE  Source(i) \in DOMAIN list /\ Source(i) # k /\ rest[i] = list[Source(i)]
    <3>1. i \in 1 .. Len(list) - 1
      BY <2>10
    <3>2. CASE i < k
      BY <2>2, <2>11, <3>1, <3>2
    <3>3. CASE ~(i < k)
      BY <2>2, <2>11, <3>1, <3>3
    <3> QED
      BY <3>2, <3>3
  <2>13. \A i \in DOMAIN rest : rest[i] # m
    <3> SUFFICES ASSUME NEW i \in DOMAIN rest, rest[i] = m PROVE FALSE
      OBVIOUS
    <3>1. PICK n \in DOMAIN list : n = Source(i) /\ n # k /\ rest[i] = list[n]
      BY <2>12
    <3> QED
      BY <2>2, <3>1 DEF Once
  <2>14. Once(rest)
    <3> SUFFICES ASSUME NEW i \in DOMAIN rest, NEW j \in DOMAIN rest, rest[i] = rest[j] PROVE i = j
      BY DEF Once
    <3>1. PICK n \in DOMAIN list : n = Source(i) /\ rest[i] = list[n]
      BY <2>12
    <3>2. PICK o \in DOMAIN list : o = Source(j) /\ rest[j] = list[o]
      BY <2>12
    <3>3. n = o
      BY <3>1, <3>2 DEF Once
    <3>4. Source(i) = Source(j)
      BY <3>1, <3>2, <3>3
    <3>5. i \in 1 .. Len(list) - 1 /\ j \in 1 .. Len(list) - 1 /\ k \in 1 .. Len(list)
      BY <2>2, <2>10
    <3> QED
      BY <3>4, <3>5
  <2> QED
    BY <2>6, <2>9, <2>13, <2>14
<1> QED
  BY <1>1, <1>2

LEMMA PairOnce ==
  ASSUME NEW a, NEW b, a # b PROVE <<a, b>> \in Seq({a, b}) /\ Once(<<a, b>>)
<1>1. \A M : a \in M /\ b \in M => <<a, b>> \in Seq(M)
  OBVIOUS
<1>2. Once(<<a, b>>)
  BY DEF Once
<1> QED
  BY <1>1, <1>2

LEMMA CatalogOnce ==
  ASSUME NEW p \in Providers
  PROVE  \E M : Catalog[p].static \in Seq(M) /\ Once(Catalog[p].static)
<1>1. p \in {"anthropic", "openai", "nvidia_nim", "lm_studio", "ollama", "gemini", "custom"}
  BY DEF Providers, Catalog
<1>2. CASE p = "anthropic"
  <2>1. Catalog["anthropic"].static = <<"opus", "haiku">> /\ "opus" # "haiku"
    BY DEF Catalog
  <2>2. PICK list : list = <<"opus", "haiku">>
    OBVIOUS
  <2>3. list \in Seq({"opus", "haiku"}) /\ Once(list)
    BY <2>1, <2>2, PairOnce
  <2> QED
    BY <1>2, <2>1, <2>2, <2>3
<1>3. CASE p = "openai"
  <2>1. Catalog["openai"].static = <<"gpt-mini", "gpt">> /\ "gpt-mini" # "gpt"
    BY DEF Catalog
  <2>2. PICK list : list = <<"gpt-mini", "gpt">>
    OBVIOUS
  <2>3. list \in Seq({"gpt-mini", "gpt"}) /\ Once(list)
    BY <2>1, <2>2, PairOnce
  <2> QED
    BY <1>3, <2>1, <2>2, <2>3
<1>4. CASE p = "gemini"
  <2>1. Catalog["gemini"].static = <<"pro", "flash">> /\ "pro" # "flash"
    BY DEF Catalog
  <2>2. PICK list : list = <<"pro", "flash">>
    OBVIOUS
  <2>3. list \in Seq({"pro", "flash"}) /\ Once(list)
    BY <2>1, <2>2, PairOnce
  <2> QED
    BY <1>4, <2>1, <2>2, <2>3
<1>5. CASE p \in {"nvidia_nim", "lm_studio", "ollama", "custom"}
  <2>1. Catalog[p].static = <<>>
    <3>1. /\ Catalog["nvidia_nim"].static = <<>> /\ Catalog["lm_studio"].static = <<>>
          /\ Catalog["ollama"].static = <<>> /\ Catalog["custom"].static = <<>>
      BY DEF Catalog
    <3> QED
      BY <1>5, <3>1
  <2>2. <<>> \in Seq({}) /\ Once(<<>>)
    BY DEF Once
  <2> QED
    BY <2>1, <2>2
<1> QED
  BY <1>1, <1>2, <1>3, <1>4, <1>5

LEMMA PlanOnce == ASSUME RowFits PROVE PlanStartsAsShown
<1> PICK active : active = ActiveConfig(config)
  OBVIOUS
<1>1. active.provider \in Providers
  BY ProviderAssumption DEF RowFits, IsRow, ActiveConfig, Configured, Empty, Columns
<1>2. PICK rest : rest = Without(Catalog[active.provider].static, active.model)
  OBVIOUS
<1>3. PICK N : rest \in Seq(N) /\ Once(rest) /\ \A i \in DOMAIN rest : rest[i] # active.model
  BY <1>1, <1>2, CatalogOnce, WithoutOnce
<1>4. PICK plan : plan = ExecutionPlan(active)
  OBVIOUS
<1>5. plan = <<active.model>> \o rest
  BY <1>2, <1>4 DEF ExecutionPlan
<1>6. PICK M : M = N \union {active.model}
  OBVIOUS
<1>7. <<active.model>> \in Seq(M) /\ rest \in Seq(M)
  BY <1>3, <1>6
<1>8. /\ Len(plan) = Len(rest) + 1 /\ plan[1] = active.model /\ plan \in Seq(M)
      /\ \A i \in 2 .. Len(plan) : plan[i] = rest[i - 1]
  BY <1>5, <1>7
<1>9. Once(plan)
  BY <1>3, <1>8 DEF Once
<1>10. Configured(config) => ShownModel(config) = active.model
  BY DEF RowFits, IsRow, Configured, ShownModel, ActiveConfig, Columns
<1>11. Head(plan) = plan[1]
  BY <1>8
<1> QED
  BY <1>4, <1>8, <1>9, <1>10, <1>11 DEF PlanStartsAsShown, Once

(* Requests that write the row may race; unless they did, or a PUT changed *)
(* the provider and left the key, the key is the provider's own; the alert *)
(* is unread at most once for every request that raised it together; a     *)
(* configuration that passes the test is accepted by the other paths, but  *)
(* for the three exceptions TestIsAccepted names; and the calls try the    *)
(* model that is shown first and none twice.                               *)
THEOREM ProviderCorrect == ProviderSpec => [](ProviderTypeOK /\ ConfigurationIsCoherent)
<1>1. ProviderInv => KeyIsTheProviders /\ AlertsAreFew
  BY DEF ProviderInv, OwnKey, Configured, KeyIsTheProviders, Counts
<1>2. RowFits => TestIsAccepted /\ PlanStartsAsShown
  BY AcceptedWhenTested, PlanOnce
<1>3. RowFits /\ ProviderInv => ProviderTypeOK
  <2> SUFFICES ASSUME RowFits, ProviderInv PROVE ProviderTypeOK
    OBVIOUS
  <2>1. Cardinality(Clients) \in Nat
    BY ProviderAssumption, FS_CardinalityType
  <2> QED
    <3>1. unread \in 0 .. Cardinality(Clients) /\ crowd \in 0 .. Cardinality(Clients)
      BY <2>1, FewAlerting DEF RowFits, ProviderInv, Counts, AlertsAreFew
    <3> QED
      BY <3>1 DEF RowFits, IsRow, ProviderTypeOK
<1>4. RowFits /\ ProviderInv => ProviderTypeOK /\ ConfigurationIsCoherent
  BY <1>1, <1>2, <1>3 DEF ConfigurationIsCoherent
<1> QED
  BY <1>4, RowFitsAlways, InitialProvider, ProviderStep, PTL DEF ProviderSpec

-----------------------------------------------------------------------------
(***************************************************************************)
(* For any visitors, addresses, limits and windows: what a window holds    *)
(* exceeds its limit only by requests that were past the test together.    *)
(***************************************************************************)

Visits ==
  [at : {"idle", "over"}]
    \union [at : {"registering"}, email : Emails]
    \union [at : {"verifying"}, email : Emails, right : BOOLEAN]
    \union [at : {"mailing"}, user : 1 .. MaxUsers]
Events == [by : Visitors, time : Int]

(* The tables in memory, and the history.                                  *)
Memory ==
  /\ visit \in [Visitors -> Visits] /\ now \in Nat
  /\ attempts \in [Keys -> SUBSET Events] /\ \A k \in Keys : IsFiniteSet(attempts[k])
  /\ mails \in [1 .. MaxUsers -> SUBSET Events] /\ \A u \in 1 .. MaxUsers : IsFiniteSet(mails[u])
  /\ peak \in [login : [Keys -> Nat], mail : [1 .. MaxUsers -> Nat]]

OneAccount ==
  /\ created \in 0 .. MaxUsers /\ DOMAIN users \subseteq 1 .. created
  /\ \A u, w \in DOMAIN users : users[u] = users[w] => u = w

LoginsHold(k) ==
  Cardinality(Recent(attempts[k], Window)) + Cardinality(LoggingIn(k)) <= Limit - 1 + Raised(1, peak.login[k])
MailsHold(u) ==
  Cardinality(Recent(mails[u], Cooldown)) + Cardinality(Mailing(u)) <= Raised(1, peak.mail[u])

AccountInv ==
  /\ Memory /\ OneAccount
  /\ \A k \in Keys : LoginsHold(k)
  /\ \A u \in 1 .. MaxUsers : MailsHold(u)

LEMMA SmallerCount ==
  ASSUME NEW S, NEW T, IsFiniteSet(S), T \subseteq S
  PROVE  IsFiniteSet(T) /\ Cardinality(T) \in Nat /\ Cardinality(S) \in Nat /\ Cardinality(T) <= Cardinality(S)
BY FS_Subset, FS_CardinalityType

LEMMA OneMoreCount ==
  ASSUME NEW S, NEW x, IsFiniteSet(S), NEW T, T \subseteq S \union {x}
  PROVE  IsFiniteSet(T) /\ Cardinality(T) \in Nat /\ Cardinality(S) \in Nat /\ Cardinality(T) <= Cardinality(S) + 1
<1>1. /\ IsFiniteSet(S \union {x})
      /\ Cardinality(S \union {x}) = IF x \in S THEN Cardinality(S) ELSE Cardinality(S) + 1
  BY FS_AddElement
<1>2. Cardinality(S) \in Nat
  BY FS_CardinalityType
<1>3. IsFiniteSet(T) /\ Cardinality(T) \in Nat /\ Cardinality(T) <= Cardinality(S \union {x})
  BY <1>1, SmallerCount
<1> QED
  BY <1>1, <1>2, <1>3

LEMMA VisitorsFinite ==
  ASSUME NEW S, S \subseteq Visitors
  PROVE  IsFiniteSet(S) /\ Cardinality(S) \in Nat
BY AccountsAssumption, SmallerCount

(* Two counts that do not grow, one that is exchanged for another, or one  *)
(* that is noted in the peak.                                              *)
LEMMA LoginQuiet ==
  ASSUME AccountInv, NEW k \in Keys, Recent(attempts[k], Window)' \subseteq Recent(attempts[k], Window),
         LoggingIn(k)' \subseteq LoggingIn(k), peak'.login[k] = peak.login[k]
  PROVE  LoginsHold(k)'
<1> DEFINE R == Recent(attempts[k], Window)
           L == LoggingIn(k)
<1>1. IsFiniteSet(R) /\ IsFiniteSet(L)
  BY VisitorsFinite, SmallerCount DEF AccountInv, Memory, Recent, LoggingIn
<1>2. Cardinality(R') <= Cardinality(R) /\ Cardinality(R') \in Nat /\ Cardinality(R) \in Nat
  BY <1>1, SmallerCount
<1>3. Cardinality(L') <= Cardinality(L) /\ Cardinality(L') \in Nat /\ Cardinality(L) \in Nat
  BY <1>1, SmallerCount
<1>4. Cardinality(R) + Cardinality(L) <= Limit - 1 + Raised(1, peak.login[k])
  BY DEF AccountInv, LoginsHold
<1>5. Limit \in Nat /\ peak.login[k] \in Nat
  BY AccountsAssumption DEF AccountInv, Memory
<1> HIDE DEF R, L
<1>6. Cardinality(R') + Cardinality(L') <= Limit - 1 + Raised(1, peak'.login[k])
  BY <1>2, <1>3, <1>4, <1>5 DEF Raised
<1> QED
  BY <1>6 DEF R, L, LoginsHold

LEMMA MailQuiet ==
  ASSUME AccountInv, NEW u \in 1 .. MaxUsers, Recent(mails[u], Cooldown)' \subseteq Recent(mails[u], Cooldown),
         Mailing(u)' \subseteq Mailing(u), peak'.mail[u] = peak.mail[u]
  PROVE  MailsHold(u)'
<1> DEFINE R == Recent(mails[u], Cooldown)
           L == Mailing(u)
<1>1. IsFiniteSet(R) /\ IsFiniteSet(L)
  BY VisitorsFinite, SmallerCount DEF AccountInv, Memory, Recent, Mailing
<1>2. Cardinality(R') <= Cardinality(R) /\ Cardinality(R') \in Nat /\ Cardinality(R) \in Nat
  BY <1>1, SmallerCount
<1>3. Cardinality(L') <= Cardinality(L) /\ Cardinality(L') \in Nat /\ Cardinality(L) \in Nat
  BY <1>1, SmallerCount
<1>4. Cardinality(R) + Cardinality(L) <= Raised(1, peak.mail[u])
  BY DEF AccountInv, MailsHold
<1>5. peak.mail[u] \in Nat
  BY DEF AccountInv, Memory
<1> HIDE DEF R, L
<1>6. Cardinality(R') + Cardinality(L') <= Raised(1, peak'.mail[u])
  BY <1>2, <1>3, <1>4, <1>5 DEF Raised
<1> QED
  BY <1>6 DEF R, L, MailsHold

(* A step that leaves the mails, or the logins, alone.                     *)
LEMMA MailsUntouched ==
  ASSUME AccountInv, UNCHANGED <<mails, now>>, peak'.mail = peak.mail,
         \A u \in 1 .. MaxUsers : Mailing(u)' \subseteq Mailing(u)
  PROVE  \A u \in 1 .. MaxUsers : MailsHold(u)'
<1> TAKE u \in 1 .. MaxUsers
<1>1. Recent(mails[u], Cooldown)' \subseteq Recent(mails[u], Cooldown)
  BY DEF Recent
<1> QED
  BY <1>1, MailQuiet

LEMMA LoginsUntouched ==
  ASSUME AccountInv, UNCHANGED <<attempts, now>>, peak'.login = peak.login,
         \A k \in Keys : LoggingIn(k)' \subseteq LoggingIn(k)
  PROVE  \A k \in Keys : LoginsHold(k)'
<1> TAKE k \in Keys
<1>1. Recent(attempts[k], Window)' \subseteq Recent(attempts[k], Window)
  BY DEF Recent
<1> QED
  BY <1>1, LoginQuiet

(* A visitor whose request begins or ends elsewhere.                       *)
LEMMA ElsewhereKeeps ==
  ASSUME AccountInv, NEW v \in Visitors, NEW place \in Visits,
         visit' = [visit EXCEPT ![v] = place], place.at \notin {"verifying", "mailing"}
  PROVE  /\ visit' \in [Visitors -> Visits]
         /\ \A k \in Keys : LoggingIn(k)' \subseteq LoggingIn(k)
         /\ \A u \in 1 .. MaxUsers : Mailing(u)' \subseteq Mailing(u)
<1>1. visit \in [Visitors -> Visits]
  BY DEF AccountInv, Memory
<1> QED
  BY <1>1 DEF LoggingIn, Mailing

LEMMA OverIsAPlace == [at |-> "over"] \in Visits /\ [at |-> "idle"] \in Visits
BY DEF Visits

LEMMA InitialAccounts == AccountInit => AccountInv
<1> SUFFICES ASSUME AccountInit PROVE AccountInv
  OBVIOUS
<1>1. IsFiniteSet({}) /\ Cardinality({}) = 0
  BY FS_EmptySet
<1>2. Memory
  BY <1>1, OverIsAPlace DEF AccountInit, Memory, Keys
<1>3. OneAccount
  BY AccountsAssumption DEF AccountInit, OneAccount
<1>4. ASSUME NEW k \in Keys PROVE LoginsHold(k)
  <2>1. Recent(attempts[k], Window) = {} /\ LoggingIn(k) = {} /\ peak.login[k] = 0
    BY DEF AccountInit, Recent, LoggingIn
  <2> QED
    BY <1>1, <2>1, AccountsAssumption DEF LoginsHold, Raised
<1>5. ASSUME NEW u \in 1 .. MaxUsers PROVE MailsHold(u)
  <2>1. Recent(mails[u], Cooldown) = {} /\ Mailing(u) = {} /\ peak.mail[u] = 0
    BY DEF AccountInit, Recent, Mailing
  <2> QED
    BY <1>1, <2>1 DEF MailsHold, Raised
<1> QED
  BY <1>2, <1>3, <1>4, <1>5 DEF AccountInv

(* Steps after which the tables of both limits are as before.              *)
LEMMA QuietVisit ==
  ASSUME AccountInv, NEW v \in Visitors, NEW place \in Visits,
         visit' = [visit EXCEPT ![v] = place], place.at \notin {"verifying", "mailing"},
         UNCHANGED <<attempts, mails, now, peak>>, OneAccount'
  PROVE  AccountInv'
<1>1. /\ visit' \in [Visitors -> Visits]
      /\ \A k \in Keys : LoggingIn(k)' \subseteq LoggingIn(k)
      /\ \A u \in 1 .. MaxUsers : Mailing(u)' \subseteq Mailing(u)
  BY ElsewhereKeeps
<1>2. Memory'
  BY <1>1 DEF AccountInv, Memory
<1> QED
  BY <1>1, <1>2, LoginsUntouched, MailsUntouched DEF AccountInv

LEMMA RegisterKeeps ==
  ASSUME AccountInv, NEW v \in Visitors, NEW email \in Emails, Register(v, email)
  PROVE  AccountInv'
<1>1. PICK place \in Visits : /\ visit' = [visit EXCEPT ![v] = place]
                              /\ place.at \notin {"verifying", "mailing"}
  <2>1. [at |-> "registering", email |-> email] \in Visits
    BY DEF Visits
  <2> QED
    BY <2>1, OverIsAPlace DEF Register
<1>2. OneAccount'
  BY DEF Register, AccountInv, OneAccount
<1> QED
  BY <1>1, <1>2, QuietVisit DEF Register

LEMMA InsertKeeps == ASSUME AccountInv, NEW v \in Visitors, Insert(v) PROVE AccountInv'
<1>1. OneAccount
  BY DEF AccountInv
<1>2. OneAccount'
  <2>1. CASE Taken(visit[v].email)
    BY <1>1, <2>1 DEF Insert, OneAccount
  <2>2. CASE ~Taken(visit[v].email)
    <3>1. created' = created + 1 /\ created' \in 0 .. MaxUsers
      BY <1>1, <2>2, AccountsAssumption DEF Insert, OneAccount
    <3>2. users' = [u \in DOMAIN users \union {created'} |->
                      IF u = created' THEN visit[v].email ELSE users[u]]
      BY <2>2 DEF Insert
    <3>3. created' \notin DOMAIN users /\ DOMAIN users' \subseteq 1 .. created'
      BY <1>1, <3>1, <3>2 DEF OneAccount
    <3>4. \A u \in DOMAIN users : users[u] # visit[v].email
      BY <2>2 DEF Taken
    <3>5. \A u, w \in DOMAIN users' : users'[u] = users'[w] => u = w
      BY <1>1, <3>2, <3>3, <3>4 DEF OneAccount
    <3> QED
      BY <3>1, <3>3, <3>5 DEF OneAccount
  <2> QED
    BY <2>1, <2>2
<1> QED
  BY <1>2, OverIsAPlace, QuietVisit DEF Insert, Leaves

LEMMA DeleteAccountKeeps ==
  ASSUME AccountInv, NEW v \in Visitors, NEW u \in 1 .. created, NEW right \in BOOLEAN,
         DeleteAccount(v, u, right)
  PROVE  AccountInv'
<1>1. OneAccount'
  <2>1. DOMAIN users' \subseteq DOMAIN users /\ \A w \in DOMAIN users' : users'[w] = users[w]
    BY DEF DeleteAccount
  <2> QED
    BY <2>1 DEF DeleteAccount, AccountInv, OneAccount
<1> QED
  BY <1>1, OverIsAPlace, QuietVisit DEF DeleteAccount, Leaves

LEMMA LoginKeeps ==
  ASSUME AccountInv, NEW v \in Visitors, NEW email \in Emails, NEW right \in BOOLEAN, Login(v, email, right)
  PROVE  AccountInv'
<1> DEFINE k == FoldedOf[email]
           recent == Recent(attempts[k], Window)
           place == [at |-> "verifying", email |-> email, right |-> right]
<1>1. /\ k \in Keys /\ Memory /\ OneAccount /\ visit[v].at = "idle"
      /\ attempts' = [attempts EXCEPT ![k] = recent]
      /\ UNCHANGED <<users, created, mails, now>>
  BY DEF AccountInv, Keys, Login, Is
<1>2. OneAccount'
  BY <1>1 DEF OneAccount
<1>3. recent \subseteq attempts[k] /\ IsFiniteSet(recent) /\ Cardinality(recent) \in Nat
  <2>1. recent \subseteq attempts[k] /\ IsFiniteSet(attempts[k])
    BY <1>1 DEF Memory, Recent
  <2> QED
    BY <2>1, SmallerCount
<1>4. attempts' \in [Keys -> SUBSET Events] /\ \A c \in Keys : IsFiniteSet(attempts'[c])
  BY <1>1, <1>3 DEF Memory
<1>5. \A c \in Keys : Recent(attempts[c], Window)' = Recent(attempts[c], Window)
  BY <1>1 DEF Recent, Memory
<1>6. CASE ~MayTry(recent)
  <2>1. Leaves(v) /\ UNCHANGED peak
    BY <1>6 DEF Login
  <2>2. /\ visit' \in [Visitors -> Visits]
        /\ \A c \in Keys : LoggingIn(c)' \subseteq LoggingIn(c)
        /\ \A u \in 1 .. MaxUsers : Mailing(u)' \subseteq Mailing(u)
    BY <2>1, OverIsAPlace, ElsewhereKeeps DEF Leaves
  <2>3. Memory'
    BY <1>1, <1>4, <2>1, <2>2 DEF Memory
  <2>4. ASSUME NEW c \in Keys PROVE LoginsHold(c)'
    BY <1>5, <2>1, <2>2, LoginQuiet
  <2>5. \A u \in 1 .. MaxUsers : MailsHold(u)'
    BY <1>1, <2>1, <2>2, MailsUntouched
  <2> QED
    BY <1>2, <2>3, <2>4, <2>5 DEF AccountInv
<1>7. CASE MayTry(recent)
  <2>1. /\ visit' = [visit EXCEPT ![v] = place]
        /\ peak' = [peak EXCEPT !.login[k] = Raised(@, Cardinality(LoggingIn(k)) + 1)]
    BY <1>7 DEF Login
  <2>2. place \in Visits
    BY DEF Visits
  <2>3. visit' \in [Visitors -> Visits]
    BY <1>1, <2>1, <2>2 DEF Memory
  <2>4. /\ LoggingIn(k)' \subseteq LoggingIn(k) \union {v}
        /\ \A c \in Keys \ {k} : LoggingIn(c)' \subseteq LoggingIn(c)
        /\ \A u \in 1 .. MaxUsers : Mailing(u)' \subseteq Mailing(u)
    BY <1>1, <2>1 DEF LoggingIn, Mailing, Memory
  <2>5. IsFiniteSet(LoggingIn(k)) /\ Cardinality(LoggingIn(k)) \in Nat
    BY VisitorsFinite DEF LoggingIn
  <2>6. Raised(peak.login[k], Cardinality(LoggingIn(k)) + 1) \in Nat
    BY <1>1, <2>5 DEF Raised, Memory
  <2>7. /\ peak' \in [login : [Keys -> Nat], mail : [1 .. MaxUsers -> Nat]]
        /\ peak'.mail = peak.mail /\ \A c \in Keys \ {k} : peak'.login[c] = peak.login[c]
        /\ peak'.login[k] = Raised(peak.login[k], Cardinality(LoggingIn(k)) + 1)
    BY <1>1, <2>1, <2>6 DEF Memory
  <2>8. Memory'
    BY <1>1, <1>4, <2>3, <2>7 DEF Memory
  <2>9. LoginsHold(k)'
    <3>1. Cardinality(recent) + 1 <= Limit /\ Limit \in Nat
      BY <1>3, <1>7, AccountsAssumption DEF MayTry
    <3>2. /\ Cardinality(LoggingIn(k)') <= Cardinality(LoggingIn(k)) + 1
          /\ Cardinality(LoggingIn(k)') \in Nat
      BY <2>4, <2>5, OneMoreCount
    <3>3. Cardinality(LoggingIn(k)) + 1 <= Raised(1, peak'.login[k]) /\ Raised(1, peak'.login[k]) \in Nat
      BY <1>1, <2>5, <2>7 DEF Raised, Memory
    <3>4. Cardinality(Recent(attempts[k], Window)') = Cardinality(recent)
      BY <1>1, <1>5
    <3> QED
      BY <1>3, <2>5, <3>1, <3>2, <3>3, <3>4 DEF LoginsHold
  <2>10. ASSUME NEW c \in Keys \ {k} PROVE LoginsHold(c)'
    BY <1>5, <2>4, <2>7, LoginQuiet
  <2>11. \A u \in 1 .. MaxUsers : MailsHold(u)'
    BY <1>1, <2>4, <2>7, MailsUntouched
  <2> QED
    BY <1>2, <2>8, <2>9, <2>10, <2>11 DEF AccountInv
<1> QED
  BY <1>6, <1>7

LEMMA VerifyKeeps == ASSUME AccountInv, NEW v \in Visitors, Verify(v) PROVE AccountInv'
<1>1. /\ Memory /\ OneAccount /\ visit[v].at = "verifying" /\ Leaves(v)
      /\ UNCHANGED <<users, created, mails, now, peak>>
  BY DEF AccountInv, Verify, Is
<1> PICK k \in Keys : k = FoldedOf[visit[v].email]
  BY <1>1 DEF Memory, Visits, Keys
<1>2. v \in LoggingIn(k)
  BY <1>1 DEF LoggingIn
<1>3. OneAccount'
  BY <1>1 DEF OneAccount
<1>4. /\ visit' \in [Visitors -> Visits]
      /\ \A c \in Keys : LoggingIn(c)' \subseteq LoggingIn(c)
      /\ \A u \in 1 .. MaxUsers : Mailing(u)' \subseteq Mailing(u)
  BY <1>1, OverIsAPlace, ElsewhereKeeps DEF Leaves
<1>5. PICK failures \in {{}, attempts[k] \union {Event(v)}} : attempts' = [attempts EXCEPT ![k] = failures]
  BY DEF Verify
<1>6. Event(v) \in Events
  BY <1>1 DEF Event, Events, Memory
<1>7. failures \in SUBSET Events /\ IsFiniteSet(failures)
  BY <1>1, <1>2, <1>6, FS_EmptySet, OneMoreCount DEF Memory
<1>8. Memory'
  BY <1>1, <1>2, <1>4, <1>5, <1>7 DEF Memory
<1>9. LoginsHold(k)'
  <2> DEFINE R == Recent(attempts[k], Window)
             L == LoggingIn(k)
  <2>1. IsFiniteSet(R) /\ IsFiniteSet(L) /\ L \subseteq Visitors
    BY <1>1, <1>2, VisitorsFinite, SmallerCount DEF Memory, Recent, LoggingIn
  <2>2. R' \subseteq R \union {Event(v)}
    BY <1>1, <1>2, <1>5 DEF Recent, Memory
  <2>3. L' \subseteq L \ {v}
    BY <1>1 DEF Leaves, LoggingIn, Memory
  <2>4. Cardinality(R') <= Cardinality(R) + 1 /\ Cardinality(R') \in Nat /\ Cardinality(R) \in Nat
    BY <2>1, <2>2, OneMoreCount
  <2>5. /\ Cardinality(L') \in Nat /\ Cardinality(L) \in Nat
        /\ Cardinality(L') <= Cardinality(L \ {v}) /\ Cardinality(L \ {v}) = Cardinality(L) - 1
    <3>1. IsFiniteSet(L \ {v}) /\ Cardinality(L \ {v}) = Cardinality(L) - 1
      BY <1>2, <2>1, FS_RemoveElement
    <3> QED
      BY <2>1, <2>3, <3>1, SmallerCount
  <2>6. Cardinality(R) + Cardinality(L) <= Limit - 1 + Raised(1, peak.login[k])
    BY <1>2 DEF AccountInv, LoginsHold
  <2>7. Limit \in Nat /\ Raised(1, peak.login[k]) \in Nat /\ peak' = peak
    BY <1>1, <1>2, AccountsAssumption DEF Memory, Raised
  <2>8. Cardinality(R') + Cardinality(L') <= Limit - 1 + Raised(1, peak'.login[k])
    <3> HIDE DEF R, L
    <3> QED
      BY <2>4, <2>5, <2>6, <2>7
  <2> QED
    BY <2>8 DEF LoginsHold
<1>10. ASSUME NEW c \in Keys \ {k} PROVE LoginsHold(c)'
  <2>1. Recent(attempts[c], Window)' \subseteq Recent(attempts[c], Window)
    BY <1>1, <1>5 DEF Recent, Memory
  <2> QED
    BY <1>1, <1>4, <2>1, LoginQuiet
<1>11. \A u \in 1 .. MaxUsers : MailsHold(u)'
  BY <1>1, <1>4, MailsUntouched
<1> QED
  BY <1>3, <1>8, <1>9, <1>10, <1>11 DEF AccountInv

LEMMA MessageKeeps ==
  ASSUME AccountInv, NEW v \in Visitors, NEW u \in 1 .. created, Message(v, u)
  PROVE  AccountInv'
<1> DEFINE place == [at |-> "mailing", user |-> u]
<1>1. /\ Memory /\ OneAccount /\ visit[v].at = "idle" /\ u \in 1 .. MaxUsers
      /\ UNCHANGED <<users, created, attempts, mails, now>>
  BY AccountsAssumption DEF AccountInv, OneAccount, Message, Is
<1>2. OneAccount'
  BY <1>1 DEF OneAccount
<1>3. CASE CoolingDown(u)
  BY <1>1, <1>2, <1>3, OverIsAPlace, QuietVisit DEF Message, Leaves
<1>4. CASE ~CoolingDown(u)
  <2>1. /\ visit' = [visit EXCEPT ![v] = place]
        /\ peak' = [peak EXCEPT !.mail[u] = Raised(@, Cardinality(Mailing(u)) + 1)]
    BY <1>4 DEF Message
  <2>2. place \in Visits
    BY <1>1 DEF Visits
  <2>3. visit' \in [Visitors -> Visits]
    BY <1>1, <2>1, <2>2 DEF Memory
  <2>4. /\ Mailing(u)' \subseteq Mailing(u) \union {v}
        /\ \A w \in (1 .. MaxUsers) \ {u} : Mailing(w)' \subseteq Mailing(w)
        /\ \A k \in Keys : LoggingIn(k)' \subseteq LoggingIn(k)
    BY <1>1, <2>1 DEF LoggingIn, Mailing, Memory
  <2>5. IsFiniteSet(Mailing(u)) /\ Cardinality(Mailing(u)) \in Nat
    BY VisitorsFinite DEF Mailing
  <2>6. peak.mail[u] \in Nat /\ Raised(peak.mail[u], Cardinality(Mailing(u)) + 1) \in Nat
    <3>1. peak.mail[u] \in Nat
      BY <1>1 DEF Memory
    <3> QED
      BY <2>5, <3>1 DEF Raised
  <2>7. /\ peak' \in [login : [Keys -> Nat], mail : [1 .. MaxUsers -> Nat]]
        /\ peak'.login = peak.login /\ \A w \in (1 .. MaxUsers) \ {u} : peak'.mail[w] = peak.mail[w]
        /\ peak'.mail[u] = Raised(peak.mail[u], Cardinality(Mailing(u)) + 1)
    BY <1>1, <2>1, <2>6 DEF Memory
  <2>8. Memory'
    BY <1>1, <2>3, <2>7 DEF Memory
  <2>9. \A w \in 1 .. MaxUsers : Recent(mails[w], Cooldown)' = Recent(mails[w], Cooldown)
    BY <1>1 DEF Recent
  <2>10. MailsHold(u)'
    <3>1. Cardinality(Recent(mails[u], Cooldown)') = 0
      BY <1>1, <1>4, <2>9, FS_EmptySet DEF CoolingDown
    <3>2. /\ Cardinality(Mailing(u)') <= Cardinality(Mailing(u)) + 1
          /\ Cardinality(Mailing(u)') \in Nat
      BY <2>4, <2>5, OneMoreCount
    <3>3. Cardinality(Mailing(u)) + 1 <= Raised(1, peak'.mail[u]) /\ Raised(1, peak'.mail[u]) \in Nat
      BY <2>5, <2>6, <2>7 DEF Raised
    <3> QED
      BY <2>5, <3>1, <3>2, <3>3 DEF MailsHold
  <2>11. ASSUME NEW w \in (1 .. MaxUsers) \ {u} PROVE MailsHold(w)'
    BY <2>4, <2>7, <2>9, MailQuiet
  <2>12. \A k \in Keys : LoginsHold(k)'
    BY <1>1, <2>4, <2>7, LoginsUntouched
  <2> QED
    BY <1>2, <2>8, <2>10, <2>11, <2>12 DEF AccountInv
<1> QED
  BY <1>3, <1>4

LEMMA SendMessageKeeps == ASSUME AccountInv, NEW v \in Visitors, SendMessage(v) PROVE AccountInv'
<1>1. /\ Memory /\ OneAccount /\ visit[v].at = "mailing" /\ Leaves(v)
      /\ UNCHANGED <<users, created, attempts, now, peak>>
  BY DEF AccountInv, SendMessage, Is
<1> PICK u \in 1 .. MaxUsers : u = visit[v].user
  BY <1>1 DEF Memory, Visits
<1>2. v \in Mailing(u)
  BY <1>1 DEF Mailing
<1>3. OneAccount'
  BY <1>1 DEF OneAccount
<1>4. /\ visit' \in [Visitors -> Visits]
      /\ \A k \in Keys : LoggingIn(k)' \subseteq LoggingIn(k)
      /\ \A w \in 1 .. MaxUsers : Mailing(w)' \subseteq Mailing(w)
  BY <1>1, OverIsAPlace, ElsewhereKeeps DEF Leaves
<1>5. CASE UNCHANGED mails
  BY <1>1, <1>3, <1>5, OverIsAPlace, QuietVisit DEF Leaves
<1>6. CASE mails' = [mails EXCEPT ![u] = @ \union {Event(v)}]
  <2>1. Event(v) \in Events
    BY <1>1 DEF Event, Events, Memory
  <2>2. IsFiniteSet(mails[u] \union {Event(v)}) /\ mails[u] \union {Event(v)} \subseteq Events
    BY <1>1, <1>2, <2>1, OneMoreCount DEF Memory
  <2>3. Memory'
    BY <1>1, <1>2, <1>4, <1>6, <2>2 DEF Memory
  <2>4. MailsHold(u)'
    <3> DEFINE R == Recent(mails[u], Cooldown)
               L == Mailing(u)
    <3>1. IsFiniteSet(R) /\ IsFiniteSet(L)
      BY <1>1, <1>2, VisitorsFinite, SmallerCount DEF Memory, Recent, Mailing
    <3>2. R' \subseteq R \union {Event(v)}
      BY <1>1, <1>2, <1>6 DEF Recent, Memory
    <3>3. L' \subseteq L \ {v}
      BY <1>1 DEF Leaves, Mailing, Memory
    <3>4. Cardinality(R') <= Cardinality(R) + 1 /\ Cardinality(R') \in Nat /\ Cardinality(R) \in Nat
      BY <3>1, <3>2, OneMoreCount
    <3>5. IsFiniteSet(L \ {v}) /\ Cardinality(L \ {v}) = Cardinality(L) - 1
      BY <1>2, <3>1, FS_RemoveElement
    <3>6. /\ Cardinality(L') \in Nat /\ Cardinality(L) \in Nat
          /\ Cardinality(L') <= Cardinality(L) - 1
      BY <3>1, <3>3, <3>5, SmallerCount, FS_CardinalityType
    <3>7. Cardinality(R) + Cardinality(L) <= Raised(1, peak.mail[u])
      BY <1>2 DEF AccountInv, MailsHold
    <3>8. Raised(1, peak.mail[u]) \in Nat /\ peak' = peak
      BY <1>1, <1>2 DEF Memory, Raised
    <3>9. Cardinality(R') + Cardinality(L') <= Raised(1, peak'.mail[u])
      <4> HIDE DEF R, L
      <4> QED
        BY <3>4, <3>6, <3>7, <3>8
    <3> QED
      BY <3>9 DEF MailsHold
  <2>5. ASSUME NEW w \in (1 .. MaxUsers) \ {u} PROVE MailsHold(w)'
    <3>1. Recent(mails[w], Cooldown)' \subseteq Recent(mails[w], Cooldown)
      BY <1>1, <1>6 DEF Recent, Memory
    <3> QED
      BY <1>1, <1>4, <3>1, MailQuiet
  <2>6. \A k \in Keys : LoginsHold(k)'
    BY <1>1, <1>4, LoginsUntouched
  <2> QED
    BY <1>3, <2>3, <2>4, <2>5, <2>6 DEF AccountInv
<1> QED
  BY <1>5, <1>6 DEF SendMessage

LEMMA ElapseKeeps == ASSUME AccountInv, Elapse PROVE AccountInv'
<1>1. Memory /\ OneAccount /\ now' = now + 1 /\ UNCHANGED <<users, created, attempts, mails, visit, peak>>
  BY DEF AccountInv, Elapse
<1>2. Memory' /\ OneAccount'
  BY <1>1 DEF Memory, OneAccount
<1>3. ASSUME NEW k \in Keys PROVE LoginsHold(k)'
  <2>1. Recent(attempts[k], Window)' \subseteq Recent(attempts[k], Window)
    <3>1. attempts[k] \subseteq Events
      BY <1>1 DEF Memory
    <3>2. \A e \in Events : e.time \in Int
      BY DEF Events
    <3> QED
      BY <1>1, <3>1, <3>2, AccountsAssumption DEF Recent, Memory
  <2>2. LoggingIn(k)' = LoggingIn(k)
    BY <1>1 DEF LoggingIn
  <2> QED
    BY <1>1, <2>1, <2>2, LoginQuiet
<1>4. ASSUME NEW u \in 1 .. MaxUsers PROVE MailsHold(u)'
  <2>1. Recent(mails[u], Cooldown)' \subseteq Recent(mails[u], Cooldown)
    <3>1. mails[u] \subseteq Events
      BY <1>1 DEF Memory
    <3>2. \A e \in Events : e.time \in Int
      BY DEF Events
    <3> QED
      BY <1>1, <3>1, <3>2, AccountsAssumption DEF Recent, Memory
  <2>2. Mailing(u)' = Mailing(u)
    BY <1>1 DEF Mailing
  <2> QED
    BY <1>1, <2>1, <2>2, MailQuiet
<1> QED
  BY <1>2, <1>3, <1>4 DEF AccountInv

LEMMA AccountStep == AccountInv /\ [AccountNext]_accountVars => AccountInv'
<1> SUFFICES ASSUME AccountInv, [AccountNext]_accountVars PROVE AccountInv'
  OBVIOUS
<1>1. CASE UNCHANGED accountVars
  BY <1>1 DEF accountVars, AccountInv, Memory, OneAccount, LoginsHold, MailsHold, Recent, LoggingIn, Mailing
<1> QED
  BY <1>1, RegisterKeeps, InsertKeeps, LoginKeeps, VerifyKeeps, DeleteAccountKeeps, MessageKeeps,
     SendMessageKeeps, ElapseKeeps DEF AccountNext

(* Logins per address and messages per user exceed their limit by no more  *)
(* requests than were past the test together (check_login_rate_limit tests *)
(* before the lookup, record_failed_login counts after it), and an address *)
(* has one account.                                                        *)
THEOREM LimitsCorrect == AccountSpec => []LimitsHold
<1>1. AccountInv => LimitsHold
  <2> SUFFICES ASSUME AccountInv PROVE LimitsHold
    OBVIOUS
  <2>1. 1 .. created \subseteq 1 .. MaxUsers
    BY AccountsAssumption DEF AccountInv, OneAccount
  <2> QED
    BY <2>1 DEF AccountInv, OneAccount, LoginsHold, MailsHold, LimitsHold
<1> QED
  BY <1>1, InitialAccounts, AccountStep, PTL DEF AccountSpec

-----------------------------------------------------------------------------
(***************************************************************************)
(* For any plans, packs, thresholds and numbers of tickets, purchases and  *)
(* administrators: the books of the desk close, and a ticket leaves the    *)
(* first administrator's list by his own hand only.                        *)
(***************************************************************************)

Bought == [plan : PaidPlans, cycle : Cycles, status : {"active", "cancelled", "refunded"},
           due : BOOLEAN, late : BOOLEAN]
Ticket == [kind : {"purchase_request", "topup_request", "refund_request", "upgrade_prorate"},
           owner : Approvers, read : BOOLEAN, late : BOOLEAN, pack : Packs \union {0},
           by : SUBSET Approvers]
Totals == [topups : Nat, plans : Nat, spent : Nat, expired : Nat, revoked : Nat]
Remains(g) == g.plans + g.topups - g.spent - g.expired - g.revoked

(* What the conjuncts of the invariant say of the values of the tables.    *)
OneActiveIn(table) ==
  \A i, k \in DOMAIN table : table[i].status = "active" /\ table[k].status = "active" => i = k
SubsFit(table) == table \in Seq(Bought) /\ OneActiveIn(table)
MoneyFits(c, used, neg, g) ==
  c \in Nat /\ used \in Nat /\ neg \in Nat /\ used <= neg /\ g \in Totals /\ c = Remains(g)
TicketsFit(list) ==
  \A i \in DOMAIN list : list[i] \in Ticket /\ (list[i].read <=> list[i].owner \in list[i].by)

DeskInv ==
  /\ SubsFit(subs) /\ MoneyFits(credits, consumed, negative, granted)
  /\ TicketsFit(tickets) /\ pack \in Packs

LEMMA RowChanges ==
  ASSUME NEW x \in Bought
  PROVE  /\ \A status \in {"cancelled", "refunded"} :
              [x EXCEPT !.status = status] \in Bought /\ [x EXCEPT !.status = status].status = status
         /\ [x EXCEPT !.due = FALSE] \in Bought /\ [x EXCEPT !.due = FALSE].status = x.status
         /\ [x EXCEPT !.late = TRUE] \in Bought /\ [x EXCEPT !.late = TRUE].status = x.status
BY DEF Bought

LEMMA RowIsBought ==
  ASSUME NEW s, SubsFit(s), NEW r \in DOMAIN s
  PROVE  s[r] \in Bought
BY DEF SubsFit

(* A row of its own is changed into another one.                           *)
LEMMA OneRowChanges ==
  ASSUME NEW s, SubsFit(s), NEW r \in DOMAIN s, NEW x \in Bought,
         x.status = "active" => s[r].status = "active"
  PROVE  SubsFit([s EXCEPT ![r] = x])
<1> DEFINE new == [s EXCEPT ![r] = x]
<1>1. new \in Seq(Bought) /\ DOMAIN new = DOMAIN s
  BY DEF SubsFit
<1>2. \A k \in DOMAIN s : new[k].status = "active" => s[k].status = "active"
  OBVIOUS
<1> QED
  BY <1>1, <1>2 DEF SubsFit, OneActiveIn

LEMMA TicketRead ==
  ASSUME NEW x \in Ticket, NEW y, y = [x EXCEPT !.read = TRUE]
  PROVE  y \in Ticket /\ y.read /\ y.by = x.by /\ y.owner = x.owner
BY DEF Ticket

LEMMA TicketSigned ==
  ASSUME NEW x \in Ticket, NEW d \in Approvers, NEW y, y = [x EXCEPT !.by = @ \union {d}]
  PROVE  y \in Ticket /\ y.by = x.by \union {d} /\ (y.read <=> x.read) /\ y.owner = x.owner
<1>1. x.by \union {d} \in SUBSET Approvers
  BY DEF Ticket
<1> QED
  BY <1>1 DEF Ticket

LEMMA CurrentIsActive ==
  ASSUME DeskInv, Subscribed
  PROVE  CurrentRow \in DOMAIN subs /\ CurrentSub \in Bought /\ ActiveRows = {CurrentRow}
<1>1. SubsFit(subs)
  BY DEF DeskInv
<1>2. PICK i \in ActiveRows : TRUE
  BY DEF Subscribed
<1>3. i \in Int /\ ActiveRows = {i} /\ i \in DOMAIN subs
  BY <1>1, <1>2 DEF SubsFit, OneActiveIn, ActiveRows
<1>4. CurrentRow = i
  BY <1>3 DEF CurrentRow
<1> QED
  BY <1>1, <1>3, <1>4 DEF SubsFit, CurrentSub

(* A refill grants what is missing, or takes back what is left over.       *)
LEMMA RefilledFits ==
  ASSUME DeskInv
  PROVE  MoneyFits(Refilled.credits, consumed, Refilled.negative, Refilled.granted)
<1>1. MoneyFits(credits, consumed, negative, granted)
  BY DEF DeskInv
<1>2. CASE ~RefillDue
  BY <1>1, <1>2 DEF Refilled
<1>3. CASE RefillDue
  <2>1. PICK allowance \in Nat : allowance = Allowance[CurrentSub.plan]
    BY <1>3, CurrentIsActive, DeskAssumption DEF RefillDue, Bought
  <2>2. PICK delta \in Int : delta = allowance - credits
    BY <1>1 DEF MoneyFits
  <2>3. PICK lost \in Nat : lost = IF delta < 0 THEN - delta ELSE 0
    OBVIOUS
  <2> DEFINE g == [granted EXCEPT !.expired = @ + lost, !.plans = @ + delta + lost]
  <2>4. Refilled = [credits |-> allowance, negative |-> negative + lost, granted |-> g]
    BY <1>3, <2>1, <2>2, <2>3 DEF Refilled, Refill
  <2>5. delta + lost \in Nat /\ allowance = credits + delta
    BY <1>1, <2>2, <2>3 DEF MoneyFits
  <2>6. /\ g \in Totals /\ g.plans = granted.plans + delta + lost /\ g.expired = granted.expired + lost
        /\ g.topups = granted.topups /\ g.spent = granted.spent /\ g.revoked = granted.revoked
    <3>1. granted \in Totals /\ granted.plans \in Nat /\ granted.expired \in Nat
      BY <1>1 DEF MoneyFits, Totals
    <3>2. granted.plans + delta + lost \in Nat /\ granted.expired + lost \in Nat
      BY <2>5, <3>1
    <3> QED
      BY <3>1, <3>2 DEF Totals
  <2>7. Remains(g) = Remains(granted) + delta
    BY <1>1, <2>6 DEF MoneyFits, Totals, Remains
  <2> QED
    BY <1>1, <2>4, <2>5, <2>6, <2>7 DEF MoneyFits
<1> QED
  BY <1>2, <1>3

LEMMA SettledFits ==
  ASSUME DeskInv
  PROVE  /\ SubsFit(Settled) /\ DOMAIN Settled = DOMAIN subs
         /\ \A i \in DOMAIN subs : Settled[i].status = subs[i].status
<1>1. SubsFit(subs)
  BY DEF DeskInv
<1>2. CASE ~RefillDue
  BY <1>1, <1>2 DEF Settled
<1>3. CASE RefillDue
  <2>1. PICK r \in DOMAIN subs : r = CurrentRow
    BY <1>3, CurrentIsActive DEF RefillDue
  <2>2. Settled = [subs EXCEPT ![r].due = FALSE]
    BY <1>3, <2>1 DEF Settled
  <2>3. PICK s, x : s = subs /\ x = [s[r] EXCEPT !.due = FALSE]
    OBVIOUS
  <2>4. x \in Bought /\ x.status = s[r].status
    BY <1>1, <2>3, RowIsBought, RowChanges
  <2>5. SubsFit([s EXCEPT ![r] = x])
    BY <1>1, <2>3, <2>4, OneRowChanges
  <2>6. Settled = [s EXCEPT ![r] = x]
    BY <2>2, <2>3
  <2> QED
    BY <2>3, <2>4, <2>5, <2>6
<1> QED
  BY <1>2, <1>3

(* An administrator approves the marked tickets of some kinds.             *)
LEMMA ApprovedFits ==
  ASSUME NEW list, TicketsFit(list), NEW d \in Approvers, NEW kinds, NEW marked, NEW only,
         \A i \in DOMAIN list : i \in only <=> i \in marked /\ list[i].kind \in kinds
  PROVE  TicketsFit(Approved(MarkNotificationsRead(list, d, kinds, marked), d, only))
<1> DEFINE read == MarkNotificationsRead(list, d, kinds, marked)
           new == Approved(read, d, only)
<1>1. DOMAIN read = DOMAIN list /\ DOMAIN new = DOMAIN list
  BY DEF MarkNotificationsRead, Approved
<1>2. ASSUME NEW i \in DOMAIN list
      PROVE  new[i] \in Ticket /\ (new[i].read <=> new[i].owner \in new[i].by)
  <2>1. list[i] \in Ticket /\ (list[i].read <=> list[i].owner \in list[i].by)
    BY DEF TicketsFit
  <2>2. CASE i \notin only
    BY <1>1, <2>1, <2>2 DEF MarkNotificationsRead, Approved
  <2>3. CASE i \in only /\ list[i].owner = d
    <3>1. read[i] = [list[i] EXCEPT !.read = TRUE]
      BY <2>3 DEF MarkNotificationsRead
    <3>2. PICK y : y = read[i]
      OBVIOUS
    <3>3. y \in Ticket /\ y.read /\ y.owner = d
      BY <2>1, <2>3, <3>1, <3>2, TicketRead
    <3>4. PICK z : z = [y EXCEPT !.by = @ \union {d}]
      OBVIOUS
    <3>5. z \in Ticket /\ z.by = y.by \union {d} /\ (z.read <=> y.read) /\ z.owner = y.owner
      BY <3>3, <3>4, TicketSigned
    <3>6. new[i] = z
      BY <1>1, <2>3, <3>2, <3>4 DEF Approved
    <3>7. z.read /\ z.owner \in z.by
      BY <3>3, <3>5
    <3> QED
      BY <3>5, <3>6, <3>7
  <2>4. CASE i \in only /\ list[i].owner # d
    <3>1. PICK x, z : x = list[i] /\ z = [x EXCEPT !.by = @ \union {d}]
      OBVIOUS
    <3>2. new[i] = z
      BY <1>1, <2>4, <3>1 DEF MarkNotificationsRead, Approved
    <3>3. x \in Ticket /\ (x.read <=> x.owner \in x.by) /\ x.owner # d
      BY <2>1, <2>4, <3>1
    <3>4. z \in Ticket /\ z.by = x.by \union {d} /\ (z.read <=> x.read) /\ z.owner = x.owner
      BY <3>1, <3>3, TicketSigned
    <3>5. z.read <=> z.owner \in z.by
      BY <3>3, <3>4
    <3> QED
      BY <3>2, <3>4, <3>5
  <2> QED
    BY <2>2, <2>3, <2>4
<1> QED
  BY <1>1, <1>2 DEF TicketsFit

LEMMA InitialDesk == DeskInit => DeskInv
<1> SUFFICES ASSUME DeskInit PROVE DeskInv
  OBVIOUS
<1>1. DOMAIN subs = {} /\ DOMAIN tickets = {} /\ subs \in Seq(Bought)
  BY DEF DeskInit
<1>2. SubsFit(subs) /\ TicketsFit(tickets)
  BY <1>1 DEF SubsFit, OneActiveIn, TicketsFit
<1>3. MoneyFits(credits, consumed, negative, granted)
  BY DEF DeskInit, MoneyFits, Totals, Remains
<1> QED
  BY <1>2, <1>3 DEF DeskInit, DeskInv

LEMMA SpendKeeps == ASSUME DeskInv, Spend PROVE DeskInv'
<1>1. SubsFit(subs')
  BY SettledFits DEF Spend
<1>2. PICK g : g = Refilled.granted
  OBVIOUS
<1>3. MoneyFits(Refilled.credits, consumed, Refilled.negative, g)
  BY <1>2, RefilledFits
<1>4. granted' = [g EXCEPT !.spent = @ + 1] /\ credits' = Refilled.credits - 1 /\ Refilled.credits > 0
  BY <1>2 DEF Spend
<1>5. granted' \in Totals /\ Remains(granted') = Remains(g) - 1
  BY <1>3, <1>4 DEF MoneyFits, Totals, Remains
<1>6. MoneyFits(credits', consumed', negative', granted')
  BY <1>3, <1>4, <1>5 DEF Spend, MoneyFits
<1> QED
  BY <1>1, <1>6 DEF Spend, DeskInv, configVars

LEMMA NotifyKeeps ==
  ASSUME DeskInv, NEW size \in Packs \union {0},
         NEW kind \in {"purchase_request", "topup_request", "refund_request", "upgrade_prorate"},
         NotifyAdmin(kind, size)
  PROVE  DeskInv'
<1> DEFINE new == [kind |-> kind, owner |-> First, read |-> FALSE, late |-> FALSE, pack |-> size,
                   by |-> {}]
<1>1. new \in Ticket /\ (new.read <=> new.owner \in new.by)
  BY DeskAssumption DEF Ticket
<1>2. PICK id : tickets' = [i \in DOMAIN tickets \union {id} |-> IF i = id THEN new ELSE tickets[i]]
  BY DEF NotifyAdmin
<1>3. TicketsFit(tickets)
  BY DEF DeskInv
<1> HIDE DEF new
<1>4. TicketsFit(tickets')
  BY <1>1, <1>2, <1>3 DEF TicketsFit
<1> QED
  BY <1>4 DEF NotifyAdmin, moneyVars, configVars, DeskInv

LEMMA ApproveTopupKeeps ==
  ASSUME DeskInv, NEW d \in Approvers, NEW i \in DOMAIN tickets, ApproveTopup(d, i)
  PROVE  DeskInv'
<1>1. SubsFit(subs')
  BY SettledFits DEF ApproveTopup
<1>2. PICK g : g = Refilled.granted
  OBVIOUS
<1>3. MoneyFits(Refilled.credits, consumed, Refilled.negative, g)
  BY <1>2, RefilledFits
<1>4. granted' = [g EXCEPT !.topups = @ + pack] /\ credits' = Refilled.credits + pack /\ pack \in Nat
  BY <1>2, DeskAssumption DEF ApproveTopup, DeskInv
<1>5. granted' \in Totals /\ Remains(granted') = Remains(g) + pack
  BY <1>3, <1>4 DEF MoneyFits, Totals, Remains
<1>6. MoneyFits(credits', consumed', negative', granted')
  BY <1>3, <1>4, <1>5 DEF ApproveTopup, MoneyFits
<1>7. TicketsFit(tickets')
  <2>1. TicketsFit(tickets) /\ tickets[i].kind = "topup_request"
    BY DEF DeskInv, ApproveTopup
  <2>2. \A k \in DOMAIN tickets : k \in {i} <=> k \in {i} /\ tickets[k].kind \in {"topup_request"}
    BY <2>1
  <2>3. PICK t, only, kinds : t = tickets /\ only = {i} /\ kinds = {"topup_request"}
    OBVIOUS
  <2>4. TicketsFit(Approved(MarkNotificationsRead(t, d, kinds, only), d, only))
    BY <2>1, <2>2, <2>3, ApprovedFits
  <2> QED
    BY <2>3, <2>4 DEF ApproveTopup
<1> QED
  BY <1>1, <1>6, <1>7 DEF ApproveTopup, DeskInv, configVars

LEMMA ApproveRefundKeeps ==
  ASSUME DeskInv, NEW d \in Approvers, NEW i \in DOMAIN tickets, ApproveRefund(d, i)
  PROVE  DeskInv'
<1>1. TicketsFit(tickets')
  <2>1. TicketsFit(tickets) /\ tickets[i].kind = "refund_request"
    BY DEF DeskInv, ApproveRefund
  <2>2. \A k \in DOMAIN tickets : k \in {i} <=> k \in {i} /\ tickets[k].kind \in {"refund_request"}
    BY <2>1
  <2>3. PICK t, only, kinds : t = tickets /\ only = {i} /\ kinds = {"refund_request"}
    OBVIOUS
  <2>4. TicketsFit(Approved(MarkNotificationsRead(t, d, kinds, only), d, only))
    BY <2>1, <2>2, <2>3, ApprovedFits
  <2> QED
    BY <2>3, <2>4 DEF ApproveRefund
<1>2. ASSUME NEW s, SubsFit(s), NEW r \in DOMAIN s
      PROVE  SubsFit([s EXCEPT ![r].status = "refunded"])
  <2>1. PICK x \in Bought : x = [s[r] EXCEPT !.status = "refunded"] /\ x.status = "refunded"
    BY <1>2, RowIsBought, RowChanges
  <2>2. SubsFit([s EXCEPT ![r] = x])
    BY <1>2, <2>1, OneRowChanges
  <2>3. [s EXCEPT ![r].status = "refunded"] = [s EXCEPT ![r] = x]
    BY <2>1
  <2> QED
    BY <2>2, <2>3
<1>3. SubsFit(subs) /\ MoneyFits(credits, consumed, negative, granted)
  BY DEF DeskInv
<1>4. CASE ~Subscribed
  BY <1>1, <1>3, <1>4 DEF ApproveRefund, DeskInv, moneyVars, configVars
<1>5. CASE Subscribed /\ credits > 0
  <2>1. PICK revoked \in Nat : /\ revoked = IF credits < Refilled.credits THEN credits ELSE Refilled.credits
                               /\ revoked <= Refilled.credits
    BY <1>3, RefilledFits DEF MoneyFits
  <2>2. PICK g : g = Refilled.granted
    OBVIOUS
  <2>3. MoneyFits(Refilled.credits, consumed, Refilled.negative, g)
    BY <2>2, RefilledFits
  <2>4. /\ credits' = Refilled.credits - revoked /\ negative' = Refilled.negative + revoked
        /\ granted' = [g EXCEPT !.revoked = @ + revoked] /\ consumed' = consumed
        /\ subs' = [Settled EXCEPT ![CurrentRow].status = "refunded"]
    BY <1>5, <2>1, <2>2 DEF ApproveRefund
  <2>5. granted' \in Totals /\ Remains(granted') = Remains(g) - revoked
    BY <2>3, <2>4 DEF MoneyFits, Totals, Remains
  <2>6. MoneyFits(credits', consumed', negative', granted')
    BY <2>1, <2>3, <2>4, <2>5 DEF MoneyFits
  <2>7. SubsFit(Settled) /\ CurrentRow \in DOMAIN Settled
    BY <1>5, SettledFits, CurrentIsActive
  <2>8. PICK s, r : s = Settled /\ r = CurrentRow
    OBVIOUS
  <2>9. SubsFit(subs')
    BY <1>2, <2>4, <2>7, <2>8
  <2> QED
    BY <1>1, <2>6, <2>9 DEF ApproveRefund, DeskInv, configVars
<1>6. CASE Subscribed /\ ~(credits > 0)
  <2>1. subs' = [subs EXCEPT ![CurrentRow].status = "refunded"] /\ UNCHANGED moneyVars
    BY <1>6 DEF ApproveRefund
  <2>2. PICK s, r : s = subs /\ r = CurrentRow
    OBVIOUS
  <2>3. SubsFit(subs')
    BY <1>2, <1>3, <1>6, <2>1, <2>2, CurrentIsActive
  <2> QED
    BY <1>1, <1>3, <2>1, <2>3 DEF ApproveRefund, DeskInv, moneyVars, configVars
<1> QED
  BY <1>4, <1>5, <1>6

LEMMA CreateKeeps ==
  ASSUME DeskInv, NEW d \in Approvers, NEW plan \in PaidPlans, NEW cycle \in Cycles,
         CreateSubscription(d, plan, cycle)
  PROVE  DeskInv'
<1>1. SubsFit(subs) /\ TicketsFit(tickets) /\ MoneyFits(credits, consumed, negative, granted)
  BY DEF DeskInv
<1>2. SubsFit(subs')
  <2> DEFINE new == [plan |-> plan, cycle |-> cycle, status |-> "active", due |-> TRUE, late |-> FALSE]
             ended == [i \in DOMAIN subs |->
                         IF i \in ActiveRows THEN [subs[i] EXCEPT !.status = "cancelled"] ELSE subs[i]]
  <2>1. new \in Bought
    BY DEF Bought
  <2>2. ended \in Seq(Bought) /\ Len(ended) = Len(subs) /\ DOMAIN ended = DOMAIN subs
    <3>1. ASSUME NEW i \in DOMAIN subs PROVE ended[i] \in Bought
      BY <1>1, RowIsBought, RowChanges
    <3>2. DOMAIN subs = 1 .. Len(subs) /\ Len(subs) \in Nat
      BY <1>1 DEF SubsFit
    <3> HIDE DEF ended
    <3>3. DOMAIN ended = 1 .. Len(subs) /\ ended = [i \in 1 .. Len(subs) |-> ended[i]]
      BY <3>2 DEF ended
    <3>4. ended \in [1 .. Len(subs) -> Bought]
      BY <3>1, <3>2, <3>3
    <3>5. ended \in Seq(Bought) /\ Len(ended) = Len(subs)
      BY <3>2, <3>3, <3>4
    <3> QED
      BY <3>2, <3>3, <3>5
  <2>3. \A i \in DOMAIN subs : ended[i].status # "active"
    BY <1>1, RowIsBought, RowChanges DEF ActiveRows
  <2>4. subs' = Append(ended, new)
    BY DEF CreateSubscription
  <2> HIDE DEF ended, new
  <2>5. subs' \in Seq(Bought) /\ DOMAIN subs' = 1 .. (Len(subs) + 1)
    BY <2>1, <2>2, <2>4
  <2>6. \A i \in 1 .. Len(subs) : subs'[i] = ended[i] /\ i \in DOMAIN subs
    BY <1>1, <2>2, <2>4 DEF SubsFit
  <2>7. Len(subs) \in Nat
    BY <1>1 DEF SubsFit
  <2>8. \A i \in DOMAIN subs' : subs'[i].status = "active" => i = Len(subs) + 1
    BY <2>3, <2>5, <2>6, <2>7
  <2> QED
    BY <2>5, <2>8 DEF SubsFit, OneActiveIn
<1>3. TicketsFit(tickets')
  <2>1. PICK t, kinds, all, only :
          /\ t = tickets /\ kinds = {"purchase_request", "upgrade_prorate"} /\ all = DOMAIN tickets
          /\ only = {i \in DOMAIN tickets : tickets[i].kind \in kinds}
    OBVIOUS
  <2>2. \A i \in DOMAIN t : i \in only <=> i \in all /\ t[i].kind \in kinds
    BY <2>1
  <2>3. TicketsFit(Approved(MarkNotificationsRead(t, d, kinds, all), d, only))
    BY <1>1, <2>1, <2>2, ApprovedFits
  <2> QED
    BY <2>1, <2>3 DEF CreateSubscription
<1>4. MoneyFits(credits', consumed', negative', granted')
  BY <1>1 DEF CreateSubscription, MoneyFits
<1> QED
  BY <1>2, <1>3, <1>4 DEF CreateSubscription, DeskInv, configVars

LEMMA MarkReadKeeps == ASSUME DeskInv, NEW i \in DOMAIN tickets, MarkRead(i) PROVE DeskInv'
<1>1. TicketsFit(tickets)
  BY DEF DeskInv
<1>2. PICK x, d : x = tickets[i] /\ d = tickets[i].owner
  OBVIOUS
<1>3. x \in Ticket /\ d \in Approvers
  BY <1>1, <1>2 DEF TicketsFit, Ticket
<1>4. PICK y : y = [x EXCEPT !.read = TRUE]
  OBVIOUS
<1>5. PICK z : z = [y EXCEPT !.by = @ \union {d}]
  OBVIOUS
<1>6. z \in Ticket /\ z.read /\ z.owner \in z.by
  <2>1. y \in Ticket /\ y.read /\ y.owner = d
    BY <1>2, <1>3, <1>4, TicketRead
  <2>2. z \in Ticket /\ z.by = y.by \union {d} /\ (z.read <=> y.read) /\ z.owner = y.owner
    <3>1. y \in Ticket /\ d \in Approvers
      BY <1>3, <2>1
    <3> QED
      BY <1>5, <3>1, TicketSigned
  <2> QED
    BY <2>1, <2>2
<1>7. /\ DOMAIN tickets' = DOMAIN tickets /\ \A k \in DOMAIN tickets \ {i} : tickets'[k] = tickets[k]
      /\ tickets'[i] = z
  BY <1>2, <1>4, <1>5 DEF MarkRead
<1>8. TicketsFit(tickets')
  BY <1>1, <1>6, <1>7 DEF TicketsFit
<1> QED
  BY <1>8 DEF MarkRead, DeskInv, moneyVars, configVars

LEMMA DaysPassKeeps == ASSUME DeskInv, DaysPass PROVE DeskInv'
<1>1. SubsFit(subs) /\ TicketsFit(tickets)
  BY DEF DeskInv
<1>2. ASSUME NEW i \in DOMAIN subs
      PROVE  [subs[i] EXCEPT !.late = TRUE] \in Bought /\ subs'[i].status = subs[i].status
  <2>1. PICK x \in Bought : x = subs[i]
    BY <1>1, RowIsBought
  <2>2. subs'[i] = [x EXCEPT !.late = TRUE]
    BY <2>1 DEF DaysPass
  <2> QED
    BY <2>1, <2>2, RowChanges
<1>3. DOMAIN subs' = DOMAIN subs /\ subs' \in Seq(Bought)
  <2>1. Len(subs) \in Nat /\ DOMAIN subs = 1 .. Len(subs)
    BY <1>1 DEF SubsFit
  <2> QED
    BY <1>2, <2>1 DEF DaysPass
<1>4. SubsFit(subs')
  BY <1>1, <1>2, <1>3 DEF SubsFit, OneActiveIn
<1>5. ASSUME NEW i \in DOMAIN tickets
      PROVE  tickets'[i] \in Ticket /\ (tickets'[i].read <=> tickets'[i].owner \in tickets'[i].by)
  <2>1. PICK x : x = tickets[i]
    OBVIOUS
  <2>2. x \in Ticket /\ (x.read <=> x.owner \in x.by)
    BY <1>1, <2>1 DEF TicketsFit
  <2>3. PICK y : y = [x EXCEPT !.late = TRUE]
    OBVIOUS
  <2>4. y \in Ticket /\ y.owner = x.owner /\ y.by = x.by /\ (y.read <=> x.read)
    BY <2>2, <2>3 DEF Ticket
  <2>5. tickets'[i] = y
    BY <2>1, <2>3 DEF DaysPass
  <2> QED
    BY <2>2, <2>4, <2>5
<1>6. DOMAIN tickets' = DOMAIN tickets
  BY DEF DaysPass
<1>7. TicketsFit(tickets')
  BY <1>5, <1>6 DEF TicketsFit
<1> QED
  BY <1>4, <1>7 DEF DaysPass, DeskInv, moneyVars, configVars

LEMMA DeskStep == DeskInv /\ [DeskNext]_deskVars => DeskInv'
<1> SUFFICES ASSUME DeskInv, [DeskNext]_deskVars PROVE DeskInv'
  OBVIOUS
<1>1. CASE UNCHANGED deskVars
  BY <1>1 DEF deskVars, DeskInv
<1>2. CASE RequestPurchase \/ RequestTopup \/ RequestRefund \/ RequestUpgrade
  BY <1>2, NotifyKeeps DEF RequestPurchase, RequestTopup, RequestRefund, RequestUpgrade, DeskInv
<1>3. CASE ClearNotifications \/ PurgeExpired
  <2>1. TicketsFit(tickets)
    BY DEF DeskInv
  <2>2. TicketsFit(tickets')
    <3>1. DOMAIN tickets' \subseteq DOMAIN tickets /\ \A i \in DOMAIN tickets' : tickets'[i] = tickets[i]
      BY <1>3 DEF ClearNotifications, PurgeExpired
    <3> QED
      BY <2>1, <3>1 DEF TicketsFit
  <2> QED
    BY <1>3, <2>2 DEF ClearNotifications, PurgeExpired, DeskInv, moneyVars, configVars
<1>4. CASE SetBillingPolicy \/ SetTopupPacks
  BY <1>4 DEF SetBillingPolicy, SetTopupPacks, DeskInv, moneyVars
<1> QED
  BY <1>1, <1>2, <1>3, <1>4, SpendKeeps, ApproveTopupKeeps, ApproveRefundKeeps, CreateKeeps,
     MarkReadKeeps, DaysPassKeeps DEF DeskNext

(* However requests, approvals and purchases interleave: the balance is    *)
(* what was granted less what was used, at most one subscription is active,*)
(* usage never counts less than consumption, and a ticket is off the first *)
(* administrator's list exactly when he put it aside himself               *)
(* (mark_notifications_read touches the rows of the one who approves).     *)
THEOREM DeskCorrect == DeskSpec => []RequestsAreSettled
<1>1. DeskInv => RequestsAreSettled
  <2> SUFFICES ASSUME DeskInv PROVE RequestsAreSettled
    OBVIOUS
  <2>1. Cardinality(ActiveRows) <= 1
    <3>1. CASE ~Subscribed
      <4>1. ActiveRows = {}
        BY <3>1 DEF Subscribed
      <4> QED
        BY <4>1, FS_EmptySet
    <3>2. CASE Subscribed
      <4>1. PICK r : ActiveRows = {r}
        BY <3>2, CurrentIsActive
      <4> QED
        BY <4>1, FS_Singleton
    <3> QED
      BY <3>1, <3>2
  <2>2. credits = granted.plans + granted.topups - granted.spent - granted.expired - granted.revoked
    BY DEF DeskInv, MoneyFits, Remains
  <2> QED
    BY <2>1, <2>2 DEF DeskInv, MoneyFits, TicketsFit, RequestsAreSettled
<1> QED
  BY <1>1, InitialDesk, DeskStep, PTL DEF DeskSpec
=============================================================================
