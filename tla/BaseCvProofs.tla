---------------------------- MODULE BaseCvProofs ----------------------------
(***************************************************************************)
(* What holds of the CVs of a user for any number of requests, CVs,         *)
(* changes and restarts.  Requests may overlap in any way; SerialKeepsMaxTwo*)
(* and ActiveBaseSurvives speak of histories without such a race, and       *)
(* GenerationHeals of a generation that nothing overlapped, whatever races  *)
(* came before it.                                                          *)
(*                                                                         *)
(* The invariant CvInv says, for a request on its own, that what its        *)
(* session has loaded is still what the table holds (Sessions): only then   *)
(* do the writes by primary key do what the code decided on.  Apart is why  *)
(* a request on its own stays so, Few that a demotion leaves no base        *)
(* behind, Compiled that a listed CV with a path has its file.              *)
(***************************************************************************)
EXTENDS BaseCv, FiniteSetTheorems, TLAPS

(* Where the requests are: what they loaded exists, and there is room for  *)
(* what is being generated.                                                *)
RequestsFit ==
  /\ pc \in [Requests -> Places] /\ target \in [Requests -> 0 .. created]
  /\ DOMAIN loaded = Requests /\ \A r \in Requests : DOMAIN loaded[r] \subseteq 1 .. created
  /\ lock = NoRequest \/ (lock \in Requests /\ pc[lock] \in Holder)
  /\ shared \subseteq InFlight /\ raced \in BOOLEAN
  /\ \A r \in Requests : pc[r] = "recompiling" => target[r] # 0
  /\ created + Cardinality(Generating) <= MaxCvs

(* What is compiled was inserted.                                          *)
TablesFit ==
  /\ created \in 0 .. MaxCvs /\ changes \in 0 .. MaxChanges
  /\ DOMAIN rows \subseteq 1 .. created /\ \A c \in DOMAIN rows : rows[c] \in Row
  /\ files \subseteq 1 .. created
  /\ task \in [Cvs -> {"none", "compiling", "written", "found", "done"}]
  /\ \A c \in Cvs : task[c] # "none" => c <= created
  /\ crashed \in BOOLEAN

Typed == RequestsFit /\ TablesFit

(* Whoever is in flight with another one is shared.                        *)
Apart ==
  /\ \A r, s \in InFlight : r # s => r \in shared
  /\ ~raced => shared = {}

OnItsOwn(r) == r \in InFlight /\ r \notin shared

(* What a request that nothing overlapped has loaded is what there is.     *)
UpToDate(r) == \A c \in DOMAIN loaded[r] : c \in DOMAIN rows /\ loaded[r][c].status = rows[c].status

Coherent(r) ==
  /\ pc[r] \in {"bases loaded", "previous loaded", "active loaded", "victim loaded",
                "promotion loaded"} => UpToDate(r)
  /\ pc[r] = "bases loaded" => DOMAIN loaded[r] = Bases
  /\ pc[r] = "demoted" =>
       WithStatus("active") = {} /\ WithStatus("obsolete") = LoadedAs(r, "active")
  /\ pc[r] \in {"previous loaded", "victim loaded"} => DOMAIN loaded[r] = {target[r]}
  /\ pc[r] \in {"previous loaded", "active loaded"} => target[r] \in WithStatus("obsolete")
  /\ pc[r] = "active loaded" =>
       DOMAIN loaded[r] = {target[r]} \union Oldest(WithStatus("active"))
  /\ pc[r] = "promotion loaded" =>
       /\ target[r] \in WithStatus("active")
       /\ DOMAIN loaded[r] = {target[r]} \union Oldest(WithStatus("obsolete"))

Sessions == \A r \in Requests : OnItsOwn(r) => Coherent(r)

Single(S) == \A c, d \in S : c = d
Few == ~raced => Single(WithStatus("active")) /\ Single(WithStatus("obsolete"))

(* What a compilation has written stays as long as its row is listed.      *)
Compiled ==
  ~raced /\ ~crashed =>
    \A c \in DOMAIN rows :
      rows[c].status # "hidden" /\ (rows[c].pdf \/ task[c] \in {"written", "found"}) => c \in files

CvInv == Typed /\ Apart /\ Sessions /\ Few /\ ActiveBaseSurvives /\ Compiled

LEMMA InitialCvs == Init => CvInv
<1> SUFFICES ASSUME Init PROVE CvInv
  OBVIOUS
<1>1. DOMAIN rows = {} /\ \A r \in Requests : pc[r] = "idle" /\ DOMAIN loaded[r] = {}
  BY DEF Init
<1>2. InFlight = {} /\ Generating = {} /\ WithStatus("active") = {} /\ WithStatus("obsolete") = {}
  BY <1>1 DEF InFlight, Generating, WithStatus
<1>3. RequestsFit
  <2>1. Cardinality(Generating) = 0
    BY <1>2, FS_EmptySet
  <2>2. created + Cardinality(Generating) <= MaxCvs
    BY <2>1, BaseCvAssumption DEF Init
  <2>3. pc \in [Requests -> Places] /\ target \in [Requests -> 0 .. created] /\ DOMAIN loaded = Requests
    BY DEF Init, Places
  <2>4. \A r \in Requests : DOMAIN loaded[r] \subseteq 1 .. created
    BY <1>1
  <2>5. lock = NoRequest /\ shared \subseteq InFlight /\ raced \in BOOLEAN
    BY DEF Init
  <2> QED
    BY <1>1, <2>2, <2>3, <2>4, <2>5 DEF RequestsFit
<1>4. TablesFit
  <2>1. created \in 0 .. MaxCvs /\ changes \in 0 .. MaxChanges
    BY BaseCvAssumption DEF Init
  <2>2. task \in [Cvs -> {"none", "compiling", "written", "found", "done"}] /\ \A c \in Cvs : task[c] = "none"
    BY DEF Init
  <2>3. files \subseteq 1 .. created /\ crashed \in BOOLEAN
    BY DEF Init
  <2> QED
    BY <1>1, <2>1, <2>2, <2>3 DEF TablesFit
<1>5. Apart /\ Sessions
  BY <1>2 DEF Init, Apart, Sessions, OnItsOwn
<1>6. Few /\ ActiveBaseSurvives /\ Compiled
  BY <1>1, <1>2 DEF Few, Single, ActiveBaseSurvives, Bases, Compiled
<1> QED
  BY <1>3, <1>4, <1>5, <1>6 DEF CvInv, Typed

LEMMA CreatedIsNat == TablesFit => created \in Nat /\ MaxCvs \in Nat
BY BaseCvAssumption DEF TablesFit

LEMMA GeneratingCounts ==
  /\ IsFiniteSet(Generating) /\ Cardinality(Generating) \in Nat
  /\ \A S : S \subseteq Generating => Cardinality(S) \in Nat /\ Cardinality(S) <= Cardinality(Generating)
  /\ \A r : /\ r \in Generating => Cardinality(Generating \ {r}) = Cardinality(Generating) - 1
            /\ r \notin Generating => Cardinality(Generating \union {r}) = Cardinality(Generating) + 1
<1>1. IsFiniteSet(Generating)
  <2>1. Generating \subseteq Requests
    BY DEF Generating
  <2> QED
    BY <2>1, BaseCvAssumption, FS_Subset
<1>2. \A S : S \subseteq Generating => Cardinality(S) \in Nat /\ Cardinality(S) <= Cardinality(Generating)
  BY <1>1, FS_Subset, FS_CardinalityType
<1>3. \A r : r \in Generating => Cardinality(Generating \ {r}) = Cardinality(Generating) - 1
  BY <1>1, FS_RemoveElement
<1>4. \A r : r \notin Generating => Cardinality(Generating \union {r}) = Cardinality(Generating) + 1
  BY <1>1, FS_AddElement
<1> QED
  BY <1>1, <1>2, <1>3, <1>4, FS_CardinalityType

(* A request ends: of the others, each one was shared with it.             *)
LEMMA EndsFits ==
  ASSUME Typed, Apart, NEW r \in InFlight, Ends(r),
         created' = created \/ (created' = created + 1 /\ r \in Generating)
  PROVE  RequestsFit' /\ Apart' /\ Sessions' /\ (~raced' => ~raced)
<1> USE DEF Typed
<1>1. r \in Requests /\ created \in Nat /\ created' \in Nat /\ created <= created'
  BY CreatedIsNat DEF InFlight
<1>2. /\ pc' = [pc EXCEPT ![r] = "idle"] /\ loaded' = [loaded EXCEPT ![r] = <<>>]
      /\ target' = [target EXCEPT ![r] = 0] /\ lock' = (IF lock = r THEN NoRequest ELSE lock)
      /\ shared' = shared \ {r} /\ raced' = raced
  BY DEF Ends, Released
<1>3. /\ pc' \in [Requests -> Places] /\ pc'[r] = "idle"
      /\ \A s \in Requests : s # r => pc'[s] = pc[s]
  BY <1>1, <1>2 DEF RequestsFit, Places
<1>4. InFlight' = InFlight \ {r} /\ Generating' = Generating \ {r}
  BY <1>1, <1>3 DEF InFlight, Generating
<1>5. created' + Cardinality(Generating') <= MaxCvs
  <2>1. created + Cardinality(Generating) <= MaxCvs /\ MaxCvs \in Nat /\ Cardinality(Generating) \in Nat
    BY GeneratingCounts, BaseCvAssumption DEF RequestsFit
  <2>2. /\ Cardinality(Generating') \in Nat /\ Cardinality(Generating') <= Cardinality(Generating)
        /\ r \in Generating => Cardinality(Generating') = Cardinality(Generating) - 1
    <3>1. Generating \ {r} \subseteq Generating
      OBVIOUS
    <3> QED
      BY <1>4, <3>1, GeneratingCounts
  <2> QED
    BY <1>1, <2>1, <2>2
<1>6. RequestsFit'
  <2>1. target' \in [Requests -> 0 .. created']
    BY <1>1, <1>2 DEF RequestsFit
  <2>2. DOMAIN loaded' = Requests /\ \A s \in Requests : DOMAIN loaded'[s] \subseteq 1 .. created'
    <3>1. DOMAIN <<>> = {}
      OBVIOUS
    <3> QED
      BY <1>1, <1>2, <3>1 DEF RequestsFit
  <2>3. lock' = NoRequest \/ (lock' \in Requests /\ pc'[lock'] \in Holder)
    BY <1>2, <1>3 DEF RequestsFit
  <2>4. shared' \subseteq InFlight' /\ raced' \in BOOLEAN
    BY <1>2, <1>4 DEF RequestsFit
  <2>5. \A s \in Requests : pc'[s] = "recompiling" => target'[s] # 0
    BY <1>2, <1>3 DEF RequestsFit
  <2> QED
    BY <1>3, <1>5, <2>1, <2>2, <2>3, <2>4, <2>5 DEF RequestsFit
<1>7. Apart'
  BY <1>2, <1>4 DEF Apart
<1>8. \A s \in Requests : ~OnItsOwn(s)'
  BY <1>2, <1>4 DEF OnItsOwn, Apart
<1> QED
  BY <1>2, <1>6, <1>7, <1>8 DEF Sessions

(* It generates, or has loaded the row it names.                           *)
Begins(r, place) ==
  \/ /\ place \in {"generating base", "tailoring"} /\ lock' \in {NoRequest, r}
     /\ created + Cardinality(Generating) < MaxCvs /\ UNCHANGED <<loaded, target>>
  \/ /\ place \notin Holder /\ lock' = lock
     /\ \E c \in DOMAIN rows : /\ target' = [target EXCEPT ![r] = c]
                               /\ loaded' = [loaded EXCEPT ![r] = Load({c})]

(* A request starts: alone, or shared with whoever is in flight.           *)
LEMMA StartsFits ==
  ASSUME Typed, Apart, NEW r \in Requests, pc[r] = "idle", Starts(r), created' = created,
         NEW place \in Places \ {"idle"}, pc' = [pc EXCEPT ![r] = place],
         Begins(r, place)
  PROVE  /\ RequestsFit' /\ Apart' /\ (~raced' => ~raced)
         /\ \A s \in Requests : OnItsOwn(s)' => s = r
<1> USE DEF Typed
<1>1. created \in Nat
  BY CreatedIsNat
<1>2. /\ shared' = (shared \ {r}) \union (IF InFlight = {} THEN {} ELSE InFlight \union {r})
      /\ raced' = (raced \/ InFlight # {})
  BY DEF Starts
<1>3. /\ pc' \in [Requests -> Places] /\ pc'[r] = place
      /\ \A s \in Requests : s # r => pc'[s] = pc[s]
  BY DEF RequestsFit
<1>4. InFlight' = InFlight \union {r} /\ r \notin InFlight
  BY <1>3 DEF InFlight
<1>5. Generating' = IF place \in Holder THEN Generating \union {r} ELSE Generating
  BY <1>3 DEF Generating, Holder
<1>6. created' + Cardinality(Generating') <= MaxCvs
  <2>1. created + Cardinality(Generating) <= MaxCvs /\ MaxCvs \in Nat /\ Cardinality(Generating) \in Nat
    BY GeneratingCounts, BaseCvAssumption DEF RequestsFit
  <2>2. CASE place \in {"generating base", "tailoring"}
    <3>1. r \notin Generating
      BY DEF Generating
    <3>2. Cardinality(Generating') = Cardinality(Generating) + 1
      BY <1>5, <2>2, <3>1, GeneratingCounts DEF Holder
    <3>3. created + Cardinality(Generating) < MaxCvs
      BY <2>2 DEF Holder, Begins
    <3> QED
      BY <1>1, <2>1, <3>2, <3>3
  <2>3. CASE place \notin Holder
    BY <1>1, <1>5, <2>1, <2>3
  <2> QED
    BY <2>2, <2>3 DEF Begins
<1>7. RequestsFit'
  <2>1. /\ target' \in [Requests -> 0 .. created'] /\ DOMAIN loaded' = Requests
        /\ \A s \in Requests : DOMAIN loaded'[s] \subseteq 1 .. created'
        /\ \A s \in Requests : pc'[s] = "recompiling" => target'[s] # 0
    <3>1. CASE place \in {"generating base", "tailoring"}
      BY <1>1, <1>3, <3>1 DEF RequestsFit, Holder, Begins
    <3>2. CASE place \notin Holder
      <4>1. PICK c \in DOMAIN rows : target' = [target EXCEPT ![r] = c]
                                     /\ loaded' = [loaded EXCEPT ![r] = Load({c})]
        BY <3>2 DEF Holder, Begins
      <4>2. c \in 1 .. created /\ DOMAIN Load({c}) = {c}
        BY DEF TablesFit, Load
      <4>3. c \in 0 .. created' /\ c # 0
        BY <1>1, <4>2
      <4>4. target' \in [Requests -> 0 .. created']
        BY <4>1, <4>3 DEF RequestsFit
      <4>5. DOMAIN loaded' = Requests /\ \A s \in Requests : DOMAIN loaded'[s] \subseteq 1 .. created'
        BY <4>1, <4>2 DEF RequestsFit
      <4>6. \A s \in Requests : pc'[s] = "recompiling" => target'[s] # 0
        BY <1>3, <4>1, <4>3 DEF RequestsFit
      <4> QED
        BY <4>4, <4>5, <4>6
    <3> QED
      BY <3>1, <3>2 DEF Begins
  <2>2. lock' = NoRequest \/ (lock' \in Requests /\ pc'[lock'] \in Holder)
    <3>1. CASE lock' = r
      BY <1>3, <3>1 DEF RequestsFit, Holder, Begins
    <3>2. CASE lock' # r
      BY <1>3, <3>2 DEF RequestsFit, Holder, Begins
    <3> QED
      BY <3>1, <3>2
  <2>3. shared' \subseteq InFlight' /\ raced' \in BOOLEAN
    BY <1>2, <1>4 DEF RequestsFit
  <2> QED
    BY <1>3, <1>6, <2>1, <2>2, <2>3 DEF RequestsFit
<1>8. Apart'
  BY <1>2, <1>4 DEF Apart
<1>9. \A s \in Requests : OnItsOwn(s)' => s = r
  BY <1>2, <1>4 DEF OnItsOwn
<1> QED
  BY <1>2, <1>7, <1>8, <1>9

(* A request goes on; only it may be on its own.                           *)
LEMMA MovesFits ==
  ASSUME Typed, Apart, NEW r \in InFlight, UNCHANGED <<created, target, shared, raced>>,
         NEW place \in Places \ {"idle", "recompiling"}, pc' = [pc EXCEPT ![r] = place],
         place \in Holder <=> pc[r] \in Holder,
         lock' = lock \/ lock' = Released(r),
         NEW S, S \subseteq DOMAIN rows,
         loaded' = loaded \/ loaded' = [loaded EXCEPT ![r] = Load(S)]
           \/ loaded' = [loaded EXCEPT ![r] = AlsoLoad(r, S)]
  PROVE  /\ RequestsFit' /\ Apart'
         /\ \A s \in Requests : OnItsOwn(s)' => s = r /\ OnItsOwn(r)
<1> USE DEF Typed
<1>1. created \in Nat /\ r \in Requests /\ pc[r] # "idle"
  BY CreatedIsNat DEF InFlight
<1>2. /\ pc' \in [Requests -> Places] /\ pc'[r] = place
      /\ \A s \in Requests : s # r => pc'[s] = pc[s]
  BY <1>1 DEF RequestsFit
<1>3. InFlight' = InFlight
  BY <1>1, <1>2 DEF InFlight
<1>4. Generating' = Generating
  BY <1>1, <1>2 DEF Generating, Holder
<1>5. RequestsFit'
  <2>1. DOMAIN loaded' = Requests /\ \A s \in Requests : DOMAIN loaded'[s] \subseteq 1 .. created
    <3>1. S \subseteq 1 .. created /\ DOMAIN Load(S) = S /\ DOMAIN AlsoLoad(r, S) = DOMAIN loaded[r] \union S
      BY DEF TablesFit, Load, AlsoLoad
    <3>2. DOMAIN Load(S) \subseteq 1 .. created /\ DOMAIN AlsoLoad(r, S) \subseteq 1 .. created
      BY <1>1, <3>1 DEF RequestsFit
    <3> QED
      BY <1>1, <3>2 DEF RequestsFit
  <2>2. lock' = NoRequest \/ (lock' \in Requests /\ pc'[lock'] \in Holder)
    BY <1>1, <1>2 DEF RequestsFit, Released
  <2>3. \A s \in Requests : pc'[s] = "recompiling" => target'[s] # 0
    BY <1>2 DEF RequestsFit
  <2> QED
    BY <1>2, <1>3, <1>4, <2>1, <2>2, <2>3 DEF RequestsFit
<1>6. Apart'
  BY <1>3 DEF Apart
<1>7. \A s \in Requests : OnItsOwn(s)' => s = r /\ OnItsOwn(r)
  BY <1>3 DEF OnItsOwn, Apart
<1> QED
  BY <1>5, <1>6, <1>7

(* A flush changes nothing but the given statuses.                         *)
Rewrites(w, status, deleted) ==
  /\ DOMAIN w = DOMAIN rows \ deleted
  /\ \A c \in DOMAIN w :
       /\ w[c] \in Row /\ w[c].pdf = rows[c].pdf
       /\ w[c].status = IF c \in DOMAIN status THEN status[c] ELSE rows[c].status

LEMMA WrittenFits ==
  ASSUME TablesFit, NEW status, NEW deleted, \A c \in DOMAIN status : status[c] \in Statuses
  PROVE  Rewrites(Written(status, deleted), status, deleted)
<1> DEFINE w == Written(status, deleted)
<1>1. DOMAIN w = DOMAIN rows \ deleted
  BY DEF Written
<1>2. ASSUME NEW c \in DOMAIN w
      PROVE  /\ w[c] \in Row /\ w[c].pdf = rows[c].pdf
             /\ w[c].status = IF c \in DOMAIN status THEN status[c] ELSE rows[c].status
  <2>1. c \in DOMAIN rows \ deleted /\ rows[c] \in Row
    BY <1>1 DEF TablesFit
  <2>2. w[c] = IF c \in DOMAIN status THEN [rows[c] EXCEPT !.status = status[c]] ELSE rows[c]
    BY <2>1 DEF Written
  <2>3. \A x \in Statuses : [rows[c] EXCEPT !.status = x] \in Row
          /\ [rows[c] EXCEPT !.status = x].pdf = rows[c].pdf /\ [rows[c] EXCEPT !.status = x].status = x
    BY <2>1 DEF Row
  <2> QED
    BY <2>1, <2>2, <2>3
<1> QED
  BY <1>1, <1>2 DEF Rewrites

LEMMA OldestOfSingle == ASSUME NEW S \in SUBSET Nat, Single(S) PROVE Oldest(S) = S
<1>1. \A c \in S : c <= c
  OBVIOUS
<1>2. \A c, d \in S : c <= d
  BY <1>1 DEF Single
<1> QED
  BY <1>2 DEF Oldest

LEMMA FoundRows == ASSUME NEW S, S \subseteq DOMAIN rows PROVE ~MissesItsRow(S)
<1>1. CASE S = {}
  BY <1>1, FS_EmptySet DEF MissesItsRow
<1>2. CASE S # {}
  BY <1>2 DEF MissesItsRow
<1> QED
  BY <1>1, <1>2

(* What follows from the invariant when no two requests ever overlapped.   *)
LEMMA Unraced ==
  ASSUME CvInv, ~raced
  PROVE  /\ \A r \in InFlight : OnItsOwn(r) /\ Coherent(r) /\ r \in Requests
         /\ \A r, s \in InFlight : r = s
         /\ Single(WithStatus("active")) /\ Single(WithStatus("obsolete"))
         /\ WithStatus("active") \in SUBSET Nat /\ WithStatus("obsolete") \in SUBSET Nat
<1>1. \A r \in InFlight : OnItsOwn(r) /\ Coherent(r) /\ r \in Requests
  BY DEF CvInv, Apart, Sessions, OnItsOwn, InFlight
<1>2. \A r, s \in InFlight : r = s
  BY DEF CvInv, Apart
<1>3. DOMAIN rows \subseteq Nat
  BY CreatedIsNat DEF CvInv, Typed, TablesFit
<1> QED
  BY <1>1, <1>2, <1>3 DEF CvInv, Few, WithStatus

(* Where the rows stay and no demoted request goes on, nothing changes for *)
(* the statuses.                                                           *)
LEMMA RowsStay ==
  ASSUME CvInv, DOMAIN rows' = DOMAIN rows, \A c \in DOMAIN rows : rows'[c].status = rows[c].status,
         ~raced' => ~raced, crashed' = crashed,
         \A s \in Requests : pc[s] = "demoted" => pc'[s] = "demoted"
  PROVE  Few' /\ ActiveBaseSurvives'
<1>1. WithStatus("active")' = WithStatus("active") /\ WithStatus("obsolete")' = WithStatus("obsolete")
  BY DEF WithStatus
<1>2. Bases' = Bases
  BY <1>1 DEF Bases
<1> QED
  BY <1>1, <1>2 DEF CvInv, Few, ActiveBaseSurvives

LEMMA TablesStay ==
  ASSUME CvInv, UNCHANGED <<rows, task, crashed, created>>, files \subseteq files',
         files' \subseteq 1 .. created, changes' \in 0 .. MaxChanges, ~raced' => ~raced
  PROVE  TablesFit' /\ Compiled'
<1>1. TablesFit'
  BY DEF CvInv, Typed, TablesFit
<1>2. Compiled'
  BY DEF CvInv, Compiled
<1> QED
  BY <1>1, <1>2

(* Steps that only start a request or load rows.                           *)
LEMMA QuietFits ==
  ASSUME CvInv, UNCHANGED <<rows, files, task, crashed, created>>,
         changes' = changes \/ (changes < MaxChanges /\ changes' = changes + 1), ~raced' => ~raced,
         \A s \in Requests : pc[s] = "demoted" => pc'[s] = "demoted",
         RequestsFit', Apart', Sessions'
  PROVE  CvInv'
<1>1. changes' \in 0 .. MaxChanges /\ files' \subseteq 1 .. created
  BY BaseCvAssumption DEF CvInv, Typed, TablesFit
<1>2. TablesFit' /\ Compiled'
  BY <1>1, TablesStay
<1>3. Few' /\ ActiveBaseSurvives'
  BY RowsStay
<1> QED
  BY <1>2, <1>3 DEF CvInv, Typed

(* A request has loaded what was there.                                    *)
LEMMA LoadedNow ==
  ASSUME NEW S, S \subseteq DOMAIN rows
  PROVE  DOMAIN Load(S) = S /\ \A c \in S : Load(S)[c] = rows[c]
BY DEF Load

LEMMA GateFits ==
  ASSUME CvInv, NEW r \in Requests, NEW place \in {"generating base", "tailoring"}, Gate(r, place)
  PROVE  CvInv'
<1>1. /\ pc[r] = "idle" /\ pc' = [pc EXCEPT ![r] = place] /\ Starts(r)
      /\ created + Cardinality(Generating) < MaxCvs
      /\ UNCHANGED <<changes, rows, created, loaded, target, files, task, crashed>>
  BY DEF Gate, At
<1>2. lock' \in {NoRequest, r}
  BY DEF Gate
<1>3. Begins(r, place) /\ place \in Places \ {"idle"}
  BY <1>1, <1>2 DEF Begins, Places
<1>4. /\ RequestsFit' /\ Apart' /\ (~raced' => ~raced) /\ \A s \in Requests : OnItsOwn(s)' => s = r
  BY <1>1, <1>3, StartsFits DEF CvInv
<1>5. pc'[r] = place /\ \A s \in Requests : pc[s] = "demoted" => pc'[s] = "demoted"
  BY <1>1 DEF CvInv, Typed, RequestsFit
<1>6. Coherent(r)'
  BY <1>5 DEF Coherent
<1>7. Sessions'
  BY <1>4, <1>6 DEF Sessions
<1> QED
  BY <1>1, <1>4, <1>5, <1>7, QuietFits

(* Recover, Delete and Download load the row they name.                    *)
LEMMA NamingFits ==
  ASSUME CvInv, NEW r \in Requests, NEW c \in DOMAIN rows,
         NEW place \in {"previous loaded", "victim loaded", "recompiling"},
         pc[r] = "idle", pc' = [pc EXCEPT ![r] = place], Starts(r),
         target' = [target EXCEPT ![r] = c], loaded' = [loaded EXCEPT ![r] = Load({c})],
         changes < MaxChanges, changes' = changes + 1,
         UNCHANGED <<rows, created, lock, files, task, crashed>>,
         place = "previous loaded" => c \in WithStatus("obsolete")
  PROVE  CvInv'
<1>1. Begins(r, place) /\ place \in Places \ {"idle"}
  BY DEF Begins, Places, Holder
<1>2. /\ RequestsFit' /\ Apart' /\ (~raced' => ~raced) /\ \A s \in Requests : OnItsOwn(s)' => s = r
  BY <1>1, StartsFits DEF CvInv
<1>3. /\ pc'[r] = place /\ target'[r] = c /\ loaded'[r] = Load({c})
      /\ \A s \in Requests : pc[s] = "demoted" => pc'[s] = "demoted"
  BY DEF CvInv, Typed, RequestsFit
<1>4. DOMAIN loaded'[r] = {c} /\ loaded'[r][c] = rows[c]
  BY <1>3, LoadedNow
<1>5. UpToDate(r)'
  BY <1>4 DEF UpToDate
<1>6. place = "previous loaded" => c \in WithStatus("obsolete")'
  BY DEF WithStatus
<1>7. Coherent(r)'
  BY <1>3, <1>4, <1>5, <1>6 DEF Coherent
<1>8. Sessions'
  BY <1>2, <1>7 DEF Sessions
<1> QED
  BY <1>2, <1>3, <1>8, QuietFits

(* _user_base_cvs loads the bases of the moment.                           *)
LEMMA SelectBasesFits == ASSUME CvInv, NEW r \in Requests, SelectBases(r) PROVE CvInv'
<1>1. /\ pc[r] = "generating base" /\ pc' = [pc EXCEPT ![r] = "bases loaded"]
      /\ loaded' = [loaded EXCEPT ![r] = Load(Bases)]
      /\ UNCHANGED <<changes, rows, created, target, lock, files, task, shared, raced, crashed>>
  BY DEF SelectBases, At
<1>2. r \in InFlight /\ "bases loaded" \in Places \ {"idle", "recompiling"} /\ Bases \subseteq DOMAIN rows
  BY <1>1 DEF InFlight, Places, Bases, WithStatus
<1>3. RequestsFit' /\ Apart' /\ \A s \in Requests : OnItsOwn(s)' => s = r /\ OnItsOwn(r)
  BY <1>1, <1>2, MovesFits DEF CvInv, Holder
<1>4. /\ pc'[r] = "bases loaded" /\ loaded'[r] = Load(Bases)
      /\ \A s \in Requests : pc[s] = "demoted" => pc'[s] = "demoted"
  BY <1>1 DEF CvInv, Typed, RequestsFit
<1>5. DOMAIN Load(Bases) = Bases /\ \A c \in Bases : Load(Bases)[c] = rows[c]
  BY <1>2, LoadedNow
<1>6. DOMAIN loaded'[r] = Bases /\ UpToDate(r)' /\ Bases' = Bases
  BY <1>1, <1>2, <1>4, <1>5 DEF UpToDate, Bases, WithStatus
<1>7. Sessions'
  BY <1>3, <1>4, <1>6 DEF Sessions, Coherent
<1> QED
  BY <1>1, <1>3, <1>4, <1>7, QuietFits

(* SelectActive and SelectObsolete add what they find to what was loaded.  *)
AlsoSelects(r, place, S) ==
  /\ \/ pc[r] = "previous loaded" /\ place = "active loaded" /\ S = Oldest(WithStatus("active"))
     \/ /\ pc[r] = "victim loaded" /\ place = "promotion loaded" /\ target[r] \in LoadedAs(r, "active")
        /\ S = Oldest(WithStatus("obsolete"))
  /\ pc' = [pc EXCEPT ![r] = place] /\ loaded' = [loaded EXCEPT ![r] = AlsoLoad(r, S)]
  /\ UNCHANGED <<changes, rows, created, target, lock, files, task, shared, raced, crashed>>

LEMMA AlsoSelectsFits ==
  ASSUME CvInv, NEW r \in Requests, NEW place, NEW S, AlsoSelects(r, place, S)
  PROVE  CvInv'
<1>1. /\ pc' = [pc EXCEPT ![r] = place] /\ loaded' = [loaded EXCEPT ![r] = AlsoLoad(r, S)]
      /\ UNCHANGED <<changes, rows, created, target, lock, files, task, shared, raced, crashed>>
      /\ pc[r] \in {"previous loaded", "victim loaded"} /\ place \in {"active loaded", "promotion loaded"}
  BY DEF AlsoSelects
<1>2. S \subseteq DOMAIN rows
  BY DEF AlsoSelects, Oldest, WithStatus
<1>3. r \in InFlight /\ place \in Places \ {"idle", "recompiling"} /\ place \notin Holder /\ pc[r] \notin Holder
  BY <1>1 DEF InFlight, Places, Holder
<1>4. RequestsFit' /\ Apart' /\ \A s \in Requests : OnItsOwn(s)' => s = r /\ OnItsOwn(r)
  BY <1>1, <1>2, <1>3, MovesFits DEF CvInv
<1>5. /\ pc'[r] = place /\ loaded'[r] = AlsoLoad(r, S)
      /\ \A s \in Requests : pc[s] = "demoted" => pc'[s] = "demoted"
  BY <1>1 DEF CvInv, Typed, RequestsFit
<1>6. ASSUME OnItsOwn(r)' PROVE Coherent(r)'
  <2>1. Coherent(r)
    BY <1>4, <1>6 DEF CvInv, Sessions
  <2>2. UpToDate(r) /\ DOMAIN loaded[r] = {target[r]}
    BY <1>1, <2>1 DEF Coherent
  <2>3. /\ DOMAIN loaded'[r] = {target[r]} \union S
        /\ \A c \in DOMAIN loaded'[r] : loaded'[r][c] = IF c = target[r] THEN loaded[r][c] ELSE rows[c]
    BY <1>5, <2>2 DEF AlsoLoad
  <2>4. UpToDate(r)'
    BY <1>1, <1>2, <2>2, <2>3 DEF UpToDate
  <2>5. \A s : WithStatus(s)' = WithStatus(s)
    BY <1>1 DEF WithStatus
  <2>6. CASE place = "active loaded"
    <3>1. target[r] \in WithStatus("obsolete") /\ S = Oldest(WithStatus("active"))
      BY <2>1, <2>6 DEF Coherent, AlsoSelects
    <3> QED
      BY <1>1, <1>5, <2>3, <2>4, <2>5, <2>6, <3>1 DEF Coherent, Oldest
  <2>7. CASE place = "promotion loaded"
    <3>1. target[r] \in LoadedAs(r, "active") /\ S = Oldest(WithStatus("obsolete"))
      BY <2>7 DEF AlsoSelects
    <3>2. target[r] \in WithStatus("active")
      BY <2>2, <3>1 DEF LoadedAs, UpToDate, WithStatus
    <3> QED
      BY <1>1, <1>5, <2>3, <2>4, <2>5, <2>7, <3>1, <3>2 DEF Coherent, Oldest
  <2> QED
    BY <1>1, <2>6, <2>7
<1>7. Sessions'
  BY <1>4, <1>6 DEF Sessions
<1> QED
  BY <1>1, <1>4, <1>5, <1>7, QuietFits

LEMMA SelectFits ==
  ASSUME CvInv, NEW r \in Requests, SelectActive(r) \/ SelectObsolete(r) PROVE CvInv'
<1>1. CASE SelectActive(r)
  <2>1. AlsoSelects(r, "active loaded", Oldest(WithStatus("active")))
    BY <1>1 DEF SelectActive, AlsoSelects, At
  <2>2. PICK S : S = Oldest(WithStatus("active"))
    OBVIOUS
  <2>3. AlsoSelects(r, "active loaded", S)
    BY <2>1, <2>2
  <2> QED
    BY <2>3, AlsoSelectsFits
<1>2. CASE SelectObsolete(r)
  <2>1. AlsoSelects(r, "promotion loaded", Oldest(WithStatus("obsolete")))
    BY <1>2 DEF SelectObsolete, AlsoSelects, At
  <2>2. PICK S : S = Oldest(WithStatus("obsolete"))
    OBVIOUS
  <2>3. AlsoSelects(r, "promotion loaded", S)
    BY <2>1, <2>2
  <2> QED
    BY <2>3, AlsoSelectsFits
<1> QED
  BY <1>1, <1>2

(* A request other than one between its two commits has ended.             *)
LEMMA EndsQuietly ==
  ASSUME CvInv, NEW r \in Requests, pc[r] # "idle", pc[r] # "demoted", Ends(r), created' = created
  PROVE  /\ RequestsFit' /\ Apart' /\ Sessions' /\ (~raced' => ~raced) /\ r \in InFlight
         /\ \A s \in Requests : pc[s] = "demoted" => pc'[s] = "demoted"
<1>1. r \in InFlight
  BY DEF InFlight
<1>2. RequestsFit' /\ Apart' /\ Sessions' /\ (~raced' => ~raced)
  BY <1>1, EndsFits DEF CvInv
<1>3. \A s \in Requests : pc[s] = "demoted" => pc'[s] = "demoted"
  BY DEF CvInv, Typed, RequestsFit, Ends
<1> QED
  BY <1>1, <1>2, <1>3

LEMMA GenerationFailsFits == ASSUME CvInv, NEW r \in Requests, GenerationFails(r) PROVE CvInv'
<1>1. /\ pc[r] \in {"generating base", "tailoring"} /\ Ends(r)
      /\ UNCHANGED <<changes, rows, created, files, task, crashed>>
  BY DEF GenerationFails
<1>2. /\ RequestsFit' /\ Apart' /\ Sessions' /\ (~raced' => ~raced)
      /\ \A s \in Requests : pc[s] = "demoted" => pc'[s] = "demoted"
  BY <1>1, EndsQuietly
<1> QED
  BY <1>1, <1>2, QuietFits

(* What the session of a request on its own is about to demote and drop.   *)
LEMMA BasesAsLoaded ==
  ASSUME NEW r, pc[r] = "bases loaded", Coherent(r)
  PROVE  Demoted(r) = WithStatus("active") /\ Replaced(r) = WithStatus("obsolete")
<1>1. UpToDate(r) /\ DOMAIN loaded[r] = Bases
  BY DEF Coherent
<1> QED
  BY <1>1 DEF UpToDate, Bases, WithStatus, Demoted, Replaced, LoadedAs

LEMMA DemoteFits == ASSUME CvInv, NEW r \in Requests, DemotePreviousBases(r) PROVE CvInv'
<1> DEFINE status == [c \in Demoted(r) |-> "obsolete"]
<1>1. /\ pc[r] = "bases loaded" /\ rows' = Written(status, Replaced(r))
      /\ files' = files \ {c \in Replaced(r) : loaded[r][c].pdf}
      /\ lock' = lock \/ lock' = Released(r)
      /\ pc' = [pc EXCEPT ![r] = "demoted"]
      /\ UNCHANGED <<changes, created, loaded, target, task, shared, raced, crashed>>
  BY DEF DemotePreviousBases, At
<1>2. r \in InFlight /\ "demoted" \in Places \ {"idle", "recompiling"} /\ "demoted" \in Holder /\ pc[r] \in Holder
  BY <1>1 DEF InFlight, Places, Holder
<1>3. RequestsFit' /\ Apart' /\ \A s \in Requests : OnItsOwn(s)' => s = r /\ OnItsOwn(r)
  <2>1. {} \subseteq DOMAIN rows
    OBVIOUS
  <2> QED
    BY <1>1, <1>2, <2>1, MovesFits DEF CvInv
<1>4. pc'[r] = "demoted"
  BY <1>1 DEF CvInv, Typed, RequestsFit
<1>5. TablesFit
  BY DEF CvInv, Typed
<1>6. /\ DOMAIN rows' = DOMAIN rows \ Replaced(r)
      /\ \A c \in DOMAIN rows' :
           /\ rows'[c] \in Row /\ rows'[c].pdf = rows[c].pdf
           /\ rows'[c].status = IF c \in Demoted(r) THEN "obsolete" ELSE rows[c].status
  <2>1. PICK st, del : st = status /\ del = Replaced(r)
    OBVIOUS
  <2>2. DOMAIN st = Demoted(r) /\ \A c \in Demoted(r) : st[c] = "obsolete"
    BY <2>1
  <2>3. \A c \in DOMAIN st : st[c] \in Statuses
    BY <2>2 DEF Statuses
  <2>4. Rewrites(Written(st, del), st, del)
    BY <1>5, <2>3, WrittenFits
  <2>5. rows' = Written(st, del)
    BY <1>1, <2>1
  <2> HIDE DEF status
  <2> QED
    BY <2>1, <2>2, <2>4, <2>5 DEF Rewrites
<1>7. TablesFit'
  BY <1>1, <1>5, <1>6 DEF TablesFit
<1>8. ASSUME OnItsOwn(r)
      PROVE  /\ WithStatus("active")' = {} /\ WithStatus("obsolete")' = WithStatus("active")
             /\ Demoted(r) = WithStatus("active") /\ Replaced(r) = WithStatus("obsolete")
  <2>1. Demoted(r) = WithStatus("active") /\ Replaced(r) = WithStatus("obsolete")
    BY <1>1, <1>8, BasesAsLoaded DEF CvInv, Sessions
  <2> QED
    BY <1>6, <2>1 DEF WithStatus
<1>9. Sessions'
  <2>1. ASSUME OnItsOwn(r) PROVE Coherent(r)'
    <3>1. LoadedAs(r, "active")' = Demoted(r)
      BY <1>1 DEF LoadedAs, Demoted
    <3> QED
      BY <1>4, <1>8, <2>1, <3>1 DEF Coherent
  <2> QED
    BY <1>3, <2>1 DEF Sessions
<1>10. ASSUME ~raced' PROVE OnItsOwn(r) /\ ~raced
  BY <1>1, <1>2, <1>10, Unraced
<1>11. Few'
  BY <1>8, <1>10, Unraced DEF Few, Single
<1>12. ActiveBaseSurvives'
  BY <1>4 DEF ActiveBaseSurvives
<1>13. Compiled'
  <2> SUFFICES ASSUME ~raced', ~crashed', NEW c \in DOMAIN rows', rows'[c].status # "hidden",
                      rows'[c].pdf \/ task'[c] \in {"written", "found"}
               PROVE  c \in files'
    BY DEF Compiled
  <2>1. c \in DOMAIN rows /\ c \notin Replaced(r) /\ rows[c].pdf = rows'[c].pdf
    BY <1>6
  <2>2. rows[c].status # "hidden"
    BY <1>6, <1>8, <1>10 DEF WithStatus
  <2>3. c \in files
    BY <1>1, <1>10, <2>1, <2>2 DEF CvInv, Compiled
  <2> QED
    BY <1>1, <2>1, <2>3
<1> QED
  BY <1>3, <1>7, <1>9, <1>11, <1>12, <1>13 DEF CvInv, Typed

LEMMA DemotionFailsFits == ASSUME CvInv, NEW r \in Requests, DemotionFails(r) PROVE CvInv'
<1>1. /\ pc[r] = "bases loaded" /\ MissesItsRow(Demoted(r)) /\ Ends(r)
      /\ files' \subseteq files /\ UNCHANGED <<changes, rows, created, task, crashed>>
  BY DEF DemotionFails
<1>2. /\ RequestsFit' /\ Apart' /\ Sessions' /\ (~raced' => ~raced) /\ r \in InFlight
      /\ \A s \in Requests : pc[s] = "demoted" => pc'[s] = "demoted"
  BY <1>1, EndsQuietly
<1>3. raced
  <2> SUFFICES ASSUME ~raced PROVE FALSE
    OBVIOUS
  <2>1. Demoted(r) \subseteq DOMAIN rows
    BY <1>1, <1>2, Unraced, BasesAsLoaded DEF WithStatus
  <2> QED
    BY <1>1, <2>1, FoundRows
<1>4. TablesFit'
  BY <1>1 DEF CvInv, Typed, TablesFit
<1>5. Few' /\ ActiveBaseSurvives'
  BY <1>1, <1>2, RowsStay
<1>6. Compiled'
  BY <1>2, <1>3 DEF Compiled
<1> QED
  BY <1>2, <1>4, <1>5, <1>6 DEF CvInv, Typed

(* The row that is inserted is the newest, and is being compiled.          *)
LEMMA PersistFits ==
  ASSUME CvInv, NEW r \in Requests, PersistBase(r) \/ PersistTailored(r) PROVE CvInv'
<1>1. PICK status \in {"active", "personalized"} :
        /\ pc[r] = (IF status = "active" THEN "demoted" ELSE "tailoring")
        /\ Insert(status) /\ Ends(r) /\ UNCHANGED <<changes, files, crashed>>
  BY DEF PersistBase, PersistTailored
<1>2. PICK new \in Nat : new = created + 1
  BY CreatedIsNat DEF CvInv, Typed
<1>3. /\ created' = new
      /\ rows' = [c \in DOMAIN rows \union {new} |->
                    IF c = new THEN [status |-> status, pdf |-> FALSE] ELSE rows[c]]
      /\ task' = [task EXCEPT ![new] = "compiling"]
  BY <1>1, <1>2 DEF Insert
<1>4. r \in Generating /\ r \in InFlight
  BY <1>1 DEF Generating, InFlight
<1>5. RequestsFit' /\ Apart' /\ Sessions' /\ (~raced' => ~raced)
  <2>1. created' = created + 1
    BY <1>2, <1>3
  <2> QED
    BY <1>1, <1>4, <2>1, EndsFits DEF CvInv
<1>6. TablesFit
  BY DEF CvInv, Typed
<1>7. created \in Nat /\ MaxCvs \in Nat /\ new <= MaxCvs
  <2>1. created + Cardinality(Generating) <= MaxCvs
    BY DEF CvInv, Typed, RequestsFit
  <2>2. Cardinality(Generating) - 1 \in Nat /\ Cardinality(Generating) \in Nat
    <3>1. Generating \ {r} \subseteq Generating
      OBVIOUS
    <3> QED
      BY <1>4, <3>1, GeneratingCounts
  <2>3. created \in Nat /\ MaxCvs \in Nat
    BY <1>6, CreatedIsNat
  <2> QED
    BY <1>2, <2>1, <2>2, <2>3
<1>8. DOMAIN rows \subseteq 1 .. created /\ new \notin DOMAIN rows /\ new \in Cvs /\ new \in 1 .. new
      /\ 1 .. created \subseteq 1 .. new
  BY <1>2, <1>6, <1>7 DEF TablesFit, Cvs
<1>9. /\ DOMAIN rows' = DOMAIN rows \union {new}
      /\ rows'[new] = [status |-> status, pdf |-> FALSE]
      /\ \A c \in DOMAIN rows : rows'[c] = rows[c] /\ c # new
  BY <1>3, <1>8
<1>10. /\ task' \in [Cvs -> {"none", "compiling", "written", "found", "done"}] /\ task'[new] = "compiling"
       /\ \A c \in Cvs : c # new => task'[c] = task[c]
  BY <1>3, <1>6, <1>8 DEF TablesFit
<1>11. TablesFit'
  <2>1. created' \in 0 .. MaxCvs /\ changes' \in 0 .. MaxChanges
    BY <1>1, <1>3, <1>6, <1>7 DEF TablesFit
  <2>2. \A c \in DOMAIN rows' : rows'[c] \in Row
    <3>1. [status |-> status, pdf |-> FALSE] \in Row
      BY DEF Row, Statuses
    <3>2. \A c \in DOMAIN rows : rows[c] \in Row
      BY <1>6 DEF TablesFit
    <3> QED
      BY <1>9, <3>1, <3>2
  <2>3. DOMAIN rows' \subseteq 1 .. created' /\ files' \subseteq 1 .. created'
    BY <1>1, <1>3, <1>6, <1>8, <1>9 DEF TablesFit
  <2>4. \A c \in Cvs : task'[c] # "none" => c <= created'
    <3> SUFFICES ASSUME NEW c \in Cvs, task'[c] # "none", c # new PROVE c <= new
      BY <1>3, <1>8
    <3>1. c <= created /\ c \in Nat
      BY <1>6, <1>10 DEF TablesFit, Cvs
    <3> QED
      BY <1>2, <1>7, <3>1
  <2> QED
    BY <1>1, <1>6, <1>10, <2>1, <2>2, <2>3, <2>4 DEF TablesFit
<1>12. /\ WithStatus("active")' = IF status = "active" THEN WithStatus("active") \union {new}
                                  ELSE WithStatus("active")
       /\ WithStatus("obsolete")' = WithStatus("obsolete")
  BY <1>1, <1>9 DEF WithStatus
<1>13. ASSUME ~raced PROVE status = "active" => WithStatus("active") = {}
  BY <1>1, <1>4, <1>13, Unraced DEF Coherent
<1>14. Few'
  BY <1>5, <1>12, <1>13, Unraced DEF Few, Single
<1>15. ActiveBaseSurvives'
  <2> SUFFICES ASSUME ~raced', ~crashed', Bases' # {}, WithStatus("active")' = {}
               PROVE  \E s \in Requests : pc'[s] = "demoted"
    BY DEF ActiveBaseSurvives
  <2>1. status # "active" /\ WithStatus("active") = {} /\ Bases # {}
    BY <1>12 DEF Bases
  <2>2. \E s \in Requests : pc[s] = "demoted"
    BY <1>1, <1>5, <2>1 DEF CvInv, ActiveBaseSurvives
  <2> QED
    BY <1>1, <2>1, <2>2 DEF Ends, CvInv, Typed, RequestsFit
<1>16. Compiled'
  <2> SUFFICES ASSUME ~raced', ~crashed', NEW c \in DOMAIN rows', rows'[c].status # "hidden",
                      rows'[c].pdf \/ task'[c] \in {"written", "found"}
               PROVE  c \in files'
    BY DEF Compiled
  <2>1. c # new
    BY <1>9, <1>10
  <2>2. c \in DOMAIN rows /\ rows'[c] = rows[c] /\ c \in Cvs
    BY <1>7, <1>8, <1>9, <2>1 DEF Cvs
  <2>3. task'[c] = task[c]
    BY <1>10, <2>1, <2>2
  <2> QED
    BY <1>1, <1>5, <2>2, <2>3 DEF CvInv, Compiled
<1> QED
  BY <1>5, <1>11, <1>14, <1>15, <1>16 DEF CvInv, Typed

LEMMA FlushFits ==
  ASSUME TablesFit, UNCHANGED <<changes, created, task, crashed>>, files' \subseteq files,
         NEW status, NEW deleted, rows' = rows \/ Rewrites(rows', status, deleted)
  PROVE  TablesFit'
<1>1. DOMAIN rows' \subseteq DOMAIN rows /\ \A c \in DOMAIN rows' : rows'[c] \in Row
  BY DEF TablesFit, Rewrites
<1> QED
  BY <1>1 DEF TablesFit

(* The row of the session is written back: the base is active again.       *)
LEMMA RecoverFits == ASSUME CvInv, NEW r \in Requests, RecoverPreviousBase(r) PROVE CvInv'
<1> DEFINE given == [c \in DOMAIN loaded[r] |-> IF c = target[r] THEN "active" ELSE "obsolete"]
<1>1. /\ pc[r] = "active loaded" /\ Ends(r)
      /\ rows' = IF MissesItsRow(DOMAIN loaded[r]) THEN rows ELSE Written(given, {})
      /\ UNCHANGED <<changes, created, files, task, crashed>>
  BY DEF RecoverPreviousBase
<1>2. /\ RequestsFit' /\ Apart' /\ Sessions' /\ (~raced' => ~raced) /\ r \in InFlight
      /\ \A s \in Requests : pc[s] = "demoted" => pc'[s] = "demoted"
  BY <1>1, EndsQuietly
<1>3. PICK status : status = given
  OBVIOUS
<1>4. /\ DOMAIN status = DOMAIN loaded[r]
      /\ \A c \in DOMAIN status : status[c] = IF c = target[r] THEN "active" ELSE "obsolete"
  BY <1>3
<1> HIDE DEF given
<1>5. TablesFit /\ \A c \in DOMAIN status : status[c] \in Statuses
  BY <1>4 DEF CvInv, Typed, Statuses
<1>6. Rewrites(Written(status, {}), status, {})
  BY <1>5, WrittenFits
<1>7. TablesFit'
  <2>1. rows' = rows \/ Rewrites(rows', status, {})
    BY <1>1, <1>3, <1>6
  <2> QED
    BY <1>1, <1>5, <2>1, FlushFits
<1>8. ASSUME ~raced
      PROVE  /\ WithStatus("active")' = {target[r]} /\ WithStatus("obsolete")' = WithStatus("active")
             /\ DOMAIN rows' = DOMAIN rows
             /\ \A c \in DOMAIN rows : rows'[c].pdf = rows[c].pdf /\ (rows'[c].status = "hidden" <=> rows[c].status = "hidden")
  <2>1. /\ UpToDate(r) /\ target[r] \in WithStatus("obsolete")
        /\ DOMAIN loaded[r] = {target[r]} \union Oldest(WithStatus("active"))
    BY <1>1, <1>2, <1>8, Unraced DEF Coherent
  <2>2. Oldest(WithStatus("active")) = WithStatus("active")
    BY <1>8, Unraced, OldestOfSingle
  <2>3. DOMAIN status \subseteq DOMAIN rows
    BY <1>4, <2>1 DEF UpToDate
  <2>4. rows' = Written(status, {})
    BY <1>1, <1>3, <1>4, <2>3, FoundRows
  <2>5. Rewrites(rows', status, {})
    BY <1>6, <2>4
  <2>6. /\ DOMAIN rows' = DOMAIN rows
        /\ \A c \in DOMAIN rows :
             /\ rows'[c].pdf = rows[c].pdf
             /\ rows'[c].status = IF c \in DOMAIN status THEN status[c] ELSE rows[c].status
    BY <2>5 DEF Rewrites
  <2>7. \A c \in WithStatus("obsolete") : c = target[r]
    BY <1>8, <2>1, Unraced DEF Single
  <2>8. DOMAIN status = {target[r]} \union WithStatus("active") /\ target[r] \notin WithStatus("active")
    BY <1>4, <2>1, <2>2 DEF WithStatus
  <2>9. target[r] \in DOMAIN rows /\ rows[target[r]].status = "obsolete"
    BY <2>1 DEF WithStatus
  <2>10. \A c \in DOMAIN rows :
           /\ c = target[r] => rows'[c].status = "active"
           /\ c \in WithStatus("active") => rows'[c].status = "obsolete"
           /\ c # target[r] /\ c \notin WithStatus("active") => rows'[c].status = rows[c].status
    BY <1>4, <2>6, <2>8
  <2>11. WithStatus("active")' = {target[r]}
    BY <2>6, <2>9, <2>10 DEF WithStatus
  <2>12. WithStatus("obsolete")' = WithStatus("active")
    BY <2>6, <2>7, <2>10 DEF WithStatus
  <2>13. \A c \in DOMAIN rows : rows'[c].status = "hidden" <=> rows[c].status = "hidden"
    BY <2>9, <2>10 DEF WithStatus
  <2> QED
    BY <2>6, <2>11, <2>12, <2>13
<1>9. Few'
  BY <1>2, <1>8, Unraced DEF Few, Single
<1>10. ActiveBaseSurvives'
  BY <1>2, <1>8 DEF ActiveBaseSurvives
<1>11. Compiled'
  BY <1>1, <1>2, <1>8 DEF CvInv, Compiled
<1> QED
  BY <1>2, <1>7, <1>9, <1>10, <1>11 DEF CvInv, Typed

(* The base that is deleted leaves its place to the previous one.          *)
LEMMA HardDeleteFits == ASSUME CvInv, NEW r \in Requests, HardDelete(r) PROVE CvInv'
<1> DEFINE given == [c \in Promoted(r) |-> "active"]
<1>1. /\ \/ pc[r] = "promotion loaded"
         \/ pc[r] = "victim loaded" /\ target[r] \in LoadedAs(r, "obsolete")
      /\ files' \subseteq files /\ files \ files' \subseteq {target[r]} /\ Ends(r)
      /\ rows' = IF MissesItsRow(Promoted(r)) THEN rows ELSE Written(given, {target[r]})
      /\ UNCHANGED <<changes, created, task, crashed>>
  BY DEF HardDelete, RemovesFile
<1>2. /\ RequestsFit' /\ Apart' /\ Sessions' /\ (~raced' => ~raced) /\ r \in InFlight
      /\ \A s \in Requests : pc[s] = "demoted" => pc'[s] = "demoted"
  BY <1>1, EndsQuietly
<1>3. PICK status, victim : status = given /\ victim = target[r]
  OBVIOUS
<1>4. DOMAIN status = Promoted(r) /\ \A c \in DOMAIN status : status[c] = "active"
  BY <1>3
<1> HIDE DEF given
<1>5. TablesFit /\ \A c \in DOMAIN status : status[c] \in Statuses
  BY <1>4 DEF CvInv, Typed, Statuses
<1>6. Rewrites(Written(status, {victim}), status, {victim})
  BY <1>5, WrittenFits
<1>7. TablesFit'
  <2>1. rows' = rows \/ Rewrites(rows', status, {victim})
    BY <1>1, <1>3, <1>6
  <2> QED
    BY <1>1, <1>5, <2>1, FlushFits
<1>8. ASSUME ~raced
      PROVE  /\ DOMAIN rows' = DOMAIN rows \ {victim} /\ victim \in Bases
             /\ \A c \in DOMAIN rows' : /\ rows'[c].pdf = rows[c].pdf
                                        /\ rows'[c].status = "hidden" <=> rows[c].status = "hidden"
             /\ WithStatus("obsolete")' = {}
             /\ IF victim \in WithStatus("active") THEN WithStatus("active")' = WithStatus("obsolete")
                ELSE WithStatus("active")' = WithStatus("active")
  <2>1. Coherent(r) /\ UpToDate(r) /\ Single(WithStatus("active")) /\ Single(WithStatus("obsolete"))
    BY <1>1, <1>2, <1>8, Unraced DEF Coherent
  <2>2. Oldest(WithStatus("obsolete")) = WithStatus("obsolete")
    BY <1>8, Unraced, OldestOfSingle
  <2>3. \/ victim \in WithStatus("active") /\ Promoted(r) = WithStatus("obsolete")
        \/ victim \in WithStatus("obsolete") /\ Promoted(r) = {}
    <3>1. CASE pc[r] = "promotion loaded"
      <4>1. /\ victim \in WithStatus("active") /\ DOMAIN loaded[r] = {victim} \union WithStatus("obsolete")
        BY <1>3, <2>1, <2>2, <3>1 DEF Coherent
      <4>2. victim \notin WithStatus("obsolete")
        BY <4>1 DEF WithStatus
      <4> QED
        BY <1>3, <4>1, <4>2 DEF Promoted
    <3>2. CASE pc[r] = "victim loaded" /\ target[r] \in LoadedAs(r, "obsolete")
      <4>1. DOMAIN loaded[r] = {victim}
        BY <1>3, <2>1, <3>2 DEF Coherent
      <4>2. victim \in WithStatus("obsolete")
        BY <1>3, <2>1, <3>2 DEF UpToDate, LoadedAs, WithStatus
      <4> QED
        BY <1>3, <4>1, <4>2 DEF Promoted
    <3> QED
      BY <1>1, <3>1, <3>2
  <2>4. Promoted(r) \subseteq DOMAIN rows
    BY <2>3 DEF WithStatus
  <2>5. Rewrites(rows', status, {victim})
    BY <1>1, <1>3, <1>6, <2>4, FoundRows
  <2>6. /\ DOMAIN rows' = DOMAIN rows \ {victim}
        /\ \A c \in DOMAIN rows' :
             /\ rows'[c].pdf = rows[c].pdf
             /\ rows'[c].status = IF c \in Promoted(r) THEN "active" ELSE rows[c].status
    BY <1>4, <2>5 DEF Rewrites
  <2>7. CASE victim \in WithStatus("active") /\ Promoted(r) = WithStatus("obsolete")
    <3>1. \A c \in WithStatus("active") : c = victim
      BY <2>1, <2>7 DEF Single
    <3>2. WithStatus("obsolete")' = {}
      BY <2>6, <2>7 DEF WithStatus
    <3>3. WithStatus("active")' = WithStatus("obsolete")
      BY <2>6, <2>7, <3>1 DEF WithStatus
    <3>4. \A c \in DOMAIN rows' : rows'[c].status = "hidden" <=> rows[c].status = "hidden"
      BY <2>6, <2>7 DEF WithStatus
    <3> QED
      BY <2>6, <2>7, <3>2, <3>3, <3>4 DEF Bases
  <2>8. CASE victim \in WithStatus("obsolete") /\ Promoted(r) = {}
    <3>1. \A c \in WithStatus("obsolete") : c = victim
      BY <2>1, <2>8 DEF Single
    <3>2. WithStatus("obsolete")' = {} /\ WithStatus("active")' = WithStatus("active")
      BY <2>6, <2>8, <3>1 DEF WithStatus
    <3>3. victim \notin WithStatus("active")
      BY <2>8 DEF WithStatus
    <3> QED
      BY <2>6, <2>8, <3>2, <3>3 DEF Bases
  <2> QED
    BY <2>3, <2>7, <2>8
<1>9. Few'
  BY <1>2, <1>8, Unraced DEF Few, Single
<1>10. ActiveBaseSurvives'
  <2> SUFFICES ASSUME ~raced', ~crashed', Bases' # {}, WithStatus("active")' = {} PROVE FALSE
    BY DEF ActiveBaseSurvives
  <2>1. WithStatus("obsolete")' = {}
    BY <1>2, <1>8
  <2> QED
    BY <2>1 DEF Bases
<1>11. Compiled'
  <2> SUFFICES ASSUME ~raced', ~crashed', NEW c \in DOMAIN rows', rows'[c].status # "hidden",
                      rows'[c].pdf \/ task'[c] \in {"written", "found"}
               PROVE  c \in files'
    BY DEF Compiled
  <2>1. c \in DOMAIN rows /\ c # target[r] /\ rows'[c].pdf = rows[c].pdf /\ rows[c].status # "hidden"
    BY <1>2, <1>3, <1>8
  <2>2. c \in files
    BY <1>1, <1>2, <2>1 DEF CvInv, Compiled
  <2> QED
    BY <1>1, <2>1, <2>2
<1> QED
  BY <1>2, <1>7, <1>9, <1>10, <1>11 DEF CvInv, Typed

LEMMA SoftDeleteFits == ASSUME CvInv, NEW r \in Requests, SoftDelete(r) PROVE CvInv'
<1> DEFINE given == [c \in {target[r]} |-> "hidden"]
<1>1. /\ pc[r] = "victim loaded" /\ target[r] \in LoadedAs(r, "personalized")
      /\ files' \subseteq files /\ files \ files' \subseteq {target[r]} /\ Ends(r)
      /\ rows' = Written(given, {}) /\ UNCHANGED <<changes, created, task, crashed>>
  BY DEF SoftDelete, RemovesFile
<1>2. /\ RequestsFit' /\ Apart' /\ Sessions' /\ (~raced' => ~raced) /\ r \in InFlight
      /\ \A s \in Requests : pc[s] = "demoted" => pc'[s] = "demoted"
  BY <1>1, EndsQuietly
<1>3. PICK status, victim : status = given /\ victim = target[r]
  OBVIOUS
<1>4. DOMAIN status = {victim} /\ status[victim] = "hidden"
  BY <1>3
<1> HIDE DEF given
<1>5. TablesFit /\ \A c \in DOMAIN status : status[c] \in Statuses
  BY <1>4 DEF CvInv, Typed, Statuses
<1>6. Rewrites(rows', status, {})
  BY <1>1, <1>3, <1>5, WrittenFits
<1>7. TablesFit'
  BY <1>1, <1>5, <1>6, FlushFits
<1>8. /\ DOMAIN rows' = DOMAIN rows
      /\ \A c \in DOMAIN rows : /\ rows'[c].pdf = rows[c].pdf
                                /\ rows'[c].status = IF c = victim THEN "hidden" ELSE rows[c].status
  BY <1>4, <1>6 DEF Rewrites
<1>9. ASSUME ~raced
      PROVE  /\ WithStatus("active")' = WithStatus("active")
             /\ WithStatus("obsolete")' = WithStatus("obsolete")
  <2>1. rows[victim].status = "personalized"
    BY <1>1, <1>2, <1>3, <1>9, Unraced DEF Coherent, UpToDate, LoadedAs
  <2> QED
    BY <1>8, <2>1 DEF WithStatus
<1>10. Few'
  BY <1>2, <1>9, Unraced DEF Few
<1>11. ActiveBaseSurvives'
  BY <1>1, <1>2, <1>9 DEF CvInv, ActiveBaseSurvives, Bases
<1>12. Compiled'
  BY <1>1, <1>2, <1>3, <1>8 DEF CvInv, Compiled
<1> QED
  BY <1>2, <1>7, <1>10, <1>11, <1>12 DEF CvInv, Typed

LEMMA RecompileFits == ASSUME CvInv, NEW r \in Requests, RecompilePdfSync(r) PROVE CvInv'
<1>1. /\ pc[r] = "recompiling" /\ Ends(r) /\ files' = files \union {target[r]}
      /\ UNCHANGED <<changes, rows, created, task, crashed>>
  BY DEF RecompilePdfSync
<1>2. /\ RequestsFit' /\ Apart' /\ Sessions' /\ (~raced' => ~raced)
      /\ \A s \in Requests : pc[s] = "demoted" => pc'[s] = "demoted"
  BY <1>1, EndsQuietly
<1>3. files' \subseteq 1 .. created /\ files \subseteq files' /\ changes' \in 0 .. MaxChanges
  <2>1. target[r] \in 0 .. created /\ target[r] # 0 /\ created \in Nat
    BY <1>1, CreatedIsNat DEF CvInv, Typed, RequestsFit
  <2>2. target[r] \in 1 .. created
    BY <2>1
  <2>3. files \subseteq 1 .. created /\ changes \in 0 .. MaxChanges
    BY DEF CvInv, Typed, TablesFit
  <2> QED
    BY <1>1, <2>2, <2>3
<1>4. TablesFit' /\ Compiled'
  BY <1>1, <1>2, <1>3, TablesStay
<1>5. Few' /\ ActiveBaseSurvives'
  BY <1>1, <1>2, RowsStay
<1> QED
  BY <1>2, <1>4, <1>5 DEF CvInv, Typed

(* A compilation does not touch the requests nor the statuses.             *)
LEMMA CompileKeeps ==
  ASSUME CvInv, UNCHANGED <<created, pc, loaded, target, lock, shared, raced, crashed>>,
         DOMAIN rows' = DOMAIN rows, \A c \in DOMAIN rows : rows'[c].status = rows[c].status
  PROVE  RequestsFit' /\ Apart' /\ Sessions' /\ Few' /\ ActiveBaseSurvives'
<1>1. InFlight' = InFlight /\ Generating' = Generating
  BY DEF InFlight, Generating
<1>2. RequestsFit' /\ Apart'
  BY <1>1 DEF CvInv, Typed, RequestsFit, Apart
<1>3. /\ WithStatus("active")' = WithStatus("active") /\ WithStatus("obsolete")' = WithStatus("obsolete")
  BY DEF WithStatus
<1>4. Bases' = Bases /\ \A S : Oldest(S)' = Oldest(S)
  BY <1>3 DEF Bases, Oldest
<1>5. ASSUME NEW r \in Requests, OnItsOwn(r)' PROVE Coherent(r)'
  <2>1. Coherent(r)
    BY <1>1, <1>5 DEF CvInv, Sessions, OnItsOwn
  <2>2. (UpToDate(r)' <=> UpToDate(r)) /\ LoadedAs(r, "active")' = LoadedAs(r, "active")
    BY DEF UpToDate, LoadedAs
  <2>3. /\ Oldest(WithStatus("active"))' = Oldest(WithStatus("active"))
        /\ Oldest(WithStatus("obsolete"))' = Oldest(WithStatus("obsolete"))
    BY <1>3 DEF Oldest
  <2> QED
    BY <1>3, <1>4, <2>1, <2>2, <2>3 DEF Coherent
<1>6. Sessions'
  BY <1>5 DEF Sessions
<1>7. Few' /\ ActiveBaseSurvives'
  BY RowsStay
<1> QED
  BY <1>2, <1>6, <1>7

LEMMA CompileFits == ASSUME CvInv, NEW c \in Cvs, CompileStep(c) PROVE CvInv'
<1>1. UNCHANGED <<changes, created, pc, loaded, target, lock, shared, raced, crashed>>
  BY DEF CompileStep, Compile, CompileFails, FindRow, RecordPdf
<1>2. /\ task[c] # "none" /\ task' = [task EXCEPT ![c] = task'[c]]
      /\ task'[c] \in {"written", "found", "done"}
  <2>1. task \in [Cvs -> {"none", "compiling", "written", "found", "done"}]
    BY DEF CvInv, Typed, TablesFit
  <2> QED
    BY <2>1 DEF CompileStep, Compile, CompileFails, FindRow, RecordPdf
<1>3. DOMAIN rows' = DOMAIN rows /\ \A d \in DOMAIN rows : rows'[d].status = rows[d].status /\ rows'[d] \in Row
  <2>1. \A d \in DOMAIN rows : rows[d] \in Row
    BY DEF CvInv, Typed, TablesFit
  <2>2. CASE RecordPdf(c) /\ c \in DOMAIN rows
    <3>1. rows' = [rows EXCEPT ![c].pdf = TRUE]
      BY <2>2 DEF RecordPdf
    <3>2. rows'[c] = [rows[c] EXCEPT !.pdf = TRUE]
      BY <2>2, <3>1
    <3>3. rows'[c] \in Row /\ rows'[c].status = rows[c].status
      BY <2>1, <2>2, <3>2 DEF Row
    <3> QED
      BY <2>1, <3>1, <3>3
  <2>3. CASE UNCHANGED rows
    BY <2>1, <2>3
  <2> QED
    BY <2>2, <2>3 DEF CompileStep, Compile, CompileFails, FindRow, RecordPdf
<1>4. RequestsFit' /\ Apart' /\ Sessions' /\ Few' /\ ActiveBaseSurvives'
  BY <1>1, <1>3, CompileKeeps
<1>5. TablesFit'
  <2>1. files' \subseteq files \union {c}
    BY DEF CompileStep, Compile, CompileFails, FindRow, RecordPdf
  <2>2. c \in 1 .. created
    BY <1>2, CreatedIsNat DEF CvInv, Typed, TablesFit, Cvs
  <2>3. task' \in [Cvs -> {"none", "compiling", "written", "found", "done"}]
    BY <1>2 DEF CvInv, Typed, TablesFit
  <2>4. \A d \in Cvs : task'[d] # "none" => task[d] # "none"
    BY <1>2 DEF CvInv, Typed, TablesFit
  <2>5. files' \subseteq 1 .. created
    BY <2>1, <2>2 DEF CvInv, Typed, TablesFit
  <2> QED
    BY <1>1, <1>3, <2>3, <2>4, <2>5 DEF CvInv, Typed, TablesFit
<1>6. Compiled'
  <2> SUFFICES ASSUME ~raced', ~crashed', NEW d \in DOMAIN rows', rows'[d].status # "hidden",
                      rows'[d].pdf \/ task'[d] \in {"written", "found"}
               PROVE  d \in files'
    BY DEF Compiled
  <2>1. /\ d \in DOMAIN rows /\ rows[d].status # "hidden" /\ d \in Cvs
        /\ rows[d].pdf \/ task[d] \in {"written", "found"} => d \in files
    <3>1. d \in DOMAIN rows /\ rows[d].status # "hidden"
      BY <1>3
    <3>2. d \in Cvs
      <4>1. created <= MaxCvs /\ created \in Nat /\ MaxCvs \in Nat /\ DOMAIN rows \subseteq 1 .. created
        BY CreatedIsNat DEF CvInv, Typed, TablesFit
      <4> QED
        BY <3>1, <4>1 DEF Cvs
    <3> QED
      BY <1>1, <3>1, <3>2 DEF CvInv, Compiled
  <2>2. CASE d # c
    <3>1. task'[d] = task[d]
      BY <1>2, <2>1, <2>2 DEF CvInv, Typed, TablesFit
    <3>2. rows'[d] = rows[d] /\ (d \in files => d \in files')
      BY <2>1, <2>2 DEF CompileStep, Compile, CompileFails, FindRow, RecordPdf
    <3> QED
      BY <2>1, <3>1, <3>2
  <2>3. CASE d = c
    <3>1. CASE Compile(c)
      BY <2>3, <3>1 DEF Compile
    <3>2. CASE CompileFails(c)
      BY <2>1, <2>3, <3>2 DEF CompileFails, CvInv, Typed, TablesFit
    <3>3. CASE FindRow(c)
      BY <2>1, <2>3, <3>3 DEF FindRow, IsListed
    <3>4. CASE RecordPdf(c)
      BY <2>1, <2>3, <3>4 DEF RecordPdf
    <3> QED
      BY <3>1, <3>2, <3>3, <3>4 DEF CompileStep
  <2> QED
    BY <2>2, <2>3
<1> QED
  BY <1>4, <1>5, <1>6 DEF CvInv, Typed

LEMMA CrashFits == ASSUME CvInv, Crash PROVE CvInv'
<1>1. /\ crashed' = TRUE /\ \A r \in Requests : pc'[r] = "idle" /\ DOMAIN loaded'[r] = {}
      /\ pc' \in [Requests -> Places] /\ target' = [r \in Requests |-> 0] /\ DOMAIN loaded' = Requests
      /\ lock' = NoRequest /\ shared' = {} /\ files' \subseteq files
      /\ task' = [c \in Cvs |-> IF task[c] = "none" THEN "none" ELSE "done"]
      /\ UNCHANGED <<changes, rows, created, raced>>
  BY DEF Crash, Places
<1>2. InFlight' = {} /\ Generating' = {} /\ created \in Nat
  BY <1>1, CreatedIsNat DEF InFlight, Generating, CvInv, Typed
<1>3. RequestsFit'
  <2>1. Cardinality(Generating') = 0
    BY <1>2, FS_EmptySet
  <2>2. created' + Cardinality(Generating') <= MaxCvs
    BY <1>1, <1>2, <2>1, BaseCvAssumption DEF CvInv, Typed, TablesFit
  <2>3. target' \in [Requests -> 0 .. created'] /\ \A r \in Requests : pc'[r] # "recompiling"
    BY <1>1, <1>2
  <2> QED
    BY <1>1, <2>2, <2>3 DEF CvInv, Typed, RequestsFit
<1>4. TablesFit'
  BY <1>1 DEF CvInv, Typed, TablesFit
<1>5. Apart' /\ Sessions'
  BY <1>1, <1>2 DEF Apart, Sessions, OnItsOwn
<1>6. Few'
  BY <1>1 DEF CvInv, Few, WithStatus
<1>7. ActiveBaseSurvives' /\ Compiled'
  BY <1>1 DEF ActiveBaseSurvives, Compiled
<1> QED
  BY <1>3, <1>4, <1>5, <1>6, <1>7 DEF CvInv, Typed

LEMMA CvStep == CvInv /\ [Next]_vars => CvInv'
<1> SUFFICES ASSUME CvInv, [Next]_vars PROVE CvInv'
  OBVIOUS
<1>1. ASSUME NEW r \in Requests, GenerateStep(r) PROVE CvInv'
  <2>1. CASE Gate(r, "generating base")
    BY <2>1, GateFits
  <2>2. CASE Gate(r, "tailoring")
    BY <2>2, GateFits
  <2>3. CASE GenerationFails(r)
    BY <2>3, GenerationFailsFits
  <2>4. CASE SelectBases(r)
    BY <2>4, SelectBasesFits
  <2>5. CASE DemotePreviousBases(r)
    BY <2>5, DemoteFits
  <2>6. CASE DemotionFails(r)
    BY <2>6, DemotionFailsFits
  <2>7. CASE PersistBase(r) \/ PersistTailored(r)
    BY <2>7, PersistFits
  <2> QED
    BY <1>1, <2>1, <2>2, <2>3, <2>4, <2>5, <2>6, <2>7 DEF GenerateStep, Tailor, Adapt
<1>2. ASSUME NEW r \in Requests, LifecycleStep(r) PROVE CvInv'
  <2>1. ASSUME NEW c \in Cvs, Recover(r, c) \/ Delete(r, c) \/ Download(r, c) PROVE CvInv'
    <3>1. PICK place \in {"previous loaded", "victim loaded", "recompiling"} :
            /\ pc[r] = "idle" /\ pc' = [pc EXCEPT ![r] = place] /\ Starts(r)
            /\ target' = [target EXCEPT ![r] = c] /\ loaded' = [loaded EXCEPT ![r] = Load({c})]
            /\ changes < MaxChanges /\ changes' = changes + 1 /\ c \in DOMAIN rows
            /\ UNCHANGED <<rows, created, lock, files, task, crashed>>
            /\ place = "previous loaded" => c \in WithStatus("obsolete")
      BY <2>1 DEF Recover, Delete, Download, At, WithStatus
    <3> QED
      BY <3>1, NamingFits
  <2>2. CASE SelectActive(r) \/ SelectObsolete(r)
    BY <2>2, SelectFits
  <2>3. CASE RecoverPreviousBase(r)
    BY <2>3, RecoverFits
  <2>4. CASE HardDelete(r)
    BY <2>4, HardDeleteFits
  <2>5. CASE SoftDelete(r)
    BY <2>5, SoftDeleteFits
  <2>6. CASE RecompilePdfSync(r)
    BY <2>6, RecompileFits
  <2> QED
    BY <1>2, <2>1, <2>2, <2>3, <2>4, <2>5, <2>6 DEF LifecycleStep
<1>3. ASSUME NEW c \in Cvs, CompileStep(c) PROVE CvInv'
  BY <1>3, CompileFits
<1>4. CASE Crash
  BY <1>4, CrashFits
<1>5. CASE UNCHANGED vars
  <2>1. UNCHANGED <<rows, created, pc, loaded, target, lock, files, task, shared, raced, crashed, changes>>
    BY <1>5 DEF vars
  <2>2. RequestsFit' /\ Apart' /\ Sessions' /\ Few' /\ ActiveBaseSurvives'
    BY <2>1, CompileKeeps
  <2>3. TablesFit' /\ Compiled'
    BY <2>1 DEF CvInv, Typed, TablesFit, Compiled
  <2> QED
    BY <2>2, <2>3 DEF CvInv, Typed
<1> QED
  BY <1>1, <1>2, <1>3, <1>4, <1>5 DEF Next, Done

LEMMA CvInvHolds == Spec => []CvInv
BY InitialCvs, CvStep, PTL DEF Spec

LEMMA SingleCardinality == ASSUME NEW S, Single(S) PROVE Cardinality(S) <= 1
<1>1. CASE S = {}
  BY <1>1, FS_EmptySet
<1>2. CASE S # {}
  <2>1. PICK c \in S : S = {c}
    BY <1>2 DEF Single
  <2>2. Cardinality({c}) = 1
    BY FS_Singleton
  <2> QED
    BY <2>1, <2>2
<1> QED
  BY <1>1, <1>2

(* Types hold, and the credit account is locked only by a request that     *)
(* generates, for any number of requests, CVs and changes.                 *)
THEOREM CvTypeCorrect == Spec => []TypeOK
<1>1. CvInv => TypeOK
  BY DEF CvInv, Typed, RequestsFit, TablesFit, TypeOK
<1> QED
  BY <1>1, CvInvHolds, PTL

(* Requests that never overlap leave at most one active and one obsolete   *)
(* base, also when a restart falls between the two commits.                *)
THEOREM SerialCorrect == Spec => []SerialKeepsMaxTwo
<1>1. CvInv => SerialKeepsMaxTwo
  BY SingleCardinality DEF CvInv, Few, SerialKeepsMaxTwo
<1> QED
  BY <1>1, CvInvHolds, PTL

(* Without overlaps and restarts a user who has a base has an active one.  *)
THEOREM ActiveCorrect == Spec => []ActiveBaseSurvives
<1>1. CvInv => ActiveBaseSurvives
  BY DEF CvInv
<1> QED
  BY <1>1, CvInvHolds, PTL

(* Without overlaps and restarts a listed CV that offers a PDF has one.    *)
THEOREM PdfCorrect == Spec => []PdfIsKept
<1>1. CvInv => PdfIsKept
  BY DEF CvInv, Compiled, PdfIsKept
<1> QED
  BY <1>1, CvInvHolds, PTL

(* A generation that nothing overlapped ends with its base as the only     *)
(* active one, whatever earlier requests left behind.                      *)
THEOREM HealsCorrect == Spec => GenerationHeals
<1> DEFINE Heals ==
      \A r \in Requests :
        pc[r] = "demoted" /\ created' > created /\ r \notin shared
        => /\ {c \in DOMAIN rows' : rows'[c].status = "active"} = {created'}
           /\ {c \in DOMAIN rows' : rows'[c].status = "obsolete"} = LoadedAs(r, "active")
<1>1. CvInv /\ [Next]_vars => [Heals]_vars
  <2> SUFFICES ASSUME CvInv, Next, NEW r \in Requests,
                      pc[r] = "demoted", created' > created, r \notin shared
               PROVE  /\ {c \in DOMAIN rows' : rows'[c].status = "active"} = {created'}
                      /\ {c \in DOMAIN rows' : rows'[c].status = "obsolete"} = LoadedAs(r, "active")
    OBVIOUS
  <2>1. created \in Nat /\ created' # created
    BY CreatedIsNat DEF CvInv, Typed
  <2>2. PICK s \in Requests : PersistBase(s) \/ PersistTailored(s)
    <3>1. ASSUME NEW s \in Requests, GenerateStep(s), ~PersistBase(s), ~PersistTailored(s) PROVE FALSE
      BY <2>1, <3>1 DEF GenerateStep, Gate, GenerationFails, SelectBases, DemotePreviousBases,
                        DemotionFails, Tailor, Adapt
    <3>2. ASSUME NEW s \in Requests, LifecycleStep(s) PROVE FALSE
      BY <2>1, <3>2 DEF LifecycleStep, Recover, Delete, Download, SelectActive, RecoverPreviousBase,
                        SelectObsolete, HardDelete, SoftDelete, RecompilePdfSync
    <3>3. ASSUME NEW c \in Cvs, CompileStep(c) PROVE FALSE
      BY <2>1, <3>3 DEF CompileStep, Compile, CompileFails, FindRow, RecordPdf
    <3>4. ~Crash /\ ~Done
      BY <2>1 DEF Crash, Done, vars
    <3> QED
      BY <3>1, <3>2, <3>3, <3>4 DEF Next
  <2>3. s = r
    BY <2>2 DEF CvInv, Apart, InFlight, PersistBase, PersistTailored
  <2>4. Insert("active")
    BY <2>2, <2>3 DEF PersistBase, PersistTailored
  <2>5. PICK new \in Nat : new = created + 1
    BY <2>1
  <2>6. /\ created' = new
        /\ rows' = [c \in DOMAIN rows \union {new} |->
                      IF c = new THEN [status |-> "active", pdf |-> FALSE] ELSE rows[c]]
    BY <2>4, <2>5 DEF Insert
  <2>7. new \notin DOMAIN rows
    BY <2>1, <2>5 DEF CvInv, Typed, TablesFit
  <2>8. /\ DOMAIN rows' = DOMAIN rows \union {new} /\ rows'[new].status = "active"
        /\ \A c \in DOMAIN rows : rows'[c] = rows[c]
    BY <2>6, <2>7
  <2>9. WithStatus("active") = {} /\ WithStatus("obsolete") = LoadedAs(r, "active")
    BY DEF CvInv, Sessions, Coherent, OnItsOwn, InFlight
  <2> QED
    BY <2>6, <2>8, <2>9 DEF WithStatus
<1>2. GenerationHeals <=> [][Heals]_vars
  BY DEF GenerationHeals
<1> QED
  BY <1>1, <1>2, CvInvHolds, PTL DEF Spec
=============================================================================
