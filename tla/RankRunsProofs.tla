--------------------------- MODULE RankRunsProofs ---------------------------
(***************************************************************************)
(* For any number of requests, users, postings and restarts: a user has    *)
(* one active run at most, a run without items is stranded only by its key *)
(* or a restart, a charge is kept only with an answer, and items, locks    *)
(* and tasks point at what exists (the last part, TypeOK).                 *)
(***************************************************************************)
EXTENDS RankRuns, FiniteSetTheorems, TLAPS

-----------------------------------------------------------------------------
(* One active run.  The proofs speak of pairs of runs.                     *)

Single ==
  /\ DOMAIN run \subseteq Requests
  /\ \A r, q \in DOMAIN run :
       owner[r] = owner[q] /\ run[r] \in Active /\ run[q] \in Active => r = q

LEMMA AtMostOne ==
  ASSUME NEW T, \A x, y \in T : x = y
  PROVE  Cardinality(T) <= 1
<1>1. CASE T = {}
  BY <1>1, FS_EmptySet
<1>2. CASE T # {}
  <2>1. PICK x \in T : TRUE
    BY <1>2
  <2>2. T = {x}
    BY <2>1
  <2>3. Cardinality(T) = 1
    BY <2>2, FS_Singleton
  <2> QED
    BY <2>3
<1> QED
  BY <1>1, <1>2

LEMMA SingleSuffices == Single => OneRunAtATime
<1> SUFFICES ASSUME Single, NEW u \in Users PROVE Cardinality(ActiveRuns(u)) <= 1
  BY DEF OneRunAtATime
<1>1. \A r, q \in ActiveRuns(u) : r = q
  BY DEF Single, ActiveRuns, RunsOf
<1> QED
  BY <1>1, AtMostOne

(* What a count of at most one says of two members.                        *)
LEMMA OnlyMember ==
  ASSUME NEW T, IsFiniteSet(T), Cardinality(T) <= 1, NEW x \in T, NEW y \in T
  PROVE  x = y
<1> SUFFICES ASSUME x # y PROVE FALSE
  OBVIOUS
<1>1. IsFiniteSet({x, y}) /\ Cardinality({x, y}) = 2
  <2>1. IsFiniteSet({x}) /\ Cardinality({x}) = 1
    BY FS_Singleton
  <2>2. {x, y} = {x} \union {y} /\ y \notin {x}
    OBVIOUS
  <2> QED
    BY <2>1, <2>2, FS_AddElement
<1>2. Cardinality({x, y}) <= Cardinality(T)
  BY FS_Subset
<1>3. Cardinality(T) \in Nat
  BY FS_CardinalityType
<1> QED
  BY <1>1, <1>2, <1>3

LEMMA EnqueueSingle == ASSUME Single, NEW r \in Requests, Enqueue(r) PROVE Single'
<1>1. owner' = owner
  BY DEF Enqueue, others
<1>2. CASE UNCHANGED run
  BY <1>1, <1>2 DEF Single
<1>3. CASE /\ run' = [q \in DOMAIN run \union {r} |-> IF q = r THEN EnqueueStatus(r) ELSE run[q]]
           /\ ~(EnqueueStatus(r) = "queued" /\ ActiveRuns(owner[r]) # {})
  <2>1. EnqueueStatus(r) \in Active => \A q \in DOMAIN run : owner[q] = owner[r] => run[q] \notin Active
    BY <1>3 DEF EnqueueStatus, Active, ActiveRuns, RunsOf
  <2> QED
    BY <1>1, <1>3, <2>1 DEF Single
<1> QED
  BY <1>2, <1>3 DEF Enqueue

LEMMA ResumeSingle == ASSUME Single, NEW u \in Users, Resume(u) PROVE Single'
<1> DEFINE T == {r \in RunsOf(u) : run[r] \in Active \union {"pending"}}
<1>1. IsFiniteSet(T)
  BY FS_Subset, RankRunsAssumption DEF Single, RunsOf
<1>2. \A r, q \in T : r = q
  BY <1>1, OnlyMember DEF Resume
<1>3. /\ owner' = owner
      /\ run' = [r \in DOMAIN run |-> IF owner[r] = u /\ run[r] = "pending" THEN "queued" ELSE run[r]]
  BY DEF Resume
<1>4. ASSUME NEW r \in DOMAIN run, run'[r] \in Active
      PROVE  run[r] \in Active \/ (owner[r] = u /\ r \in T)
  BY <1>3, <1>4 DEF RunsOf
<1>5. ASSUME NEW r \in DOMAIN run, run[r] \in Active, owner[r] = u
      PROVE  r \in T
  BY <1>5 DEF RunsOf
<1> QED
  BY <1>2, <1>3, <1>4, <1>5 DEF Single

LEMMA WorkerSingle == ASSUME Single, Worker PROVE Single'
<1> PICK r \in Requests, p \in Postings : Claim(r, p) \/ Finish(r, p) \/ LeaseExpires(r, p)
  BY DEF Worker
<1>1. owner' = owner
  BY DEF Claim, Finish, LeaseExpires, others
<1>2. CASE Claim(r, p)
  BY <1>1, <1>2 DEF Claim, Single
<1>3. CASE Finish(r, p)
  BY <1>1, <1>3 DEF Finish, Single, Active
<1>4. CASE LeaseExpires(r, p)
  BY <1>1, <1>4 DEF LeaseExpires, Single
<1> QED
  BY <1>2, <1>3, <1>4

(* The other steps leave the runs alone.                                   *)
LEMMA RunsElsewhere ==
  ASSUME NEW r \in Requests,
         CountRecent(r) \/ Post(r) \/ CancelRun(r), ~Enqueue(r)
  PROVE  UNCHANGED <<run, owner>>
BY DEF CountRecent, CancelRun, Post, Gate, CheckKey, PoolTimeout, LoadPostings, FlushPostings,
       CheckActive, RecoverActive, AttachItems, Relink, Answer, tables, others

LEMMA SingleStep == Single /\ [Next]_vars => Single'
<1> SUFFICES ASSUME Single, [Next]_vars PROVE Single'
  OBVIOUS
<1>1. ASSUME UNCHANGED <<run, owner>> PROVE Single'
  BY <1>1 DEF Single
<1>2. ASSUME NEW r \in Requests, CountRecent(r) \/ Post(r) \/ CancelRun(r) PROVE Single'
  BY <1>1, <1>2, RunsElsewhere, EnqueueSingle
<1>3. ASSUME NEW r \in Requests, ControlCancel(r) PROVE Single'
  BY <1>3 DEF ControlCancel, Single, Active
<1>4. ASSUME NEW u \in Users, Pause(u) PROVE Single'
  BY <1>1, <1>4 DEF Pause, tables
<1>5. ASSUME NEW u \in Users, Resume(u) PROVE Single'
  BY <1>5, ResumeSingle
<1>6. CASE Worker
  BY <1>6, WorkerSingle
<1>7. CASE Crash
  BY <1>1, <1>7 DEF Crash, tables
<1>8. CASE UNCHANGED vars
  BY <1>1, <1>8 DEF vars
<1> QED
  BY <1>2, <1>3, <1>4, <1>5, <1>6, <1>7, <1>8 DEF Next, Done

(* A user never has two active runs, whatever the order in which requests  *)
(* check and insert and pauses, resumes, cancels and the worker move runs: *)
(* the unique index and the refusal to resume two of them are enough.      *)
THEOREM OneRunCorrect == Spec => []OneRunAtATime
<1>1. Init => Single
  BY DEF Init, Single
<1> QED
  BY <1>1, SingleStep, SingleSuffices, PTL DEF Spec

-----------------------------------------------------------------------------
(* Stranded runs.  Before the second commit a request's run has no key and *)
(* no items; it gets both there, or the request ends without them.         *)

Before == {"idle", "counted", "gated", "loading", "loaded", "flushed", "clear", "recovering"}
Chose == {"loaded", "flushed", "clear", "recovering", "enqueued"}

Stands(r) ==
  /\ pc[r] \in Before => r \notin DOMAIN run /\ r \notin keyed
  /\ pc[r] = "enqueued" => r \in DOMAIN run /\ r \notin keyed
  /\ pc[r] = "attached" => DOMAIN items[r] # {}
  /\ pc[r] \in Chose => Chosen[r] # {}
  /\ r \in DOMAIN run =>
       \/ pc[r] \in {"enqueued", "lost"} \/ DOMAIN items[r] # {}
       \/ (pc[r] = "refused" /\ SameKey(r) \ {r} # {})

Standing ==
  /\ DOMAIN pc = Requests /\ DOMAIN items = Requests
  /\ DOMAIN run \subseteq Requests /\ keyed \subseteq Requests
  /\ \A r \in Requests : Stands(r)

LEMMA StandingSuffices == Standing => StrandedOnlyByKeyOrRestart
<1> SUFFICES ASSUME Standing, NEW r \in DOMAIN run, pc[r] \in Ended, items[r] = <<>>
             PROVE  pc[r] = "lost" \/ (pc[r] = "refused" /\ SameKey(r) \ {r} # {})
  BY DEF StrandedOnlyByKeyOrRestart
<1>1. DOMAIN items[r] = {}
  OBVIOUS
<1> QED
  BY <1>1 DEF Standing, Stands, Ended

(* Keys are never taken back.                                              *)
LEMMA SameKeyStays ==
  ASSUME keyed \subseteq keyed', NEW r
  PROVE  SameKey(r) \subseteq SameKey(r)'
BY DEF SameKey

(* A request that moves leaves the runs of the others as they are.         *)
LEMMA OthersStand ==
  ASSUME Standing, NEW r \in Requests, NEW q \in Requests \ {r},
         pc'[q] = pc[q], items'[q] = items[q], keyed \subseteq keyed', q \in keyed' => q \in keyed,
         q \in DOMAIN run <=> q \in DOMAIN run'
  PROVE  Stands(q)'
BY SameKeyStays DEF Standing, Stands

(* So does one that ends, and its own.                                     *)
LEMMA MoverStands ==
  ASSUME Standing, NEW r \in Requests, UNCHANGED <<run, keyed, items>>,
         pc' = [pc EXCEPT ![r] = pc'[r]], Stands(r)'
  PROVE  Standing'
<1>1. \A q \in Requests \ {r} : Stands(q)'
  BY OthersStand DEF Standing
<1> QED
  BY <1>1 DEF Standing

LEMMA CheckStands ==
  ASSUME Standing, NEW r \in Requests,
         CountRecent(r) \/ Gate(r) \/ CheckKey(r) \/ PoolTimeout(r) \/ LoadPostings(r)
           \/ FlushPostings(r) \/ CheckActive(r) \/ RecoverActive(r)
  PROVE  Standing'
<1>1. /\ UNCHANGED <<run, keyed, items>> /\ pc[r] \in Before
      /\ \E place \in (Before \ {"idle"}) \union {"refused", "answering"} :
           /\ Goto(r, place)
           /\ place \in Chose => pc[r] \in Chose \/ Chosen[r] # {}
  BY DEF CountRecent, Gate, CheckKey, PoolTimeout, LoadPostings, FlushPostings, CheckActive,
         RecoverActive, Returns, Raises, Goto, tables, Before, Chose
<1>2. PICK place \in (Before \ {"idle"}) \union {"refused", "answering"} :
           /\ Goto(r, place)
           /\ place \in Chose => pc[r] \in Chose \/ Chosen[r] # {}
  BY <1>1
<1>3. pc' = [pc EXCEPT ![r] = place] /\ pc'[r] = place
  BY <1>2 DEF Goto, Standing
<1>4. Stands(r)'
  BY <1>1, <1>2, <1>3 DEF Standing, Stands, Before
<1> QED
  BY <1>1, <1>3, <1>4, MoverStands

LEMMA EnqueueStands == ASSUME Standing, NEW r \in Requests, Enqueue(r) PROVE Standing'
<1>1. pc[r] = "clear" /\ UNCHANGED <<keyed, items>>
  BY DEF Enqueue
<1>2. CASE Goto(r, "recovering") /\ UNCHANGED run
  <2>1. pc' = [pc EXCEPT ![r] = "recovering"] /\ pc'[r] = "recovering"
    BY <1>2 DEF Goto, Standing
  <2>2. Stands(r)'
    BY <1>1, <1>2, <2>1 DEF Standing, Stands, Before, Chose
  <2> QED
    BY <1>1, <1>2, <2>1, <2>2, MoverStands
<1>3. CASE /\ run' = [q \in DOMAIN run \union {r} |-> IF q = r THEN EnqueueStatus(r) ELSE run[q]]
           /\ Goto(r, "enqueued")
  <2>1. pc' = [pc EXCEPT ![r] = "enqueued"] /\ pc'[r] = "enqueued"
    BY <1>3 DEF Goto, Standing
  <2>2. DOMAIN run' = DOMAIN run \union {r}
    BY <1>3
  <2>3. Stands(r)'
    BY <1>1, <2>1, <2>2 DEF Standing, Stands, Before, Chose
  <2>4. \A q \in Requests \ {r} : Stands(q)'
    BY <1>1, <2>1, <2>2, OthersStand DEF Standing
  <2> QED
    BY <1>1, <2>1, <2>2, <2>3, <2>4 DEF Standing
<1> QED
  BY <1>2, <1>3 DEF Enqueue

(* A key that is taken makes the second commit fail; it belongs to another *)
(* run, since this one has none yet.                                       *)
LEMMA AttachStands == ASSUME Standing, NEW r \in Requests, AttachItems(r) PROVE Standing'
<1>1. /\ pc[r] = "enqueued" /\ UNCHANGED run
      /\ r \in DOMAIN run /\ r \notin keyed /\ Chosen[r] # {}
  BY DEF AttachItems, Standing, Stands, Chose
<1>2. CASE SameKey(r) # {}
  <2>1. UNCHANGED <<keyed, items>> /\ pc' = [pc EXCEPT ![r] = "refused"] /\ pc'[r] = "refused"
    BY <1>2 DEF AttachItems, Raises, Goto, Standing
  <2>2. SameKey(r)' \ {r} # {}
    BY <1>1, <1>2, <2>1 DEF SameKey
  <2>3. Stands(r)'
    BY <2>1, <2>2 DEF Stands, Before, Chose
  <2> QED
    BY <1>1, <2>1, <2>3, MoverStands
<1>3. CASE SameKey(r) = {}
  <2>1. /\ keyed' \in {keyed, keyed \union {r}}
        /\ items' = [items EXCEPT ![r] = [p \in Chosen[r] |-> "queued"]]
        /\ pc' = [pc EXCEPT ![r] = "attached"] /\ pc'[r] = "attached"
    BY <1>3 DEF AttachItems, Goto, Standing
  <2>2. DOMAIN items'[r] = Chosen[r]
    BY <2>1 DEF Standing
  <2>3. Stands(r)'
    BY <1>1, <2>1, <2>2 DEF Stands, Before, Chose
  <2>4. \A q \in Requests \ {r} : Stands(q)'
    BY <1>1, <2>1, OthersStand DEF Standing
  <2> QED
    BY <1>1, <2>1, <2>3, <2>4 DEF Standing
<1> QED
  BY <1>2, <1>3

LEMMA AnswerStands ==
  ASSUME Standing, NEW r \in Requests, Relink(r) \/ Answer(r)
  PROVE  Standing'
<1>1. /\ UNCHANGED <<run, keyed, items>> /\ pc[r] \in {"attached", "answering"}
      /\ Goto(r, "answering") \/ Goto(r, "answered")
  BY DEF Relink, Answer, Returns, tables
<1>2. /\ pc'[r] \in {"answering", "answered"} /\ pc' = [pc EXCEPT ![r] = pc'[r]]
  BY <1>1 DEF Goto, Standing
<1>3. Stands(r)'
  BY <1>1, <1>2 DEF Standing, Stands, Before, Chose
<1> QED
  BY <1>1, <1>2, <1>3, MoverStands

(* Nothing but these moves a request, and no item is ever deleted.         *)
LEMMA QuietStands ==
  ASSUME Standing, UNCHANGED <<pc, keyed>>, DOMAIN run' = DOMAIN run, DOMAIN items' = Requests,
         \A r \in Requests : DOMAIN items'[r] = DOMAIN items[r]
  PROVE  Standing'
BY SameKeyStays DEF Standing, Stands

LEMMA WorkerStands == ASSUME Standing, Worker PROVE Standing'
<1> PICK r \in Requests, p \in Postings : Claim(r, p) \/ Finish(r, p) \/ LeaseExpires(r, p)
  BY DEF Worker
<1>1. UNCHANGED <<pc, keyed>> /\ DOMAIN run' = DOMAIN run
  BY DEF Claim, Finish, LeaseExpires, requests
<1>2. \E value : items' = [items EXCEPT ![r][p] = value]
  BY DEF Claim, Finish, LeaseExpires
<1>3. DOMAIN items' = Requests /\ \A q \in Requests : DOMAIN items'[q] = DOMAIN items[q]
  BY <1>2 DEF Standing
<1> QED
  BY <1>1, <1>3, QuietStands

LEMMA CrashStands == ASSUME Standing, Crash PROVE Standing'
<1>1. /\ UNCHANGED <<run, keyed, items>>
      /\ pc' = [r \in Requests |-> IF pc[r] \in {"idle"} \union Ended THEN pc[r] ELSE "lost"]
  BY DEF Crash, tables
<1>2. ASSUME NEW r \in Requests PROVE Stands(r)'
  <2>1. SameKey(r)' = SameKey(r)
    BY <1>1 DEF SameKey
  <2> QED
    BY <1>1, <2>1 DEF Standing, Stands, Before, Chose, Ended
<1> QED
  BY <1>1, <1>2 DEF Standing

LEMMA StandingStep == Standing /\ [Next]_vars => Standing'
<1> SUFFICES ASSUME Standing, [Next]_vars PROVE Standing'
  OBVIOUS
<1>1. ASSUME NEW r \in Requests, CountRecent(r) \/ Post(r) PROVE Standing'
  BY <1>1, CheckStands, EnqueueStands, AttachStands, AnswerStands DEF Post
<1>2. ASSUME NEW r \in Requests, CancelRun(r) \/ ControlCancel(r) PROVE Standing'
  <2>1. UNCHANGED <<pc, keyed, items>> /\ DOMAIN run' = DOMAIN run
    BY <1>2 DEF CancelRun, ControlCancel, requests, tables
  <2> QED
    BY <2>1, QuietStands DEF Standing
<1>3. ASSUME NEW u \in Users, Pause(u) \/ Resume(u) PROVE Standing'
  <2>1. UNCHANGED <<pc, keyed, items>> /\ DOMAIN run' = DOMAIN run
    BY <1>3 DEF Pause, Resume, requests, tables
  <2> QED
    BY <2>1, QuietStands DEF Standing
<1>4. CASE Worker
  BY <1>4, WorkerStands
<1>5. CASE Crash
  BY <1>5, CrashStands
<1>6. CASE UNCHANGED vars
  BY <1>6, QuietStands DEF vars, Standing
<1> QED
  BY <1>1, <1>2, <1>3, <1>4, <1>5, <1>6 DEF Next, Done

(* A run without items whose request is over was left by a restart between *)
(* the two commits or by a run that took its idempotency key first.        *)
THEOREM StrandedCorrect == Spec => []StrandedOnlyByKeyOrRestart
<1>1. Init => Standing
  BY DEF Init, Standing, Stands, Before, Chose
<1> QED
  BY <1>1, StandingStep, StandingSuffices, PTL DEF Spec

-----------------------------------------------------------------------------
(* Charges.  What a request is about to be answered with exists, and only  *)
(* an answered request is in the ledger.                                   *)

Owes(r) ==
  /\ pc[r] \in {"enqueued", "attached"} => r \in DOMAIN run
  /\ pc[r] \in {"answering", "answered"} => answer[r] \in DOMAIN run \/ Chosen[r] = {}
  /\ r \in ledger => pc[r] = "answered"

Charging ==
  /\ DOMAIN pc = Requests /\ DOMAIN answer = Requests
  /\ ledger \subseteq Requests /\ keyed \subseteq DOMAIN run
  /\ \A r \in Requests : Owes(r)

(* A step of r leaves the answers of the other requests alone.             *)
OthersKeepAnswer(r) ==
  DOMAIN answer' = Requests /\ \A q \in Requests \ {r} : answer'[q] = answer[q]

LEMMA MoverOwes ==
  ASSUME Charging, NEW r \in Requests,
         pc' = [pc EXCEPT ![r] = pc'[r]], OthersKeepAnswer(r),
         DOMAIN run \subseteq DOMAIN run', keyed' \subseteq DOMAIN run',
         ledger \subseteq ledger', ledger' \subseteq ledger \union {r}, Owes(r)'
  PROVE  Charging'
<1>1. ASSUME NEW q \in Requests \ {r} PROVE Owes(q)'
  BY DEF Charging, Owes, OthersKeepAnswer
<1> QED
  BY <1>1 DEF Charging, OthersKeepAnswer

(* A step that answers nothing and creates no run.                         *)
LEMMA GoOn ==
  ASSUME Charging, NEW r \in Requests, UNCHANGED <<run, keyed, ledger, answer>>,
         pc[r] \notin Ended, NEW place, Goto(r, place),
         place \notin {"enqueued", "answering", "answered"}, place = "attached" => pc[r] = "enqueued"
  PROVE  Charging'
<1>1. pc' = [pc EXCEPT ![r] = pc'[r]] /\ pc'[r] = place /\ OthersKeepAnswer(r)
  BY DEF Goto, Charging, OthersKeepAnswer
<1>2. r \notin ledger
  BY DEF Charging, Owes, Ended
<1>3. Owes(r)'
  BY <1>1, <1>2 DEF Charging, Owes
<1> QED
  BY <1>1, <1>3, MoverOwes DEF Charging

LEMMA ReturnOwes ==
  ASSUME Charging, NEW r \in Requests, UNCHANGED <<run, keyed, ledger>>, pc[r] \notin Ended,
         NEW q, Returns(r, q), q \in DOMAIN run \/ Chosen[r] = {}
  PROVE  Charging'
<1>1. /\ pc' = [pc EXCEPT ![r] = pc'[r]] /\ pc'[r] = "answering"
      /\ OthersKeepAnswer(r) /\ answer'[r] = q
  BY DEF Returns, Goto, Charging, OthersKeepAnswer
<1>2. r \notin ledger
  BY DEF Charging, Owes, Ended
<1>3. Owes(r)'
  BY <1>1, <1>2 DEF Owes
<1> QED
  BY <1>1, <1>3, MoverOwes DEF Charging

LEMMA PostOwes == ASSUME Charging, NEW r \in Requests, CountRecent(r) \/ Post(r) PROVE Charging'
<1>1. CASE CountRecent(r)
  <2>1. /\ UNCHANGED <<run, keyed, ledger, answer>> /\ pc[r] = "idle"
        /\ Goto(r, "refused") \/ Goto(r, "counted")
    BY <1>1 DEF CountRecent, tables
  <2> QED
    BY <2>1, GoOn DEF Ended
<1>2. CASE Gate(r)
  <2>1. UNCHANGED <<run, keyed, ledger, answer>> /\ pc[r] = "counted" /\ Goto(r, "gated")
    BY <1>2 DEF Gate, tables
  <2> QED
    BY <2>1, GoOn DEF Ended
<1>3. CASE CheckKey(r)
  <2>1. /\ UNCHANGED <<run, keyed, ledger>> /\ pc[r] = "gated"
        /\ (Goto(r, "loading") /\ UNCHANGED answer) \/ \E q \in SameKey(r) : Returns(r, q)
    BY <1>3 DEF CheckKey, tables
  <2>2. CASE Goto(r, "loading") /\ UNCHANGED answer
    BY <2>1, <2>2, GoOn DEF Ended
  <2>3. ASSUME NEW q \in SameKey(r), Returns(r, q) PROVE Charging'
    <3>1. q \in DOMAIN run
      BY DEF SameKey, Charging
    <3> QED
      BY <2>1, <2>3, <3>1, ReturnOwes DEF Ended
  <2> QED
    BY <2>1, <2>2, <2>3
<1>4. CASE PoolTimeout(r)
  <2>1. UNCHANGED <<run, keyed, ledger, answer>> /\ pc[r] = "gated" /\ Goto(r, "refused")
    BY <1>4 DEF PoolTimeout, Raises, tables
  <2> QED
    BY <2>1, GoOn DEF Ended
<1>5. CASE LoadPostings(r)
  <2>1. /\ UNCHANGED <<run, keyed, ledger>> /\ pc[r] = "loading"
        /\ (Goto(r, "loaded") /\ UNCHANGED answer) \/ (Chosen[r] = {} /\ Returns(r, NoRequest))
    BY <1>5 DEF LoadPostings, tables
  <2> QED
    BY <2>1, GoOn, ReturnOwes DEF Ended
<1>6. CASE FlushPostings(r)
  <2>1. /\ UNCHANGED <<run, keyed, ledger, answer>> /\ pc[r] = "loaded"
        /\ Goto(r, "flushed") \/ Goto(r, "refused")
    BY <1>6 DEF FlushPostings, Raises, tables
  <2> QED
    BY <2>1, GoOn DEF Ended
<1>7. CASE CheckActive(r) \/ RecoverActive(r)
  <2>1. /\ UNCHANGED <<run, keyed, ledger>> /\ pc[r] \in {"flushed", "recovering"}
        /\ \/ (Goto(r, "clear") \/ Goto(r, "refused")) /\ UNCHANGED answer
           \/ \E q \in ActiveRuns(owner[r]) : Returns(r, q)
    BY <1>7 DEF CheckActive, RecoverActive, Raises, tables
  <2>2. ActiveRuns(owner[r]) \subseteq DOMAIN run
    BY DEF ActiveRuns, RunsOf
  <2>3. CASE (Goto(r, "clear") \/ Goto(r, "refused")) /\ UNCHANGED answer
    BY <2>1, <2>3, GoOn DEF Ended
  <2>4. ASSUME NEW q \in ActiveRuns(owner[r]), Returns(r, q) PROVE Charging'
    BY <2>1, <2>2, <2>4, ReturnOwes DEF Ended
  <2> QED
    BY <2>1, <2>3, <2>4
<1>8. CASE Enqueue(r)
  <2>1. pc[r] = "clear" /\ UNCHANGED <<keyed, ledger, answer>>
    BY <1>8 DEF Enqueue
  <2>2. CASE Goto(r, "recovering") /\ UNCHANGED run
    BY <2>1, <2>2, GoOn DEF Ended
  <2>3. CASE /\ run' = [q \in DOMAIN run \union {r} |-> IF q = r THEN EnqueueStatus(r) ELSE run[q]]
             /\ Goto(r, "enqueued")
    <3>1. /\ pc' = [pc EXCEPT ![r] = pc'[r]] /\ pc'[r] = "enqueued"
          /\ DOMAIN run' = DOMAIN run \union {r} /\ OthersKeepAnswer(r)
      BY <2>1, <2>3 DEF Goto, Charging, OthersKeepAnswer
    <3>2. Owes(r)'
      BY <2>1, <3>1 DEF Charging, Owes
    <3> QED
      BY <2>1, <3>1, <3>2, MoverOwes DEF Charging
  <2> QED
    BY <1>8, <2>2, <2>3 DEF Enqueue
<1>9. CASE AttachItems(r)
  <2>1. /\ pc[r] = "enqueued" /\ UNCHANGED <<run, ledger, answer>> /\ r \in DOMAIN run
        /\ keyed' \in {keyed, keyed \union {r}}
        /\ Goto(r, "refused") \/ Goto(r, "attached")
    BY <1>9 DEF AttachItems, Raises, Charging, Owes
  <2>2. /\ pc' = [pc EXCEPT ![r] = pc'[r]] /\ pc'[r] \in {"refused", "attached"}
        /\ OthersKeepAnswer(r)
    BY <2>1 DEF Goto, Charging, OthersKeepAnswer
  <2>3. Owes(r)'
    BY <2>1, <2>2 DEF Charging, Owes
  <2> QED
    BY <2>1, <2>2, <2>3, MoverOwes DEF Charging
<1>10. CASE Relink(r)
  <2>1. /\ UNCHANGED <<run, keyed, ledger>> /\ pc[r] = "attached" /\ Returns(r, r)
    BY <1>10 DEF Relink
  <2>2. r \in DOMAIN run
    BY <2>1 DEF Charging, Owes
  <2> QED
    BY <2>1, <2>2, ReturnOwes DEF Ended
<1>11. CASE Answer(r)
  <2>1. /\ UNCHANGED <<run, keyed, answer>> /\ pc[r] = "answering" /\ Goto(r, "answered")
        /\ ledger' \in {ledger, ledger \union {r}}
    BY <1>11 DEF Answer, tables
  <2>2. /\ pc' = [pc EXCEPT ![r] = pc'[r]] /\ pc'[r] = "answered"
        /\ OthersKeepAnswer(r)
    BY <2>1 DEF Goto, Charging, OthersKeepAnswer
  <2>3. Owes(r)'
    BY <2>1, <2>2 DEF Charging, Owes
  <2> QED
    BY <2>1, <2>2, <2>3, MoverOwes DEF Charging
<1> QED
  BY <1>1, <1>2, <1>3, <1>4, <1>5, <1>6, <1>7, <1>8, <1>9, <1>10, <1>11 DEF Post

LEMMA QuietOwes ==
  ASSUME Charging, UNCHANGED <<pc, answer, ledger, keyed>>, DOMAIN run' = DOMAIN run
  PROVE  Charging'
BY DEF Charging, Owes

LEMMA ChargingStep == Charging /\ [Next]_vars => Charging'
<1> SUFFICES ASSUME Charging, [Next]_vars PROVE Charging'
  OBVIOUS
<1>1. ASSUME NEW r \in Requests, CountRecent(r) \/ Post(r) PROVE Charging'
  BY <1>1, PostOwes
<1>2. ASSUME NEW r \in Requests, CancelRun(r) \/ ControlCancel(r) PROVE Charging'
  <2>1. UNCHANGED <<pc, answer, ledger, keyed>> /\ DOMAIN run' = DOMAIN run
    BY <1>2 DEF CancelRun, ControlCancel, requests, tables
  <2> QED
    BY <2>1, QuietOwes
<1>3. ASSUME NEW u \in Users, Pause(u) \/ Resume(u) PROVE Charging'
  <2>1. UNCHANGED <<pc, answer, ledger, keyed>> /\ DOMAIN run' = DOMAIN run
    BY <1>3 DEF Pause, Resume, requests, tables
  <2> QED
    BY <2>1, QuietOwes
<1>4. CASE Worker
  <2>1. UNCHANGED <<pc, answer, ledger, keyed>> /\ DOMAIN run' = DOMAIN run
    BY <1>4 DEF Worker, Claim, Finish, LeaseExpires, requests
  <2> QED
    BY <2>1, QuietOwes
<1>5. CASE Crash
  <2>1. /\ UNCHANGED <<run, keyed, ledger, answer>>
        /\ pc' = [r \in Requests |-> IF pc[r] \in {"idle"} \union Ended THEN pc[r] ELSE "lost"]
    BY <1>5 DEF Crash, tables
  <2>2. \A r \in Requests : Owes(r)'
    BY <2>1 DEF Charging, Owes, Ended
  <2> QED
    BY <2>1, <2>2 DEF Charging
<1>6. CASE UNCHANGED vars
  BY <1>6, QuietOwes DEF vars
<1> QED
  BY <1>1, <1>2, <1>3, <1>4, <1>5, <1>6 DEF Next, Done

(* A charge survives only with an answer: whatever exception, timeout of   *)
(* the pool or restart falls between the commits of the two sessions.      *)
THEOREM ChargedCorrect == Spec => []ChargedIsAnswered
<1>1. Init => Charging
  BY DEF Init, Charging, Owes
<1>2. Charging => ChargedIsAnswered
  BY DEF Charging, Owes, ChargedIsAnswered
<1> QED
  BY <1>1, <1>2, ChargingStep, PTL DEF Spec

-----------------------------------------------------------------------------
(* Types.  TypeOK says more than types: where items and locks may point.   *)
(* It becomes inductive with what a request carries from the look at its   *)
(* postings to the second commit (Imported), and with Charging.            *)

Statuses == {"queued", "running", "completed", "failed"}

RunTypes ==
  /\ DOMAIN run \subseteq Requests
  /\ \A r \in DOMAIN run : run[r] \in Active \union Terminal \union {"pending"}
  /\ keyed \subseteq DOMAIN run /\ told \subseteq DOMAIN run

Imported(r) ==
  /\ pc[r] \in {"loaded", "flushed", "clear"} => Chosen[r] \subseteq posted \union missing[r]
  /\ pc[r] = "enqueued" => Chosen[r] \subseteq posted

ItemsFit(r) ==
  /\ DOMAIN items[r] \subseteq posted
  /\ \A p \in DOMAIN items[r] : items[r][p] \in Statuses
  /\ items[r] # <<>> => r \in DOMAIN run

ItemTypes ==
  /\ DOMAIN items = Requests /\ posted \subseteq Postings
  /\ \A r \in Requests : ItemsFit(r) /\ Imported(r)

FlowTypes ==
  /\ pc \in [Requests -> Places]
  /\ missing \in [Requests -> SUBSET Postings]
  /\ answer \in [Requests -> Requests \union {NoRequest}]
  /\ ledger \subseteq Requests /\ relinked \subseteq ledger
  /\ paused \subseteq Users

LockFits(u) ==
  lock[u] # NoRequest =>
    /\ lock[u] \in Requests
    /\ owner[lock[u]] = u
    /\ pc[lock[u]] \notin {"idle", "counted"} \union Ended
    /\ lock[u] \notin ledger

LockTypes ==
  /\ DOMAIN lock = Users
  /\ \A u \in Users : LockFits(u)

FixedTypes ==
  /\ owner \in Owners /\ pool \in PoolSizes
  /\ controls \in 0 .. MaxControls /\ crashes \in 0 .. MaxCrashes

RankInv == RunTypes /\ ItemTypes /\ FlowTypes /\ LockTypes /\ FixedTypes /\ Charging

LEMMA RankInvSuffices == RankInv => TypeOK
<1> SUFFICES ASSUME RankInv PROVE TypeOK
  OBVIOUS
<1>1. ASSUME NEW r \in Requests
      PROVE  /\ DOMAIN items[r] \subseteq posted
             /\ ItemsIn(r, {"queued", "running", "completed", "failed"}) = DOMAIN items[r]
             /\ items[r] # <<>> => r \in DOMAIN run
  BY DEF RankInv, ItemTypes, ItemsFit, ItemsIn, Statuses
<1>2. ASSUME NEW u \in Users, lock[u] # NoRequest
      PROVE  /\ owner[lock[u]] = u
             /\ pc[lock[u]] \notin {"idle", "counted"} \union Ended
             /\ lock[u] \notin ledger
  BY <1>2 DEF RankInv, LockTypes, LockFits
<1> QED
  BY <1>1, <1>2 DEF RankInv, RunTypes, ItemTypes, FlowTypes, FixedTypes, TypeOK

(* A request's own steps, by what they move.                               *)
Looks(r) ==
  \/ CountRecent(r) \/ Gate(r) \/ CheckKey(r) \/ PoolTimeout(r) \/ LoadPostings(r)
  \/ FlushPostings(r) \/ CheckActive(r) \/ RecoverActive(r) \/ Relink(r) \/ Answer(r)

LEMMA LooksKeep ==
  ASSUME NEW r \in Requests, Looks(r)
  PROVE  UNCHANGED <<run, keyed, items, posted, told, paused, owner, pool, controls, crashes>>
BY DEF Looks, CountRecent, Gate, CheckKey, PoolTimeout, LoadPostings, FlushPostings, CheckActive,
       RecoverActive, Relink, Answer, tables, others

LEMMA PostSplit ==
  ASSUME NEW r \in Requests, CountRecent(r) \/ Post(r)
  PROVE  Looks(r) \/ Enqueue(r) \/ AttachItems(r)
BY DEF Post, Looks

(* The same for every action, as the parts of the invariant use it.        *)
Quiet == UNCHANGED <<pc, missing, answer, ledger, lock>>

LEMMA ControlsKeep ==
  ASSUME (\E r \in Requests : CancelRun(r) \/ ControlCancel(r))
           \/ (\E u \in Users : Pause(u) \/ Resume(u)) \/ Worker
  PROVE  /\ Quiet
         /\ UNCHANGED <<keyed, posted, relinked, owner, pool, crashes>>
         /\ DOMAIN run' = DOMAIN run
BY DEF CancelRun, ControlCancel, Pause, Resume, Worker, Claim, Finish, LeaseExpires, requests,
       tables, others, Quiet

-----------------------------------------------------------------------------
LEMMA RunTypesStep == ASSUME RankInv, [Next]_vars PROVE RunTypes'
<1> USE DEF RankInv
<1>1. ASSUME UNCHANGED <<run, keyed, told>> PROVE RunTypes'
  BY <1>1 DEF RunTypes
<1>2. ASSUME NEW r \in Requests, Enqueue(r) PROVE RunTypes'
  <2>1. EnqueueStatus(r) \in Active \union {"pending"}
    BY DEF EnqueueStatus, Active
  <2>2. UNCHANGED <<keyed, told>>
    BY <1>2 DEF Enqueue, others
  <2>3. \/ UNCHANGED run
        \/ run' = [q \in DOMAIN run \union {r} |-> IF q = r THEN EnqueueStatus(r) ELSE run[q]]
    BY <1>2 DEF Enqueue
  <2> QED
    BY <2>1, <2>2, <2>3 DEF RunTypes
<1>3. ASSUME NEW r \in Requests, AttachItems(r) PROVE RunTypes'
  <2>1. r \in DOMAIN run /\ UNCHANGED <<run, told>> /\ keyed' \subseteq keyed \union {r}
    BY <1>3 DEF AttachItems, others, Charging, Owes
  <2> QED
    BY <2>1 DEF RunTypes
<1>4. ASSUME NEW r \in Requests, CancelRun(r) PROVE RunTypes'
  BY <1>4 DEF CancelRun, tables, RunTypes
<1>5. ASSUME NEW r \in Requests, ControlCancel(r) PROVE RunTypes'
  BY <1>5 DEF ControlCancel, RunTypes, Terminal
<1>6. ASSUME NEW u \in Users, Resume(u) PROVE RunTypes'
  BY <1>6 DEF Resume, RunTypes, Active
<1>7. ASSUME NEW r \in Requests, NEW p \in Postings, Claim(r, p) \/ Finish(r, p) \/ LeaseExpires(r, p)
      PROVE  RunTypes'
  BY <1>7 DEF Claim, Finish, LeaseExpires, others, RunTypes, Active, Terminal
<1>8. CASE UNCHANGED vars
  BY <1>1, <1>8 DEF vars
<1>9. ASSUME NEW r \in Requests, CountRecent(r) \/ Post(r) PROVE RunTypes'
  BY <1>1, <1>2, <1>3, <1>9, PostSplit, LooksKeep
<1>10. (Crash \/ \E u \in Users : Pause(u)) => UNCHANGED <<run, keyed, told>>
  BY DEF Crash, Pause, tables
<1> QED
  BY <1>1, <1>4, <1>5, <1>6, <1>7, <1>8, <1>9, <1>10 DEF Next, Done, Worker

LEMMA FlowTypesStep == ASSUME RankInv, [Next]_vars PROVE FlowTypes'
<1> USE DEF RankInv
<1>1. ASSUME NEW r \in Requests, NEW place \in Places, Goto(r, place) PROVE pc' \in [Requests -> Places]
  BY <1>1 DEF Goto, FlowTypes
<1>2. ASSUME NEW r \in Requests, NEW q \in Requests \union {NoRequest}, Returns(r, q)
      PROVE  /\ pc' \in [Requests -> Places]
             /\ missing' \in [Requests -> SUBSET Postings]
             /\ answer' \in [Requests -> Requests \union {NoRequest}]
  BY <1>1, <1>2 DEF Returns, FlowTypes, Places
<1>3. ASSUME NEW r \in Requests, Raises(r)
      PROVE  /\ pc' \in [Requests -> Places]
             /\ missing' \in [Requests -> SUBSET Postings]
             /\ answer' \in [Requests -> Requests \union {NoRequest}]
  BY <1>1, <1>3 DEF Raises, FlowTypes, Places, Ended
<1>4. ASSUME NEW r \in Requests
      PROVE  SameKey(r) \subseteq Requests /\ ActiveRuns(owner[r]) \subseteq Requests
  BY DEF SameKey, ActiveRuns, RunsOf, RunTypes
<1>5. ASSUME NEW r \in Requests, Looks(r) \/ Enqueue(r) \/ AttachItems(r)
      PROVE  /\ pc' \in [Requests -> Places]
             /\ missing' \in [Requests -> SUBSET Postings]
             /\ answer' \in [Requests -> Requests \union {NoRequest}]
  <2>1. CASE CountRecent(r)
    BY <1>1, <2>1 DEF CountRecent, FlowTypes, Places, Ended
  <2>2. CASE Gate(r)
    BY <1>1, <2>2 DEF Gate, FlowTypes, Places
  <2>3. CASE CheckKey(r)
    BY <1>1, <1>2, <1>4, <2>3 DEF CheckKey, FlowTypes, Places
  <2>4. CASE PoolTimeout(r)
    BY <1>3, <2>4 DEF PoolTimeout
  <2>5. CASE LoadPostings(r)
    <3>1. CASE Chosen[r] = {}
      BY <1>2, <2>5, <3>1 DEF LoadPostings
    <3>2. CASE Chosen[r] # {}
      <4>1. /\ missing' = [missing EXCEPT ![r] = Chosen[r] \ posted]
            /\ Goto(r, "loaded") /\ UNCHANGED answer
        BY <2>5, <3>2 DEF LoadPostings
      <4>2. Chosen[r] \ posted \in SUBSET Postings
        BY RankRunsAssumption
      <4> QED
        BY <1>1, <4>1, <4>2 DEF FlowTypes, Places
    <3> QED
      BY <3>1, <3>2
  <2>6. CASE FlushPostings(r)
    BY <1>1, <1>3, <2>6 DEF FlushPostings, FlowTypes, Places
  <2>7. CASE CheckActive(r)
    BY <1>1, <1>2, <1>4, <2>7 DEF CheckActive, FlowTypes, Places
  <2>8. CASE RecoverActive(r)
    BY <1>2, <1>3, <1>4, <2>8 DEF RecoverActive
  <2>9. CASE Relink(r)
    BY <1>2, <2>9 DEF Relink
  <2>10. CASE Answer(r)
    BY <1>1, <2>10 DEF Answer, FlowTypes, Places, Ended
  <2>11. CASE Enqueue(r)
    BY <1>1, <2>11 DEF Enqueue, FlowTypes, Places
  <2>12. CASE AttachItems(r)
    BY <1>1, <1>3, <2>12 DEF AttachItems, FlowTypes, Places
  <2> QED
    BY <1>5, <2>1, <2>2, <2>3, <2>4, <2>5, <2>6, <2>7, <2>8, <2>9, <2>10, <2>11, <2>12 DEF Looks
<1>6. ASSUME NEW r \in Requests, Looks(r) \/ Enqueue(r) \/ AttachItems(r)
      PROVE  ledger' \subseteq Requests /\ relinked' \subseteq ledger' /\ paused' \subseteq Users
  <2>1. UNCHANGED paused
    BY <1>6 DEF Looks, CountRecent, Gate, CheckKey, PoolTimeout, LoadPostings, FlushPostings,
                CheckActive, RecoverActive, Relink, Answer, Enqueue, AttachItems, others
  <2>2. \/ UNCHANGED <<ledger, relinked>>
        \/ UNCHANGED ledger /\ relinked' = relinked \union ({r} \intersect ledger)
        \/ UNCHANGED relinked /\ ledger' = IF lock[owner[r]] = r THEN ledger \union {r} ELSE ledger
    BY <1>6 DEF Looks, CountRecent, Gate, CheckKey, PoolTimeout, LoadPostings, FlushPostings,
                CheckActive, RecoverActive, Relink, Answer, Enqueue, AttachItems, tables
  <2> QED
    BY <2>1, <2>2 DEF FlowTypes
<1>7. ASSUME NEW r \in Requests, CountRecent(r) \/ Post(r) PROVE FlowTypes'
  BY <1>5, <1>6, <1>7, PostSplit DEF FlowTypes
<1>8. ASSUME Quiet, UNCHANGED relinked, paused' \subseteq Users PROVE FlowTypes'
  BY <1>8 DEF Quiet, FlowTypes
<1>9. ASSUME (\E r \in Requests : CancelRun(r) \/ ControlCancel(r))
               \/ (\E u \in Users : Pause(u) \/ Resume(u)) \/ Worker
      PROVE  FlowTypes'
  <2>1. paused' \subseteq Users
    BY <1>9 DEF CancelRun, ControlCancel, Pause, Resume, Worker, Claim, Finish, LeaseExpires,
                others, FlowTypes
  <2> QED
    BY <1>8, <1>9, <2>1, ControlsKeep
<1>10. CASE Crash
  <2>1. pc' \in [Requests -> Places]
    BY <1>10 DEF Crash, FlowTypes, Places, Ended
  <2>2. missing' \in [Requests -> SUBSET Postings]
    BY <1>10 DEF Crash
  <2> QED
    BY <1>10, <2>1, <2>2 DEF Crash, FlowTypes, tables
<1>11. CASE UNCHANGED vars
  BY <1>11 DEF vars, FlowTypes
<1> QED
  BY <1>7, <1>9, <1>10, <1>11 DEF Next, Done

(* A request that stays in flight and commits nothing keeps its lock.      *)
LEMMA InFlightLocks ==
  ASSUME RankInv, NEW r \in Requests, NEW place \in Places \ ({"idle", "counted"} \union Ended),
         Goto(r, place), UNCHANGED <<lock, ledger, owner>>
  PROVE  LockTypes'
<1>1. ASSUME NEW u \in Users PROVE LockFits(u)'
  BY DEF RankInv, LockTypes, LockFits, Goto, FlowTypes
<1> QED
  BY <1>1 DEF RankInv, LockTypes

LEMMA ReturnsLocks ==
  ASSUME RankInv, NEW r \in Requests, NEW q, Returns(r, q), UNCHANGED <<lock, ledger, owner>>
  PROVE  LockTypes'
<1>1. "answering" \in Places \ ({"idle", "counted"} \union Ended)
  BY DEF Places, Ended
<1> QED
  BY <1>1, InFlightLocks DEF Returns

(* One that ends gives it up.                                              *)
LEMMA EndingLocks ==
  ASSUME RankInv, NEW r \in Requests, UNCHANGED owner,
         lock' = [lock EXCEPT ![owner[r]] = IF @ = r THEN NoRequest ELSE @],
         NEW place, Goto(r, place), ledger' \subseteq ledger \union {r}
  PROVE  LockTypes'
<1>1. owner[r] \in Users
  BY RankRunsAssumption DEF RankInv, FixedTypes
<1>2. ASSUME NEW u \in Users, lock'[u] # NoRequest
      PROVE  lock'[u] = lock[u] /\ lock[u] # r /\ lock[u] # NoRequest
  BY <1>1, <1>2 DEF RankInv, LockTypes, LockFits
<1>3. ASSUME NEW u \in Users PROVE LockFits(u)'
  <2> SUFFICES ASSUME lock'[u] # NoRequest
               PROVE  /\ lock'[u] \in Requests
                      /\ owner'[lock'[u]] = u
                      /\ pc'[lock'[u]] \notin {"idle", "counted"} \union Ended
                      /\ lock'[u] \notin ledger'
    BY DEF LockFits
  <2>1. lock'[u] = lock[u] /\ lock[u] # r /\ lock[u] # NoRequest
    BY <1>2
  <2>2. LockFits(u)
    BY DEF RankInv, LockTypes
  <2> QED
    BY <2>1, <2>2 DEF LockFits, Goto, RankInv, FlowTypes
<1>4. DOMAIN lock' = Users
  BY DEF RankInv, LockTypes
<1> QED
  BY <1>3, <1>4 DEF LockTypes

LEMMA RaisesLocks ==
  ASSUME RankInv, NEW r \in Requests, Raises(r), UNCHANGED <<ledger, owner>>
  PROVE  LockTypes'
BY EndingLocks DEF Raises

LEMMA LockTypesStep == ASSUME RankInv, [Next]_vars PROVE LockTypes'
<1>1. ASSUME NEW r \in Requests, Looks(r) \/ Enqueue(r) \/ AttachItems(r)
      PROVE  LockTypes'
  <2>0. owner' = owner
    BY <1>1, LooksKeep DEF Enqueue, AttachItems, others
  <2> DEFINE flight == Places \ ({"idle", "counted"} \union Ended)
  <2>p. {"gated", "loading", "loaded", "flushed", "clear", "recovering", "enqueued", "attached"} \subseteq flight
    BY DEF Places, Ended
  <2> HIDE DEF flight
  <2>f. ASSUME NEW place \in flight, Goto(r, place), UNCHANGED <<lock, ledger>> PROVE LockTypes'
    BY <2>0, <2>f, InFlightLocks DEF flight
  <2>r. ASSUME NEW q, Returns(r, q), UNCHANGED <<lock, ledger>> PROVE LockTypes'
    BY <2>0, <2>r, ReturnsLocks
  <2>e. ASSUME Raises(r), UNCHANGED ledger PROVE LockTypes'
    BY <2>0, <2>e, RaisesLocks
  <2>1. CASE CountRecent(r)
    <3>1. /\ pc[r] = "idle" /\ UNCHANGED <<ledger, lock>>
          /\ \E place : Goto(r, place)
      BY <2>1 DEF CountRecent
    <3>2. ASSUME NEW u \in Users, lock[u] # NoRequest PROVE lock[u] # r
      BY <3>1, <3>2 DEF RankInv, LockTypes, LockFits
    <3>3. ASSUME NEW u \in Users PROVE LockFits(u)'
      BY <2>0, <3>1, <3>2 DEF Goto, RankInv, LockTypes, LockFits, FlowTypes
    <3> QED
      BY <3>1, <3>3 DEF LockTypes, RankInv
  <2>2. CASE Gate(r)
    <3>1. /\ pc[r] = "counted" /\ UNCHANGED ledger
          /\ lock' \in {lock, [lock EXCEPT ![owner[r]] = r]}
          /\ pc' = [pc EXCEPT ![r] = "gated"]
      BY <2>2 DEF Gate, Goto
    <3>2. r \notin ledger
      BY <3>1 DEF RankInv, Charging, Owes
    <3>3. ASSUME NEW u \in Users PROVE LockFits(u)'
      <4> SUFFICES ASSUME lock'[u] # NoRequest
                   PROVE  /\ lock'[u] \in Requests
                          /\ owner'[lock'[u]] = u
                          /\ pc'[lock'[u]] \notin {"idle", "counted"} \union Ended
                          /\ lock'[u] \notin ledger'
        BY DEF LockFits
      <4>1. LockFits(u)
        BY DEF RankInv, LockTypes
      <4>2. CASE lock'[u] = r /\ u = owner[r]
        BY <2>0, <3>1, <3>2, <4>2 DEF RankInv, FlowTypes, Ended
      <4>3. CASE lock'[u] = lock[u]
        BY <2>0, <3>1, <4>1, <4>3 DEF LockFits, RankInv, FlowTypes, Ended
      <4> QED
        BY <3>1, <4>2, <4>3 DEF RankInv, LockTypes
    <3>4. DOMAIN lock' = Users
      BY <3>1 DEF RankInv, LockTypes
    <3> QED
      BY <3>3, <3>4 DEF LockTypes
  <2>3. CASE CheckKey(r)
    <3>1. UNCHANGED <<lock, ledger>> /\ ((\E q \in SameKey(r) : Returns(r, q)) \/ Goto(r, "loading"))
      BY <2>3 DEF CheckKey
    <3> QED
      BY <2>p, <2>f, <2>r, <3>1
  <2>4. CASE PoolTimeout(r)
    BY <2>e, <2>4 DEF PoolTimeout
  <2>5. CASE LoadPostings(r)
    <3>1. UNCHANGED <<lock, ledger>> /\ (Returns(r, NoRequest) \/ Goto(r, "loaded"))
      BY <2>5 DEF LoadPostings
    <3> QED
      BY <2>p, <2>f, <2>r, <3>1
  <2>6. CASE FlushPostings(r)
    <3>1. UNCHANGED ledger /\ (Raises(r) \/ (Goto(r, "flushed") /\ UNCHANGED lock))
      BY <2>6 DEF FlushPostings
    <3> QED
      BY <2>p, <2>f, <2>e, <3>1
  <2>7. CASE CheckActive(r)
    <3>1. UNCHANGED <<lock, ledger>> /\ ((\E q \in ActiveRuns(owner[r]) : Returns(r, q)) \/ Goto(r, "clear"))
      BY <2>7 DEF CheckActive
    <3> QED
      BY <2>p, <2>f, <2>r, <3>1
  <2>8. CASE RecoverActive(r)
    <3>1. UNCHANGED ledger
      BY <2>8 DEF RecoverActive
    <3>2. Raises(r) \/ ((\E q \in ActiveRuns(owner[r]) : Returns(r, q)) /\ UNCHANGED lock)
      BY <2>8 DEF RecoverActive
    <3> QED
      BY <2>e, <2>r, <3>1, <3>2
  <2>9. CASE Relink(r)
    BY <2>r, <2>9 DEF Relink
  <2>10. CASE Answer(r)
    <3>1. /\ ledger' \subseteq ledger \union {r}
          /\ lock' = [lock EXCEPT ![owner[r]] = IF @ = r THEN NoRequest ELSE @]
          /\ Goto(r, "answered")
      BY <2>10 DEF Answer
    <3> QED
      BY <2>0, <3>1, EndingLocks
  <2>11. CASE Enqueue(r)
    <3>1. UNCHANGED <<lock, ledger>> /\ (Goto(r, "recovering") \/ Goto(r, "enqueued"))
      BY <2>11 DEF Enqueue
    <3> QED
      BY <2>p, <2>f, <3>1
  <2>12. CASE AttachItems(r)
    <3>1. UNCHANGED ledger /\ (Raises(r) \/ (Goto(r, "attached") /\ UNCHANGED lock))
      BY <2>12 DEF AttachItems
    <3> QED
      BY <2>p, <2>f, <2>e, <3>1
  <2> QED
    BY <1>1, <2>1, <2>2, <2>3, <2>4, <2>5, <2>6, <2>7, <2>8, <2>9, <2>10, <2>11, <2>12 DEF Looks
<1>2. ASSUME Quiet, UNCHANGED owner PROVE LockTypes'
  BY <1>2 DEF Quiet, RankInv, LockTypes, LockFits
<1>3. CASE Crash
  BY <1>3 DEF Crash, LockTypes, LockFits
<1>4. CASE UNCHANGED vars
  BY <1>2, <1>4 DEF vars, Quiet
<1> QED
  BY <1>1, <1>2, <1>3, <1>4, PostSplit, ControlsKeep DEF Next, Done

-----------------------------------------------------------------------------
(* Items.                                                                  *)

LEMMA OthersImported ==
  ASSUME RankInv, NEW r \in Requests, NEW q \in Requests \ {r},
         pc'[q] = pc[q], missing'[q] = missing[q], posted \subseteq posted'
  PROVE  Imported(q)'
BY DEF RankInv, ItemTypes, Imported

LEMMA SameItemsFit ==
  ASSUME RankInv, NEW q \in Requests, items'[q] = items[q], posted \subseteq posted',
         DOMAIN run \subseteq DOMAIN run'
  PROVE  ItemsFit(q)'
BY DEF RankInv, ItemTypes, ItemsFit

(* A step of r that leaves the items alone.                                *)
LEMMA MoverImports ==
  ASSUME RankInv, NEW r \in Requests, UNCHANGED items, DOMAIN run \subseteq DOMAIN run',
         posted \subseteq posted', posted' \subseteq Postings,
         NEW place, Goto(r, place), \A q \in Requests \ {r} : missing'[q] = missing[q],
         place \in {"loaded", "flushed", "clear"} => Chosen[r] \subseteq posted' \union missing'[r],
         place = "enqueued" => Chosen[r] \subseteq posted'
  PROVE  ItemTypes'
<1>1. pc'[r] = place /\ \A q \in Requests \ {r} : pc'[q] = pc[q]
  BY DEF Goto, RankInv, FlowTypes
<1>2. Imported(r)'
  BY <1>1 DEF Imported
<1>3. \A q \in Requests : ItemsFit(q)'
  BY SameItemsFit
<1>4. \A q \in Requests : Imported(q)'
  BY <1>1, <1>2, OthersImported
<1> QED
  BY <1>3, <1>4 DEF ItemTypes, RankInv

LEMMA ItemTypesStep == ASSUME RankInv, [Next]_vars PROVE ItemTypes'
<1>m. ASSUME NEW r \in Requests, NEW S, missing' = [missing EXCEPT ![r] = S]
      PROVE  missing'[r] = S /\ \A q \in Requests \ {r} : missing'[q] = missing[q]
  BY <1>m DEF RankInv, FlowTypes
<1>p. posted \subseteq Postings
  BY DEF RankInv, ItemTypes
<1>r. ASSUME NEW r \in Requests, UNCHANGED <<items, run, posted>>, NEW q, Returns(r, q) PROVE ItemTypes'
  BY <1>m, <1>p, <1>r, MoverImports DEF Returns
<1>e. ASSUME NEW r \in Requests, UNCHANGED <<items, run, posted>>, Raises(r) PROVE ItemTypes'
  BY <1>m, <1>p, <1>e, MoverImports DEF Raises
<1>g. ASSUME NEW r \in Requests, UNCHANGED <<items, run, posted, missing>>,
             NEW place, Goto(r, place), place # "enqueued",
             place \in {"loaded", "flushed", "clear"} => pc[r] \in {"loaded", "flushed", "clear"}
      PROVE  ItemTypes'
  <2>1. place \in {"loaded", "flushed", "clear"} => Chosen[r] \subseteq posted' \union missing'[r]
    BY <1>g DEF RankInv, ItemTypes, Imported
  <2> QED
    BY <1>p, <1>g, <2>1, MoverImports
<1>1. ASSUME NEW r \in Requests, Looks(r) PROVE ItemTypes'
  <2>0. UNCHANGED <<items, run, posted>>
    BY <1>1, LooksKeep
  <2>1. CASE CountRecent(r)
    BY <1>g, <2>0, <2>1 DEF CountRecent
  <2>2. CASE Gate(r)
    BY <1>g, <2>0, <2>2 DEF Gate
  <2>3. CASE CheckKey(r)
    BY <1>g, <1>r, <2>0, <2>3 DEF CheckKey
  <2>4. CASE PoolTimeout(r)
    BY <1>e, <2>0, <2>4 DEF PoolTimeout
  <2>5. CASE LoadPostings(r)
    <3>1. \/ Returns(r, NoRequest)
          \/ missing' = [missing EXCEPT ![r] = Chosen[r] \ posted] /\ Goto(r, "loaded")
      BY <2>5 DEF LoadPostings
    <3>2. CASE missing' = [missing EXCEPT ![r] = Chosen[r] \ posted] /\ Goto(r, "loaded")
      <4>1. /\ missing'[r] = Chosen[r] \ posted
            /\ \A q \in Requests \ {r} : missing'[q] = missing[q]
        BY <1>m, <3>2
      <4>2. Chosen[r] \subseteq posted' \union missing'[r]
        BY <2>0, <4>1
      <4> QED
        BY <1>p, <2>0, <3>2, <4>1, <4>2, MoverImports
    <3> QED
      BY <1>r, <2>0, <3>1, <3>2
  <2>6. CASE FlushPostings(r)
    <3>1. pc[r] = "loaded" /\ (Raises(r) \/ (Goto(r, "flushed") /\ UNCHANGED missing))
      BY <2>6 DEF FlushPostings
    <3> QED
      BY <1>g, <1>e, <2>0, <3>1
  <2>7. CASE CheckActive(r)
    <3>1. /\ pc[r] = "flushed"
          /\ \/ \E q \in ActiveRuns(owner[r]) : Returns(r, q)
             \/ Goto(r, "clear") /\ UNCHANGED missing
      BY <2>7 DEF CheckActive
    <3> QED
      BY <1>g, <1>r, <2>0, <3>1
  <2>8. CASE RecoverActive(r)
    <3>1. Raises(r) \/ \E q \in ActiveRuns(owner[r]) : Returns(r, q)
      BY <2>8 DEF RecoverActive
    <3> QED
      BY <1>e, <1>r, <2>0, <3>1
  <2>9. CASE Relink(r)
    BY <1>r, <2>0, <2>9 DEF Relink
  <2>10. CASE Answer(r)
    BY <1>g, <2>0, <2>10 DEF Answer
  <2> QED
    BY <1>1, <2>1, <2>2, <2>3, <2>4, <2>5, <2>6, <2>7, <2>8, <2>9, <2>10 DEF Looks
<1>2. ASSUME NEW r \in Requests, Enqueue(r) PROVE ItemTypes'
  <2>1. /\ pc[r] = "clear" /\ UNCHANGED items
        /\ missing' = [missing EXCEPT ![r] = {}]
        /\ \/ Goto(r, "recovering") /\ UNCHANGED <<run, posted>>
           \/ /\ run' = [q \in DOMAIN run \union {r} |-> IF q = r THEN EnqueueStatus(r) ELSE run[q]]
              /\ posted' = posted \union missing[r]
              /\ Goto(r, "enqueued")
    BY <1>2 DEF Enqueue
  <2>2. \A q \in Requests \ {r} : missing'[q] = missing[q]
    BY <1>m, <2>1
  <2>3. Chosen[r] \subseteq posted \union missing[r] /\ missing[r] \subseteq Postings
    BY <2>1 DEF RankInv, ItemTypes, Imported, FlowTypes
  <2>4. CASE Goto(r, "recovering") /\ UNCHANGED <<run, posted>>
    BY <1>p, <2>1, <2>2, <2>4, MoverImports
  <2>5. CASE /\ run' = [q \in DOMAIN run \union {r} |-> IF q = r THEN EnqueueStatus(r) ELSE run[q]]
             /\ posted' = posted \union missing[r]
             /\ Goto(r, "enqueued")
    <3>1. DOMAIN run \subseteq DOMAIN run' /\ posted \subseteq posted' /\ posted' \subseteq Postings
      BY <1>p, <2>3, <2>5
    <3>2. Chosen[r] \subseteq posted'
      BY <2>3, <2>5
    <3> QED
      BY <2>1, <2>2, <2>5, <3>1, <3>2, MoverImports
  <2> QED
    BY <2>1, <2>4, <2>5
<1>3. ASSUME NEW r \in Requests, AttachItems(r) PROVE ItemTypes'
  <2>0. UNCHANGED <<run, posted>> /\ pc[r] = "enqueued"
    BY <1>3 DEF AttachItems
  <2>1. CASE SameKey(r) # {}
    BY <1>e, <1>3, <2>0, <2>1 DEF AttachItems
  <2>2. CASE SameKey(r) = {}
    <3>1. /\ items' = [items EXCEPT ![r] = [p \in Chosen[r] |-> "queued"]]
          /\ Goto(r, "attached") /\ UNCHANGED missing
      BY <1>3, <2>2 DEF AttachItems
    <3>2. /\ DOMAIN items' = Requests
          /\ items'[r] = [p \in Chosen[r] |-> "queued"]
          /\ \A q \in Requests \ {r} : items'[q] = items[q]
      BY <3>1 DEF RankInv, ItemTypes
    <3>3. Chosen[r] \subseteq posted /\ r \in DOMAIN run
      BY <2>0 DEF RankInv, ItemTypes, Imported, Charging, Owes
    <3>4. ItemsFit(r)'
      BY <2>0, <3>2, <3>3 DEF ItemsFit, Statuses
    <3>5. \A q \in Requests : ItemsFit(q)'
      BY <2>0, <3>2, <3>4, SameItemsFit
    <3>6. pc'[r] = "attached" /\ \A q \in Requests \ {r} : pc'[q] = pc[q]
      BY <3>1 DEF Goto, RankInv, FlowTypes
    <3>7. Imported(r)'
      BY <3>6 DEF Imported
    <3>8. \A q \in Requests : Imported(q)'
      BY <2>0, <3>1, <3>6, <3>7, OthersImported
    <3> QED
      BY <1>p, <2>0, <3>2, <3>5, <3>8 DEF ItemTypes
  <2> QED
    BY <2>1, <2>2
<1>4. ASSUME UNCHANGED <<pc, missing, posted>>, DOMAIN run' = DOMAIN run, DOMAIN items' = Requests,
             \A r \in Requests : ItemsFit(r)'
      PROVE  ItemTypes'
  BY <1>p, <1>4 DEF RankInv, ItemTypes, Imported
<1>5. ASSUME UNCHANGED <<pc, missing, posted, items>>, DOMAIN run' = DOMAIN run PROVE ItemTypes'
  BY <1>4, <1>5, SameItemsFit DEF RankInv, ItemTypes
<1>6. ASSUME NEW r \in Requests, CancelRun(r) \/ ControlCancel(r) PROVE ItemTypes'
  <2>1. UNCHANGED <<pc, missing, posted, items>> /\ DOMAIN run' = DOMAIN run
    BY <1>6 DEF CancelRun, ControlCancel, requests, tables
  <2> QED
    BY <1>5, <2>1
<1>7. ASSUME NEW u \in Users, Pause(u) \/ Resume(u) PROVE ItemTypes'
  <2>1. UNCHANGED <<pc, missing, posted, items>> /\ DOMAIN run' = DOMAIN run
    BY <1>7 DEF Pause, Resume, requests, tables
  <2> QED
    BY <1>5, <2>1
<1>8. ASSUME NEW r \in Requests, NEW p \in Postings, Claim(r, p) \/ Finish(r, p) \/ LeaseExpires(r, p)
      PROVE  ItemTypes'
  <2>1. /\ UNCHANGED <<pc, missing, posted>> /\ DOMAIN run' = DOMAIN run
        /\ p \in DOMAIN items[r]
        /\ \E status \in Statuses : items' = [items EXCEPT ![r][p] = status]
    BY <1>8 DEF Claim, Finish, LeaseExpires, requests, ItemsIn, Statuses
  <2>2. PICK status \in Statuses : items' = [items EXCEPT ![r][p] = status]
    BY <2>1
  <2>3. items' = [items EXCEPT ![r] = [items[r] EXCEPT ![p] = status]]
    BY <2>2
  <2>4. /\ DOMAIN items' = Requests
        /\ items'[r] = [items[r] EXCEPT ![p] = status]
        /\ \A q \in Requests \ {r} : items'[q] = items[q]
    BY <2>3 DEF RankInv, ItemTypes
  <2>5. ItemsFit(r)'
    <3>1. ItemsFit(r)
      BY DEF RankInv, ItemTypes
    <3>2. items[r] # <<>>
      BY <2>1
    <3> QED
      BY <2>1, <2>2, <2>4, <3>1, <3>2 DEF ItemsFit
  <2>6. \A q \in Requests : ItemsFit(q)'
    BY <2>1, <2>4, <2>5, SameItemsFit
  <2> QED
    BY <1>4, <2>1, <2>4, <2>6
<1>9. CASE Crash
  <2>1. /\ UNCHANGED <<items, run, posted>>
        /\ \A r \in Requests : pc'[r] \in {"idle", "lost"} \union Ended
    BY <1>9 DEF Crash, tables
  <2>2. \A r \in Requests : Imported(r)'
    BY <2>1 DEF Imported, Ended
  <2>3. \A r \in Requests : ItemsFit(r)'
    BY <2>1, SameItemsFit
  <2> QED
    BY <1>p, <2>1, <2>2, <2>3 DEF ItemTypes, RankInv
<1>10. CASE UNCHANGED vars
  BY <1>5, <1>10 DEF vars
<1> QED
  BY <1>1, <1>2, <1>3, <1>6, <1>7, <1>8, <1>9, <1>10, PostSplit DEF Next, Done, Worker

-----------------------------------------------------------------------------
LEMMA FixedTypesStep == ASSUME RankInv, [Next]_vars PROVE FixedTypes'
<1>1. UNCHANGED <<owner, pool>>
  <2>1. ASSUME NEW r \in Requests, Enqueue(r) \/ AttachItems(r) PROVE UNCHANGED <<owner, pool>>
    BY <2>1 DEF Enqueue, AttachItems, others
  <2>2. ASSUME NEW r \in Requests, CountRecent(r) \/ Post(r) PROVE UNCHANGED <<owner, pool>>
    BY <2>1, <2>2, PostSplit, LooksKeep
  <2>3. (Crash \/ UNCHANGED vars) => UNCHANGED <<owner, pool>>
    BY DEF Crash, vars
  <2> QED
    BY <2>2, <2>3, ControlsKeep DEF Next, Done
<1>2. controls' \in 0 .. MaxControls
  <2>1. controls' = controls \/ (controls < MaxControls /\ controls' = controls + 1)
    <3>1. ASSUME NEW r \in Requests, Enqueue(r) \/ AttachItems(r) PROVE UNCHANGED controls
      BY <3>1 DEF Enqueue, AttachItems, others
    <3>2. ASSUME NEW r \in Requests, CountRecent(r) \/ Post(r) PROVE UNCHANGED controls
      BY <3>1, <3>2, PostSplit, LooksKeep
    <3>3. Worker => UNCHANGED controls
      BY DEF Worker, Claim, Finish, LeaseExpires, others
    <3>4. (Crash \/ UNCHANGED vars) => UNCHANGED controls
      BY DEF Crash, vars
    <3> QED
      BY <3>2, <3>3, <3>4 DEF Next, Done, CancelRun, ControlCancel, Pause, Resume, Control
  <2> QED
    BY <2>1, RankRunsAssumption DEF RankInv, FixedTypes
<1>3. crashes' \in 0 .. MaxCrashes
  <2>1. crashes' = crashes \/ (crashes < MaxCrashes /\ crashes' = crashes + 1)
    <3>1. ASSUME NEW r \in Requests, Enqueue(r) \/ AttachItems(r) PROVE UNCHANGED crashes
      BY <3>1 DEF Enqueue, AttachItems, others
    <3>2. ASSUME NEW r \in Requests, CountRecent(r) \/ Post(r) PROVE UNCHANGED crashes
      BY <3>1, <3>2, PostSplit, LooksKeep
    <3>3. UNCHANGED vars => UNCHANGED crashes
      BY DEF vars
    <3> QED
      BY <3>2, <3>3, ControlsKeep DEF Next, Done, Crash
  <2> QED
    BY <2>1, RankRunsAssumption DEF RankInv, FixedTypes
<1> QED
  BY <1>1, <1>2, <1>3 DEF RankInv, FixedTypes

LEMMA RankInvInit == Init => RankInv
<1> SUFFICES ASSUME Init PROVE RankInv
  OBVIOUS
<1>1. RunTypes
  BY DEF Init, RunTypes
<1>2. ItemTypes
  BY DEF Init, ItemTypes, ItemsFit, Imported
<1>3. FlowTypes
  BY DEF Init, FlowTypes, Places
<1>4. LockTypes
  BY DEF Init, LockTypes, LockFits
<1>5. FixedTypes
  BY RankRunsAssumption DEF Init, FixedTypes
<1>6. Charging
  BY DEF Init, Charging, Owes
<1> QED
  BY <1>1, <1>2, <1>3, <1>4, <1>5, <1>6 DEF RankInv

(* Items belong to runs and to imported postings, and the lock on a credit *)
(* account to a request in flight whose charge is not committed: whatever  *)
(* exception, restart or other request falls between its steps.            *)
THEOREM RankTypeCorrect == Spec => []TypeOK
<1>1. RankInv /\ [Next]_vars => RankInv'
  <2> SUFFICES ASSUME RankInv, [Next]_vars PROVE RankInv'
    OBVIOUS
  <2>1. Charging'
    BY ChargingStep DEF RankInv
  <2> QED
    BY <2>1, RunTypesStep, ItemTypesStep, FlowTypesStep, LockTypesStep, FixedTypesStep DEF RankInv
<1> QED
  BY RankInvInit, <1>1, RankInvSuffices, PTL DEF Spec
=============================================================================
