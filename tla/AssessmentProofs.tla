-------------------------- MODULE AssessmentProofs --------------------------
(***************************************************************************)
(* The services that judge a document or an application: the writing of    *)
(* CVs and letters, the checklist before the ATS check, the scores and     *)
(* batches of the ranking, and the outcomes.                               *)
(*                                                                         *)
(* They share no state.  Each part has the inductive invariant of one      *)
(* service, a lemma for each of its actions, and the theorem that its      *)
(* property holds for every value of the constants.                        *)
(***************************************************************************)
EXTENDS CvWriting, Verification, RankBatch, Outcomes, FiniteSetTheorems, WellFoundedInduction, TLAPS

-----------------------------------------------------------------------------
(* CvWriting.  What passed its schema stays as it is to the end; every     *)
(* call has two texts, and a fix is one call more.                         *)

(* Between the calls and the end, the object in hand is one that passed.   *)
InHand ==
  /\ phase \in {"calling", "linting", "fixing", "delivered", "absent", "failed"}
  /\ phase \in {"linting", "fixing", "delivered"} => Validates(output)

Fixed ==
  /\ fixes \in 0 .. 1
  /\ phase \in {"calling", "linting"} => fixes = 0
  /\ phase = "fixing" => fixes = 1
  /\ phase = "delivered" /\ flow \in Linted /\ LintCv(output) # {} => fixes = 1

(* The texts asked for before the current one.                             *)
Spent ==
  LET last == Len(Steps[flow]) IN
  /\ last \in Nat /\ step \in 1 .. last /\ attempt \in 1 .. 2 /\ calls \in Nat
  /\ phase = "calling" => calls <= 2 * (step - 1) + (attempt - 1)
  /\ phase = "linting" => calls <= 2 * last
  /\ phase = "fixing" => calls <= 2 * last + (attempt - 1)
  /\ calls <= 2 * (last + fixes)

WritingInv == flow \in DOMAIN Steps /\ InHand /\ Fixed /\ Spent

LEMMA StepsOfFlows ==
  ASSUME NEW f \in DOMAIN Steps PROVE Len(Steps[f]) \in {1, 2}
BY DEF Steps

LEMMA InitialWriting == WritingInit => WritingInv
<1> SUFFICES ASSUME WritingInit PROVE WritingInv
  OBVIOUS
<1>1. flow \in DOMAIN Steps
  BY WritingAssumption DEF WritingInit
<1>2. Len(Steps[flow]) \in {1, 2}
  BY <1>1, StepsOfFlows
<1>3. InHand /\ Fixed
  BY DEF WritingInit, InHand, Fixed
<1>4. Spent
  <2> DEFINE last == Len(Steps[flow])
  <2> HIDE DEF last
  <2>1. last \in {1, 2} /\ step = 1 /\ attempt = 1 /\ phase = "calling" /\ calls = 0 /\ fixes = 0
    BY <1>2 DEF WritingInit, last
  <2>2. last \in Nat /\ step \in 1 .. last /\ attempt \in 1 .. 2 /\ calls \in Nat
    BY <2>1
  <2> QED
    BY <2>1, <2>2 DEF Spent, last
<1> QED
  BY <1>1, <1>3, <1>4 DEF WritingInv

(* A letter that is dropped was not looked at.                             *)
LEMMA DroppedValidates ==
  ASSUME NEW body, Validates(body) PROVE Validates(Dropped(body))
BY DEF Validates, Dropped, FitsLengths

(* A failed call is one text more, and the last one.                       *)
LEMMA FailKeeps ==
  ASSUME WritingInv, phase \in {"calling", "fixing"}, calls' = calls + 1, Fail, UNCHANGED flow
  PROVE  WritingInv'
<1> USE DEF WritingInv
<1>1. Len(Steps[flow]) \in {1, 2}
  BY StepsOfFlows
<1>2. InHand'
  BY DEF InHand, Fail
<1>3. Fixed'
  BY DEF Fixed, Fail, InHand
<1>4. Spent'
  BY <1>1 DEF Spent, Fail, Fixed
<1> QED
  BY <1>2, <1>3, <1>4 

LEMMA AcceptKeeps ==
  ASSUME WritingInv, phase \in {"calling", "fixing"}, calls' = calls + 1,
         NEW body, Validates(body), Accept(body), UNCHANGED <<flow, fixes>>
  PROVE  WritingInv'
<1> USE DEF WritingInv
<1>1. Len(Steps[flow]) \in {1, 2}
  BY StepsOfFlows
<1>2. Validates(Dropped(body))
  BY DroppedValidates
<1>3. CASE phase = "fixing"
  <2>1. phase' = "delivered" /\ output' = body /\ UNCHANGED <<step, attempt>>
    BY <1>3 DEF Accept
  <2>2. InHand' /\ Fixed'
    BY <1>3, <2>1 DEF InHand, Fixed, Validates, FitsLengths
  <2>3. Spent'
    BY <1>1, <1>3, <2>1 DEF Spent, Fixed
  <2> QED
    BY <2>2, <2>3
<1>4. CASE phase = "calling" /\ step < Len(Steps[flow])
  <2>0. step # Len(Steps[flow]) /\ phase # "fixing"
    BY <1>1, <1>4 DEF Spent
  <2>1. step' = step + 1 /\ attempt' = 1 /\ UNCHANGED <<phase, output>>
    BY <1>4, <2>0 DEF Accept
  <2>2. InHand' /\ Fixed'
    BY <1>4, <2>1 DEF InHand, Fixed
  <2>3. Spent'
    BY <1>1, <1>4, <2>1 DEF Spent, Fixed
  <2> QED
    BY <2>2, <2>3
<1>5. CASE phase = "calling" /\ step = Len(Steps[flow])
  <2>1. /\ phase' = IF flow \in Linted THEN "linting" ELSE "delivered"
        /\ output' = IF Kind = "cv" THEN Dropped(body) ELSE body
        /\ UNCHANGED <<step, attempt>>
    BY <1>1, <1>5 DEF Accept
  <2>2. InHand'
    <3>1. CASE Kind = "cv"
      BY <1>2, <2>1, <3>1 DEF InHand, Validates, FitsLengths
    <3>2. CASE Kind # "cv"
      BY <2>1, <3>2 DEF InHand, Validates, FitsLengths
    <3> QED
      BY <3>1, <3>2
  <2>3. Fixed'
    BY <1>5, <2>1 DEF Fixed
  <2>4. Spent'
    BY <1>1, <1>5, <2>1 DEF Spent, Fixed
  <2> QED
    BY <2>2, <2>3, <2>4
<1>6. step < Len(Steps[flow]) \/ step = Len(Steps[flow])
  BY <1>1 DEF Spent
<1> QED
  BY <1>3, <1>4, <1>5, <1>6

LEMMA WritingStep == WritingInv /\ [WritingNext]_writingVars => WritingInv'
<1> SUFFICES ASSUME WritingInv, [WritingNext]_writingVars PROVE WritingInv'
  OBVIOUS
<1>0. Len(Steps[flow]) \in {1, 2}
  BY StepsOfFlows DEF WritingInv
<1>1. CASE CompletionFails
  BY <1>1, FailKeeps DEF CompletionFails
<1>2. CASE Unreadable
  <2>1. CASE attempt = 1
    <3>1. attempt' = 2 /\ calls' = calls + 1 /\ UNCHANGED <<step, phase, output, fixes, flow>>
      BY <1>2, <2>1 DEF Unreadable
    <3>2. phase \in {"calling", "fixing"}
      BY <1>2 DEF Unreadable
    <3>3. InHand' /\ Fixed'
      BY <3>1 DEF WritingInv, InHand, Fixed
    <3>4. Spent'
      BY <1>0, <2>1, <3>1, <3>2 DEF WritingInv, Spent, Fixed
    <3> QED
      BY <3>1, <3>3, <3>4 DEF WritingInv
  <2>2. CASE attempt # 1
    BY <1>2, <2>2, FailKeeps DEF Unreadable
  <2> QED
    BY <2>1, <2>2
<1>3. CASE Readable
  <2>1. phase \in {"calling", "fixing"} /\ calls' = calls + 1 /\ UNCHANGED flow
    BY <1>3 DEF Readable
  <2>2. PICK body \in Bodies :
          LET clean == SanitizeValues(body) IN
          IF Validates(clean) THEN Accept(clean) /\ UNCHANGED fixes ELSE Fail
    BY <1>3 DEF Readable
  <2>3. CASE Validates(SanitizeValues(body))
    BY <2>1, <2>2, <2>3, AcceptKeeps
  <2>4. CASE ~Validates(SanitizeValues(body))
    BY <2>1, <2>2, <2>4, FailKeeps
  <2> QED
    BY <2>3, <2>4
<1>4. CASE Lint
  <2>1. phase = "linting" /\ UNCHANGED <<flow, step, output, calls>>
    BY <1>4 DEF Lint
  <2>2. CASE LintCv(output) = {}
    <3>1. phase' = "delivered" /\ UNCHANGED <<attempt, fixes>>
      BY <1>4, <2>2 DEF Lint
    <3>2. InHand' /\ Fixed'
      BY <2>1, <2>2, <3>1 DEF WritingInv, InHand, Fixed
    <3>3. Spent'
      BY <1>0, <2>1, <3>1 DEF WritingInv, Spent, Fixed
    <3> QED
      BY <2>1, <3>2, <3>3 DEF WritingInv
  <2>3. CASE LintCv(output) # {}
    <3>1. phase' = "fixing" /\ attempt' = 1 /\ fixes' = fixes + 1
      BY <1>4, <2>3 DEF Lint
    <3>2. InHand' /\ Fixed'
      BY <2>1, <3>1 DEF WritingInv, InHand, Fixed
    <3>3. Spent'
      BY <1>0, <2>1, <3>1 DEF WritingInv, Spent, Fixed
    <3> QED
      BY <2>1, <3>2, <3>3 DEF WritingInv
  <2> QED
    BY <2>2, <2>3
<1>5. CASE UNCHANGED writingVars
  BY <1>5 DEF writingVars, WritingInv, InHand, Fixed, Spent
<1> QED
  BY <1>1, <1>2, <1>3, <1>4, <1>5 DEF WritingNext

(* Whatever word the model has for a proficiency, the schema knows the one *)
(* the sanitizer makes of it.                                              *)
LEMMA ProficiencyIsKnown ==
  ASSUME NEW word PROVE MapProficiency(word) \in ProficiencyLevels \union {"null"}
BY DEF MapProficiency, ProficiencyLevels

LEMMA SanitizedValidates ==
  ASSUME NEW b \in Bodies, b.complete, FitsLengths([b EXCEPT !.lengths = Truncated(@)])
  PROVE  Validates(SanitizeValues(b))
<1> DEFINE clean == SanitizeValues(b)
<1>1. Checked \subseteq DOMAIN b /\ b = [f \in DOMAIN b |-> b[f]]
  BY WritingAssumption
<1>2. clean.complete = b.complete /\ clean.date_range = "range" /\ clean.year = "string"
  BY <1>1 DEF Checked, SanitizeValues
<1>3. clean.proficiency = MapProficiency(b.proficiency)
  BY <1>1 DEF Checked, SanitizeValues
<1>4. clean.lengths = Truncated(b.lengths)
  BY <1>1 DEF Checked, SanitizeValues
<1>5. FitsLengths(clean)
  BY <1>1, <1>4 DEF FitsLengths, Checked
<1> QED
  BY <1>2, <1>3, <1>5, ProficiencyIsKnown DEF Validates

(* Whatever is in hand is one of the model's bodies, sanitized.            *)
Handed == {SanitizeValues(b) : b \in Bodies} \union {Dropped(SanitizeValues(b)) : b \in Bodies}

FromBodies == flow \in Flows /\ (output # NoBody => output \in Handed)

LEMMA AcceptTakes ==
  ASSUME WritingInv, phase \in {"calling", "fixing"}, NEW body, Accept(body)
  PROVE  output' = output \/ output' = body \/ output' = Dropped(body)
<1>1. CASE phase = "fixing"
  BY <1>1 DEF Accept
<1>2. CASE phase = "calling" /\ step < Len(Steps[flow])
  <2>1. phase # "fixing"
    BY <1>2
  <2> QED
    BY <1>2, <2>1 DEF Accept
<1>3. CASE phase = "calling" /\ step = Len(Steps[flow])
  <2>1. ~(step < Len(Steps[flow]))
    BY <1>3, StepsOfFlows DEF WritingInv, Spent
  <2>2. output' = IF Kind = "cv" THEN Dropped(body) ELSE body
    BY <1>3, <2>1 DEF Accept
  <2> QED
    BY <2>2
<1>4. step < Len(Steps[flow]) \/ step = Len(Steps[flow])
  BY StepsOfFlows DEF WritingInv, Spent
<1> QED
  BY <1>1, <1>2, <1>3, <1>4

LEMMA FromBodiesStep == WritingInv /\ FromBodies /\ [WritingNext]_writingVars => FromBodies'
<1> SUFFICES ASSUME WritingInv, FromBodies, [WritingNext]_writingVars PROVE FromBodies'
  OBVIOUS
<1>1. UNCHANGED flow
  BY DEF WritingNext, CompletionFails, Unreadable, Readable, Lint, writingVars
<1>2. Handed' = Handed
  BY <1>1 DEF Handed, Dropped
<1>3. output' = output \/ output' \in Handed
  <2>1. CASE Readable
    <3>1. PICK body \in Bodies :
            LET clean == SanitizeValues(body) IN
            IF Validates(clean) THEN Accept(clean) /\ UNCHANGED fixes ELSE Fail
      BY <2>1 DEF Readable
    <3>2. CASE Fail
      BY <3>2 DEF Fail
    <3>3. CASE Accept(SanitizeValues(body))
      <4>1. phase \in {"calling", "fixing"}
        BY <2>1 DEF Readable
      <4>2. \/ output' = output \/ output' = SanitizeValues(body)
            \/ output' = Dropped(SanitizeValues(body))
        BY <3>3, <4>1, AcceptTakes
      <4> QED
        BY <4>2 DEF Handed
    <3> QED
      BY <3>1, <3>2, <3>3
  <2>2. CASE CompletionFails \/ Unreadable \/ Lint \/ UNCHANGED writingVars
    BY <2>2 DEF CompletionFails, Unreadable, Lint, Fail, writingVars
  <2> QED
    BY <2>1, <2>2 DEF WritingNext
<1> QED
  BY <1>1, <1>2, <1>3 DEF FromBodies

(* WritingTypeOK: the types, and every text that is kept is a sanitized    *)
(* answer of the model, whichever call of the flow it came from.           *)
THEOREM WritingTypeCorrect == WritingSpec => []WritingTypeOK
<1>1. WritingInit => FromBodies
  BY DEF WritingInit, FromBodies
<1>2. WritingInv /\ FromBodies => WritingTypeOK
  <2> SUFFICES ASSUME WritingInv, FromBodies PROVE WritingTypeOK
    OBVIOUS
  <2>1. step \in DOMAIN Steps[flow] /\ attempt \in 1 .. 2
    <3>1. DOMAIN Steps[flow] = 1 .. Len(Steps[flow])
      BY DEF WritingInv, Steps
    <3> QED
      BY <3>1 DEF WritingInv, Spent
  <2> QED
    BY <2>1 DEF WritingInv, InHand, Fixed, FromBodies, Handed, WritingTypeOK
<1> QED
  BY <1>1, <1>2, InitialWriting, WritingStep, FromBodiesStep, PTL DEF WritingSpec

(* DeliveredIsChecked, for all responses of the model: what is delivered   *)
(* has passed its schema and was linted, and texts are bounded.            *)
THEOREM DeliveredCorrect == WritingSpec => []DeliveredIsChecked
<1>1. WritingInv => DeliveredIsChecked
  <2> SUFFICES ASSUME WritingInv PROVE DeliveredIsChecked
    OBVIOUS
  <2>1. phase = "delivered" => Validates(output)
    BY DEF WritingInv, InHand
  <2>2. phase = "delivered" /\ flow \in Linted /\ LintCv(output) # {} => fixes = 1
    BY DEF WritingInv, Fixed
  <2>3. calls <= 2 * (Len(Steps[flow]) + fixes)
    BY DEF WritingInv, Spent
  <2>4. \A b \in Bodies : b.complete /\ FitsLengths([b EXCEPT !.lengths = Truncated(@)])
                            => Validates(SanitizeValues(b))
    BY SanitizedValidates
  <2> QED
    BY <2>1, <2>2, <2>3, <2>4 DEF DeliveredIsChecked
<1> QED
  BY <1>1, InitialWriting, WritingStep, PTL DEF WritingSpec

-----------------------------------------------------------------------------
(* Verification.  A verdict is one of what is verified now.                *)

VerdictFits(says) ==
  /\ verdict.checks = Checklist(document, candidate, posting, says)
  /\ verdict.ats = AtsResult(document, candidate, posting)
ChecklistInv ==
  /\ posting \in Postings
  /\ verdict # Missing => \E says \in Opinions : VerdictFits(says)

LEMMA ChecklistStep == ChecklistInv /\ [ChecklistNext]_checklistVars => ChecklistInv'
<1> SUFFICES ASSUME ChecklistInv, [ChecklistNext]_checklistVars PROVE ChecklistInv'
  OBVIOUS
<1>1. CASE RunChecklist
  <2>1. PICK says \in Opinions :
          verdict' = [checks |-> Checklist(document, candidate, posting, says),
                      ats    |-> AtsResult(document, candidate, posting)]
    BY <1>1 DEF RunChecklist
  <2>2. UNCHANGED <<document, candidate, posting>>
    BY <1>1 DEF RunChecklist
  <2>3. VerdictFits(says)'
    BY <2>1, <2>2 DEF VerdictFits
  <2> QED
    BY <2>2, <2>3 DEF ChecklistInv
<1>2. CASE Revise
  BY <1>2 DEF Revise, ChecklistInv
<1>3. CASE UNCHANGED checklistVars
  BY <1>3 DEF checklistVars, ChecklistInv, VerdictFits
<1> QED
  BY <1>1, <1>2, <1>3 DEF ChecklistNext

(* A share that is rounded to 70 percent is 69.5 percent at least.         *)
LEMMA RoundedFromSeventy ==
  ASSUME NEW part, NEW all, IsFiniteSet(all), part \subseteq all,
         RoundedShare(part, all) >= 70
  PROVE  /\ Cardinality(part) \in Nat /\ Cardinality(all) \in Nat
         /\ 1000 * Cardinality(part) >= 695 * Cardinality(all)
<1> DEFINE P == Cardinality(part)  A == Cardinality(all)
<1>1. P \in Nat /\ A \in Nat
  BY FS_Subset, FS_CardinalityType
<1>2. CASE all = {}
  <2>1. A = 0
    BY <1>2, FS_EmptySet
  <2> QED
    BY <1>1, <2>1
<1>3. CASE all # {}
  <2>1. A > 0
    BY <1>1, <1>3, FS_EmptySet
  <2>2. (200 * P + A) \div (2 * A) >= 70
    BY <1>3 DEF RoundedShare
  <2> HIDE DEF P, A
  <2>3. \A n, d \in Nat : d > 0 /\ n \div d >= 70 => n >= 70 * d
    OBVIOUS
  <2>4. 200 * P + A \in Nat /\ 2 * A \in Nat /\ 2 * A > 0
    BY <1>1, <2>1
  <2>5. 200 * P + A >= 70 * (2 * A)
    BY <2>2, <2>3, <2>4
  <2>6. 1000 * P >= 695 * A
    BY <1>1, <2>5
  <2> QED
    BY <1>1, <2>6 DEF P, A
<1> QED
  BY <1>2, <1>3

(* What the ATS check of a readable CV fails for, once it parses the       *)
(* contact and covers 70 percent rounded: the name, or the rounding.       *)
LEMMA AtsOfCovered ==
  ASSUME NEW cv, NEW who, NEW job \in Postings,
         NEW ats, ats = CheckAtsFromJson(cv, who, job),
         ats.email, ats.coverage >= 70
  PROVE  \/ ats.pass
         \/ who = Missing \/ who.name # <<cv.first, cv.last>>
         \/ 1000 * Cardinality(job.keywords \intersect AtsText(cv))
              \in 695 * Cardinality(job.keywords) .. 700 * Cardinality(job.keywords)
<1> DEFINE found == job.keywords \intersect AtsText(cv)
           F == Cardinality(found)  K == Cardinality(job.keywords)
<1>0. IsFiniteSet(job.keywords)
  BY ChecklistAssumption
<1>1. ats.coverage = RoundedShare(found, job.keywords)
  BY DEF CheckAtsFromJson
<1>2. F \in Nat /\ K \in Nat /\ 1000 * F >= 695 * K
  BY <1>0, <1>1, RoundedFromSeventy
<1>3. 10 * F >= 7 * K /\ ats.name => ats.pass
  BY DEF CheckAtsFromJson
<1>4. who # Missing /\ who.name = <<cv.first, cv.last>> => ats.name
  <2> SUFFICES ASSUME who # Missing, who.name = <<cv.first, cv.last>> PROVE ats.name
    OBVIOUS
  <2>1. who.name # <<>>
    OBVIOUS
  <2> QED
    BY <2>1 DEF CheckAtsFromJson
<1> HIDE DEF F, K
<1>5. 10 * F >= 7 * K \/ 1000 * F \in 695 * K .. 700 * K
  BY <1>2
<1>6. CASE 10 * F >= 7 * K
  BY <1>3, <1>4, <1>6
<1>7. CASE 1000 * F \in 695 * K .. 700 * K
  BY <1>7 DEF F, K
<1> QED
  BY <1>5, <1>6, <1>7

(* ClearChecklistMeansAts, for all documents, profiles and postings: a     *)
(* clear checklist names the candidate and speaks for the ATS check.       *)
THEOREM ChecklistCorrect == ChecklistSpec => []ClearChecklistMeansAts
<1>1. ChecklistInit => ChecklistInv
  BY DEF ChecklistInit, ChecklistInv
<1>2. ChecklistInv => ClearChecklistMeansAts
  <2> SUFFICES ASSUME ChecklistInv, verdict # Missing, Failures(verdict.checks) = {}
               PROVE  ClearChecklistMeansAts
    BY DEF ClearChecklistMeansAts
  <2>1. PICK says \in Opinions : VerdictFits(says)
    BY DEF ChecklistInv
  <2> DEFINE checks == Checklist(document, candidate, posting, says)
             ats == AtsResult(document, candidate, posting)
  <2>2. verdict.checks = checks /\ verdict.ats = ats
    BY <2>1 DEF VerdictFits
  <2>3. \A name \in DOMAIN checks : checks[name]
    BY <2>2 DEF Failures
  <2>4. NameInCv(document, candidate)
    BY <2>3 DEF Checklist
  <2>5. EmailInCv(document, candidate)
    BY <2>3 DEF Checklist
  <2>6. AtsContact(ats) /\ KeywordCoverage(ats)
    BY <2>3 DEF Checklist
  <2>7. candidate # Missing /\ document.first = candidate.name[1]
    BY <2>4 DEF NameInCv
  <2>8. candidate.email \in {Missing, document.email}
    BY <2>5, <2>7 DEF EmailInCv
  <2>9. ASSUME ats # Missing
        PROVE  \/ ats.pass
               \/ candidate.name # <<document.first, document.last>>
               \/ 1000 * Cardinality(posting.keywords \intersect AtsText(document))
                    \in 695 * Cardinality(posting.keywords) .. 700 * Cardinality(posting.keywords)
    <3>1. ats = CheckAtsFromJson(document, candidate, posting)
      BY <2>9 DEF AtsResult
    <3>2. ats.email /\ ats.coverage >= 70
      BY <2>6, <2>9 DEF AtsContact, KeywordCoverage
    <3>3. posting \in Postings
      BY DEF ChecklistInv
    <3> QED
      BY <2>7, <3>1, <3>2, <3>3, AtsOfCovered
  <2> QED
    BY <2>2, <2>7, <2>8, <2>9 DEF ClearChecklistMeansAts
<1> QED
  BY <1>1, <1>2, ChecklistStep, PTL DEF ChecklistSpec

-----------------------------------------------------------------------------
(* RankScores.  Whatever postings say and the model answers, the overall   *)
(* score is a percentage.                                                  *)

LEMMA PercentInRange == ASSUME NEW n \in Int PROVE Percent(n) \in 0 .. 100
BY DEF Percent, Upper, Lower

LEMMA CoverageIsNat ==
  ASSUME NEW own, NEW wanted, own \subseteq Skills, wanted \subseteq Skills
  PROVE  Coverage(own, wanted) \in Nat
<1>1. CASE wanted = {}
  BY <1>1 DEF Coverage
<1>2. CASE wanted # {}
  <2> DEFINE E == ExactMatches(own, wanted)  C == CategoryMatches(own, wanted)
  <2>1. IsFiniteSet(own) /\ IsFiniteSet(wanted)
    BY RankScoresAssumption, FS_Subset
  <2>2. IsFiniteSet(own \ wanted) /\ IsFiniteSet(wanted \ own)
    BY <2>1, FS_Difference
  <2>3. IsFiniteSet((own \ wanted) \X (wanted \ own))
    BY <2>2, FS_Product
  <2>4. IsFiniteSet(E) /\ IsFiniteSet(C)
    <3>1. E \subseteq own
      BY DEF ExactMatches
    <3>2. C \subseteq (own \ wanted) \X (wanted \ own)
      BY DEF CategoryMatches
    <3> QED
      BY <2>1, <2>3, <3>1, <3>2, FS_Subset
  <2>5. Cardinality(E) \in Nat /\ Cardinality(C) \in Nat /\ Cardinality(wanted) \in Nat
    BY <2>1, <2>4, FS_CardinalityType
  <2>6. Cardinality(wanted) > 0
    BY <1>2, <2>1, <2>5, FS_EmptySet
  <2>7. \A n, d \in Nat : d > 0 => n \div d \in Nat
    OBVIOUS
  <2>8. 100 * (Cardinality(E) + Cardinality(C)) \in Nat
    BY <2>5
  <2> QED
    BY <1>2, <2>5, <2>6, <2>7, <2>8 DEF Coverage
<1> QED
  BY <1>1, <1>2

LEMMA TechnicalInRange ==
  ASSUME NEW offer, Candidate.skills \subseteq Skills, offer.skills \subseteq Skills,
         Target # None => IsFiniteSet(Target.keywords)
  PROVE  TechnicalScore(Candidate.skills, offer, Target) \in 0 .. 100
<1> DEFINE own == Candidate.skills
           raw == IF DomainMismatch(own, offer.skills) THEN 20 ELSE Coverage(own, offer.skills)
           titled == IF TitleWanted(offer, Target) THEN Lower(100, raw + 8) ELSE raw
           hits == IF Target = None THEN 0 ELSE Cardinality(Target.keywords \intersect offer.text)
<1>1. raw \in Int
  BY CoverageIsNat
<1> HIDE DEF raw
<1>2. titled \in Int
  BY <1>1 DEF Lower
<1> HIDE DEF titled
<1>3. hits \in Int
  <2>1. Target # None => IsFiniteSet(Target.keywords \intersect offer.text)
    BY FS_Subset
  <2> QED
    BY <2>1, FS_CardinalityType
<1> HIDE DEF hits
<1>4. (IF hits = 0 THEN titled ELSE Lower(100, titled + Lower(3 * hits, 15))) \in Int
  BY <1>2, <1>3 DEF Lower
<1> QED
  BY <1>4, PercentInRange DEF TechnicalScore, raw, titled, hits

LEMMA ExperienceInRange ==
  ASSUME NEW own, NEW years, NEW offer, NEW target
  PROVE  ExperienceScore(own, years, offer, target) \in 0 .. 100
<1> DEFINE band == ExperienceBand(years, offer.years)
           base == IF DomainMismatch(own, offer.skills) THEN Lower(band, 20) ELSE band
           shift == SeniorityShift(DetectSeniority(offer.text), target)
<1>1. band \in Int
  BY DEF ExperienceBand
<1> HIDE DEF band
<1>2. base \in Int
  BY <1>1 DEF Lower
<1>3. shift \in Int
  BY DEF SeniorityShift
<1> HIDE DEF base, shift
<1>4. base + shift \in Int
  BY <1>2, <1>3
<1> QED
  BY <1>4, PercentInRange DEF ExperienceScore, base, shift, band

LEMMA HundredthsInRange == ASSUME NEW n \in Int, 0 <= n, n <= 10000 PROVE RoundHundredths(n) \in 0 .. 100
<1> DEFINE down == n \div 100  rest == n % 100
<1>1. down \in Int /\ rest \in 0 .. 99 /\ n = 100 * down + rest
  OBVIOUS
<1> HIDE DEF down, rest
<1>2. down \in 0 .. 100 /\ (down = 100 => rest = 0)
  BY <1>1
<1>3. (IF rest > 50 \/ (rest = 50 /\ down % 2 = 1) THEN down + 1 ELSE down) \in 0 .. 100
  BY <1>1, <1>2
<1> QED
  BY <1>3 DEF RoundHundredths, down, rest

LEMMA PenalizedInRange ==
  ASSUME NEW score \in 0 .. 100, NEW confidence PROVE Penalized(score, confidence) \in 0 .. 100
<1> DEFINE n == 70 * score
<1>1. n \in 0 .. 7000
  OBVIOUS
<1> HIDE DEF n
<1>2. n \div 100 \in 0 .. 100
  <2> DEFINE down == n \div 100  rest == n % 100
  <2>1. down \in Int /\ rest \in 0 .. 99 /\ n = 100 * down + rest
    BY <1>1
  <2> HIDE DEF down, rest
  <2>2. down \in 0 .. 100
    BY <1>1, <2>1
  <2> QED
    BY <2>2 DEF down
<1>3. (70 * score) \div 100 \in 0 .. 100
  BY <1>2 DEF n
<1> QED
  BY <1>3 DEF Penalized

LEMMA OverallInRange ==
  ASSUME NEW t \in 0 .. 100, NEW e \in 0 .. 100, NEW b \in 0 .. 100, NEW c \in 0 .. 100
  PROVE  OverallScore(t, e, b, c) \in 0 .. 100
<1> DEFINE sum == 30 * t + 25 * e + 15 * b + 30 * c
<1>1. /\ t \in Int /\ e \in Int /\ b \in Int /\ c \in Int
      /\ 0 <= t /\ 0 <= e /\ 0 <= b /\ 0 <= c /\ t <= 100 /\ e <= 100 /\ b <= 100 /\ c <= 100
  OBVIOUS
<1>2. sum \in Int /\ 0 <= sum /\ sum <= 10000
  BY <1>1
<1>3. OverallScore(t, e, b, c) = RoundHundredths(sum)
  BY DEF OverallScore
<1> HIDE DEF sum
<1>4. RoundHundredths(sum) \in 0 .. 100
  BY <1>2, HundredthsInRange
<1> QED
  BY <1>3, <1>4

LEMMA EvaluationInRange ==
  ASSUME NEW j \in Offers, NEW says \in Answers
  PROVE  Evaluate(Candidate, Offer[j], Target, says).overall \in 0 .. 100
<1> DEFINE technical == TechnicalScore(Candidate.skills, Offer[j], Target)
           experience == ExperienceScore(Candidate.skills, EstimateYears(Candidate.spans), Offer[j], Target)
           behavioral == Penalized(says.behavioral, says.confidence)
           career == Penalized(says.career, says.confidence)
           overall == OverallScore(technical, experience, behavioral, career)
           veto == Vetoed(Offer[j], Target)
<1>1. technical \in 0 .. 100
  BY BatchAssumption, TechnicalInRange
<1>2. experience \in 0 .. 100
  BY ExperienceInRange
<1>3. behavioral \in 0 .. 100 /\ career \in 0 .. 100
  BY BatchAssumption, PenalizedInRange
<1>4. overall \in 0 .. 100
  BY <1>1, <1>2, <1>3, OverallInRange, ZenonT(30)
<1>5. Evaluate(Candidate, Offer[j], Target, says).overall = IF veto THEN 0 ELSE overall
  BY DEF Evaluate
<1> HIDE DEF overall, veto
<1>6. 0 \in 0 .. 100
  OBVIOUS
<1> QED
  BY <1>4, <1>5, <1>6, ZenonT(30)

-----------------------------------------------------------------------------
(* RankBatch.  A batch knows no more rows than there are, and exactly      *)
(* those as long as nothing overlapped.                                    *)

Missed == {"absent", "deleted"}

Scores(j) ==
  /\ evaluation[j] \in Seq(0 .. 100)
  /\ status[j] \in Missed => rankScore[j] = None /\ evaluation[j] = <<>>
  /\ rankScore[j] # None =>
       rankScore[j] \in 0 .. 100 /\ \E i \in DOMAIN evaluation[j] : evaluation[j][i] = rankScore[j]
  /\ evaluation[j] # <<>> => rankScore[j] # None
  /\ ~overlapped => Len(evaluation[j]) <= 1

BatchTables ==
  /\ status \in [Offers -> {"absent", "new", "ranked", "applied", "deleted"}]
  /\ DOMAIN rankScore = Offers /\ DOMAIN evaluation = Offers
  /\ \A j \in Offers : Scores(j)

Knows(b, j) ==
  /\ status[j] = "absent" => known[b][j] = 0
  /\ status[j] \notin Missed => known[b][j] <= Len(evaluation[j])
  /\ ~overlapped /\ status[j] \notin Missed => known[b][j] = Len(evaluation[j])

Results(b) ==
  /\ DOMAIN results[b] \subseteq Offers \ loaded[b]
  /\ \A j \in DOMAIN results[b] : results[b][j].overall \in 0 .. 100

Accounted(r, rep) ==
  /\ rep.ranked = Cardinality(rep.shortlist) + rep.below + rep.expired
  /\ \A j \in rep.shortlist : r[j].location # "FAIL"

BatchFits(b) ==
  /\ batch[b] \in {"idle", "ranking", "saved", "empty", "lost"}
  /\ loaded[b] \subseteq Offers /\ known[b] \in [Offers -> Nat]
  /\ Results(b)
  /\ batch[b] = "idle" => DOMAIN results[b] = {}
  /\ batch[b] = "ranking" => \A j \in Offers : Knows(b, j)
  /\ batch[b] = "saved" => Accounted(results[b], report[b])

BatchMaps ==
  /\ DOMAIN batch = Batches /\ DOMAIN loaded = Batches /\ DOMAIN known = Batches
  /\ DOMAIN results = Batches /\ DOMAIN report = Batches
  /\ overlapped \in BOOLEAN

BatchInv == BatchTables /\ BatchMaps /\ \A b \in Batches : BatchFits(b)

LEMMA InitialBatch == BatchInit => BatchInv
<1> SUFFICES ASSUME BatchInit PROVE BatchInv
  OBVIOUS
<1>1. BatchTables
  <2>1. ASSUME NEW j \in Offers PROVE Scores(j)
    <3>1. evaluation[j] = <<>> /\ rankScore[j] = None
      BY DEF BatchInit
    <3>2. <<>> \in Seq(0 .. 100) /\ Len(<<>>) = 0
      OBVIOUS
    <3> QED
      BY <3>1, <3>2 DEF Scores
  <2> QED
    BY <2>1 DEF BatchTables, BatchInit
<1>2. BatchMaps
  BY DEF BatchInit, BatchMaps
<1>3. ASSUME NEW b \in Batches PROVE BatchFits(b)
  BY DEF BatchInit, BatchFits, Results
<1> QED
  BY <1>1, <1>2, <1>3 DEF BatchInv

LEMMA LoadFits == ASSUME BatchInv, NEW b \in Batches, Load(b) PROVE BatchInv'
<1> DEFINE jobs == SelectJobs(b)
<1>1. /\ batch[b] = "idle"
      /\ batch' = [batch EXCEPT ![b] = IF jobs = {} THEN "empty" ELSE "ranking"]
      /\ loaded' = [loaded EXCEPT ![b] = jobs]
      /\ known' = [known EXCEPT ![b] = [j \in Offers |-> Len(evaluation[j])]]
      /\ UNCHANGED <<status, rankScore, evaluation, results, report, overlapped, edits>>
  BY DEF Load
<1>2. jobs \subseteq Offers
  BY DEF SelectJobs, Existing
<1> HIDE DEF jobs
<1>3. BatchTables'
  BY <1>1 DEF BatchInv, BatchTables, Scores
<1>4. BatchMaps'
  BY <1>1 DEF BatchInv, BatchMaps
<1>5. ASSUME NEW c \in Batches PROVE BatchFits(c)'
  <2>1. CASE c # b
    BY <1>1, <2>1 DEF BatchInv, BatchMaps, BatchFits, Results, Knows, Accounted
  <2>2. CASE c = b
    <3>1. \A j \in Offers : Len(evaluation[j]) \in Nat
      BY DEF BatchInv, BatchTables, Scores
    <3>2. known'[b] = [j \in Offers |-> Len(evaluation[j])] /\ loaded'[b] = jobs
      BY <1>1 DEF BatchInv, BatchMaps
    <3>3. known'[b] \in [Offers -> Nat]
      BY <3>1, <3>2
    <3>4. ASSUME NEW j \in Offers PROVE Knows(b, j)'
      <4>1. known'[b][j] = Len(evaluation'[j])
        BY <1>1, <3>2
      <4>2. status'[j] \in Missed => Len(evaluation'[j]) = 0
        BY <1>1 DEF BatchInv, BatchTables, Scores
      <4>3. Len(evaluation'[j]) \in Nat
        BY <1>1, <3>1
      <4> QED
        BY <4>1, <4>2, <4>3 DEF Knows, Missed
    <3>5. batch'[b] \in {"empty", "ranking"}
      BY <1>1 DEF BatchInv, BatchMaps
    <3>6. Results(b)'
      BY <1>1 DEF BatchInv, BatchFits, Results
    <3> QED
      BY <1>2, <2>2, <3>2, <3>3, <3>4, <3>5, <3>6 DEF BatchFits
  <2> QED
    BY <2>1, <2>2
<1> QED
  BY <1>3, <1>4, <1>5 DEF BatchInv

LEMMA RankFits ==
  ASSUME BatchInv, NEW b \in Batches, NEW j \in Offers, RankSingleJob(b, j) \/ RankingFails(b, j)
  PROVE  BatchInv'
<1>1. /\ batch[b] = "ranking" /\ j \in loaded[b]
      /\ loaded' = [loaded EXCEPT ![b] = @ \ {j}]
      /\ UNCHANGED <<status, rankScore, evaluation, batch, known, report, overlapped, edits>>
  BY DEF RankSingleJob, RankingFails
<1>2. \/ UNCHANGED results
      \/ \E says \in Answers :
           results' = [results EXCEPT ![b] =
                         Extended(results[b], j, Evaluate(Candidate, Offer[j], Target, says))]
  BY DEF RankSingleJob, RankingFails
<1>3. BatchTables'
  BY <1>1 DEF BatchInv, BatchTables, Scores
<1>4. BatchMaps'
  BY <1>1, <1>2 DEF BatchInv, BatchMaps
<1>5. ASSUME NEW c \in Batches PROVE BatchFits(c)'
  <2>1. CASE c # b
    <3>1. results'[c] = results[c] /\ loaded'[c] = loaded[c]
      BY <1>1, <1>2, <2>1 DEF BatchInv, BatchMaps
    <3> QED
      BY <1>1, <3>1 DEF BatchInv, BatchFits, Results, Knows, Accounted
  <2>2. CASE c = b
    <3>1. loaded'[b] = loaded[b] \ {j}
      BY <1>1 DEF BatchInv, BatchMaps
    <3>2. Results(b)
      BY DEF BatchInv, BatchFits
    <3>3. Results(b)'
      <4>1. CASE UNCHANGED results
        BY <3>1, <3>2, <4>1 DEF Results
      <4>2. CASE \E says \in Answers :
                   results' = [results EXCEPT ![b] =
                                 Extended(results[b], j, Evaluate(Candidate, Offer[j], Target, says))]
        <5>1. PICK says \in Answers :
                results' = [results EXCEPT ![b] =
                              Extended(results[b], j, Evaluate(Candidate, Offer[j], Target, says))]
          BY <4>2
        <5> DEFINE row == Evaluate(Candidate, Offer[j], Target, says)
        <5>2. row.overall \in 0 .. 100
          BY EvaluationInRange
        <5>3. results'[b] = Extended(results[b], j, row)
          BY <5>1 DEF BatchInv, BatchMaps
        <5> HIDE DEF row
        <5> QED
          BY <3>1, <3>2, <5>2, <5>3 DEF Results, Extended
      <4> QED
        BY <1>2, <4>1, <4>2
    <3>4. \A i \in Offers : Knows(b, i)'
      BY <1>1 DEF BatchInv, BatchFits, Knows
    <3>5. batch'[b] = "ranking" /\ known'[b] \in [Offers -> Nat] /\ loaded'[b] \subseteq Offers
      BY <1>1, <3>1 DEF BatchInv, BatchFits
    <3> QED
      BY <2>2, <3>3, <3>4, <3>5 DEF BatchFits
  <2> QED
    BY <2>1, <2>2
<1> QED
  BY <1>3, <1>4, <1>5 DEF BatchInv

LEMMA SplitCardinality ==
  ASSUME NEW S, IsFiniteSet(S), NEW part, part \subseteq S
  PROVE  /\ IsFiniteSet(part) /\ IsFiniteSet(S \ part)
         /\ Cardinality(part) \in Nat /\ Cardinality(S \ part) \in Nat
         /\ Cardinality(S) = Cardinality(part) + Cardinality(S \ part)
<1>1. IsFiniteSet(part) /\ IsFiniteSet(S \ part)
  BY FS_Subset, FS_Difference
<1>2. Cardinality(S) \in Nat /\ Cardinality(part) \in Nat /\ Cardinality(S \ part) \in Nat
  BY <1>1, FS_CardinalityType
<1>3. S \intersect part = part
  OBVIOUS
<1>4. Cardinality(S \ part) = Cardinality(S) - Cardinality(part)
  BY <1>3, FS_Difference
<1> QED
  BY <1>1, <1>2, <1>4

(* Every posting of a batch is counted in one place of its report.         *)
LEMMA PartitionAccounts ==
  ASSUME NEW r, IsFiniteSet(DOMAIN r), \A j \in DOMAIN r : r[j].overall \in 0 .. 100,
         NEW order \in Sorted(r)
  PROVE  Accounted(r, Partition(r, order))
<1> DEFINE n == Cardinality(DOMAIN r)
           all == DOMAIN order
           fit == {i \in all : r[order[i]].location # "FAIL"}
           short == {i \in fit : Cardinality({k \in fit : k < i}) < TopN}
           rest == fit \ short
           low == {i \in rest : r[order[i]].overall < 30}
           high == {i \in rest : r[order[i]].overall >= 30}
           listed == {order[i] : i \in short}
           rep == Partition(r, order)
<1>1. /\ order \in [1 .. n -> DOMAIN r] /\ all = 1 .. n
      /\ \A x, y \in all : order[x] = order[y] => x = y
  BY DEF Sorted
<1>2. n \in Nat
  BY FS_CardinalityType
<1>3. IsFiniteSet(all) /\ Cardinality(all) = n
  BY <1>1, <1>2, FS_Interval
<1>4. /\ rep.ranked = n /\ rep.shortlist = listed
      /\ rep.below = Cardinality(low)
      /\ rep.expired = Cardinality(high) + Cardinality(all \ fit)
  BY DEF Partition
<1>5. fit \subseteq all /\ short \subseteq fit /\ rest \subseteq fit
  OBVIOUS
<1>6. low \subseteq rest /\ high = rest \ low
  <2>1. \A i \in rest : r[order[i]].overall \in 0 .. 100
    BY <1>1, <1>5
  <2> QED
    BY <2>1
<1>7. \A j \in listed : r[j].location # "FAIL"
  OBVIOUS
<1>8. ExistsBijection(short, listed)
  <2> DEFINE f == [i \in short |-> order[i]]
  <2>1. \A x, y \in short : order[x] = order[y] => x = y
    BY <1>1, <1>5
  <2> HIDE DEF short
  <2>2. f \in [short -> listed] /\ \A y \in listed : \E x \in short : f[x] = y
    OBVIOUS
  <2>3. \A x, y \in short : f[x] = f[y] => x = y
    BY <2>1
  <2> HIDE DEF f, listed
  <2>4. f \in Bijection(short, listed)
    BY <2>2, <2>3 DEF Bijection, Injection, Surjection, IsInjective
  <2> QED
    BY <2>4 DEF ExistsBijection
<1> HIDE DEF n, all, fit, short, rest, low, high, listed, rep
<1>9. IsFiniteSet(fit) /\ Cardinality(all) = Cardinality(fit) + Cardinality(all \ fit)
      /\ Cardinality(all \ fit) \in Nat
  BY <1>3, <1>5, SplitCardinality
<1>10. /\ IsFiniteSet(short) /\ IsFiniteSet(rest)
       /\ Cardinality(short) \in Nat /\ Cardinality(rest) \in Nat
       /\ Cardinality(fit) = Cardinality(short) + Cardinality(rest)
  BY <1>5, <1>9, SplitCardinality DEF rest
<1>11. /\ Cardinality(rest) = Cardinality(low) + Cardinality(high)
       /\ Cardinality(low) \in Nat /\ Cardinality(high) \in Nat
  BY <1>6, <1>10, SplitCardinality
<1>12. Cardinality(listed) = Cardinality(short)
  BY <1>8, <1>10, FS_Bijection
<1>13. n = Cardinality(listed) + Cardinality(low) + (Cardinality(high) + Cardinality(all \ fit))
  BY <1>2, <1>3, <1>9, <1>10, <1>11, <1>12
<1> QED
  BY <1>4, <1>7, <1>13 DEF Accounted, rep

(* The row a batch writes: one that was there stays the only one.          *)
LEMMA UpsertFits ==
  ASSUME BatchInv, NEW b \in Batches, NEW j \in Offers, batch[b] = "ranking",
         status[j] \notin Missed, j \in DOMAIN results[b],
         NEW row \in 1 .. Cardinality(Batches), row <= Upper(1, known[b][j])
  PROVE  LET rows == Upsert(b, j, row)
             score == results[b][j].overall IN
         /\ rows \in Seq(0 .. 100) /\ rows # <<>>
         /\ \E i \in DOMAIN rows : rows[i] = score
         /\ Len(rows) >= Len(evaluation[j])
         /\ ~overlapped => Len(rows) <= 1
<1> DEFINE score == results[b][j].overall  old == evaluation[j]
<1>1. score \in 0 .. 100
  BY DEF BatchInv, BatchFits, Results
<1>2. /\ old \in Seq(0 .. 100) /\ (~overlapped => Len(old) <= 1)
  BY DEF BatchInv, BatchTables, Scores
<1>3. known[b][j] \in Nat /\ known[b][j] <= Len(old)
      /\ (~overlapped => known[b][j] = Len(old))
  BY DEF BatchInv, BatchFits, Knows
<1>4. row \in Nat /\ row >= 1
  BY BatchAssumption, FS_CardinalityType
<1>5. CASE known[b][j] > 0
  <2> DEFINE rows == [old EXCEPT ![row] = score]
  <2>1. Upsert(b, j, row) = rows
    BY <1>5 DEF Upsert
  <2> HIDE DEF score, old
  <2>2. row \in 1 .. Len(old)
    BY <1>2, <1>3, <1>4, <1>5 DEF Upper
  <2>3. rows \in Seq(0 .. 100) /\ Len(rows) = Len(old) /\ rows[row] = score /\ row \in DOMAIN rows
    BY <1>1, <1>2, <2>2
  <2>4. Len(old) \in Nat /\ Len(old) >= 1
    BY <1>2, <2>2
  <2>5. rows # <<>>
    BY <2>3, <2>4
  <2> HIDE DEF rows
  <2> QED
    BY <1>2, <2>1, <2>3, <2>4, <2>5 DEF score, old
<1>6. CASE ~(known[b][j] > 0)
  <2> DEFINE rows == Append(old, score)
  <2>1. Upsert(b, j, row) = rows
    BY <1>6 DEF Upsert
  <2> HIDE DEF score, old
  <2>2. rows \in Seq(0 .. 100) /\ Len(rows) = Len(old) + 1 /\ rows[Len(old) + 1] = score
        /\ Len(old) + 1 \in DOMAIN rows
    BY <1>1, <1>2
  <2>3. Len(old) \in Nat
    BY <1>2
  <2>4. ~overlapped => Len(old) = 0
    BY <1>3, <1>6
  <2>5. rows # <<>>
    BY <2>2, <2>3
  <2> HIDE DEF rows
  <2> QED
    BY <2>1, <2>2, <2>3, <2>4, <2>5 DEF score, old
<1> QED
  BY <1>5, <1>6

LEMMA SaveKeepsTables ==
  ASSUME BatchInv, NEW b \in Batches, Save(b), DOMAIN results[b] \subseteq Existing
  PROVE  /\ BatchTables'
         /\ \A j \in Offers : Len(evaluation'[j]) >= Len(evaluation[j])
         /\ \A j \in Offers : status'[j] \in Missed <=> status[j] \in Missed
         /\ \A j \in Offers : status'[j] = "absent" => status[j] = "absent"
<1> DEFINE saved == DOMAIN results[b]
<1>1. PICK row \in [saved -> 1 .. Cardinality(Batches)] :
        /\ \A j \in DOMAIN row : row[j] <= Upper(1, known[b][j])
        /\ evaluation' = [j \in Offers |-> IF j \in DOMAIN row THEN Upsert(b, j, row[j])
                                           ELSE evaluation[j]]
  BY DEF Save
<1>2. /\ batch[b] = "ranking"
      /\ status' = [j \in Offers |-> IF j \in saved THEN "ranked" ELSE status[j]]
      /\ rankScore' = [j \in Offers |-> IF j \in saved THEN results[b][j].overall
                                        ELSE rankScore[j]]
      /\ overlapped' = (overlapped \/ \E c \in Batches \ {b} : batch[c] = "ranking")
  BY DEF Save
<1>3. overlapped \in BOOLEAN /\ (overlapped => overlapped')
  BY <1>2 DEF BatchInv, BatchMaps
<1>4. DOMAIN row = saved /\ saved \subseteq Offers
  BY <1>1 DEF BatchInv, BatchFits, Results
<1>5. ASSUME NEW j \in saved
      PROVE  /\ Scores(j)' /\ Len(evaluation'[j]) >= Len(evaluation[j])
             /\ status[j] \notin Missed /\ status'[j] = "ranked"
  <2>1. j \in Offers /\ status[j] \notin Missed /\ status'[j] = "ranked"
    BY <1>2, <1>4 DEF Existing, Missed
  <2>2. row[j] \in 1 .. Cardinality(Batches) /\ row[j] <= Upper(1, known[b][j])
    BY <1>1, <1>4
  <2> DEFINE rows == Upsert(b, j, row[j])  score == results[b][j].overall
  <2>3. /\ rows \in Seq(0 .. 100) /\ rows # <<>>
        /\ \E i \in DOMAIN rows : rows[i] = score
        /\ Len(rows) >= Len(evaluation[j])
        /\ ~overlapped => Len(rows) <= 1
    BY <1>2, <2>1, <2>2, UpsertFits
  <2>4. evaluation'[j] = rows /\ rankScore'[j] = score
    BY <1>1, <1>2, <1>4, <2>1
  <2>5. score \in 0 .. 100 /\ score # None
    BY RankScoresAssumption DEF BatchInv, BatchFits, Results
  <2> HIDE DEF rows, score
  <2>6. Scores(j)'
    BY <1>3, <2>1, <2>3, <2>4, <2>5 DEF Scores, Missed
  <2> QED
    BY <2>1, <2>3, <2>4, <2>6
<1>6. ASSUME NEW j \in Offers \ saved
      PROVE  /\ Scores(j)' /\ Len(evaluation'[j]) >= Len(evaluation[j])
             /\ status'[j] = status[j]
  <2>1. evaluation'[j] = evaluation[j] /\ rankScore'[j] = rankScore[j] /\ status'[j] = status[j]
    BY <1>1, <1>2, <1>4
  <2>2. Scores(j)
    BY DEF BatchInv, BatchTables
  <2>3. Len(evaluation[j]) \in Nat
    BY <2>2 DEF Scores
  <2> QED
    BY <1>3, <2>1, <2>2, <2>3 DEF Scores
<1>7. status' \in [Offers -> {"absent", "new", "ranked", "applied", "deleted"}]
  BY <1>2 DEF BatchInv, BatchTables
<1>8. DOMAIN rankScore' = Offers /\ DOMAIN evaluation' = Offers
  BY <1>1, <1>2
<1> HIDE DEF saved
<1>9. BatchTables'
  BY <1>5, <1>6, <1>7, <1>8 DEF BatchTables
<1> QED
  BY <1>4, <1>5, <1>6, <1>9 DEF Missed

LEMMA SaveFits == ASSUME BatchInv, NEW b \in Batches, Save(b) PROVE BatchInv'
<1>1. /\ batch[b] = "ranking" /\ loaded[b] = {} /\ UNCHANGED <<loaded, known, results, edits>>
      /\ overlapped' = (overlapped \/ \E c \in Batches \ {b} : batch[c] = "ranking")
  BY DEF Save
<1>2. overlapped \in BOOLEAN /\ overlapped' \in BOOLEAN /\ (overlapped => overlapped')
  BY <1>1 DEF BatchInv, BatchMaps
<1>3. CASE DOMAIN results[b] \subseteq Existing
  <2>1. /\ BatchTables'
        /\ \A j \in Offers : Len(evaluation'[j]) >= Len(evaluation[j])
        /\ \A j \in Offers : status'[j] \in Missed <=> status[j] \in Missed
        /\ \A j \in Offers : status'[j] = "absent" => status[j] = "absent"
    BY <1>3, SaveKeepsTables
  <2>2. PICK order \in Sorted(results[b]) :
          report' = [report EXCEPT ![b] = Partition(results[b], order)]
    BY <1>3 DEF Save
  <2>3. batch' = [batch EXCEPT ![b] = "saved"]
    BY <1>3 DEF Save
  <2>4. BatchMaps'
    BY <1>1, <1>2, <2>2, <2>3 DEF BatchInv, BatchMaps
  <2>5. Accounted(results[b], Partition(results[b], order))
    <3>1. IsFiniteSet(DOMAIN results[b])
      BY BatchAssumption, FS_Subset DEF BatchInv, BatchFits, Results
    <3>2. \A j \in DOMAIN results[b] : results[b][j].overall \in 0 .. 100
      BY DEF BatchInv, BatchFits, Results
    <3> QED
      BY <2>2, <3>1, <3>2, PartitionAccounts
  <2>6. BatchFits(b)'
    <3>1. batch'[b] = "saved" /\ report'[b] = Partition(results[b], order)
      BY <2>2, <2>3 DEF BatchInv, BatchMaps
    <3> QED
      BY <1>1, <2>5, <3>1 DEF BatchInv, BatchFits, Results
  <2>7. ASSUME NEW c \in Batches, c # b PROVE BatchFits(c)'
    <3>1. batch'[c] = batch[c] /\ report'[c] = report[c]
      BY <2>2, <2>3, <2>7 DEF BatchInv, BatchMaps
    <3>2. BatchFits(c)
      BY DEF BatchInv
    <3>3. ASSUME batch[c] = "ranking", NEW j \in Offers PROVE Knows(c, j)'
      <4>1. overlapped' = TRUE
        BY <1>1, <2>7, <3>3
      <4>2. Knows(c, j)
        BY <3>2, <3>3 DEF BatchFits
      <4>3. Len(evaluation[j]) \in Int /\ Len(evaluation'[j]) \in Int /\ known[c][j] \in Int
        BY <2>1, <3>2 DEF BatchInv, BatchTables, Scores, BatchFits
      <4> QED
        BY <1>1, <2>1, <4>1, <4>2, <4>3 DEF Knows
    <3>4. Results(c)'
      BY <1>1, <3>2 DEF BatchFits, Results
    <3> QED
      BY <1>1, <3>1, <3>2, <3>3, <3>4 DEF BatchFits
  <2> QED
    BY <2>1, <2>4, <2>6, <2>7 DEF BatchInv
<1>4. CASE ~(DOMAIN results[b] \subseteq Existing)
  <2>1. batch' = [batch EXCEPT ![b] = "lost"] /\ UNCHANGED <<status, rankScore, evaluation, report>>
    BY <1>4 DEF Save
  <2>2. BatchTables' /\ BatchMaps'
    BY <1>1, <1>2, <2>1 DEF BatchInv, BatchTables, Scores, BatchMaps
  <2>3. ASSUME NEW c \in Batches PROVE BatchFits(c)'
    <3>1. batch'[c] = IF c = b THEN "lost" ELSE batch[c]
      BY <2>1 DEF BatchInv, BatchMaps
    <3>2. BatchFits(c)
      BY DEF BatchInv
    <3> QED
      BY <1>1, <1>2, <2>1, <3>1, <3>2 DEF BatchFits, Results, Knows, Accounted
  <2> QED
    BY <2>2, <2>3 DEF BatchInv
<1> QED
  BY <1>3, <1>4

LEMMA EmptyFits == ASSUME BatchInv, NEW b \in Batches, AllFailed(b) PROVE BatchInv'
<1>1. /\ batch' = [batch EXCEPT ![b] = "empty"]
      /\ UNCHANGED <<status, rankScore, evaluation, loaded, known, results, report, overlapped, edits>>
  BY DEF AllFailed
<1>2. BatchTables' /\ BatchMaps'
  BY <1>1 DEF BatchInv, BatchTables, Scores, BatchMaps
<1>3. ASSUME NEW c \in Batches PROVE BatchFits(c)'
  <2>1. batch'[c] = IF c = b THEN "empty" ELSE batch[c]
    BY <1>1 DEF BatchInv, BatchMaps
  <2> QED
    BY <1>1, <2>1 DEF BatchInv, BatchFits, Results, Knows, Accounted
<1> QED
  BY <1>2, <1>3 DEF BatchInv

(* The user: what is imported was never evaluated, and what is deleted     *)
(* does not come back.                                                     *)
LEMMA UserFits ==
  ASSUME BatchInv, (\E j \in Offers : ApplyTo(j) \/ Import(j)) \/ ResetPostings
  PROVE  BatchInv'
<1>1. UNCHANGED batches
  BY DEF ApplyTo, Import, ResetPostings
<1>2. BatchTables'
  <2>1. CASE \E j \in Offers : ApplyTo(j) \/ Import(j)
    BY <1>1, <2>1 DEF ApplyTo, Import, Existing, BatchInv, BatchTables, Scores, Missed, batches
  <2>2. CASE ResetPostings
    <3>1. \A j \in Offers :
            status'[j] \in {"absent", "deleted"} /\ rankScore'[j] = None /\ evaluation'[j] = <<>>
      BY <2>2 DEF ResetPostings, Existing, BatchInv, BatchTables
    <3>2. DOMAIN status' = Offers /\ DOMAIN rankScore' = Offers /\ DOMAIN evaluation' = Offers
      BY <2>2 DEF ResetPostings
    <3>3. <<>> \in Seq(0 .. 100) /\ Len(<<>>) = 0
      OBVIOUS
    <3>4. status' \in [Offers -> {"absent", "new", "ranked", "applied", "deleted"}]
      BY <2>2 DEF ResetPostings, Existing, BatchInv, BatchTables
    <3>5. ASSUME NEW j \in Offers PROVE Scores(j)'
      <4>1. evaluation'[j] = <<>> /\ rankScore'[j] = None
        BY <3>1
      <4> QED
        BY <3>3, <4>1 DEF Scores
    <3> QED
      BY <3>2, <3>4, <3>5 DEF BatchTables
  <2> QED
    BY <2>1, <2>2
<1>3. BatchMaps'
  BY <1>1 DEF batches, BatchInv, BatchMaps
<1>4. ASSUME NEW b \in Batches PROVE BatchFits(b)'
  <2>1. BatchFits(b)
    BY DEF BatchInv
  <2>2. ASSUME batch[b] = "ranking", NEW i \in Offers PROVE Knows(b, i)'
    <3>1. Knows(b, i) /\ Scores(i)
      BY <2>1, <2>2 DEF BatchFits, BatchInv, BatchTables
    <3>2. CASE \E j \in Offers : ApplyTo(j)
      BY <1>1, <3>1, <3>2 DEF ApplyTo, Existing, BatchInv, BatchTables, Knows, Missed, batches
    <3>3. CASE \E j \in Offers : Import(j)
      <4>1. PICK j \in Offers : Import(j)
        BY <3>3
      <4>2. CASE i = j
        <5>1. known[b][i] = 0 /\ evaluation[i] = <<>> /\ status'[i] = "new"
          BY <3>1, <4>1, <4>2 DEF Import, Knows, Scores, Missed, BatchInv, BatchTables
        <5>2. known'[b][i] = 0 /\ evaluation'[i] = <<>>
          BY <1>1, <4>1, <5>1 DEF Import, batches
        <5>3. Len(<<>>) = 0
          OBVIOUS
        <5> QED
          BY <5>1, <5>2, <5>3 DEF Knows
      <4>3. CASE i # j
        BY <1>1, <3>1, <4>1, <4>3 DEF Import, BatchInv, BatchTables, Knows, batches
      <4> QED
        BY <4>2, <4>3
    <3>4. CASE ResetPostings
      <4>1. status'[i] \in Missed /\ (status'[i] = "absent" => status[i] = "absent")
        <5>1. status'[i] = IF i \in Existing THEN "deleted" ELSE status[i]
          BY <3>4 DEF ResetPostings
        <5>2. i \notin Existing => status[i] \in Missed
          BY DEF Existing, Missed
        <5> QED
          BY <5>1, <5>2 DEF Missed
      <4>2. known' = known
        BY <1>1 DEF batches
      <4> QED
        BY <3>1, <4>1, <4>2 DEF Knows
    <3> QED
      BY <3>2, <3>3, <3>4
  <2> QED
    BY <1>1, <2>1, <2>2 DEF BatchFits, Results, Accounted, batches
<1> QED
  BY <1>2, <1>3, <1>4 DEF BatchInv

LEMMA BatchStep == BatchInv /\ [BatchNext]_batchVars => BatchInv'
<1> SUFFICES ASSUME BatchInv, [BatchNext]_batchVars PROVE BatchInv'
  OBVIOUS
<1>1. ASSUME NEW b \in Batches, Load(b) PROVE BatchInv'
  BY <1>1, LoadFits
<1>2. ASSUME NEW b \in Batches, Save(b) PROVE BatchInv'
  BY <1>2, SaveFits
<1>3. ASSUME NEW b \in Batches, AllFailed(b) PROVE BatchInv'
  BY <1>3, EmptyFits
<1>4. ASSUME NEW b \in Batches, NEW j \in Offers, RankSingleJob(b, j) \/ RankingFails(b, j)
      PROVE  BatchInv'
  BY <1>4, RankFits
<1>5. CASE (\E j \in Offers : ApplyTo(j) \/ Import(j)) \/ ResetPostings
  BY <1>5, UserFits
<1>6. CASE UNCHANGED batchVars
  BY <1>6 DEF batchVars, BatchInv, BatchTables, Scores, BatchMaps, BatchFits, Results, Knows, Accounted
<1> QED
  BY <1>1, <1>2, <1>3, <1>4, <1>5, <1>6 DEF BatchNext

(* RankingIsCoherent, with the types, for all postings, batches, answers   *)
(* and edits: scores and evaluations of the tables agree, one evaluation   *)
(* per posting unless batches overlapped, and every report adds up.        *)
THEOREM BatchCorrect == BatchSpec => [](BatchTypeOK /\ RankingIsCoherent)
<1>1. BatchInv => BatchTypeOK /\ RankingIsCoherent
  <2> SUFFICES ASSUME BatchInv PROVE BatchTypeOK /\ RankingIsCoherent
    OBVIOUS
  <2>1. Scored \subseteq Existing
    BY DEF Scored
  <2>2. BatchTypeOK
    BY <2>1 DEF BatchInv, BatchTables, BatchFits, Results, BatchTypeOK
  <2>3. \A j \in Scored : rankScore[j] \in 0 .. 100
                          /\ rankScore[j] \in {evaluation[j][i] : i \in DOMAIN evaluation[j]}
    BY DEF Scored, Existing, BatchInv, BatchTables, Scores
  <2>4. \A j \in Offers : evaluation[j] # <<>> => j \in Scored
    BY DEF Scored, Existing, Missed, BatchInv, BatchTables, Scores
  <2>5. ~overlapped => \A j \in Offers : Len(evaluation[j]) <= 1
    BY DEF BatchInv, BatchTables, Scores
  <2>6. \A b \in Batches : batch[b] = "saved" => Accounted(results[b], report[b])
    BY DEF BatchInv, BatchFits
  <2> QED
    BY <2>2, <2>3, <2>4, <2>5, <2>6 DEF RankingIsCoherent, Accounted
<1> QED
  BY <1>1, InitialBatch, BatchStep, PTL DEF BatchSpec

-----------------------------------------------------------------------------
(* Outcomes.  Where nothing disturbed a job, what began later is recorded  *)
(* later, so that the newest outcome is the last one that was written.     *)

Entry == [job : {JobOf[a] : a \in Applications}, status : AllStatuses]

JobAt(t) == JobOf[outcomes[t].app]
JobSent(p) == JobOf[payload[p].app]
NewestOfApp(t) == \A u \in DOMAIN outcomes : outcomes[u].app = outcomes[t].app => u <= t
NewestOfJob(t) == \A u \in DOMAIN outcomes : JobAt(u) = JobAt(t) => u <= t

(* Every request began once; a row carries the time its request began.     *)
Begun ==
  /\ began \in Seq(Posters)
  /\ \A i, k \in DOMAIN began : began[i] = began[k] => i = k
  /\ \A p \in Posters : poster[p] = "new" => \A i \in DOMAIN began : began[i] # p
  /\ \A p \in Posters : poster[p] # "new" => \E i \in DOMAIN began : began[i] = p

Shapes ==
  /\ DOMAIN poster = Posters /\ DOMAIN payload = Posters /\ DOMAIN postingStatus = Applications
  /\ \A p \in Posters : Active(p) => payload[p].app \in Applications /\ payload[p].status \in AllStatuses
  /\ \A t \in DOMAIN outcomes :
       /\ t \in DOMAIN began /\ ~Active(began[t])
       /\ outcomes[t].app \in Applications /\ outcomes[t].status \in AllStatuses

TrackerFits ==
  /\ tracker \in Seq(Entry)
  /\ \A i, k \in DOMAIN tracker : tracker[i].job = tracker[k].job => i = k
  /\ \A t \in DOMAIN outcomes : \E i \in DOMAIN tracker : tracker[i].job = JobAt(t)
  /\ \A p \in Posters : poster[p] = "filed" => \E i \in DOMAIN tracker : tracker[i].job = JobSent(p)

(* Of an undisturbed job, the filed request began before the other active  *)
(* ones, and they all began after what is recorded.                        *)
InOrder ==
  /\ \A p, q \in Posters :
       p # q /\ Active(p) /\ poster[q] = "filed" /\ JobSent(p) = JobSent(q)
         /\ JobSent(q) \notin disturbed => Position(p) > Position(q)
  /\ \A p \in Posters, t \in DOMAIN outcomes :
       Active(p) /\ JobAt(t) = JobSent(p) /\ JobSent(p) \notin disturbed => Position(p) > t

OneStory ==
  /\ \A t \in DOMAIN outcomes : JobAt(t) \notin disturbed /\ NewestOfApp(t) =>
       postingStatus[outcomes[t].app] = JobStatusOf(outcomes[t].status)
  /\ \A t \in DOMAIN outcomes :
       /\ JobAt(t) \notin disturbed /\ NewestOfJob(t)
       /\ \A p \in Posters : poster[p] = "filed" => JobSent(p) # JobAt(t)
       => \A i \in DOMAIN tracker : tracker[i].job = JobAt(t) => tracker[i].status = outcomes[t].status
  /\ \A p \in Posters : poster[p] = "filed" /\ JobSent(p) \notin disturbed =>
       \A i \in DOMAIN tracker : tracker[i].job = JobSent(p) => tracker[i].status = payload[p].status

OutcomesInv == Begun /\ Shapes /\ TrackerFits /\ InOrder /\ OneStory

LEMMA PositionOf ==
  ASSUME Begun, NEW p \in Posters, poster[p] # "new"
  PROVE  Position(p) \in DOMAIN began /\ began[Position(p)] = p /\ Position(p) \in Nat
<1>1. \E i \in DOMAIN began : began[i] = p
  BY DEF Begun
<1>2. Position(p) \in DOMAIN began /\ began[Position(p)] = p
  BY <1>1 DEF Position
<1> QED
  BY <1>2 DEF Begun

LEMMA InitialOutcomes == OutcomesInit => OutcomesInv
<1> SUFFICES ASSUME OutcomesInit PROVE OutcomesInv
  OBVIOUS
<1>1. DOMAIN outcomes = {} /\ DOMAIN tracker = {} /\ \A p \in Posters : poster[p] = "new"
  BY DEF OutcomesInit
<1>2. \A p \in Posters : ~Active(p)
  BY <1>1 DEF Active
<1>3. Begun /\ tracker \in Seq(Entry)
  BY <1>1 DEF OutcomesInit, Begun
<1>4. Shapes
  BY <1>1, <1>2 DEF OutcomesInit, Shapes
<1>5. TrackerFits
  BY <1>1, <1>3 DEF TrackerFits
<1>6. InOrder /\ OneStory
  BY <1>1, <1>2 DEF InOrder, OneStory
<1> QED
  BY <1>3, <1>4, <1>5, <1>6 DEF OutcomesInv

(* A request begins: it comes after everything.                            *)
LEMMA FlushFits == ASSUME OutcomesInv, NEW p \in Posters, FlushOutcome(p) PROVE OutcomesInv'
<1>1. PICK app \in Applications, status_ \in Reported :
        /\ payload' = [payload EXCEPT ![p] = [app |-> app, status |-> status_]]
        /\ poster' = [poster EXCEPT ![p] = IF status_ \in AllStatuses THEN "flushed" ELSE "rejected"]
  BY DEF FlushOutcome
<1>2. /\ poster[p] = "new" /\ began' = Append(began, p)
      /\ UNCHANGED <<outcomes, tracker, postingStatus, patches, disturbed>>
  BY DEF FlushOutcome
<1> USE DEF OutcomesInv
<1>3. /\ began \in Seq(Posters) /\ Len(began) \in Nat
      /\ DOMAIN began = 1 .. Len(began) /\ DOMAIN began' = 1 .. (Len(began) + 1)
      /\ began'[Len(began) + 1] = p
      /\ \A i \in DOMAIN began : began'[i] = began[i] /\ i # Len(began) + 1
  BY <1>2 DEF Begun
<1>4. /\ poster'[p] \in {"flushed", "rejected"}
      /\ \A q \in Posters : q # p => poster'[q] = poster[q] /\ payload'[q] = payload[q]
      /\ poster'[p] = "flushed" => status_ \in AllStatuses
      /\ payload'[p] = [app |-> app, status |-> status_]
  BY <1>1 DEF Shapes
<1>5. Begun'
  <2>1. began' \in Seq(Posters)
    BY <1>2, <1>3
  <2>2. \A i, k \in DOMAIN began' : began'[i] = began'[k] => i = k
    BY <1>2, <1>3 DEF Begun
  <2>3. \A q \in Posters : poster'[q] = "new" => \A i \in DOMAIN began' : began'[i] # q
    BY <1>3, <1>4 DEF Begun
  <2>4. \A q \in Posters : poster'[q] # "new" => \E i \in DOMAIN began' : began'[i] = q
    <3> SUFFICES ASSUME NEW q \in Posters, poster'[q] # "new"
                 PROVE  \E i \in DOMAIN began' : began'[i] = q
      OBVIOUS
    <3>1. CASE q = p
      BY <1>3, <3>1
    <3>2. CASE q # p
      BY <1>3, <1>4, <3>2 DEF Begun
    <3> QED
      BY <3>1, <3>2
  <2> QED
    BY <2>1, <2>2, <2>3, <2>4 DEF Begun
<1>6. \A q \in Posters : q # p => (Active(q)' <=> Active(q)) /\ JobSent(q)' = JobSent(q)
  BY <1>4 DEF Active, JobSent
<1>7. \A q \in Posters : poster'[q] = "filed" => q # p /\ poster[q] = "filed"
  BY <1>4
<1>8. ASSUME NEW q \in Posters, q # p, poster[q] # "new" PROVE Position(q)' = Position(q)
  <2>1. Position(q) \in DOMAIN began /\ began[Position(q)] = q
    BY <1>8, PositionOf
  <2>2. Position(q)' \in DOMAIN began' /\ began'[Position(q)'] = q
    <3>1. poster'[q] # "new"
      BY <1>4, <1>8
    <3>2. \E i \in DOMAIN began' : began'[i] = q
      BY <1>5, <3>1 DEF Begun
    <3> QED
      BY <3>2 DEF Position
  <2>3. Position(q) \in DOMAIN began' /\ began'[Position(q)] = q
    BY <1>3, <2>1
  <2> QED
    BY <1>5, <2>2, <2>3 DEF Begun
<1>9. Position(p)' = Len(began) + 1
  <2>1. \E i \in DOMAIN began' : began'[i] = p
    BY <1>3
  <2>2. Position(p)' \in DOMAIN began' /\ began'[Position(p)'] = p
    BY <2>1 DEF Position
  <2>3. Len(began) + 1 \in DOMAIN began'
    BY <1>3
  <2> QED
    BY <1>3, <1>5, <2>2, <2>3 DEF Begun
<1>10. Shapes'
  <2>1. DOMAIN poster' = Posters /\ DOMAIN payload' = Posters /\ DOMAIN postingStatus' = Applications
    BY <1>1, <1>2 DEF Shapes
  <2>2. \A q \in Posters : Active(q)' => payload'[q].app \in Applications /\ payload'[q].status \in AllStatuses
    BY <1>4, <1>6 DEF Shapes, Active
  <2>3. ASSUME NEW t \in DOMAIN outcomes' PROVE t \in DOMAIN began' /\ ~Active(began[t])'
    <3>1. t \in DOMAIN began /\ ~Active(began[t]) /\ began'[t] = began[t]
      BY <1>2, <1>3 DEF Shapes
    <3>2. began[t] \in Posters /\ began[t] # p
      BY <1>2, <1>3, <3>1 DEF Begun
    <3>3. poster'[began[t]] = poster[began[t]]
      BY <1>4, <3>2
    <3> QED
      BY <1>3, <3>1, <3>3 DEF Active
  <2> QED
    BY <1>2, <2>1, <2>2, <2>3 DEF Shapes
<1>11. TrackerFits'
  BY <1>2, <1>6, <1>7 DEF TrackerFits, JobAt
<1>12. InOrder'
  <2>1. ASSUME NEW q \in Posters, NEW r \in Posters, q # r, Active(q)', poster'[r] = "filed",
               JobSent(q)' = JobSent(r)', JobSent(r)' \notin disturbed'
        PROVE  Position(q)' > Position(r)'
    <3>1. r # p /\ poster[r] = "filed"
      BY <1>7, <2>1
    <3>2. Position(r)' = Position(r) /\ Position(r) \in DOMAIN began
      BY <1>8, <3>1, PositionOf
    <3>3. CASE q = p
      BY <1>3, <1>9, <3>2, <3>3
    <3>4. CASE q # p
      <4>1. Active(q) /\ JobSent(q) = JobSent(r) /\ JobSent(r) \notin disturbed
        BY <1>2, <1>6, <2>1, <3>1, <3>4
      <4>2. Position(q) > Position(r)
        BY <2>1, <3>1, <4>1 DEF InOrder
      <4>3. poster[q] # "new"
        BY <4>1 DEF Active
      <4> QED
        BY <1>8, <3>2, <3>4, <4>2, <4>3
    <3> QED
      BY <3>3, <3>4
  <2>2. ASSUME NEW q \in Posters, NEW t \in DOMAIN outcomes', Active(q)',
               JobAt(t)' = JobSent(q)', JobSent(q)' \notin disturbed'
        PROVE  Position(q)' > t
    <3>1. t \in DOMAIN began
      BY <1>2 DEF Shapes
    <3>2. CASE q = p
      BY <1>3, <1>9, <3>1, <3>2
    <3>3. CASE q # p
      <4>1. Active(q) /\ JobAt(t) = JobSent(q) /\ JobSent(q) \notin disturbed /\ t \in DOMAIN outcomes
        BY <1>2, <1>6, <2>2, <3>3 DEF JobAt
      <4>2. Position(q) > t
        BY <4>1 DEF InOrder
      <4> QED
        BY <1>8, <3>3, <4>1, <4>2 DEF Active
    <3> QED
      BY <3>2, <3>3
  <2> QED
    BY <2>1, <2>2 DEF InOrder
<1>13. OneStory'
  <2>1. \A t \in DOMAIN outcomes : (NewestOfApp(t)' <=> NewestOfApp(t))
           /\ (NewestOfJob(t)' <=> NewestOfJob(t)) /\ JobAt(t)' = JobAt(t)
    BY <1>2 DEF NewestOfApp, NewestOfJob, JobAt
  <2>2. \A q \in Posters : poster[q] = "filed" => poster'[q] = "filed" /\ JobSent(q)' = JobSent(q)
    BY <1>2, <1>4, <1>6
  <2>3. \A q \in Posters : poster'[q] = "filed" =>
           poster[q] = "filed" /\ JobSent(q)' = JobSent(q) /\ payload'[q] = payload[q]
    BY <1>4, <1>6, <1>7
  <2> QED
    BY <1>2, <2>1, <2>2, <2>3 DEF OneStory
<1> QED
  BY <1>5, <1>10, <1>11, <1>12, <1>13

(* One row per job: the row of the same job is replaced.                   *)
LEMMA RewrittenFits ==
  ASSUME NEW rows \in Seq(Entry), NEW row \in Entry,
         \A i, k \in DOMAIN rows : rows[i].job = rows[k].job => i = k
  PROVE  LET new == Rewritten(rows, row) IN
         /\ new \in Seq(Entry)
         /\ \A i, k \in DOMAIN new : new[i].job = new[k].job => i = k
         /\ \E i \in DOMAIN new : new[i] = row
         /\ \A i \in DOMAIN new : IF new[i].job = row.job THEN new[i] = row
                                  ELSE i \in DOMAIN rows /\ new[i] = rows[i]
         /\ \A i \in DOMAIN rows : \E k \in DOMAIN new : new[k].job = rows[i].job
<1> DEFINE same == {i \in DOMAIN rows : rows[i].job = row.job}  new == Rewritten(rows, row)
<1>1. CASE same = {}
  <2>1. new = Append(rows, row)
    BY <1>1 DEF Rewritten
  <2>2. /\ new \in Seq(Entry) /\ DOMAIN new = 1 .. (Len(rows) + 1) /\ new[Len(rows) + 1] = row
        /\ DOMAIN rows = 1 .. Len(rows) /\ Len(rows) \in Nat
        /\ \A i \in DOMAIN rows : new[i] = rows[i] /\ i \in DOMAIN new
    BY <2>1
  <2>3. \A i \in DOMAIN rows : rows[i].job # row.job
    BY <1>1
  <2> HIDE DEF new
  <2>4. \A i \in DOMAIN new : i = Len(rows) + 1 \/ i \in DOMAIN rows
    BY <2>2
  <2>5. \A i, k \in DOMAIN new : new[i].job = new[k].job => i = k
    BY <2>2, <2>3, <2>4
  <2>6. \E i \in DOMAIN new : new[i] = row
    BY <2>2
  <2>7. \A i \in DOMAIN new : IF new[i].job = row.job THEN new[i] = row
                              ELSE i \in DOMAIN rows /\ new[i] = rows[i]
    BY <2>2, <2>3, <2>4
  <2>8. \A i \in DOMAIN rows : \E k \in DOMAIN new : new[k].job = rows[i].job
    BY <2>2
  <2> QED
    BY <2>2, <2>5, <2>6, <2>7, <2>8 DEF new
<1>2. CASE same # {}
  <2>1. PICK n \in same : same = {n}
    BY <1>2
  <2>2. Min(same) = n
    <3>1. n \in Nat
      BY <2>1
    <3> HIDE DEF same
    <3>2. \E x \in same : \A y \in same : x <= y
      BY <2>1, <3>1
    <3>3. Min(same) \in same
      BY <3>2 DEF Min
    <3> QED
      BY <2>1, <3>3
  <2>3. new = [rows EXCEPT ![n] = row]
    BY <1>2, <2>2 DEF Rewritten
  <2>4. n \in DOMAIN rows /\ rows[n].job = row.job /\ DOMAIN rows = 1 .. Len(rows)
    BY <2>1
  <2>5. /\ new \in Seq(Entry) /\ DOMAIN new = DOMAIN rows /\ new[n] = row
        /\ \A i \in DOMAIN rows : i # n => new[i] = rows[i]
    BY <2>3, <2>4
  <2>6. \A i \in DOMAIN rows : rows[i].job = row.job => i = n
    BY <2>4
  <2> HIDE DEF new
  <2>7. \A i \in DOMAIN new : new[i].job = rows[i].job
    BY <2>4, <2>5
  <2>8. \A i, k \in DOMAIN new : new[i].job = new[k].job => i = k
    BY <2>5, <2>7
  <2>9. \A i \in DOMAIN new : IF new[i].job = row.job THEN new[i] = row
                              ELSE i \in DOMAIN rows /\ new[i] = rows[i]
    BY <2>4, <2>5, <2>6, <2>7
  <2> QED
    BY <2>4, <2>5, <2>7, <2>8, <2>9 DEF new
<1> QED
  BY <1>1, <1>2

(* The file is rewritten: whatever overlaps disturbs the job.              *)
LEMMA UpdateFits == ASSUME OutcomesInv, NEW p \in Posters, UpdateTracker(p) PROVE OutcomesInv'
<1> DEFINE J == JobSent(p)  row == [job |-> J, status |-> payload[p].status]
<1>1. /\ poster[p] = "flushed"
      /\ tracker' = Rewritten(tracker, row)
      /\ poster' = [poster EXCEPT ![p] = "filed"]
      /\ disturbed' = disturbed \union {JobSent(q) : q \in Overlapping(p)}
      /\ UNCHANGED <<outcomes, postingStatus, payload, began, patches>>
  BY DEF UpdateTracker, JobSent
<1> USE DEF OutcomesInv
<1>2. Active(p)
  BY <1>1 DEF Active
<1>3. row \in Entry
  BY <1>2 DEF Shapes, Entry, JobSent
<1>4. /\ poster'[p] = "filed"
      /\ \A q \in Posters : q # p => poster'[q] = poster[q]
      /\ \A q \in Posters : (Active(q)' <=> Active(q)) /\ JobSent(q)' = JobSent(q)
      /\ \A q \in Posters : (poster'[q] = "new" <=> poster[q] = "new")
  BY <1>1, <1>2 DEF Shapes, Active, JobSent
<1>5. disturbed \subseteq disturbed'
  BY <1>1
<1>6. ASSUME J \notin disturbed', NEW q \in Posters, q # p, Active(q) PROVE JobSent(q) # J
  <2>1. q \notin Overlapping(p)
    <3> SUFFICES ASSUME q \in Overlapping(p) PROVE FALSE
      OBVIOUS
    <3>1. JobSent(q) \in disturbed' /\ JobSent(q) = J
      BY <1>1 DEF Overlapping, JobSent
    <3> QED
      BY <1>6, <3>1
  <2> QED
    BY <1>6, <2>1 DEF Overlapping, JobSent
<1> HIDE DEF row, J
<1>7. /\ tracker' \in Seq(Entry)
      /\ \A i, k \in DOMAIN tracker' : tracker'[i].job = tracker'[k].job => i = k
      /\ \E i \in DOMAIN tracker' : tracker'[i] = row
      /\ \A i \in DOMAIN tracker' : IF tracker'[i].job = row.job THEN tracker'[i] = row
                                    ELSE i \in DOMAIN tracker /\ tracker'[i] = tracker[i]
      /\ \A i \in DOMAIN tracker : \E k \in DOMAIN tracker' : tracker'[k].job = tracker[i].job
  <2>1. tracker \in Seq(Entry) /\ \A i, k \in DOMAIN tracker : tracker[i].job = tracker[k].job => i = k
    BY DEF TrackerFits
  <2>2. tracker' = Rewritten(tracker, row) /\ row \in Entry
    BY <1>1, <1>3
  <2> HIDE DEF OutcomesInv
  <2>3. LET new == Rewritten(tracker, row) IN
        /\ new \in Seq(Entry)
        /\ \A i, k \in DOMAIN new : new[i].job = new[k].job => i = k
        /\ \E i \in DOMAIN new : new[i] = row
        /\ \A i \in DOMAIN new : IF new[i].job = row.job THEN new[i] = row
                                 ELSE i \in DOMAIN tracker /\ new[i] = tracker[i]
        /\ \A i \in DOMAIN tracker : \E k \in DOMAIN new : new[k].job = tracker[i].job
    BY <2>1, <2>2, RewrittenFits
  <2> QED
    BY <2>2, <2>3
<1>8. row.job = J /\ row.status = payload[p].status
  BY DEF row
<1>9. Begun'
  BY <1>1, <1>4 DEF Begun
<1>10. Shapes'
  BY <1>1, <1>4 DEF Shapes, Active
<1>11. \A t \in DOMAIN outcomes : JobAt(t)' = JobAt(t)
  BY <1>1 DEF JobAt
<1>12. TrackerFits'
  <2>1. \A t \in DOMAIN outcomes' : \E i \in DOMAIN tracker' : tracker'[i].job = JobAt(t)'
    <3> SUFFICES ASSUME NEW t \in DOMAIN outcomes
                 PROVE  \E i \in DOMAIN tracker' : tracker'[i].job = JobAt(t)
      BY <1>1, <1>11
    <3>1. PICK i \in DOMAIN tracker : tracker[i].job = JobAt(t)
      BY DEF TrackerFits
    <3> QED
      BY <1>7, <3>1
  <2>2. \A q \in Posters : poster'[q] = "filed" => \E i \in DOMAIN tracker' : tracker'[i].job = JobSent(q)'
    <3> SUFFICES ASSUME NEW q \in Posters, poster'[q] = "filed"
                 PROVE  \E i \in DOMAIN tracker' : tracker'[i].job = JobSent(q)
      BY <1>4
    <3>1. CASE q = p
      BY <1>7, <1>8, <3>1 DEF J
    <3>2. CASE q # p
      <4>1. PICK i \in DOMAIN tracker : tracker[i].job = JobSent(q)
        BY <1>4, <3>2 DEF TrackerFits
      <4> QED
        BY <1>7, <4>1
    <3> QED
      BY <3>1, <3>2
  <2> QED
    BY <1>7, <2>1, <2>2 DEF TrackerFits
<1>13. \A q \in Posters : Position(q)' = Position(q)
  BY <1>1 DEF Position
<1>14. InOrder'
  <2>1. ASSUME NEW q \in Posters, NEW r \in Posters, q # r, Active(q)', poster'[r] = "filed",
               JobSent(q)' = JobSent(r)', JobSent(r)' \notin disturbed'
        PROVE  Position(q)' > Position(r)'
    <3>1. Active(q) /\ JobSent(q) = JobSent(r) /\ JobSent(r) \notin disturbed'
      BY <1>4, <2>1
    <3>2. CASE r = p
      BY <1>6, <2>1, <3>1, <3>2 DEF J
    <3>3. CASE r # p
      BY <1>4, <1>5, <1>13, <2>1, <3>1, <3>3 DEF InOrder
    <3> QED
      BY <3>2, <3>3
  <2>2. ASSUME NEW q \in Posters, NEW t \in DOMAIN outcomes', Active(q)',
               JobAt(t)' = JobSent(q)', JobSent(q)' \notin disturbed'
        PROVE  Position(q)' > t
    BY <1>1, <1>4, <1>5, <1>11, <1>13, <2>2 DEF InOrder
  <2> QED
    BY <2>1, <2>2 DEF InOrder
<1>15. OneStory'
  <2>1. \A t \in DOMAIN outcomes : (NewestOfApp(t)' <=> NewestOfApp(t)) /\ (NewestOfJob(t)' <=> NewestOfJob(t))
    BY <1>1, <1>11 DEF NewestOfApp, NewestOfJob, JobAt
  <2>2. ASSUME NEW t \in DOMAIN outcomes', JobAt(t)' \notin disturbed', NewestOfApp(t)'
        PROVE  postingStatus'[outcomes'[t].app] = JobStatusOf(outcomes'[t].status)
    BY <1>1, <1>5, <1>11, <2>1, <2>2 DEF OneStory
  <2>3. ASSUME NEW t \in DOMAIN outcomes', JobAt(t)' \notin disturbed', NewestOfJob(t)',
               \A q \in Posters : poster'[q] = "filed" => JobSent(q)' # JobAt(t)',
               NEW i \in DOMAIN tracker', tracker'[i].job = JobAt(t)'
        PROVE  tracker'[i].status = outcomes'[t].status
    <3>1. t \in DOMAIN outcomes /\ JobAt(t) \notin disturbed /\ NewestOfJob(t)
      BY <1>1, <1>5, <1>11, <2>1, <2>3
    <3>2. JobAt(t) # J /\ tracker'[i].job = JobAt(t)
      BY <1>4, <1>11, <2>3, <3>1 DEF J
    <3>3. i \in DOMAIN tracker /\ tracker'[i] = tracker[i]
      BY <1>7, <1>8, <3>2
    <3>4. \A q \in Posters : poster[q] = "filed" => JobSent(q) # JobAt(t)
      BY <1>1, <1>4, <1>11, <2>3, <3>1
    <3> QED
      BY <1>1, <3>1, <3>2, <3>3, <3>4 DEF OneStory
  <2>4. ASSUME NEW q \in Posters, poster'[q] = "filed", JobSent(q)' \notin disturbed',
               NEW i \in DOMAIN tracker', tracker'[i].job = JobSent(q)'
        PROVE  tracker'[i].status = payload'[q].status
    <3>1. JobSent(q) \notin disturbed' /\ tracker'[i].job = JobSent(q)
      BY <1>4, <2>4
    <3>2. CASE q = p
      BY <1>1, <1>7, <1>8, <3>1, <3>2 DEF J
    <3>3. CASE q # p
      <4>1. poster[q] = "filed" /\ Active(q)
        BY <1>4, <2>4, <3>3 DEF Active
      <4>2. JobSent(q) # J
        BY <1>6, <3>1, <3>3, <4>1
      <4>3. i \in DOMAIN tracker /\ tracker'[i] = tracker[i]
        BY <1>7, <1>8, <3>1, <4>2
      <4> QED
        BY <1>1, <1>5, <3>1, <4>1, <4>3 DEF OneStory
    <3> QED
      BY <3>2, <3>3
  <2> QED
    BY <2>2, <2>3, <2>4 DEF OneStory
<1> QED
  BY <1>9, <1>10, <1>12, <1>14, <1>15

(* The committed row is the newest of its job, unless that was disturbed.  *)
LEMMA CommitFits == ASSUME OutcomesInv, NEW p \in Posters, CommitOutcome(p) PROVE OutcomesInv'
<1> DEFINE J == JobSent(p)
           row == [app |-> payload[p].app, status |-> payload[p].status,
                   resolved |-> payload[p].status \in ResolutionStatuses]
<1>0. Active(p) /\ Position(p) \in Nat
  BY PositionOf DEF CommitOutcome, Active, OutcomesInv
<1> PICK T \in Nat : T = Position(p)
  BY <1>0
<1>1. /\ T = Position(p) /\ poster[p] = "filed" /\ outcomes' = Inserted(T, row)
      /\ postingStatus' = [postingStatus EXCEPT ![payload[p].app] = JobStatusOf(payload[p].status)]
      /\ poster' = [poster EXCEPT ![p] = "recorded"]
      /\ UNCHANGED <<tracker, payload, began, patches, disturbed>>
  BY DEF CommitOutcome
<1> USE DEF OutcomesInv
<1>2. Active(p) /\ payload[p].app \in Applications /\ payload[p].status \in AllStatuses
  BY <1>1 DEF Active, Shapes
<1>3. T \in DOMAIN began /\ began[T] = p /\ T \in Nat /\ T \notin DOMAIN outcomes
  BY <1>1, <1>2, PositionOf DEF Shapes
<1>4. /\ poster'[p] = "recorded"
      /\ \A q \in Posters : q # p => poster'[q] = poster[q]
      /\ \A q \in Posters : JobSent(q)' = JobSent(q) /\ Position(q)' = Position(q)
      /\ \A q \in Posters : Active(q)' <=> Active(q) /\ q # p
      /\ \A q \in Posters : poster'[q] = "filed" <=> poster[q] = "filed" /\ q # p
      /\ \A q \in Posters : (poster'[q] = "new" <=> poster[q] = "new")
  BY <1>1 DEF Shapes, Active, JobSent, Position
<1>5. /\ DOMAIN outcomes' = DOMAIN outcomes \union {T}
      /\ outcomes'[T] = row
      /\ \A t \in DOMAIN outcomes : t # T /\ outcomes'[t] = outcomes[t]
  BY <1>1, <1>3 DEF Inserted
<1>6. /\ row.app = payload[p].app /\ row.status = payload[p].status
      /\ JobOf[row.app] = J
  BY DEF JobSent
<1> HIDE DEF row, J
<1>7. JobAt(T)' = J /\ \A t \in DOMAIN outcomes : JobAt(t)' = JobAt(t)
  BY <1>5, <1>6 DEF JobAt
<1>8. Begun'
  BY <1>1, <1>4 DEF Begun
<1>9. Shapes'
  <2>1. DOMAIN poster' = Posters /\ DOMAIN payload' = Posters /\ DOMAIN postingStatus' = Applications
    BY <1>1 DEF Shapes
  <2>2. \A q \in Posters : Active(q)' => payload'[q].app \in Applications /\ payload'[q].status \in AllStatuses
    BY <1>1, <1>4 DEF Shapes
  <2>3. ASSUME NEW t \in DOMAIN outcomes'
        PROVE  /\ t \in DOMAIN began' /\ ~Active(began[t])'
               /\ outcomes'[t].app \in Applications /\ outcomes'[t].status \in AllStatuses
    <3>1. CASE t = T
      BY <1>1, <1>2, <1>3, <1>4, <1>5, <1>6, <3>1
    <3>2. CASE t # T
      <4>1. t \in DOMAIN outcomes /\ outcomes'[t] = outcomes[t]
        BY <1>5, <2>3, <3>2
      <4>2. t \in DOMAIN began /\ ~Active(began[t])
        BY <4>1 DEF Shapes
      <4>3. began[t] \in Posters
        BY <4>2 DEF Begun
      <4>4. began'[t] = began[t]
        BY <1>1
      <4>5. ~Active(began[t])'
        <5>1. poster'[began[t]] = poster[began[t]]
          BY <1>2, <1>4, <4>2, <4>3
        <5> QED
          BY <4>2, <4>4, <5>1 DEF Active
      <4> QED
        BY <1>1, <4>1, <4>2, <4>5 DEF Shapes
    <3> QED
      BY <3>1, <3>2
  <2> QED
    BY <2>1, <2>2, <2>3 DEF Shapes
<1>10. TrackerFits'
  <2>1. \E i \in DOMAIN tracker : tracker[i].job = J
    BY <1>1 DEF TrackerFits, J
  <2>2. \A t \in DOMAIN outcomes' : \E i \in DOMAIN tracker' : tracker'[i].job = JobAt(t)'
    BY <1>1, <1>5, <1>7, <2>1 DEF TrackerFits
  <2>3. \A q \in Posters : poster'[q] = "filed" => \E i \in DOMAIN tracker' : tracker'[i].job = JobSent(q)'
    BY <1>1, <1>4 DEF TrackerFits
  <2> QED
    BY <1>1, <2>2, <2>3 DEF TrackerFits
<1>11. ASSUME NEW t \in DOMAIN outcomes, JobAt(t) = J, J \notin disturbed PROVE T > t
  BY <1>1, <1>2, <1>11 DEF InOrder, J
<1>12. \A t \in DOMAIN outcomes : t \in Nat
  BY DEF Shapes, Begun
<1>13. InOrder'
  <2>1. \A q, r \in Posters :
           q # r /\ Active(q)' /\ poster'[r] = "filed" /\ JobSent(q)' = JobSent(r)'
             /\ JobSent(r)' \notin disturbed' => Position(q)' > Position(r)'
    BY <1>1, <1>4 DEF InOrder
  <2>2. ASSUME NEW q \in Posters, NEW t \in DOMAIN outcomes', Active(q)',
               JobAt(t)' = JobSent(q)', JobSent(q)' \notin disturbed'
        PROVE  Position(q)' > t
    <3>1. Active(q) /\ q # p /\ JobSent(q) \notin disturbed /\ JobAt(t)' = JobSent(q)
      BY <1>1, <1>4, <2>2
    <3>2. CASE t = T
      <4>1. JobSent(q) = JobSent(p)
        BY <1>7, <3>1, <3>2 DEF J
      <4>2. Position(q) > Position(p)
        BY <1>1, <3>1, <4>1 DEF InOrder
      <4> QED
        BY <1>1, <1>4, <3>2, <4>2
    <3>3. CASE t # T
      <4>1. t \in DOMAIN outcomes /\ JobAt(t) = JobSent(q)
        BY <1>5, <1>7, <2>2, <3>1, <3>3
      <4>2. Position(q) > t
        BY <3>1, <4>1 DEF InOrder
      <4> QED
        BY <1>4, <4>2
    <3> QED
      BY <3>2, <3>3
  <2> QED
    BY <2>1, <2>2 DEF InOrder
<1>14. OneStory'
  <2>1. ASSUME NEW t \in DOMAIN outcomes', JobAt(t)' \notin disturbed', NewestOfApp(t)'
        PROVE  postingStatus'[outcomes'[t].app] = JobStatusOf(outcomes'[t].status)
    <3>1. CASE t = T
      <4>1. postingStatus'[payload[p].app] = JobStatusOf(payload[p].status)
        BY <1>1, <1>2 DEF Shapes
      <4> QED
        BY <1>5, <1>6, <3>1, <4>1
    <3>2. CASE t # T
      <4>1. t \in DOMAIN outcomes /\ outcomes'[t] = outcomes[t] /\ JobAt(t) \notin disturbed
        BY <1>1, <1>5, <1>7, <2>1, <3>2
      <4>2. outcomes[t].app # payload[p].app
        <5> SUFFICES ASSUME outcomes[t].app = payload[p].app PROVE FALSE
          OBVIOUS
        <5>1. JobAt(t) = J
          BY DEF JobAt, J, JobSent
        <5>2. T > t
          BY <1>11, <4>1, <5>1
        <5>3. T <= t
          BY <1>5, <1>6, <2>1, <4>1 DEF NewestOfApp
        <5> QED
          BY <1>3, <1>12, <4>1, <5>2, <5>3
      <4>3. NewestOfApp(t)
        BY <1>5, <2>1, <4>1 DEF NewestOfApp
      <4>4. postingStatus[outcomes[t].app] = JobStatusOf(outcomes[t].status)
        BY <4>1, <4>3 DEF OneStory
      <4>5. postingStatus'[outcomes[t].app] = postingStatus[outcomes[t].app]
        BY <1>1, <4>1, <4>2 DEF Shapes
      <4> QED
        BY <4>1, <4>4, <4>5
    <3> QED
      BY <3>1, <3>2
  <2>2. ASSUME NEW t \in DOMAIN outcomes', JobAt(t)' \notin disturbed', NewestOfJob(t)',
               \A q \in Posters : poster'[q] = "filed" => JobSent(q)' # JobAt(t)',
               NEW i \in DOMAIN tracker', tracker'[i].job = JobAt(t)'
        PROVE  tracker'[i].status = outcomes'[t].status
    <3>1. CASE t = T
      <4>1. J \notin disturbed /\ tracker[i].job = J /\ i \in DOMAIN tracker
        BY <1>1, <1>7, <2>2, <3>1
      <4>2. tracker[i].status = payload[p].status
        BY <1>1, <4>1 DEF OneStory, J
      <4> QED
        BY <1>1, <1>5, <1>6, <3>1, <4>2
    <3>2. CASE t # T
      <4>1. /\ t \in DOMAIN outcomes /\ outcomes'[t] = outcomes[t] /\ JobAt(t) \notin disturbed
            /\ JobAt(t)' = JobAt(t)
        BY <1>1, <1>5, <1>7, <2>2, <3>2
      <4>2. JobAt(t) # J
        <5> SUFFICES ASSUME JobAt(t) = J PROVE FALSE
          OBVIOUS
        <5>1. T > t
          BY <1>11, <4>1
        <5>2. JobAt(T)' = JobAt(t)' /\ T \in DOMAIN outcomes'
          BY <1>5, <1>7, <4>1
        <5>3. T <= t
          BY <2>2, <5>2 DEF NewestOfJob
        <5> QED
          BY <1>3, <1>12, <4>1, <5>1, <5>3
      <4>3. NewestOfJob(t)
        BY <1>5, <1>7, <2>2, <4>1 DEF NewestOfJob
      <4>4. \A q \in Posters : poster[q] = "filed" => JobSent(q) # JobAt(t)
        BY <1>4, <2>2, <4>1, <4>2 DEF J
      <4> QED
        BY <1>1, <2>2, <4>1, <4>3, <4>4 DEF OneStory
    <3> QED
      BY <3>1, <3>2
  <2>3. \A q \in Posters : poster'[q] = "filed" /\ JobSent(q)' \notin disturbed' =>
          \A i \in DOMAIN tracker' : tracker'[i].job = JobSent(q)' => tracker'[i].status = payload'[q].status
    BY <1>1, <1>4 DEF OneStory
  <2> QED
    BY <2>1, <2>2, <2>3 DEF OneStory
<1> QED
  BY <1>8, <1>9, <1>10, <1>13, <1>14

(* A commit that fails leaves the file ahead, and the job disturbed.       *)
LEMMA FailureFits == ASSUME OutcomesInv, NEW p \in Posters, CommitFails(p) PROVE OutcomesInv'
<1>1. /\ Active(p) /\ poster' = [poster EXCEPT ![p] = "aborted"]
      /\ disturbed' = IF poster[p] = "filed" THEN disturbed \union {JobSent(p)} ELSE disturbed
      /\ UNCHANGED <<outcomes, tracker, postingStatus, payload, began, patches>>
  BY DEF CommitFails, JobSent
<1> USE DEF OutcomesInv
<1>2. disturbed \subseteq disturbed'
  BY <1>1
<1>3. /\ \A q \in Posters : JobSent(q)' = JobSent(q) /\ Position(q)' = Position(q)
      /\ \A q \in Posters : Active(q)' => Active(q) /\ q # p
      /\ \A q \in Posters : poster'[q] = "filed" => poster[q] = "filed" /\ q # p
      /\ \A q \in Posters : q # p => poster'[q] = poster[q]
      /\ \A q \in Posters : (poster'[q] = "new" <=> poster[q] = "new")
  BY <1>1 DEF Shapes, Active, JobSent, Position
<1>4. \A t : JobAt(t)' = JobAt(t) /\ (NewestOfApp(t)' <=> NewestOfApp(t)) /\ (NewestOfJob(t)' <=> NewestOfJob(t))
  BY <1>1 DEF JobAt, NewestOfApp, NewestOfJob
<1>5. Begun'
  BY <1>1, <1>3 DEF Begun
<1>6. Shapes'
  <2>1. ASSUME NEW t \in DOMAIN outcomes PROVE t \in DOMAIN began' /\ ~Active(began[t])'
    <3>1. t \in DOMAIN began /\ ~Active(began[t]) /\ began[t] \in Posters /\ began' = began
      BY <1>1 DEF Shapes, Begun
    <3>2. poster'[began[t]] = poster[began[t]]
      BY <1>1, <1>3, <3>1
    <3> QED
      BY <3>1, <3>2 DEF Active
  <2>2. DOMAIN poster' = Posters
    BY <1>1 DEF Shapes
  <2>3. \A q \in Posters : Active(q)' => payload'[q].app \in Applications /\ payload'[q].status \in AllStatuses
    BY <1>1, <1>3 DEF Shapes
  <2> QED
    BY <1>1, <2>1, <2>2, <2>3 DEF Shapes
<1>7. TrackerFits'
  BY <1>1, <1>3, <1>4 DEF TrackerFits
<1>8. InOrder'
  BY <1>1, <1>2, <1>3, <1>4 DEF InOrder
<1>9. OneStory'
  <2>1. ASSUME NEW t \in DOMAIN outcomes', JobAt(t)' \notin disturbed', NewestOfJob(t)',
               \A q \in Posters : poster'[q] = "filed" => JobSent(q)' # JobAt(t)',
               NEW i \in DOMAIN tracker', tracker'[i].job = JobAt(t)'
        PROVE  tracker'[i].status = outcomes'[t].status
    <3>1. t \in DOMAIN outcomes /\ JobAt(t) \notin disturbed /\ NewestOfJob(t) /\ tracker[i].job = JobAt(t)
      BY <1>1, <1>2, <1>4, <2>1
    <3>2. \A q \in Posters : poster[q] = "filed" => JobSent(q) # JobAt(t)
      <4> SUFFICES ASSUME NEW q \in Posters, poster[q] = "filed" PROVE JobSent(q) # JobAt(t)
        OBVIOUS
      <4>1. CASE q = p
        BY <1>1, <1>4, <2>1, <4>1
      <4>2. CASE q # p
        BY <1>3, <1>4, <2>1, <4>2
      <4> QED
        BY <4>1, <4>2
    <3> QED
      BY <1>1, <2>1, <3>1, <3>2 DEF OneStory
  <2>2. \A t \in DOMAIN outcomes' : JobAt(t)' \notin disturbed' /\ NewestOfApp(t)' =>
          postingStatus'[outcomes'[t].app] = JobStatusOf(outcomes'[t].status)
    BY <1>1, <1>2, <1>4 DEF OneStory
  <2>3. \A q \in Posters : poster'[q] = "filed" /\ JobSent(q)' \notin disturbed' =>
          \A i \in DOMAIN tracker' : tracker'[i].job = JobSent(q)' => tracker'[i].status = payload'[q].status
    BY <1>1, <1>2, <1>3 DEF OneStory
  <2> QED
    BY <2>1, <2>2, <2>3 DEF OneStory
<1> QED
  BY <1>5, <1>6, <1>7, <1>8, <1>9

(* A patched row belongs to a disturbed job.                               *)
LEMMA PatchFits == ASSUME OutcomesInv, PatchOutcome PROVE OutcomesInv'
<1>1. PICK n \in DOMAIN outcomes, status_ \in Reported \intersect AllStatuses :
        /\ outcomes' = [outcomes EXCEPT ![n].status = status_,
                                        ![n].resolved = @ \/ status_ \in ResolutionStatuses]
        /\ disturbed' = disturbed \union {JobAt(n)}
  BY DEF PatchOutcome, JobAt
<1>2. UNCHANGED <<tracker, postingStatus, poster, payload, began>>
  BY DEF PatchOutcome
<1> USE DEF OutcomesInv
<1>3. /\ DOMAIN outcomes' = DOMAIN outcomes
      /\ \A t \in DOMAIN outcomes : t # n => outcomes'[t] = outcomes[t]
  BY <1>1
<1>4. outcomes'[n].app = outcomes[n].app /\ outcomes'[n].status \in AllStatuses
  <2>1. outcomes'[n] = [outcomes[n] EXCEPT !.status = status_, !.resolved = @ \/ status_ \in ResolutionStatuses]
    BY <1>1
  <2> QED
    BY <2>1
<1>5. \A t \in DOMAIN outcomes : outcomes'[t].app = outcomes[t].app /\ JobAt(t)' = JobAt(t)
  BY <1>3, <1>4 DEF JobAt
<1>6. \A q \in Posters : JobSent(q)' = JobSent(q) /\ Position(q)' = Position(q) /\ (Active(q)' <=> Active(q))
  BY <1>2 DEF JobSent, Position, Active
<1>7. \A t \in DOMAIN outcomes : (NewestOfApp(t)' <=> NewestOfApp(t)) /\ (NewestOfJob(t)' <=> NewestOfJob(t))
  BY <1>3, <1>5 DEF NewestOfApp, NewestOfJob
<1>8. ASSUME NEW t \in DOMAIN outcomes, JobAt(t) \notin disturbed'
      PROVE  outcomes'[t] = outcomes[t] /\ JobAt(t) \notin disturbed
  BY <1>1, <1>3, <1>8
<1>9. Begun' /\ TrackerFits'
  BY <1>2, <1>3, <1>5, <1>6 DEF Begun, TrackerFits
<1>10. Shapes'
  <2>1. ASSUME NEW t \in DOMAIN outcomes
        PROVE  /\ t \in DOMAIN began' /\ ~Active(began[t])'
               /\ outcomes'[t].app \in Applications /\ outcomes'[t].status \in AllStatuses
    <3>1. t \in DOMAIN began /\ ~Active(began[t]) /\ outcomes[t].app \in Applications /\ outcomes[t].status \in AllStatuses
      BY DEF Shapes
    <3>2. ~Active(began[t])'
      BY <1>2, <3>1 DEF Active
    <3>3. outcomes'[t].status \in AllStatuses
      BY <1>3, <1>4, <3>1
    <3> QED
      BY <1>2, <1>5, <3>1, <3>2, <3>3
  <2>2. \A q \in Posters : Active(q)' => payload'[q].app \in Applications /\ payload'[q].status \in AllStatuses
    BY <1>2, <1>6 DEF Shapes
  <2> QED
    BY <1>2, <1>3, <2>1, <2>2 DEF Shapes
<1>11. disturbed \subseteq disturbed'
  BY <1>1
<1>12. InOrder'
  BY <1>2, <1>3, <1>5, <1>6, <1>11 DEF InOrder
<1>13. OneStory'
  <2>1. \A t \in DOMAIN outcomes' : JobAt(t)' \notin disturbed' /\ NewestOfApp(t)' =>
          postingStatus'[outcomes'[t].app] = JobStatusOf(outcomes'[t].status)
    BY <1>2, <1>3, <1>5, <1>7, <1>8 DEF OneStory
  <2>2. ASSUME NEW t \in DOMAIN outcomes', JobAt(t)' \notin disturbed', NewestOfJob(t)',
               \A q \in Posters : poster'[q] = "filed" => JobSent(q)' # JobAt(t)',
               NEW i \in DOMAIN tracker', tracker'[i].job = JobAt(t)'
        PROVE  tracker'[i].status = outcomes'[t].status
    <3>1. /\ t \in DOMAIN outcomes /\ JobAt(t) \notin disturbed /\ NewestOfJob(t) /\ tracker[i].job = JobAt(t)
          /\ outcomes'[t] = outcomes[t]
      BY <1>2, <1>3, <1>5, <1>7, <1>8, <2>2
    <3>2. \A q \in Posters : poster[q] = "filed" => JobSent(q) # JobAt(t)
      BY <1>2, <1>5, <1>6, <2>2, <3>1
    <3> QED
      BY <1>2, <2>2, <3>1, <3>2 DEF OneStory
  <2>3. \A q \in Posters : poster'[q] = "filed" /\ JobSent(q)' \notin disturbed' =>
          \A i \in DOMAIN tracker' : tracker'[i].job = JobSent(q)' => tracker'[i].status = payload'[q].status
    BY <1>2, <1>6, <1>11 DEF OneStory
  <2> QED
    BY <2>1, <2>2, <2>3 DEF OneStory
<1> QED
  BY <1>9, <1>10, <1>12, <1>13

(* A set of naturals with a bound has a greatest element.                  *)
LEMMA GreatestOf ==
  ASSUME NEW N \in Nat, NEW S, S \subseteq 0 .. N, S # {}
  PROVE  Max(S) \in S /\ \A y \in S : y <= Max(S)
<1> DEFINE T == {n \in Nat : \E x \in S : n = N - x}
           less == OpToRel(<, Nat)
<1>1. \A n, m \in Nat : n < m => <<n, m>> \in less
  BY DEF OpToRel
<1>2. T # {} /\ T \subseteq Nat
  <2>1. PICK x \in S : TRUE
    OBVIOUS
  <2>2. N - x \in Nat
    OBVIOUS
  <2> QED
    BY <2>2
<1>3. IsWellFoundedOn(less, Nat)
  BY NatLessThanWellFounded
<1>a. \A n \in T : \E x \in S : n = N - x
  OBVIOUS
<1>b. \A x \in S : N - x \in T
  OBVIOUS
<1> HIDE DEF less, T
<1>4. PICK n \in T : \A m \in T : ~(<<m, n>> \in less)
  BY <1>2, <1>3, WFMin
<1>5. PICK x \in S : n = N - x
  BY <1>4, <1>a
<1>6. ASSUME NEW y \in S PROVE x >= y
  <2>1. N - y \in T /\ N - y \in Nat /\ n \in Nat /\ ~(N - y < n)
    BY <1>1, <1>2, <1>4, <1>b
  <2> QED
    BY <1>5, <2>1
<1>7. \E z \in S : \A y \in S : z >= y
  BY <1>6
<1>8. Max(S) \in S /\ \A y \in S : Max(S) >= y
  BY <1>7 DEF Max
<1> QED
  BY <1>8

LEMMA OutcomesStep == OutcomesInv /\ [OutcomesNext]_outcomeVars => OutcomesInv'
<1> SUFFICES ASSUME OutcomesInv, [OutcomesNext]_outcomeVars PROVE OutcomesInv'
  OBVIOUS
<1>1. ASSUME NEW p \in Posters, FlushOutcome(p) PROVE OutcomesInv'
  BY <1>1, FlushFits
<1>2. ASSUME NEW p \in Posters, UpdateTracker(p) PROVE OutcomesInv'
  BY <1>2, UpdateFits
<1>3. ASSUME NEW p \in Posters, CommitOutcome(p) PROVE OutcomesInv'
  BY <1>3, CommitFits
<1>4. ASSUME NEW p \in Posters, CommitFails(p) PROVE OutcomesInv'
  BY <1>4, FailureFits
<1>5. CASE PatchOutcome
  BY <1>5, PatchFits
<1>6. CASE UNCHANGED outcomeVars
  <2>1. UNCHANGED <<outcomes, tracker, postingStatus, poster, payload, began, disturbed>>
    BY <1>6 DEF outcomeVars
  <2>2. Begun' /\ Shapes' /\ TrackerFits'
    BY <2>1 DEF OutcomesInv, Begun, Shapes, TrackerFits, Active, JobAt, JobSent
  <2>3. InOrder' /\ OneStory'
    BY <2>1 DEF OutcomesInv, InOrder, OneStory, Active, JobAt, JobSent, Position, NewestOfApp, NewestOfJob
  <2> QED
    BY <2>2, <2>3 DEF OutcomesInv
<1> QED
  BY <1>1, <1>2, <1>3, <1>4, <1>5, <1>6 DEF OutcomesNext

(* What counts of an application is the row no other one of it follows.    *)
LEMMA NewestRow ==
  ASSUME OutcomesInv, NEW a \in Tracked
  PROVE  \E t \in DOMAIN outcomes :
           outcomes[t].app = a /\ NewestOfApp(t) /\ Newest(a) = outcomes[t].status
<1> DEFINE S == {t \in DOMAIN outcomes : outcomes[t].app = a}
           T == Max(S)
<1>1. S # {}
  BY DEF Tracked
<1>2. Len(began) \in Nat /\ S \subseteq 0 .. Len(began)
  BY DEF OutcomesInv, Shapes, Begun
<1> HIDE DEF S
<1>3. T \in S /\ \A u \in S : u <= T
  BY <1>1, <1>2, GreatestOf
<1>4. Newest(a) = outcomes[T].status
  BY DEF Newest, S
<1> HIDE DEF T
<1>5. T \in DOMAIN outcomes /\ outcomes[T].app = a
  BY <1>3 DEF S
<1>6. \A u \in DOMAIN outcomes : outcomes[u].app = a => u <= T
  BY <1>3 DEF S
<1> QED
  BY <1>4, <1>5, <1>6 DEF NewestOfApp

(* Every status is counted in one place of the funnel.                     *)
LEMMA FunnelAccounts ==
  ASSUME OutcomesInv
  PROVE  /\ Funnel.total = Funnel.interviews + Funnel.rejected + Funnel.withdrawn
         /\ Funnel.hired <= Funnel.offers /\ Funnel.offers <= Funnel.interviews
         /\ Funnel.no_response <= Funnel.rejected
<1> DEFINE Those(statuses) == {a \in Tracked : Newest(a) \in statuses}
           interviews == Those(GotInterview)  offers == Those(GotOffer)  hired == Those({"hired"})
           rejected == Those(NegativeResolutions)  silent == Those({"no_response"})
           withdrawn == Those({"withdrawn"})
<1>1. IsFiniteSet(Tracked)
  <2>1. Tracked \subseteq Applications
    BY DEF Tracked, OutcomesInv, Shapes
  <2> QED
    BY <2>1, OutcomesAssumption, FS_Subset
<1>2. \A a \in Tracked : Newest(a) \in AllStatuses
  BY NewestRow DEF OutcomesInv, Shapes
<1>3. AllStatuses = GotInterview \union NegativeResolutions \union {"withdrawn"}
  BY DEF AllStatuses, ProgressStatuses, ResolutionStatuses, PositiveResolutions, NegativeResolutions,
         NeutralResolutions, GotInterview
<1>4. /\ GotInterview \intersect NegativeResolutions = {} /\ "withdrawn" \notin GotInterview
      /\ "withdrawn" \notin NegativeResolutions
  BY DEF ProgressStatuses, PositiveResolutions, NegativeResolutions, GotInterview
<1>5. "hired" \in GotOffer /\ GotOffer \subseteq GotInterview /\ "no_response" \in NegativeResolutions
  BY DEF GotOffer, GotInterview, ProgressStatuses, PositiveResolutions, NegativeResolutions
<1>6. /\ interviews \subseteq Tracked /\ rejected \subseteq Tracked \ interviews
      /\ withdrawn = (Tracked \ interviews) \ rejected
  BY <1>2, <1>3, <1>4
<1>7. hired \subseteq offers /\ offers \subseteq interviews /\ silent \subseteq rejected
  BY <1>5
<1>8. /\ Funnel.total = Cardinality(Tracked) /\ Funnel.interviews = Cardinality(interviews)
      /\ Funnel.offers = Cardinality(offers) /\ Funnel.hired = Cardinality(hired)
      /\ Funnel.rejected = Cardinality(rejected) /\ Funnel.no_response = Cardinality(silent)
      /\ Funnel.withdrawn = Cardinality(withdrawn)
  BY DEF Funnel, With
<1> HIDE DEF interviews, offers, hired, rejected, silent, withdrawn
<1>9. /\ IsFiniteSet(interviews) /\ IsFiniteSet(Tracked \ interviews)
      /\ Cardinality(interviews) \in Nat /\ Cardinality(Tracked \ interviews) \in Nat
      /\ Cardinality(Tracked) = Cardinality(interviews) + Cardinality(Tracked \ interviews)
  BY <1>1, <1>6, SplitCardinality
<1>10. /\ IsFiniteSet(rejected) /\ Cardinality(rejected) \in Nat /\ Cardinality(withdrawn) \in Nat
       /\ Cardinality(Tracked \ interviews) = Cardinality(rejected) + Cardinality(withdrawn)
  BY <1>6, <1>9, SplitCardinality
<1>11. /\ IsFiniteSet(offers) /\ Cardinality(offers) \in Nat /\ Cardinality(interviews \ offers) \in Nat
       /\ Cardinality(interviews) = Cardinality(offers) + Cardinality(interviews \ offers)
  BY <1>7, <1>9, SplitCardinality
<1>12. /\ Cardinality(hired) \in Nat /\ Cardinality(offers \ hired) \in Nat
       /\ Cardinality(offers) = Cardinality(hired) + Cardinality(offers \ hired)
  BY <1>7, <1>11, SplitCardinality
<1>13. /\ Cardinality(silent) \in Nat /\ Cardinality(rejected \ silent) \in Nat
       /\ Cardinality(rejected) = Cardinality(silent) + Cardinality(rejected \ silent)
  BY <1>7, <1>10, SplitCardinality
<1> QED
  BY <1>8, <1>9, <1>10, <1>11, <1>12, <1>13

(* Table, file and posting agree on every job that no overlapping request, *)
(* failed commit or PATCH disturbed, and the funnel adds up: for any       *)
(* requests, applications and reported statuses.                           *)
THEOREM OutcomesCorrect == OutcomesSpec => []OutcomesAgree
<1>1. OutcomesInv => OutcomesAgree
  <2> SUFFICES ASSUME OutcomesInv PROVE OutcomesAgree
    OBVIOUS
  <2>1. \A i, j \in DOMAIN tracker : tracker[i].job = tracker[j].job => i = j
    BY DEF OutcomesInv, TrackerFits
  <2>2. \A a \in Tracked : \E i \in DOMAIN tracker : tracker[i].job = JobOf[a]
    BY DEF OutcomesInv, TrackerFits, Tracked, JobAt
  <2>3. ASSUME NEW a \in Tracked, JobOf[a] \notin disturbed
        PROVE  /\ postingStatus[a] = JobStatusOf(Newest(a))
               /\ (\A b \in Tracked \ {a} : JobOf[b] # JobOf[a])
                    /\ (\A p \in Posters : Active(p) => JobOf[payload[p].app] # JobOf[a]) =>
                    \A i \in DOMAIN tracker : tracker[i].job = JobOf[a] => tracker[i].status = Newest(a)
    <3>1. PICK t \in DOMAIN outcomes :
             outcomes[t].app = a /\ NewestOfApp(t) /\ Newest(a) = outcomes[t].status
      BY NewestRow
    <3>2. JobAt(t) = JobOf[a]
      BY <3>1 DEF JobAt
    <3>3. postingStatus[a] = JobStatusOf(Newest(a))
      BY <2>3, <3>1, <3>2 DEF OutcomesInv, OneStory
    <3>4. ASSUME \A b \in Tracked \ {a} : JobOf[b] # JobOf[a],
                 \A p \in Posters : Active(p) => JobOf[payload[p].app] # JobOf[a],
                 NEW i \in DOMAIN tracker, tracker[i].job = JobOf[a]
          PROVE  tracker[i].status = Newest(a)
      <4>1. NewestOfJob(t)
        <5> SUFFICES ASSUME NEW u \in DOMAIN outcomes, JobAt(u) = JobAt(t) PROVE u <= t
          BY DEF NewestOfJob
        <5>1. outcomes[u].app = a
          BY <3>2, <3>4 DEF JobAt, Tracked
        <5> QED
          BY <3>1, <5>1 DEF NewestOfApp
      <4>2. \A p \in Posters : poster[p] = "filed" => JobSent(p) # JobAt(t)
        BY <3>2, <3>4 DEF Active, JobSent
      <4> QED
        BY <2>3, <3>1, <3>2, <3>4, <4>1, <4>2 DEF OutcomesInv, OneStory
    <3> QED
      BY <3>3, <3>4
  <2> QED
    BY <2>1, <2>2, <2>3, FunnelAccounts DEF OutcomesAgree
<1> QED
  BY InitialOutcomes, OutcomesStep, <1>1, PTL DEF OutcomesSpec
=============================================================================
