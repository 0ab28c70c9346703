----------------------------- MODULE CvWriting -----------------------------
(***************************************************************************)
(* The LLM calls that write CVs and cover letters                          *)
(* (app/services/apply_json.py): every call returns text, which            *)
(* app/services/orchestrator/llm_response_sanitizer.py turns into an       *)
(* object; an unreadable text is asked for once more; the object is        *)
(* validated against its schema (app/schemas/cv.py); a CV is linted        *)
(* (app/services/cv_linter.py) and its issues are sent back once.          *)
(*                                                                         *)
(* A response is a record of what these steps look at; prompts and wording *)
(* are left out.                                                           *)
(***************************************************************************)
EXTENDS Integers, Sequences, FiniteSets

CONSTANTS
  Flows,      \* the functions called, a subset of DOMAIN Steps
  Bodies,     \* the objects the model may answer with
  Profile,    \* what the candidate profile declares
  Within,     \* the pairs of names of which the first is part of the second
  ShortNames  \* names of at most three letters

VARIABLES
  flow,      \* the function that was called
  step,      \* the index of its current call
  attempt,   \* texts asked for in this call
  phase,     \* "calling", "linting", "fixing", "delivered", "absent", "failed"
  output,    \* the object in hand
  calls,     \* completions requested
  fixes      \* directed retries

writingVars == <<flow, step, attempt, phase, output, calls, fixes>>

Steps == [
  generate_cv           |-> <<"cv">>,
  generate_cover_letter |-> <<"letter">>,
  generate_review       |-> <<"review">>,
  generate_revision     |-> <<"cv">>,
  generate_base_cv_llm  |-> <<"cv">>,
  personalize_cv_llm    |-> <<"analysis", "cv">>,
  adapt_cv_llm          |-> <<"analysis", "cv">>,
  adapt_cv_llm_with_url |-> <<"analysis", "cv">>]

TwoStep == {"personalize_cv_llm", "adapt_cv_llm", "adapt_cv_llm_with_url"}
Linted == TwoStep \union {"generate_base_cv_llm"}

(* What every body has for the sanitizer, absent fields by their defaults. *)
Checked == {"complete", "lengths", "proficiency", "date_range", "year"}

ASSUME WritingAssumption ==
  /\ Flows \subseteq DOMAIN Steps
  /\ \A b \in Bodies : Checked \subseteq DOMAIN b /\ b = [f \in DOMAIN b |-> b[f]]

NoBody == [complete |-> FALSE]

-----------------------------------------------------------------------------
(* Sanitizer and schema                                                    *)

(* The length limits of the schema, and those the sanitizer truncates to.  *)
SchemaMax == [
  bullets |-> 8, body_paragraphs |-> 4, core_competencies |-> 15, experience |-> 6,
  projects |-> 6, education |-> 3, certifications |-> 5, publications |-> 10, awards |-> 5,
  references |-> 3]
FieldConstraints == [experience |-> 10, body_paragraphs |-> 4]

Truncated(lengths) ==
  [f \in DOMAIN lengths |->
     IF f \in DOMAIN FieldConstraints /\ lengths[f] > FieldConstraints[f]
     THEN FieldConstraints[f] ELSE lengths[f]]

ProficiencyLevels == {"beginner", "intermediate", "advanced", "expert"}
MapProficiency(word) ==
  CASE word \in {"native", "master"} -> "expert"
    [] word \in {"fluent", "proficient"} -> "advanced"
    [] word \in ProficiencyLevels \union {"null"} -> word
    [] OTHER -> "intermediate"

(* An explicit null for date_range becomes an open range, an array in a    *)
(* field that must be a string is joined.                                  *)
SanitizeValues(body) ==
  [body EXCEPT !.lengths = Truncated(@), !.proficiency = MapProficiency(@),
               !.date_range = "range", !.year = "string"]

FitsLengths(body) == \A f \in DOMAIN body.lengths : body.lengths[f] <= SchemaMax[f]
Validates(body) ==
  /\ body.complete
  /\ body.proficiency \in ProficiencyLevels \union {"null"}
  /\ body.date_range = "range" /\ body.year = "string"
  /\ FitsLengths(body)

-----------------------------------------------------------------------------
(* CVLinter                                                                *)

(* A name is grounded when it equals a declared one, or contains or is     *)
(* part of one and has more than three letters.                            *)
Grounded(name, declared) ==
  \E d \in declared :
    \/ name = d
    \/ name \notin ShortNames /\ (<<name, d>> \in Within \/ <<d, name>> \in Within)

Invented(names, declared) ==
  IF declared = {} THEN {} ELSE {n \in names : ~Grounded(n, declared)}

LintCv(cv) ==
  (IF cv.placeholder THEN {"placeholder"} ELSE {}) \union
  (cv.bullets \intersect {"short", "vague"}) \union
  (IF Invented(cv.companies, Profile.companies) # {} THEN {"company"} ELSE {}) \union
  (IF Invented(cv.skills, Profile.skills) # {} THEN {"skill"} ELSE {}) \union
  (IF Profile.sections \ cv.sections # {} THEN {"section"} ELSE {}) \union
  (IF cv.contact = "other" /\ Profile.contact THEN {"contact"} ELSE {}) \union
  (IF cv.emptyGroup THEN {"group"} ELSE {})

-----------------------------------------------------------------------------
(* _llm_json                                                               *)

Kind == Steps[flow][step]

Fail ==
  /\ phase' = IF phase = "fixing" THEN "delivered"
              ELSE IF flow = "generate_cover_letter" THEN "absent" ELSE "failed"
  /\ UNCHANGED <<step, attempt, output, fixes>>

(* The completion raises, after its own retries.                           *)
CompletionFails ==
  /\ phase \in {"calling", "fixing"} /\ calls' = calls + 1
  /\ Fail /\ UNCHANGED flow

(* No object can be read from the text.                                    *)
Unreadable ==
  /\ phase \in {"calling", "fixing"} /\ calls' = calls + 1
  /\ IF attempt = 1 THEN attempt' = 2 /\ UNCHANGED <<step, phase, output, fixes>>
                    ELSE Fail
  /\ UNCHANGED flow

(* The object is sanitized and validated; _drop_cover_letter applies to    *)
(* the draft of the two-step flows.                                        *)
Dropped(body) == IF flow \in TwoStep THEN [body EXCEPT !.cover_letter = FALSE] ELSE body
Accept(body) ==
  CASE phase = "fixing" ->
         phase' = "delivered" /\ output' = body /\ UNCHANGED <<step, attempt>>
    [] phase = "calling" /\ step < Len(Steps[flow]) ->
         step' = step + 1 /\ attempt' = 1 /\ UNCHANGED <<phase, output>>
    [] phase = "calling" /\ step = Len(Steps[flow]) ->
         /\ phase' = IF flow \in Linted THEN "linting" ELSE "delivered"
         /\ output' = IF Kind = "cv" THEN Dropped(body) ELSE body
         /\ UNCHANGED <<step, attempt>>

Readable ==
  /\ phase \in {"calling", "fixing"} /\ calls' = calls + 1
  /\ \E body \in Bodies :
       LET clean == SanitizeValues(body) IN
       IF Validates(clean) THEN Accept(clean) /\ UNCHANGED fixes ELSE Fail
  /\ UNCHANGED flow

(* Mutant of Lint: issues are not sent back.                               *)
LintOnlyFirstDraft ==
  /\ phase = "linting"
  /\ phase' = "delivered" /\ UNCHANGED <<flow, step, attempt, output, calls, fixes>>

(* _lint_and_directed_retry                                                *)
Lint ==
  /\ phase = "linting"
  /\ IF LintCv(output) = {}
     THEN phase' = "delivered" /\ UNCHANGED <<attempt, fixes>>
     ELSE phase' = "fixing" /\ attempt' = 1 /\ fixes' = fixes + 1
  /\ UNCHANGED <<flow, step, output, calls>>

WritingInit ==
  /\ flow \in Flows /\ step = 1 /\ attempt = 1 /\ phase = "calling"
  /\ output = NoBody /\ calls = 0 /\ fixes = 0

WritingNext == CompletionFails \/ Unreadable \/ Readable \/ Lint

WritingSpec == WritingInit /\ [][WritingNext]_writingVars

WritingOver == phase \in {"delivered", "absent", "failed"}

-----------------------------------------------------------------------------
(* Properties                                                              *)

WritingTypeOK ==
  /\ flow \in Flows /\ step \in DOMAIN Steps[flow] /\ attempt \in 1 .. 2
  /\ phase \in {"calling", "linting", "fixing", "delivered", "absent", "failed"}
  /\ output # NoBody => output \in {SanitizeValues(b) : b \in Bodies} \union
                                   {Dropped(SanitizeValues(b)) : b \in Bodies}
  /\ fixes \in 0 .. 1

(* What is delivered has passed its schema, through retries and fixes      *)
(* alike; a CV of a linted flow with issues was sent back once; nothing    *)
(* costs more than two texts per call and fix; and a response that names   *)
(* all required fields and fits the schema's lengths is never refused.     *)
DeliveredIsChecked ==
  /\ phase = "delivered" =>
       /\ Validates(output)
       /\ flow \in Linted /\ LintCv(output) # {} => fixes = 1
  /\ calls <= 2 * (Len(Steps[flow]) + fixes)
  /\ \A b \in Bodies :
       b.complete /\ FitsLengths([b EXCEPT !.lengths = Truncated(@)])
         => Validates(SanitizeValues(b))

(* "A cover letter is never rendered or persisted from these paths ... this*)
(* is the hard guarantee": no two-step flow delivers a cover letter.       *)
NoLetterDelivered == phase = "delivered" /\ flow \in TwoStep => ~output.cover_letter

(* "These prevent array-length validation failures": an object that names  *)
(* all required fields is accepted.                                        *)
LengthsNeverFail == \A b \in Bodies : b.complete => Validates(SanitizeValues(b))
=============================================================================
