---------------------------- MODULE Verification ----------------------------
(***************************************************************************)
(* The checklist that POST /apply/{id}/verify runs over a generated CV     *)
(* (app/services/verification.py) and the ATS check it calls               *)
(* (app/services/ats_check.py).                                            *)
(*                                                                         *)
(* A text is the set of its lower case words; a date is the way it is      *)
(* written.  Messages and suggestions are left out.                        *)
(***************************************************************************)
EXTENDS Integers, Sequences, FiniteSets

CONSTANTS
  Documents,   \* application.cv_json: records, NoDocument for none
  Candidates,  \* profiles: [name, email, phone, profile], or Missing
  Postings,    \* [title, company, keywords], sets of words; a company that is
               \* "Not specified" or "Unknown" is the empty set
  Opinions,    \* what the LLM says: [fabricated, specific, tone], or Missing
  Fragments,   \* words of at most two letters
  NoDocument, Missing

ASSUME ChecklistAssumption == \A job \in Postings : IsFiniteSet(job.keywords)

VARIABLES
  document, candidate, posting,  \* what is verified
  verdict                        \* the checklist: [checks, ats], or Missing

checklistVars == <<document, candidate, posting, verdict>>

-----------------------------------------------------------------------------
(* ATS check on the structured CV                                          *)

(* The parts of the text are joined, which fails when one is not a string: *)
(* a skill is an object, the topics of an education entry are a list.      *)
Joinable(cv) == ~cv.skillGroups /\ ~cv.topics

Header(cv) == {cv.first, cv.last, cv.email, cv.phone} \ {Missing}
Letter(cv) == IF cv.letter = Missing THEN {} ELSE cv.letter
AtsText(cv) == Header(cv) \union cv.profile \union cv.body \union Letter(cv)

(* Whole percents, as the ratio is rounded to two digits.                  *)
RoundedShare(part, all) ==
  IF all = {} THEN 100
  ELSE (200 * Cardinality(part) + Cardinality(all)) \div (2 * Cardinality(all))

CheckAtsFromJson(cv, who, job) ==
  LET text == AtsText(cv)
      found == job.keywords \intersect text
      email == IF who = Missing THEN cv.email # Missing
               ELSE IF who.email = Missing THEN cv.email # Missing ELSE who.email \in text
      phone == IF who = Missing THEN cv.phone # Missing
               ELSE IF who.phone = Missing THEN cv.phone # Missing ELSE who.phone \in text
      name == who # Missing /\ who.name # <<>> /\ who.name = <<cv.first, cv.last>>
  IN [email    |-> email,
      phone    |-> phone,
      name     |-> name,
      coverage |-> RoundedShare(found, job.keywords),
      pass     |-> /\ 10 * Cardinality(found) >= 7 * Cardinality(job.keywords)
                   /\ email /\ name]

(* The exception of a text that cannot be joined is swallowed.             *)
AtsResult(cv, who, job) ==
  IF cv = NoDocument \/ ~Joinable(cv) THEN Missing ELSE CheckAtsFromJson(cv, who, job)

-----------------------------------------------------------------------------
(* Content checks                                                          *)

(* The full name, or a first name of more than one letter.                 *)
NameInCv(cv, who) ==
  /\ cv # NoDocument /\ who # Missing /\ who.name # <<>>
  /\ \/ who.name = <<cv.first, cv.last>>
     \/ who.name[1] = cv.first /\ cv.first \notin Fragments

EmailInCv(cv, who) ==
  /\ cv # NoDocument /\ cv.email # Missing
  /\ who # Missing => who.email \in {Missing, cv.email}

(* A word of the title other than filler is in the statement of the CV or  *)
(* of the profile; a posting without a title passes.                       *)
Filler == {"a", "of", "for", "junior", "senior", "lead", "principal", "staff"}
RoleInProfile(cv, who, job) ==
  job.title = {} \/
  \E word \in job.title \ Filler :
    \/ cv # NoDocument /\ word \in cv.profile
    \/ who # Missing /\ word \in who.profile

(* One significant word of the company at least, and all but one.          *)
CompanyInCover(cv, job) ==
  LET letter == IF cv = NoDocument THEN {} ELSE Letter(cv)
      significant == job.company \ Fragments
      found == significant \intersect letter
  IN \/ job.company \subseteq letter
     \/ found # {} /\ Cardinality(found) >= Cardinality(significant) - 1

(* A year range with a hyphen belongs to no family; dates of no family do  *)
(* not count, but a CV without dates fails.                                *)
Families == {"2020--2024", "2020-01", "01/2020", "Jan 2020", "2020", "Present"}
DateFormat(cv) ==
  /\ cv # NoDocument /\ cv.dates # {}
  /\ Cardinality(cv.dates \intersect Families) <= 2

NoPlaceholders(cv) == cv # NoDocument /\ ~cv.placeholder

-----------------------------------------------------------------------------
(* run_verification_checklist                                              *)

(* The checks on an ATS result pass when there is none.                    *)
AtsContact(ats) == ats # Missing => ats.email /\ ats.phone
(* Mutant of KeywordCoverage: sixty percent are enough.                    *)
CoverageFromSixty(ats) == ats # Missing => ats.coverage >= 60

KeywordCoverage(ats) == ats # Missing => ats.coverage >= 70

(* An LLM call that fails passes its checks.                               *)
Checklist(cv, who, job, says) ==
  LET ats == AtsResult(cv, who, job) IN
  [name_in_cv               |-> NameInCv(cv, who),
   email_in_cv              |-> EmailInCv(cv, who),
   role_in_profile          |-> RoleInProfile(cv, who, job),
   company_in_cover         |-> CompanyInCover(cv, job),
   date_format              |-> DateFormat(cv),
   no_placeholders          |-> NoPlaceholders(cv),
   no_cid_markers           |-> TRUE,
   ats_contact_parsable     |-> AtsContact(ats),
   keyword_coverage         |-> KeywordCoverage(ats),
   fabricated_claims_free   |-> says # Missing => ~says.fabricated,
   profile_specific_to_role |-> says # Missing => says.specific,
   tone_consistency         |-> says # Missing => says.tone]

Failures(checks) == {name \in DOMAIN checks : ~checks[name]}

RunChecklist ==
  /\ verdict = Missing
  /\ \E says \in Opinions :
       verdict' = [checks |-> Checklist(document, candidate, posting, says),
                   ats    |-> AtsResult(document, candidate, posting)]
  /\ UNCHANGED <<document, candidate, posting>>

(* The CV, the profile and the posting may be edited before the next run.  *)
Revise ==
  /\ verdict # Missing /\ verdict' = Missing
  /\ \/ document' \in Documents /\ UNCHANGED <<candidate, posting>>
     \/ candidate' \in Candidates /\ UNCHANGED <<document, posting>>

ChecklistInit ==
  /\ document \in Documents /\ candidate \in Candidates /\ posting \in Postings
  /\ verdict = Missing

ChecklistNext == RunChecklist \/ Revise

ChecklistSpec == ChecklistInit /\ [][ChecklistNext]_checklistVars

-----------------------------------------------------------------------------
(* Properties                                                              *)

(* Two implementations judge one CV, the checklist and the ATS check with  *)
(* their own rules for names, addresses and coverage.  A CV without any    *)
(* failure that an ATS could read passes the ATS check, up to a first name *)
(* that stands for the full one and a ratio that rounding lifted to 70     *)
(* percent; in any case it names the candidate and carries the address of  *)
(* the profile.                                                            *)
ClearChecklistMeansAts ==
  verdict # Missing /\ Failures(verdict.checks) = {} =>
    /\ candidate # Missing /\ document.first = candidate.name[1]
    /\ candidate.email \in {Missing, document.email}
    /\ verdict.ats # Missing =>
         \/ verdict.ats.pass
         \/ candidate.name # <<document.first, document.last>>
         \/ 1000 * Cardinality(posting.keywords \intersect AtsText(document))
              \in 695 * Cardinality(posting.keywords) .. 700 * Cardinality(posting.keywords)

(* "Check 10: Job posting keyword coverage >= 70%": a CV passes it only    *)
(* with that share of the keywords.                                        *)
CoverageIsChecked ==
  verdict # Missing /\ document # NoDocument =>
    (verdict.checks.keyword_coverage =>
       RoundedShare(posting.keywords \intersect AtsText(document), posting.keywords) >= 70)
=============================================================================
