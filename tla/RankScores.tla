----------------------------- MODULE RankScores -----------------------------
(***************************************************************************)
(* The deterministic part of ranking: what rank_extractor.py reads from a  *)
(* posting, the hard rejects, the matching of skills, the scores of        *)
(* rank_analyzer.py and the overall score of rank.py.                      *)
(*                                                                         *)
(* A text is the set of the phrases that the patterns find in it, in lower *)
(* case and by their canonical names.  Scores are integers; the rounding   *)
(* error of binary fractions is left out.                                  *)
(***************************************************************************)
EXTENDS Integers, Sequences, FiniteSets, FiniteSetsExt

CONSTANTS
  Skills,      \* the canonical skills of SKILL_SYNONYMS
  CategoryOf,  \* [Skills -> a key of SKILL_CATEGORIES, or None]
  Alike,       \* pairs of skills, one spelled inside the other, at least half as long
  None

ASSUME RankScoresAssumption ==
  /\ IsFiniteSet(Skills) /\ DOMAIN CategoryOf = Skills /\ Alike \subseteq Skills \X Skills
  /\ None \notin Int

Lower(a, b) == IF a < b THEN a ELSE b
Upper(a, b) == IF a > b THEN a ELSE b
Percent(n) == Upper(0, Lower(100, n))

(* The value of the first rule of a list whose condition holds.            *)
FirstRule(rules) == rules[Min({i \in DOMAIN rules : rules[i].when})].then

-----------------------------------------------------------------------------
(* Layer A: what is read from the text                                     *)

Has(text, phrases) == text \intersect phrases # {}

SeniorityLevels == <<"junior", "mid", "senior", "lead", "manager", "director", "executive">>
LevelOf(seniority) == CHOOSE i \in DOMAIN SeniorityLevels : SeniorityLevels[i] = seniority

DetectSeniority(text) == FirstRule(<<
  [when |-> Has(text, {"chief", "head of"}), then |-> "executive"],
  [when |-> Has(text, {"director"}), then |-> "director"],
  [when |-> Has(text, {"manager"}), then |-> "manager"],
  [when |-> Has(text, {"lead", "principal", "staff"}), then |-> "lead"],
  [when |-> Has(text, {"senior"}), then |-> "senior"],
  [when |-> Has(text, {"mid"}), then |-> "mid"],
  [when |-> Has(text, {"junior", "graduate"}), then |-> "junior"],
  [when |-> TRUE, then |-> None]>>)

(* detect_structured_location: a place without a word about it is onsite.  *)
DetectWorkMode(place) == FirstRule(<<
  [when |-> place = {}, then |-> None],
  [when |-> Has(place, {"remote"}), then |-> "remote"],
  [when |-> Has(place, {"hybrid"}), then |-> "hybrid"],
  [when |-> TRUE, then |-> "onsite"]>>)

(* extract_deadline and the deadline field: the first valid date of the    *)
(* text decides, in days from today; then the words; then the field.       *)
Deadline(dates, text, field) ==
  LET valid == {i \in DOMAIN dates : dates[i] # None}
      found == IF valid = {} THEN None ELSE dates[Min(valid)]
      day == IF found = None THEN field ELSE found
  IN [day |-> day,
      urgent |-> IF day = None THEN Has(text, {"immediate", "urgent", "asap", "within days"})
                               ELSE day <= 7]

DetectLanguage(danish, english) == FirstRule(<<
  [when |-> danish > english /\ danish >= 2, then |-> "da"],
  [when |-> english > danish /\ english >= 2, then |-> "en"],
  [when |-> danish = english /\ danish > 0, then |-> "da"],
  [when |-> TRUE, then |-> None]>>)

(* estimate_candidate_years adds the spans up, also those that overlap.    *)
EstimateYears(spans) == MapThenSumSet(LAMBDA i : spans[i].end - spans[i].start, DOMAIN spans)

-----------------------------------------------------------------------------
(* Layer B: check_hard_rejects                                             *)

(* A posting that has a company is vetoed for it, but ranking hands over   *)
(* the posting without its company.                                        *)
HardReject(offer, target) ==
  /\ target # None
  /\ \/ offer.company # None /\ offer.company \in target.excludedCompanies
     \/ Has(offer.text, target.excludedKeywords)
     \/ LET mode == DetectWorkMode(offer.place) IN
        target.modes # {} /\ mode # None /\ mode \notin target.modes
     \/ LET seniority == DetectSeniority(offer.text) IN
        /\ target.seniority # None /\ seniority # None
        /\ LevelOf(target.seniority) - LevelOf(seniority) \notin -2 .. 2

-----------------------------------------------------------------------------
(* Layer C: match_skills_controlled                                        *)

ExactMatches(own, wanted) == own \intersect wanted

(* One pair for every candidate skill and job skill of one category.       *)
CategoryMatches(own, wanted) ==
  {pair \in (own \ wanted) \X (wanted \ own) :
     CategoryOf[pair[1]] = CategoryOf[pair[2]] /\ CategoryOf[pair[1]] # None}

SemanticSignals(own, wanted) ==
  {w \in wanted \ own : \E s \in own \ wanted : <<s, w>> \in Alike \/ <<w, s>> \in Alike}

UnmatchedSkills(own, wanted) ==
  (wanted \ own) \ ({pair[2] : pair \in CategoryMatches(own, wanted)}
                     \union SemanticSignals(own, wanted))

(* coverage_ratio, in percent                                              *)
Coverage(own, wanted) ==
  IF wanted = {} THEN 100
  ELSE (100 * (Cardinality(ExactMatches(own, wanted)) + Cardinality(CategoryMatches(own, wanted))))
         \div Cardinality(wanted)

-----------------------------------------------------------------------------
(* Layer D: the scores of compute_quantitative_scores                      *)

DomainMismatch(own, wanted) == wanted = {} /\ own # {}
TitleWanted(offer, target) == target # None /\ Has(offer.title, target.titles)

TechnicalScore(own, offer, target) ==
  LET raw == IF DomainMismatch(own, offer.skills) THEN 20 ELSE Coverage(own, offer.skills)
      titled == IF TitleWanted(offer, target) THEN Lower(100, raw + 8) ELSE raw
      hits == IF target = None THEN 0 ELSE Cardinality(target.keywords \intersect offer.text)
  IN Percent(IF hits = 0 THEN titled ELSE Lower(100, titled + Lower(3 * hits, 15)))

(* Years against the years required, in steps of a quarter.                *)
ExperienceBand(years, required) ==
  IF required = None \/ required = 0 \/ years = 0 THEN 50
  ELSE IF 2 * years >= 3 * required THEN 100
  ELSE IF years >= required THEN 85
  ELSE IF 4 * years >= 3 * required THEN 65
  ELSE IF 2 * years >= required THEN 45
  ELSE IF 4 * years >= required THEN 25 ELSE 10

SeniorityShift(seniority, target) ==
  IF target = None \/ seniority = None THEN 0
  ELSE IF target.seniority = None THEN 0
  ELSE LET gap == LevelOf(target.seniority) - LevelOf(seniority) IN
       IF gap = 0 THEN 10 ELSE IF gap \in -1 .. 1 THEN -5 ELSE IF gap \in -2 .. 2 THEN -15 ELSE 0

ExperienceScore(own, years, offer, target) ==
  LET band == ExperienceBand(years, offer.years)
      base == IF DomainMismatch(own, offer.skills) THEN Lower(band, 20) ELSE band
  IN Percent(base + SeniorityShift(DetectSeniority(offer.text), target))

(* analyze_location: what the candidate's place and constraints and the    *)
(* posting's place say about each other.                                   *)
Cities == {"copenhagen", "aarhus"}
Remote == {"remote", "hybrid"}
AnalyzeLocation(home, place, constraints) == FirstRule(<<
  [when |-> home = {}, then |-> "FLAG"],
  [when |-> Has(place, Remote), then |-> "PASS"],
  [when |-> Has(constraints, Remote) /\ Has(place, {"onsite"}), then |-> "FAIL"],
  [when |-> Has(constraints, Remote) \/ place = {}, then |-> "FLAG"],
  [when |-> Has(home, Cities \intersect place), then |-> "PASS"],
  [when |-> "denmark" \in home \intersect place, then |-> "FLAG"],
  [when |-> Has(constraints, {"no relocation"}), then |-> "FAIL"],
  [when |-> Has(constraints, {"relocation"}) \/ Has(place, {"relocation"}), then |-> "FLAG"],
  [when |-> TRUE, then |-> "FAIL"]>>)

ConstraintsScore(own, location, offer, target) ==
  LET base == IF location = "FAIL" THEN 10 ELSE IF location = "FLAG" THEN 40
              ELSE IF DetectWorkMode(offer.place) = "remote" THEN 90 ELSE 70
      underpaid == IF target = None \/ offer.salaryMax = None THEN FALSE
                   ELSE target.salaryMin # None /\ offer.salaryMax < target.salaryMin
      paid == IF underpaid THEN Upper(0, base - 20) ELSE base
  IN IF DomainMismatch(own, offer.skills) THEN Lower(paid, 30) ELSE paid

-----------------------------------------------------------------------------
(* rank.py: the overall score, rounded to the even neighbour, and verdict  *)

RoundHundredths(n) ==
  LET down == n \div 100  rest == n % 100 IN
  IF rest > 50 \/ (rest = 50 /\ down % 2 = 1) THEN down + 1 ELSE down

OverallScore(technical, experience, behavioral, career) ==
  RoundHundredths(30 * technical + 25 * experience + 15 * behavioral + 30 * career)

Verdict(score) ==
  IF score >= 75 THEN "Strong Fit" ELSE IF score >= 60 THEN "Good Fit"
  ELSE IF score >= 45 THEN "Moderate Fit" ELSE IF score >= 30 THEN "Weak Fit" ELSE "Poor Fit"

(* _rank_single_job: what the LLM says about behaviour and career counts   *)
(* for 70 percent when it is not confident.                                *)
Penalized(score, confidence) == IF confidence = "low" THEN (70 * score) \div 100 ELSE score

JobDict(offer) == [offer EXCEPT !.company = None]

(* The evaluation of a posting; says is the answer of the LLM, which a     *)
(* vetoed posting does not need.                                           *)
Vetoed(offer, target) == HardReject(JobDict(offer), target)
Evaluate(candidate, offer, target, says) ==
  LET own == candidate.skills
      veto == Vetoed(offer, target)
      location == AnalyzeLocation(candidate.place, offer.place, candidate.constraints)
      technical == TechnicalScore(own, offer, target)
      experience == ExperienceScore(own, EstimateYears(candidate.spans), offer, target)
      overall == OverallScore(technical, experience, Penalized(says.behavioral, says.confidence),
                              Penalized(says.career, says.confidence))
  IN [technical   |-> IF veto THEN 0 ELSE technical,
      experience  |-> IF veto THEN 0 ELSE experience,
      constraints |-> IF veto THEN None ELSE ConstraintsScore(own, location, offer, target),
      overall     |-> IF veto THEN 0 ELSE overall,
      verdict     |-> IF veto THEN "Poor Fit" ELSE Verdict(overall),
      location    |-> IF veto THEN "excluded" ELSE location,
      missing     |-> IF veto THEN offer.skills \ own ELSE UnmatchedSkills(own, offer.skills),
      urgent      |-> Deadline(offer.dates, offer.text, offer.field).urgent,
      language    |-> DetectLanguage(offer.danish, offer.english)]
=============================================================================
