------------------------------ MODULE Outcomes ------------------------------
(***************************************************************************)
(* What becomes of applications: POST /outcome and PATCH /outcome/{id}     *)
(* (app/services/outcome.py) and the calibration report computed from the  *)
(* outcomes (app/services/fit_calibration.py).                             *)
(*                                                                         *)
(* One outcome is recorded in the table, in a CSV file kept beside it and  *)
(* on the posting.  The file is written before the commit; the code from   *)
(* reading to writing it awaits nothing and is one step.                   *)
(***************************************************************************)
EXTENDS Integers, Sequences, FiniteSets, FiniteSetsExt

CONSTANTS
  Posters,        \* requests that record an outcome
  Applications,
  JobOf,          \* [Applications -> the company and role of its posting]
  Keywords,       \* [Applications -> the words of its posting's description]
  Reported,       \* statuses the clients send
  MaxPatches,     \* bound: PATCH requests
  NoStatus

ASSUME OutcomesAssumption == IsFiniteSet(Applications) /\ MaxPatches \in Nat

VARIABLES
  outcomes,    \* table outcomes: [created_at -> [app, status, resolved]]
  tracker,     \* job_search_tracker.csv: sequence of [job, status]
  postingStatus,   \* job_postings.status: [Applications -> status]
  poster,      \* [Posters -> "new", "flushed", "filed", "recorded", "rejected", "aborted"]
  payload,     \* [Posters -> [app, status], or NoStatus]
  began,       \* the requests in the order their transactions began
  patches,
  disturbed    \* history: applications of overlapping or failed requests

outcomeVars == <<outcomes, tracker, postingStatus, poster, payload, began, patches, disturbed>>

ProgressStatuses ==
  {"interview_invited", "phone_screen_completed", "technical_completed", "case_completed",
   "final_round_completed", "offer_received"}
PositiveResolutions == {"hired", "offer_declined"}
NegativeResolutions == {"rejected", "no_response"}
NeutralResolutions == {"interview_only", "withdrawn"}
ResolutionStatuses == PositiveResolutions \union NegativeResolutions \union NeutralResolutions
AllStatuses == ProgressStatuses \union ResolutionStatuses

(* _map_outcome_to_job_status                                              *)
JobStatusOf(status) ==
  IF status = "offer_received" THEN "offer"
  ELSE IF status \in ProgressStatuses THEN "interview" ELSE status

-----------------------------------------------------------------------------
(* execute_outcome                                                         *)

Active(p) == poster[p] \in {"flushed", "filed"}
Overlapping(p) == {q \in Posters \ {p} : Active(q) /\ JobOf[payload[q].app] = JobOf[payload[p].app]}

(* The status is validated, the application found, the row flushed.        *)
FlushOutcome(p) ==
  /\ poster[p] = "new"
  /\ \E app \in Applications, status \in Reported :
       /\ payload' = [payload EXCEPT ![p] = [app |-> app, status |-> status]]
       /\ poster' = [poster EXCEPT ![p] = IF status \in AllStatuses THEN "flushed" ELSE "rejected"]
  /\ began' = Append(began, p)
  /\ UNCHANGED <<outcomes, tracker, postingStatus, patches, disturbed>>

(* The row of the same company and role is replaced, whoever's it is.      *)
Rewritten(rows, row) ==
  LET same == {i \in DOMAIN rows : rows[i].job = row.job} IN
  IF same = {} THEN Append(rows, row) ELSE [rows EXCEPT ![Min(same)] = row]
UpdateTracker(p) ==
  /\ poster[p] = "flushed"
  /\ tracker' = Rewritten(tracker, [job |-> JobOf[payload[p].app], status |-> payload[p].status])
  /\ poster' = [poster EXCEPT ![p] = "filed"]
  /\ disturbed' = disturbed \union {JobOf[payload[q].app] : q \in Overlapping(p)}
  /\ UNCHANGED <<outcomes, postingStatus, payload, began, patches>>

(* created_at is the time the transaction began.                           *)
Position(p) == CHOOSE i \in DOMAIN began : began[i] = p
Inserted(time, row) ==
  [t \in DOMAIN outcomes \union {time} |-> IF t = time THEN row ELSE outcomes[t]]

CommitOutcome(p) ==
  /\ poster[p] = "filed"
  /\ LET sent == payload[p] IN
     /\ outcomes' = Inserted(Position(p),
          [app |-> sent.app, status |-> sent.status, resolved |-> sent.status \in ResolutionStatuses])
     /\ postingStatus' = [postingStatus EXCEPT ![sent.app] = JobStatusOf(sent.status)]
  /\ poster' = [poster EXCEPT ![p] = "recorded"]
  /\ UNCHANGED <<tracker, payload, began, patches, disturbed>>

(* The commit fails or the process stops: the file has the status already. *)
CommitFails(p) ==
  /\ Active(p)
  /\ disturbed' = IF poster[p] = "filed" THEN disturbed \union {JobOf[payload[p].app]} ELSE disturbed
  /\ poster' = [poster EXCEPT ![p] = "aborted"]
  /\ UNCHANGED <<outcomes, tracker, postingStatus, payload, began, patches>>

(* update_outcome changes the row and neither file nor posting; a date of  *)
(* resolution stays when the outcome is open again.                        *)
PatchOutcome ==
  /\ patches < MaxPatches /\ patches' = patches + 1
  /\ \E i \in DOMAIN outcomes, status \in Reported \intersect AllStatuses :
       /\ outcomes' = [outcomes EXCEPT ![i].status = status,
                                       ![i].resolved = @ \/ status \in ResolutionStatuses]
       /\ disturbed' = disturbed \union {JobOf[outcomes[i].app]}
  /\ UNCHANGED <<tracker, postingStatus, poster, payload, began>>

OutcomesInit ==
  /\ outcomes = <<>> /\ tracker = <<>>
  /\ postingStatus = [a \in Applications |-> "applied"]
  /\ poster = [p \in Posters |-> "new"] /\ payload = [p \in Posters |-> NoStatus]
  /\ began = <<>> /\ patches = 0 /\ disturbed = {}

OutcomesNext ==
  \/ \E p \in Posters : FlushOutcome(p) \/ UpdateTracker(p) \/ CommitOutcome(p) \/ CommitFails(p)
  \/ PatchOutcome

OutcomesSpec == OutcomesInit /\ [][OutcomesNext]_outcomeVars

-----------------------------------------------------------------------------
(* Calibration                                                             *)

(* The newest outcome of every application counts.                         *)
Newest(a) == outcomes[Max({t \in DOMAIN outcomes : outcomes[t].app = a})].status
Tracked == {outcomes[i].app : i \in DOMAIN outcomes}
With(statuses) == Cardinality({a \in Tracked : Newest(a) \in statuses})

(* Mutant of GotInterview: resolutions do not count.                       *)
GotInterviewByInvitation == ProgressStatuses \union {"interview_only"}

GotInterview == ProgressStatuses \union PositiveResolutions \union {"interview_only"}
GotOffer == {"offer_received", "hired", "offer_declined"}

Funnel == [
  total |-> Cardinality(Tracked), interviews |-> With(GotInterview), offers |-> With(GotOffer),
  hired |-> With({"hired"}), rejected |-> With(NegativeResolutions),
  no_response |-> With({"no_response"}), withdrawn |-> With({"withdrawn"}),
  in_progress |-> With(ProgressStatuses \ {"offer_received"})]

(* Every outcome is a data point of its posting's keywords.                *)
PresentIn(word) == {i \in DOMAIN outcomes : word \in Keywords[outcomes[i].app]}
Analyzed == {word \in UNION {Keywords[a] : a \in Tracked} : Cardinality(PresentIn(word)) >= 2}
Rate(word, statuses) ==
  LET all == PresentIn(word) IN
  (1000 * Cardinality({i \in all : outcomes[i].status \in statuses})) \div Cardinality(all)
Correlation(word) ==
  IF Rate(word, GotInterview) > 500 /\ Rate(word, {"hired"}) > 200 THEN "positive"
  ELSE IF Rate(word, GotInterview) < 200 /\ Rate(word, {"hired"}) < 50 THEN "negative"
  ELSE "neutral"

(* _generate_insights, by category                                         *)
Share(part, all) == IF all = 0 THEN 0 ELSE (100 * part) \div all
Insights == {topic \in {"more data", "low interviews", "strong interviews", "low offers", "success",
                        "keywords", "company", "progress"} :
  CASE topic = "more data"         -> Funnel.total < 5
    [] topic = "low interviews"    -> Funnel.total >= 5 /\ Share(Funnel.interviews, Funnel.total) < 20
    [] topic = "strong interviews" -> Funnel.total >= 5 /\ Share(Funnel.interviews, Funnel.total) >= 40
    [] topic = "low offers"        -> /\ Funnel.total >= 5 /\ Funnel.interviews >= 3
                                      /\ Share(Funnel.offers, Funnel.interviews) < 25
    [] topic = "success"           -> Funnel.total >= 5 /\ Share(Funnel.hired, Funnel.total) >= 20
    [] topic = "keywords"          -> \E w \in Analyzed : Correlation(w) # "negative"
    [] topic = "company"           -> \E i, j \in DOMAIN outcomes :
                                        i # j /\ JobOf[outcomes[i].app] = JobOf[outcomes[j].app]
    [] topic = "progress"          -> Funnel.in_progress > 0}

-----------------------------------------------------------------------------
(* Properties                                                              *)

(* Table, file and posting tell one story: the file has at most one row of *)
(* every company and role and one for every recorded outcome; where no     *)
(* requests overlapped, failed in the middle or patched, its status is the *)
(* one of the newest outcome, and so is that of the posting.  The funnel   *)
(* counts every application once and narrows from stage to stage.          *)
OutcomesAgree ==
  /\ \A i, j \in DOMAIN tracker : tracker[i].job = tracker[j].job => i = j
  /\ \A a \in Tracked : \E i \in DOMAIN tracker : tracker[i].job = JobOf[a]
  /\ \A a \in Tracked :
       JobOf[a] \notin disturbed /\ (\A p \in Posters : Active(p) => payload[p].app # a) =>
         /\ postingStatus[a] = JobStatusOf(Newest(a))
         /\ (\A b \in Tracked \ {a} : JobOf[b] # JobOf[a])
              /\ (\A p \in Posters : Active(p) => JobOf[payload[p].app] # JobOf[a]) =>
              \A i \in DOMAIN tracker : tracker[i].job = JobOf[a] => tracker[i].status = Newest(a)
  /\ Funnel.total = Funnel.interviews + Funnel.rejected + Funnel.withdrawn
  /\ Funnel.hired <= Funnel.offers /\ Funnel.offers <= Funnel.interviews
  /\ Funnel.no_response <= Funnel.rejected

(* "if total < 2:  # Skip keywords that appear in only 1 job": a keyword   *)
(* that is analyzed was in the postings of two applications.               *)
KeywordsNeedTwoJobs ==
  \A word \in Analyzed : Cardinality({outcomes[i].app : i \in PresentIn(word)}) >= 2
=============================================================================
