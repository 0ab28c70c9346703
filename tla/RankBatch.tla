----------------------------- MODULE RankBatch -----------------------------
(***************************************************************************)
(* execute_rank (app/services/rank.py): a batch loads postings and their   *)
(* evaluations in one session, scores them without one, and saves all of   *)
(* them in a last one.  Between the sessions other batches, the user and a *)
(* reset change the same rows.                                             *)
(***************************************************************************)
EXTENDS RankScores

CONSTANTS
  Batches,
  ReRanks,     \* the batches that rank everything again
  Offer,       \* [postings -> what their text says]
  Initial,     \* the postings that are there at the start
  Candidate, Target,
  Answers,     \* what the LLM may say of a posting
  TopN,        \* places on the shortlist
  MaxEdits     \* bound: applications, imports and resets by the user

Offers == DOMAIN Offer

(* RankQualitativeOutput refuses scores beyond 0..100.                     *)
ASSUME BatchAssumption ==
  /\ IsFiniteSet(Batches) /\ IsFiniteSet(Offers) /\ Initial \subseteq Offers
  /\ Candidate.skills \subseteq Skills /\ \A j \in Offers : Offer[j].skills \subseteq Skills
  /\ Target # None => IsFiniteSet(Target.keywords)
  /\ \A says \in Answers : says.behavioral \in 0 .. 100 /\ says.career \in 0 .. 100
  /\ TopN \in Nat /\ MaxEdits \in Nat

VARIABLES
  status,     \* job_postings.status: [postings -> status, "absent" or "deleted"]
  rankScore,  \* job_postings.rank_score: [postings -> score, or None]
  evaluation, \* table rank_evaluations: [postings -> sequence of rows]
  batch,      \* [Batches -> "idle", "ranking", "saved", "empty", "lost"]
  loaded,     \* [Batches -> the postings it loaded and still has to rank]
  known,      \* [Batches -> [postings -> evaluations it loaded]]
  results,    \* [Batches -> evaluations by posting]
  report,     \* [Batches -> the RankResult]
  overlapped, \* history: a batch was saved while another one was ranking
  edits

batchVars == <<status, rankScore, evaluation, batch, loaded, known, results, report, overlapped, edits>>

Existing == {j \in Offers : status[j] \notin {"absent", "deleted"}}
Scored == {j \in Existing : rankScore[j] # None}

Extended(f, x, v) == [y \in DOMAIN f \union {x} |-> IF y = x THEN v ELSE f[y]]

-----------------------------------------------------------------------------
(* Phase 1: LOAD                                                           *)

SelectJobs(b) == IF b \in ReRanks THEN Existing
                 ELSE {j \in Existing : status[j] = "new" \/ rankScore[j] = None}

Load(b) ==
  /\ batch[b] = "idle"
  /\ LET jobs == SelectJobs(b) IN
     /\ batch' = [batch EXCEPT ![b] = IF jobs = {} THEN "empty" ELSE "ranking"]
     /\ loaded' = [loaded EXCEPT ![b] = jobs]
     /\ known' = [known EXCEPT ![b] = [j \in Offers |-> Len(evaluation[j])]]
  /\ UNCHANGED <<status, rankScore, evaluation, results, report, overlapped, edits>>

-----------------------------------------------------------------------------
(* Phase 2: RANK                                                           *)

(* An answer with more than five strengths, an empty one or an unknown     *)
(* confidence is refused like a failed call, and the batch goes on.        *)
RankSingleJob(b, j) ==
  /\ batch[b] = "ranking" /\ j \in loaded[b]
  /\ \E says \in Answers :
       results' = [results EXCEPT ![b] =
         Extended(@, j, Evaluate(Candidate, Offer[j], Target, says))]
  /\ loaded' = [loaded EXCEPT ![b] = @ \ {j}]
  /\ UNCHANGED <<status, rankScore, evaluation, batch, known, report, overlapped, edits>>

RankingFails(b, j) ==
  /\ batch[b] = "ranking" /\ j \in loaded[b] /\ ~Vetoed(Offer[j], Target)
  /\ loaded' = [loaded EXCEPT ![b] = @ \ {j}]
  /\ UNCHANGED <<status, rankScore, evaluation, batch, known, results, report, overlapped, edits>>

-----------------------------------------------------------------------------
(* Phase 3: SAVE                                                           *)

(* The shortlist takes the best by score and urgency; a posting in a wrong *)
(* place is left out, the others count by score.                           *)
Better(r, x, y) ==
  \/ r[x].overall > r[y].overall
  \/ r[x].overall = r[y].overall /\ r[x].urgent /\ ~r[y].urgent
Sorted(r) ==
  {order \in [1 .. Cardinality(DOMAIN r) -> DOMAIN r] :
     /\ \A x, y \in DOMAIN order : order[x] = order[y] => x = y
     /\ \A x, y \in DOMAIN order : x < y => ~Better(r, order[y], order[x])}
(* Mutant of Partition: whatever misses the shortlist is lost.             *)
PartitionLosesRest(r, order) ==
  LET fit == {i \in DOMAIN order : r[order[i]].location # "FAIL"}
      short == {i \in fit : Cardinality({k \in fit : k < i}) < TopN}
  IN [ranked    |-> Cardinality(DOMAIN r),
      shortlist |-> {order[i] : i \in short},
      below     |-> Cardinality({i \in fit \ short : r[order[i]].overall < 30}),
      expired   |-> Cardinality(DOMAIN order \ fit)]

Partition(r, order) ==
  LET fit == {i \in DOMAIN order : r[order[i]].location # "FAIL"}
      short == {i \in fit : Cardinality({k \in fit : k < i}) < TopN}
      rest == fit \ short
  IN [ranked    |-> Cardinality(DOMAIN r),
      shortlist |-> {order[i] : i \in short},
      below     |-> Cardinality({i \in rest : r[order[i]].overall < 30}),
      expired   |-> Cardinality({i \in rest : r[order[i]].overall >= 30})
                      + Cardinality(DOMAIN order \ fit)]

(* A loaded evaluation, one of them if there are several, is merged into   *)
(* its row; the others are inserted.                                       *)
Upsert(b, j, row) ==
  IF known[b][j] > 0 THEN [evaluation[j] EXCEPT ![row] = results[b][j].overall]
                     ELSE Append(evaluation[j], results[b][j].overall)

(* A posting that is gone ends the transaction, and nothing is saved.      *)
Save(b) ==
  /\ batch[b] = "ranking" /\ loaded[b] = {} /\ DOMAIN results[b] # {}
  /\ IF DOMAIN results[b] \subseteq Existing
     THEN /\ \E row \in [DOMAIN results[b] -> 1 .. Cardinality(Batches)] :
               /\ \A j \in DOMAIN row : row[j] <= Upper(1, known[b][j])
               /\ evaluation' = [j \in Offers |-> IF j \in DOMAIN row THEN Upsert(b, j, row[j])
                                                 ELSE evaluation[j]]
          /\ status' = [j \in Offers |-> IF j \in DOMAIN results[b] THEN "ranked" ELSE status[j]]
          /\ rankScore' = [j \in Offers |-> IF j \in DOMAIN results[b] THEN results[b][j].overall
                                           ELSE rankScore[j]]
          /\ \E order \in Sorted(results[b]) :
               report' = [report EXCEPT ![b] = Partition(results[b], order)]
          /\ batch' = [batch EXCEPT ![b] = "saved"]
     ELSE /\ batch' = [batch EXCEPT ![b] = "lost"]
          /\ UNCHANGED <<status, rankScore, evaluation, report>>
  /\ overlapped' = (overlapped \/ \E c \in Batches \ {b} : batch[c] = "ranking")
  /\ UNCHANGED <<loaded, known, results, edits>>

AllFailed(b) ==
  /\ batch[b] = "ranking" /\ loaded[b] = {} /\ DOMAIN results[b] = {}
  /\ batch' = [batch EXCEPT ![b] = "empty"]
  /\ UNCHANGED <<status, rankScore, evaluation, loaded, known, results, report, overlapped, edits>>

-----------------------------------------------------------------------------
(* The user meanwhile                                                      *)

Edit == edits < MaxEdits /\ edits' = edits + 1
batches == <<batch, loaded, known, results, report, overlapped>>

ApplyTo(j) ==
  /\ Edit /\ j \in Existing
  /\ status' = [status EXCEPT ![j] = "applied"]
  /\ UNCHANGED <<rankScore, evaluation, batches>>

Import(j) ==
  /\ Edit /\ status[j] = "absent"
  /\ status' = [status EXCEPT ![j] = "new"]
  /\ UNCHANGED <<rankScore, evaluation, batches>>

(* Evaluations go with their postings, by cascade.                         *)
ResetPostings ==
  /\ Edit
  /\ status' = [j \in Offers |-> IF j \in Existing THEN "deleted" ELSE status[j]]
  /\ rankScore' = [j \in Offers |-> None] /\ evaluation' = [j \in Offers |-> <<>>]
  /\ UNCHANGED batches

BatchInit ==
  /\ status = [j \in Offers |-> IF j \in Initial THEN "new" ELSE "absent"]
  /\ rankScore = [j \in Offers |-> None]
  /\ evaluation = [j \in Offers |-> <<>>]
  /\ batch = [b \in Batches |-> "idle"]
  /\ loaded = [b \in Batches |-> {}] /\ known = [b \in Batches |-> [j \in Offers |-> 0]]
  /\ results = [b \in Batches |-> <<>>] /\ report = [b \in Batches |-> None]
  /\ overlapped = FALSE /\ edits = 0

BatchNext ==
  \/ \E b \in Batches : Load(b) \/ Save(b) \/ AllFailed(b)
  \/ \E b \in Batches, j \in Offers : RankSingleJob(b, j) \/ RankingFails(b, j)
  \/ \E j \in Offers : ApplyTo(j) \/ Import(j)
  \/ ResetPostings

BatchSpec == BatchInit /\ [][BatchNext]_batchVars

-----------------------------------------------------------------------------
(* Properties                                                              *)

BatchTypeOK ==
  /\ status \in [Offers -> {"absent", "new", "ranked", "applied", "deleted"}]
  /\ Scored \subseteq Existing
  /\ \A b \in Batches :
       /\ batch[b] \in {"idle", "ranking", "saved", "empty", "lost"}
       /\ loaded[b] \subseteq Offers /\ known[b] \in [Offers -> Nat]
       /\ DOMAIN results[b] \subseteq Offers \ loaded[b]

(* The tables agree whatever happens between the sessions of a batch: a    *)
(* posting has a score only together with an evaluation, the score of its  *)
(* last ranking in 0..100; it has one evaluation at most unless batches    *)
(* overlapped; and the report of a batch accounts for every posting it     *)
(* ranked exactly once, with none in a wrong place on the shortlist.       *)
RankingIsCoherent ==
  /\ \A j \in Scored : rankScore[j] \in 0 .. 100 /\ rankScore[j] \in {evaluation[j][i] : i \in DOMAIN evaluation[j]}
  /\ \A j \in Offers : evaluation[j] # <<>> => j \in Scored
  /\ ~overlapped => \A j \in Offers : Len(evaluation[j]) <= 1
  /\ \A b \in Batches : batch[b] = "saved" =>
       /\ report[b].ranked = Cardinality(report[b].shortlist) + report[b].below + report[b].expired
       /\ \A j \in report[b].shortlist : results[b][j].location # "FAIL"

(* "coverage_ratio: what share of the posting's skills the candidate       *)
(* covers": it is at most 100 percent.                                     *)
CoverageIsAShare == \A j \in Offers : Coverage(Candidate.skills, Offer[j].skills) <= 100
=============================================================================
