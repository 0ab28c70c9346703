----------------------------- MODULE MCServices -----------------------------
(* One instance of each service that works beside the billing, queue and   *)
(* base CV modules.  They share no state, so every behaviour exercises    *)
(* the one in focus and leaves the others as they start.                   *)
EXTENDS Applications, AgentRuns, CvWriting, RankBatch, Verification, Outcomes, CreditCosts,
        RequestDesk, QueueFeed, Accounts, ProviderConfig, TLC

CONSTANTS Focuses, a1, a2, a3, b1, b2, j1, j2, j3, j4, d1, d2, r1, r2, k1, k2, k3

VARIABLE focus

-----------------------------------------------------------------------------
(* Agents: three requests of one client                                    *)

Mix(x, y, z) == [r \in AgentRequests |-> CASE r = a1 -> x [] r = a2 -> y [] r = a3 -> z]
MCMixes ==
  {Mix("interview", "verify", "mock_answer"), Mix("interview", "upskill", "mock_start"),
   Mix("verify", "upskill", "mock_start"), Mix("expand", "mock_answer", "mock_answer"),
   Mix("mock_start", "mock_answer", "mock_answer")}

(* Writing: responses that differ in what the sanitizer, the schema or the *)
(* linter looks at                                                         *)

Draft ==
  [complete |-> TRUE, proficiency |-> "native", date_range |-> "null", year |-> "array",
   lengths |-> [experience |-> 6, projects |-> 6, bullets |-> 8, body_paragraphs |-> 4],
   cover_letter |-> FALSE, placeholder |-> FALSE, bullets |-> {}, companies |-> {"acme"},
   skills |-> {"python"}, sections |-> {"experience"}, contact |-> "same", emptyGroup |-> FALSE]
MCBodies ==
  {Draft,
   [Draft EXCEPT !.complete = FALSE],
   [Draft EXCEPT !.lengths.experience = 12],
   [Draft EXCEPT !.lengths.body_paragraphs = 5],
   [Draft EXCEPT !.lengths.projects = 7],
   [Draft EXCEPT !.cover_letter = TRUE, !.proficiency = "fluent"],
   [Draft EXCEPT !.placeholder = TRUE, !.date_range = "range", !.year = "string"],
   [Draft EXCEPT !.bullets = {"vague"}, !.cover_letter = TRUE],
   [Draft EXCEPT !.companies = {"globex"}],
   [Draft EXCEPT !.companies = {"acme group"}],
   [Draft EXCEPT !.skills = {"cobol"}, !.proficiency = "other"],
   [Draft EXCEPT !.sections = {}, !.contact = "other"],
   [Draft EXCEPT !.emptyGroup = TRUE]}
MCProfile ==
  [companies |-> {"acme"}, skills |-> {"python"}, sections |-> {"experience"}, contact |-> TRUE]
MCWithin == {<<"acme", "acme group">>}
MCFlows == DOMAIN Steps

(* Ranking: a near posting, a far one, a vetoed one and a remote one       *)

Near ==
  [company |-> "acme", text |-> {"senior"}, title |-> {"engineer"}, place |-> {"copenhagen"},
   skills |-> {"python", "sql"}, years |-> 4, salaryMax |-> None, dates |-> <<None, 3>>,
   field |-> None, danish |-> 0, english |-> 3]
MCOffer ==
  j1 :> Near
  @@ j2 :> [Near EXCEPT !.place = {"london"}, !.skills = {"go"}, !.text = {"urgent", "go"}, !.dates = <<>>]
  @@ j3 :> [Near EXCEPT !.text = {"gambling"}, !.place = {"remote"}, !.company = "globex"]
  @@ j4 :> [Near EXCEPT !.skills = {}, !.place = {"remote"}, !.text = {"junior"}, !.salaryMax = 30]
MCCandidate ==
  [skills |-> {"python", "java", "nosql"}, place |-> {"copenhagen", "denmark"}, constraints |-> {},
   spans |-> <<[start |-> 2015, end |-> 2018], [start |-> 2017, end |-> 2020]>>]
MCTarget ==
  [excludedCompanies |-> {"acme"}, excludedKeywords |-> {"gambling"}, modes |-> {},
   seniority |-> "mid", titles |-> {"engineer"}, keywords |-> {"go"}, salaryMin |-> 40]
MCAnswers ==
  {[behavioral |-> 80, career |-> 90, confidence |-> "high"],
   [behavioral |-> 10, career |-> 5, confidence |-> "low"]}
MCCategoryOf == [s \in Skills |-> IF s \in {"python", "go", "java"} THEN "language" ELSE None]
MCAlike == {<<"sql", "nosql">>}

(* Checklist: one candidate and CVs that each miss something               *)

Ann == [name |-> <<"ann", "lee">>, email |-> "ann@x", phone |-> "555", profile |-> {"nurse"}]
MCCandidates == {Ann, [Ann EXCEPT !.email = Missing], [Ann EXCEPT !.name = <<>>], Missing}
AnnsCv ==
  [first |-> "ann", last |-> "lee", email |-> "ann@x", phone |-> "555", profile |-> {"engineer"},
   body |-> {"python", "sql"}, letter |-> {"acme", "labs"}, dates |-> {"2020-01", "Present"},
   placeholder |-> FALSE, skillGroups |-> FALSE, topics |-> FALSE]
MCDocuments ==
  {NoDocument, AnnsCv,
   [AnnsCv EXCEPT !.last = "li"],
   [AnnsCv EXCEPT !.email = "bob@x"],
   [AnnsCv EXCEPT !.body = {"python"}],
   [AnnsCv EXCEPT !.skillGroups = TRUE, !.body = {}],
   [AnnsCv EXCEPT !.phone = Missing],
   [AnnsCv EXCEPT !.letter = Missing],
   [AnnsCv EXCEPT !.letter = {"acme"}, !.dates = {"2020-01", "2020", "Present"}],
   [AnnsCv EXCEPT !.placeholder = TRUE, !.profile = {}]}
MCPostings ==
  {[title |-> {"senior", "engineer"}, company |-> {"acme", "labs"},
    keywords |-> {"python", "sql", "engineer"}],
   [title |-> {"senior"}, company |-> {"acme", "ab"}, keywords |-> {"python", "go", "sql"}]}
Praise == [fabricated |-> FALSE, specific |-> TRUE, tone |-> TRUE]
MCOpinions == {Missing, Praise, [Praise EXCEPT !.fabricated = TRUE, !.tone = FALSE]}

(* Outcomes: two applications for one posting                              *)

MCJobOf == [a \in Applications |-> "acme engineer"]
MCKeywords == [a \in Applications |-> IF a = "n1" THEN {"go", "sql"} ELSE {"sql"}]

(* Prices: a free and an invalid legacy price                              *)

MCLegacy == [a \in CostActions |-> IF a = "rank" THEN 0 ELSE Invalid]
MCEdits ==
  {"rank" :> 2, "rank" :> 3 @@ "apply" :> 0, "apply" :> Invalid, "bogus" :> 1, "apply" :> 4}

(* Desk: a small and a large plan, a pack larger than the small one        *)

MCPlanRank == "pro" :> 1 @@ "max" :> 2
MCAllowance == "pro" :> 1 @@ "max" :> 2

(* Accounts: two spellings of one address                                  *)

MCFoldedOf == [e \in Emails |-> "ann"]

(* Provider: keys typed, left and cleared over a change of the provider    *)

Body(p, m, k, b) == [provider |-> p, model |-> m, key |-> k, base |-> b]
MCPuts ==
  {Body("openai", Unset, "typed", Unset), Body("gemini", "", "masked", Unset),
   Body("custom", "m", "typed", "url"), Body("lm_studio", "", "", Unset),
   Body("bogus", Unset, Unset, Unset)}

(* What the plan leaves out is what the filter of the code leaves out.      *)
ASSUME WithoutFilters ==
  \A p \in Providers : \A m \in {Catalog[q].model : q \in Providers} \union {"m", "opus", "haiku"} :
    Without(Catalog[p].static, m) = SelectSeq(Catalog[p].static, LAMBDA x : x # m)

-----------------------------------------------------------------------------
servicesVars ==
  <<focus, vars, agentVars, writingVars, batchVars, checklistVars, outcomeVars, costVars, deskVars,
    feedVars, accountVars, providerVars>>

(* A service out of focus starts in one state and stays there.             *)
Still(component, varying, one) == focus # component => varying = one

ServicesInit ==
  /\ focus \in Focuses
  /\ Init
  /\ AgentInit /\ Still("agents", kind, Mix("mock_start", "mock_answer", "mock_answer"))
  /\ WritingInit /\ Still("writing", flow, "generate_cv")
  /\ BatchInit
  /\ ChecklistInit /\ Still("checklist", <<document, candidate, posting>>,
                            <<NoDocument, Missing, CHOOSE p \in Postings : TRUE>>)
  /\ OutcomesInit
  /\ CostInit /\ Still("costs", cost, [a \in CostActions |-> NoRow])
  /\ DeskInit
  /\ FeedInit
  /\ AccountInit
  /\ ProviderInit

Stays(component, varying) == IF focus = component THEN TRUE ELSE UNCHANGED varying
OthersStay ==
  /\ UNCHANGED focus
  /\ Stays("applications", vars) /\ Stays("agents", agentVars) /\ Stays("writing", writingVars)
  /\ Stays("ranking", batchVars) /\ Stays("checklist", checklistVars)
  /\ Stays("outcomes", outcomeVars) /\ Stays("costs", costVars) /\ Stays("desk", deskVars)
  /\ Stays("feed", feedVars) /\ Stays("accounts", accountVars)
  /\ Stays("providers", providerVars)

ServicesNext ==
  \/ focus = "applications" /\ Next /\ OthersStay
  \/ focus = "agents" /\ AgentNext /\ OthersStay
  \/ focus = "writing" /\ WritingNext /\ OthersStay
  \/ focus = "ranking" /\ BatchNext /\ OthersStay
  \/ focus = "checklist" /\ ChecklistNext /\ OthersStay
  \/ focus = "outcomes" /\ OutcomesNext /\ OthersStay
  \/ focus = "costs" /\ CostNext /\ OthersStay
  \/ focus = "desk" /\ DeskNext /\ OthersStay
  \/ focus = "feed" /\ FeedNext /\ OthersStay
  \/ focus = "accounts" /\ AccountNext /\ OthersStay
  \/ focus = "providers" /\ ProviderNext /\ OthersStay

ServicesSpec == ServicesInit /\ [][ServicesNext]_servicesVars /\ Fairness /\ AgentFairness

(* The types of the services.                                              *)
ServicesTypeOK == TypeOK /\ AgentTypeOK /\ WritingTypeOK /\ BatchTypeOK /\ ProviderTypeOK
=============================================================================
