SPECIFICATION ServicesSpec

CONSTANTS
  Focuses = {"agents", "writing", "ranking", "checklist", "outcomes", "costs", "desk", "feed", "accounts", "applications", "providers"}
  a1 = a1
  a2 = a2
  a3 = a3
  AgentRequests = {a1, a2, a3}
  Mixes <- MCMixes
  InitialBalance = 3
  Price = 1
  Passes = 2
  MaxRestarts = 1
  Nobody = Nobody
  Unread = Unread
  Flows <- MCFlows
  Bodies <- MCBodies
  Profile <- MCProfile
  Within <- MCWithin
  ShortNames = {}
  b1 = b1
  b2 = b2
  j1 = j1
  j2 = j2
  j3 = j3
  j4 = j4
  Batches = {b1, b2}
  ReRanks = {b2}
  Offer <- MCOffer
  Initial = {j1, j4}
  Candidate <- MCCandidate
  Target <- MCTarget
  Answers <- MCAnswers
  TopN = 1
  MaxEdits = 1
  Skills = {"python", "go", "java", "sql", "nosql"}
  CategoryOf <- MCCategoryOf
  Alike <- MCAlike
  None = None
  Documents <- MCDocuments
  Candidates <- MCCandidates
  Postings <- MCPostings
  Opinions <- MCOpinions
  Fragments = {"ab", "x"}
  NoDocument = NoDocument
  Missing = Missing
  Posters = {p1, p2}
  Applications = {"n1", "n2"}
  JobOf <- MCJobOf
  Keywords <- MCKeywords
  Reported = {"hired", "rejected", "phone_screen_completed", "bogus"}
  MaxPatches = 1
  NoStatus = NoStatus
  d1 = d1
  d2 = d2
  Admins = {d1, d2}
  CostActions = {"rank", "apply"}
  Legacy <- MCLegacy
  Edits <- MCEdits
  MaxPuts = 3
  NoRow = NoRow
  Invalid = Invalid
  Approvers = {d1, d2}
  First = d1
  PlanRank <- MCPlanRank
  Allowance <- MCAllowance
  Packs = {2}
  Thresholds = {1}
  MaxSubs = 2
  MaxTickets = 2
  MaxChanges = 4
  r1 = r1
  r2 = r2
  Requests = {r1, r2}
  Charges = {TRUE, FALSE}
  MaxCrashes = 1
  NoRequest = NoRequest
  Changes = {"x1", "x2"}
  Watchers = {"w1"}
  Nothing = Nothing
  Visitors = {"v1", "v2", "v3"}
  Emails = {"ann", "Ann"}
  FoldedOf <- MCFoldedOf
  Limit = 2
  Window = 2
  Cooldown = 1
  MaxUsers = 2
  MaxClock = 2
  k1 = k1
  k2 = k2
  k3 = k3
  Clients = {k1, k2, k3}
  Puts <- MCPuts
  EnvKeys = {"anthropic", "gemini"}
  EnvProvider = "anthropic"
  NoConfig = NoConfig
  Unset = Unset

INVARIANTS
  ServicesTypeOK
  PaidForAResult
  
  
  RankingIsCoherent
  ClearChecklistMeansAts
  
  CostsFollowVersions
  RequestsAreSettled
  
  SleepersAreCurrent
  LimitsHold
  ConfigurationIsCoherent

PROPERTIES
  AgentRequestsEnd
  StagesAdvance
  

CHECK_DEADLOCK FALSE
