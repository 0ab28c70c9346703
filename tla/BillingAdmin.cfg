SPECIFICATION Spec

CONSTANTS
  Users = {u1, a1}
  Admins = {a1}
  PlanKeys = {free, max}
  FreeTier = free
  AdminPlan = max
  EditablePlans = {}
  PlanVersions <- Versions
  InitialPlans <- MCInitialPlans
  Actions = {rank}
  Ungated = {}
  Cost <- MCCost
  Cycles = {monthly}
  Span <- MCSpan
  YearlySpan = 9
  Yearly = monthly
  Monthly = monthly
  Day = 9
  Week = 1
  Adjustments = {}
  Packs = {}
  TierEdits = {}
  MaxClock = 2
  MaxSubs = 2
  MaxEarned = 0
  Never = Never
  NoPlan = NoPlan
  NoSub = NoSub
  NoAccount = NoAccount
  rank = rank
  verify = verify

INVARIANTS
  TierFollowsSubscription
