SPECIFICATION Spec

CONSTANTS
  Users = {u1}
  Admins = {}
  PlanKeys = {free, max}
  FreeTier = free
  AdminPlan = max
  EditablePlans = {max}
  PlanVersions <- Versions
  InitialPlans <- MCQuotaPlans
  Actions = {rank, verify}
  Ungated = {verify}
  Cost <- VerifyIsFree
  Cycles = {yearly}
  Span <- MCSpan
  YearlySpan = 2
  Yearly = yearly
  Monthly = yearly
  Day = 2
  Week = 3
  Adjustments = {}
  Packs = {}
  TierEdits = {max}
  MaxClock = 3
  MaxSubs = 2
  MaxEarned = 2
  Never = Never
  NoPlan = NoPlan
  NoSub = NoSub
  NoAccount = NoAccount
  rank = rank
  verify = verify

INVARIANTS
  RefillsAreBounded
  QuotaWindowsNest
