SPECIFICATION Spec

CONSTANTS
  Users = {u1}
  Admins = {}
  PlanKeys = {free, max}
  FreeTier = free
  AdminPlan = max
  EditablePlans = {}
  PlanVersions <- Versions
  InitialPlans <- MCInitialPlans
  Actions = {rank}
  Ungated = {}
  Cost <- MCCost
  Cycles = {monthly}
  Span <- MCSpan
  YearlySpan = 9
  Yearly = monthly
  Monthly = monthly
  Day = 9
  Week = 1
  Adjustments <- Removal
  Packs = {1}
  TierEdits = {}
  MaxClock = 2
  MaxSubs = 2
  MaxEarned = 2
  Never = Never
  NoPlan = NoPlan
  NoSub = NoSub
  NoAccount = NoAccount
  rank = rank
  verify = verify

INVARIANTS
  TypeOK
  OneActiveSubscription

PROPERTIES
  CancelledIsNeverRenewed
  ImplementsLedger
