SPECIFICATION FairSpec

CONSTANTS
  r1 = r1
  r2 = r2
  u1 = u1
  u2 = u2
  p1 = p1
  p2 = p2
  k1 = k1
  Requests = {r1, r2}
  Users = {u1, u2}
  Postings = {p1, p2}
  Owners <- OneOrTwoUsers
  Key <- RetryKey
  Chosen <- RetryChosen
  Payers = {u2}
  RateLimit = 1
  PoolSizes = {2, 4}
  MaxControls = 2
  MaxCrashes = 1
  NoKey = NoKey
  NoRequest = NoRequest

INVARIANTS
  TypeOK
  OneRunAtATime
  
  ChargedIsAnswered

PROPERTY
  RequestsEnd
