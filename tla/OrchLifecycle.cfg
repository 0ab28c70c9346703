SPECIFICATION FairSpec

CONSTANTS
  u1 = u1
  u2 = u2
  c1 = c1
  c2 = c2
  Users = {u1}
  Calls = {c1, c2}
  Owner <- OneUser
  Pipeline <- OnePipeline
  Tiers = 3
  MaxRetries = 2
  MaxConcurrency = 1
  Failures <- OneUnlimited
  Controls = {"status", "pause", "resume", "retry", "retry_all"}
  MaxRequests = 2
  MaxCrashes = 1
  NoJob = NoJob
  NoQueue = NoQueue
  NoTx = NoTx
  NoRequest = NoRequest

PROPERTIES
  
  CallsEnd

INVARIANTS
  FailoverIsExhaustive
