SPECIFICATION QueueSpec

CONSTANTS
  u1 = u1
  u2 = u2
  c1 = c1
  c2 = c2
  Users = {u1}
  Calls = {c1, c2}
  Owner <- OneUser
  Pipeline <- TwoPipelines
  Tiers = 2
  MaxRetries = 3
  MaxConcurrency = 1
  Failures <- AllFailures
  Controls = {"status", "pause", "resume", "cancel", "cancel_all", "retry", "retry_all"}
  MaxRequests = 2
  MaxCrashes = 1
  NoJob = NoJob
  NoQueue = NoQueue
  NoTx = NoTx
  NoRequest = NoRequest
  LockSessions = {s1, s2, s3}
  JobCount = 2
  NoRow = NoRow

INVARIANTS
  QueueTypeOK
  
  
  

PROPERTY
  CallsMoveOn
