\* Liveness: who is parked is released.
CONSTANTS
  s1 = s1
  c1 = c1
  c2 = c2
  a1 = a1
  a2 = a2
  Services = {s1}
  Conns = {c1}
  Admins = {a1}
  Configs <- OnlyTight
  InitConfig <- Closing
  ResetValues = {0}
  MaxChunk = 1
  MaxGen = 2
  MaxTime = 1
  MaxUsed = 1
  MaxOps = 1
  MaxRestarts = 1
  MaxFailures = 0
SPECIFICATION FairSpec
PROPERTY ParkedReturns
CHECK_DEADLOCK FALSE
