\* API requests against an exhausted quota.
CONSTANTS
  s1 = s1
  c1 = c1
  c2 = c2
  a1 = a1
  a2 = a2
  Services = {s1}
  Conns = {c1}
  Admins = {a1, a2}
  Configs <- OnlyTight
  InitConfig <- Tight
  ResetValues = {0}
  MaxChunk = 1
  MaxGen = 2
  MaxTime = 0
  MaxUsed = 1
  MaxOps = 2
  MaxRestarts = 0
  MaxFailures = 0
SPECIFICATION Spec
INVARIANT NoMissedWakeup
CHECK_DEADLOCK FALSE
