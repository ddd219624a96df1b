\* Documented of resetQuota; refuted.
CONSTANTS
  s1 = s1
  c1 = c1
  c2 = c2
  a1 = a1
  a2 = a2
  Services = {s1}
  Conns = {c1}
  Admins = {a1}
  Configs <- OnlyTight
  InitConfig <- Tight
  ResetValues = {0}
  MaxChunk = 1
  MaxGen = 2
  MaxTime = 0
  MaxUsed = 1
  MaxOps = 1
  MaxRestarts = 0
  MaxFailures = 0
SPECIFICATION FairSpec
PROPERTIES ResumesBelowLimit
CHECK_DEADLOCK FALSE
