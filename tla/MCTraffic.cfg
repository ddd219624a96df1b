\* Traffic, the window and restarts, no API request; and statistics.
CONSTANTS
  s1 = s1
  c1 = c1
  c2 = c2
  a1 = a1
  a2 = a2
  Services = {s1}
  Conns = {c1, c2}
  Admins = {a1}
  Configs <- OnlyEndless
  InitConfig <- Windowed
  ResetValues = {0}
  MaxChunk = 1
  MaxGen = 1
  MaxTime = 1
  MaxUsed = 4
  MaxOps = 0
  MaxRestarts = 1
  MaxFailures = 1
  u1 = u1
  u2 = u2
  Users = {u1, u2}
  StatsUses <- MCStatsUses
SPECIFICATION MCSpec
INVARIANTS StopsAtLimit BoundedOvershoot FlushPending NothingUncounted
PROPERTY ReportsCatchUp
CHECK_DEADLOCK FALSE
