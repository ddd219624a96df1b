SPECIFICATION MCSpec
CONSTANTS
  Families <- MCFamilies
  Addr <- MCAddr
  Lo <- MCLo
  Hi <- MCHi
  Base <- MCBase
  Names <- MCNames
  Domains <- MCDomains
  Norm <- MCNorm
  NoDomain = ""
  Given <- MCGiven
  TableConfs <- MCTableConfs
  MaxChanges = 2
  Callers = {1, 2}
  ResolverConfs <- MCResolverConfs
INVARIANTS CreateAnswers RoundTrip CoveredIsFound
PROPERTIES MappingStable CatchesUp NeverBack Settles
\* A table may be closed, and a load may end the program.
CHECK_DEADLOCK FALSE
