SPECIFICATION FairSpec
CONSTANTS
  Repos = {r1}
  MaxRuns = 3
  MaxHistory = 2
  MaxStarting = 2
  IsWindows = FALSE
  r1 = r1
CHECK_DEADLOCK FALSE
INVARIANTS
  RunsBoundedByOverlap
  AliveIsRemembered
PROPERTIES
  ImplementsRuns
  KeptChildIsGone
