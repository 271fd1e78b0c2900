SPECIFICATION Spec
CONSTANTS
  MaxSessions = 2
  MaxStarts = 3
  Settings = {A, B}
  A = A
  B = B
CHECK_DEADLOCK FALSE
INVARIANTS
  NoOrphans
  ShowsWhatRuns
  NoticesOldSettings
