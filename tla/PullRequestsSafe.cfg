SPECIFICATION FairSpec
CONSTANTS
  Repos = {r1, r2}
  None = None
  Updaters = {u1, u2}
  NoUpdater = NoUpdater
  Interval = 2
  Frequency = 1
  MaxTimers = 2
  r1 = r1
  r2 = r2
  u1 = u1
  u2 = u2
INVARIANTS
  RunsForSelection
PROPERTIES
  SeldomUnlessPoked
  KeepsChecking
