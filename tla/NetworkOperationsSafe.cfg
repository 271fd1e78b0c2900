SPECIFICATION FairSpec
CONSTANTS
  Objects = {a, b}
  Ops = {o1, o2}
  None = None
  NoEntry = NoEntry
  MaxVersion = 2
INVARIANTS
  ProgressIsOfRunning
  IndicatorIsCurrent
PROPERTIES
  ProgressStays
  FlagIsReleased
CHECK_DEADLOCK FALSE
