SPECIFICATION FairStatusesSpec
CONSTANTS
  Refs = {r1}
  Callbacks = {c1, c2}
  Jobs = {j1, j2}
  MaxConcurrentFetches = 2
  MaxActs = 7
  Null = Null
INVARIANTS
  StatusesTypeOK
  ShowsWhatIsCached
PROPERTIES
  NeverOlder
  IsToldInTheEnd
CHECK_DEADLOCK FALSE
