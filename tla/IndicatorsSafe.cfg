SPECIFICATION FairSpec
CONSTANTS
  NRepositories = 2
  Interval = 2
  Skew = 1
  MaxLoops = 2
PROPERTIES
  RefreshesSpaced
  KeepsRefreshing
