SPECIFICATION FairHistorySpec
CONSTANTS
  Tips = {t1, t2}
  Branches = {b1, b2}
  Compares = {c1, c2}
  Refreshes = {r1, r2}
  MaxPages = 3
  MaxSteps = 5
  Null = Null
INVARIANTS
  HistoryTypeOK
  HistoryIsOfTip
  HistoryIsRefreshed
  SelectedIsListed
  MergeStatusIsOfBranch
PROPERTIES
  MergeStatusSettles
CHECK_DEADLOCK FALSE
