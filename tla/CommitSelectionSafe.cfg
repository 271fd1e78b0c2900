SPECIFICATION FairSpec
CONSTANTS
  Changed <- Changes
  Ranges <- Contiguous
  FileLoads = {l1, l2}
  DiffLoads = {d1, d2}
  MaxActs = 4
  None = None
INVARIANTS
  DiffIsOfSelection
  DiffHasSetting
  FilesAreOfSelection
PROPERTIES
  ShowsSelection
CHECK_DEADLOCK FALSE
