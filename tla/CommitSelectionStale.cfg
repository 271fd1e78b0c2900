SPECIFICATION Spec
CONSTANTS
  Changed <- Changes
  Ranges <- Contiguous
  FileLoads = {l1, l2}
  DiffLoads = {d1, d2}
  MaxActs = 3
  None = None
SYMMETRY Symmetry
INVARIANTS
  FilesAlwaysOfSelection
CHECK_DEADLOCK FALSE
