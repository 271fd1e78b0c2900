SPECIFICATION Spec
CONSTANTS
  Endpoints = {e1}
  Ids = {i1, i2}
  Nobody = Nobody
  Absent = Absent
  MaxTokens = 2
  MaxStarts = 2
  e1 = e1
  i1 = i1
  i2 = i2
SYMMETRY Symmetry
CHECK_DEADLOCK FALSE
INVARIANTS
  StaysSignedIn
  StaysSignedOut
  TokenIsKept
