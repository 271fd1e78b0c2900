SPECIFICATION Spec
CONSTANTS
  Ids = {1, 2}
  OnGitHub = {1}
  Aliases = {"a"}
  GitDirs = {"g", "h"}
  DirsOf <- GitDirsOfEach
  Calls = {c1, c2}
  Fetchers = {f1, f2}
  Pruners = {p1, p2}
  None = None
  f1 = f1
  f2 = f2
  p1 = p1
  p2 = p2
  c1 = c1
  c2 = c2
SYMMETRY Symmetry
INVARIANTS
  SelectedIsServed
PROPERTIES
  FetchesSelected
