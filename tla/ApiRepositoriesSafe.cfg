SPECIFICATION ApiSpec
CONSTANTS
  DotCom = github
  Servers = {github, ghes}
  Callers = {c1, c2}
  Requests = {q1, q2}
  Attempts = {a1, a2}
  None = None
  MaxSessions = 2
  MaxObjects = 2
  MaxActs = 6
  Repos = {r1, r2}
  Loads = {l1, l2}
SYMMETRY Symmetry
INVARIANTS
  ApiTypeOK
  NobodyIsForgotten
  KeysAreAccounts
PROPERTIES
  SuccessIsOfSession
  ListIsOfServer
CHECK_DEADLOCK FALSE
