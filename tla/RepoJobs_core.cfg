SPECIFICATION Spec
CONSTANTS
  s1 = s1
  s2 = s2
  d1 = d1
  Site = {s1}
  MainOf <- OneSite
  DirOf <- OneDir
  Dir = {d1}
  Repo = {r1}
  Branch = {b1, b2}
  Worker = {w1, w2}
  Handler = {h1, h2}
  None = None
  MaxOps = 3
  MaxPush = 1
  MaxCrash = 1
  Panics = TRUE
SYMMETRY Symmetry
INVARIANTS TypeOK JobsInv CommitIsCheckedOut LatestRequestKept BusyIsBacked LatestRequestWins
PROPERTY ImplementsSingleFlight
CHECK_DEADLOCK FALSE
