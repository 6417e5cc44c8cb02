SPECIFICATION Spec
CONSTANTS
  s1 = s1
  s2 = s2
  d1 = d1
  Site = {s1, s2}
  MainOf <- WithSub
  DirOf <- SameDir
  Dir = {d1}
  Repo = {r1, r2}
  Branch = {b1}
  Worker = {w1, w2}
  Handler = {h1, h2}
  None = None
  MaxOps = 4
  MaxPush = 0
  MaxCrash = 0
  Panics = TRUE
SYMMETRY Symmetry
INVARIANTS OneRunPerProject CommitIsCheckedOut LatestRequestKept
CHECK_DEADLOCK FALSE
