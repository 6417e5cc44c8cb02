SPECIFICATION Spec
CONSTANTS
  s1 = s1
  s2 = s2
  d1 = d1
  Site = {s1}
  MainOf <- OneSite
  DirOf <- OneDir
  Dir = {d1}
  Repo = {r1}
  Branch = {b1}
  Worker = {w1, w2}
  Handler = {h1, h2}
  None = None
  MaxOps = 4
  MaxPush = 1
  MaxCrash = 0
  Panics = FALSE
INVARIANT NoRequestLost
CHECK_DEADLOCK FALSE
