SPECIFICATION Spec
CONSTANTS
  s1 = s1
  s2 = s2
  d1 = d1
  Site = {s1, s2}
  MainOf <- TwoSites
  DirOf <- SameDir
  Dir = {d1}
  Repo = {r1, r2}
  Branch = {b1}
  Worker = {w1, w2}
  Handler = {h1, h2}
  None = None
  MaxOps = 3
  MaxPush = 0
  MaxCrash = 0
  Panics = FALSE
INVARIANT OneRunPerCheckout
CHECK_DEADLOCK FALSE
