SPECIFICATION Spec
CONSTANTS
  Ip = {i1, i2}
  Never = Never
  Threshold = 1
  MaxShift = 1
  IdleReset = 2
  MaxTracked = 1
  Delivery = {d1, d2, d3}
  Repo = {r1}
  Branch = {b1}
  Conn = {c1, c2}
  None = None
  MaxSeen = 2
  MaxReq = 4
  MaxTime = 5
  MaxRestart = 1
SYMMETRY GateSymmetry
INVARIANTS TypeOK CacheExact NoReplay NoReplayedDeploy
PROPERTY LockoutStands
CHECK_DEADLOCK FALSE
