CONSTANTS
  a = a
  s = s
  m = m
  n = n
  None = None
  Domain = {a, s, m}
  ParentOf <- Parents
  Root = {"own", "shared"}
  Php = {"8.2", "8.3"}
  StdRoot = "own"
  StdPhp = "8.2"
  Live = {a}
  Foreign = {m}
  ForeignPath <- OtherNames
  Handler = {h1, h2}
  Menus <- ServeMenus
  Failures = TRUE
  MaxOps = 3
  MaxCrash = 1
SPECIFICATION Spec
INVARIANT PoolConfined
CHECK_DEADLOCK FALSE
