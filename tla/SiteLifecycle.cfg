CONSTANTS
  a = a
  s = s
  m = m
  n = n
  None = None
  Domain = {a, s, m, n}
  ParentOf <- Parents
  Root = {"own", "shared"}
  Php = {"8.2", "8.3"}
  StdRoot = "own"
  StdPhp = "8.2"
  Live = {a}
  Foreign = {m, n}
  ForeignPath <- OtherNames
  Handler = {h1, h2}
  Menus <- Pairs
  Failures = TRUE
  MaxOps = 3
  MaxCrash = 1
SPECIFICATION Spec
INVARIANTS TypeOK ManagedInSync PoolInSync NoOrphans ServiceIsActive ProxyHasApp ImportUntouched DocsKept
PROPERTY ForgottenStays
CHECK_DEADLOCK FALSE
