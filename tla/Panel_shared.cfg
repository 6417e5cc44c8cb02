SPECIFICATION PanelSpec
CONSTANTS
  a1 = a1
  a2 = a2
  a3 = a3
  Account = {a1, a2, a3}
  Name = {"bob", "bob_x"}
  Login = {"bob", "bob2", "eve"}
  Candidates <- CandidateNames
  Present = {"eve"}
  Tables <- AllTables
  Menus <- SharedMenus
  Handler = {h1, h2}
  None = None
  Failures = FALSE
  MaxOps = 5
  Job = {j1, j2}
  Refused = {}
  Database = {"bob_x_d"}
  DbUser = {"bob_x_u"}
  Entry <- Paths
  Archives <- ArchiveSet
  MaxBytes = 2
  MaxEntries = 2
  Ip = {i1, i2}
  Never = Never
  Threshold = 1
  MaxShift = 1
  IdleReset = 2
  MaxTracked = 1
  First = a1
  Slots = 1
  MaxNow = 3
  Conversation = {k1, k2}
  Chat = {h1, h2}
  MaxIterations = 2
  MaxMessages = 6
  MaxConvs = 1
  MaxChats = 4
SYMMETRY Handlers
INVARIANT RowsRun
CHECK_DEADLOCK FALSE
