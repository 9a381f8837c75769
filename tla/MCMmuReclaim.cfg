SPECIFICATION FairSpec
CONSTANTS
  p1 = p1
  p2 = p2
  Pids = {p1, p2}
  NFrames = 1
  NBlocks = 2
  MaxPages = 1
  Values = {zero, a}
  Zero = zero
  Junk = a
  StaleBlocks = {}
  NoPid = NoPid
  NULL = NULL
  Unset = Unset
  MaxOps <- ThreeEach
  SyslogPages = {}
  MayDie = {p1}
  MayWakeEarly = {}
PROPERTY
  DeadClientsAreReclaimed
CHECK_DEADLOCK FALSE
