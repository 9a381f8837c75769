SPECIFICATION SysSpec
CONSTANTS
  p1 = p1
  p2 = p2
  Pids = {p1, p2}
  NFrames = 2
  NBlocks = 3
  MaxPages = 2
  Values = {zero, a}
  Zero = zero
  Junk = a
  StaleBlocks = {}
  NoPid = NoPid
  NULL = NULL
  Unset = Unset
  MaxOps <- FiveEach
  SyslogPages = {}
  MayDie = {}
  MayWakeEarly = {}
INVARIANTS
  SysTypeOK
  TransfersAreExclusive
  ReadsAreCorrect
  AssertionsHold
  FaultsGiveAccess
  RunsWhenServed
PROPERTY
  SystemImplementsPageMemory
SYMMETRY PidSymmetry
