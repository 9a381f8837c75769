SPECIFICATION FairSpec
CONSTANTS
  p1 = p1
  p2 = p2
  Pids = {p1, p2}
  NFrames = 1
  NBlocks = 2
  MaxPages = 2
  Values = {zero, a}
  Zero = zero
  Junk = a
  StaleBlocks = {}
  NoPid = NoPid
  NULL = NULL
  Unset = Unset
  MaxOps <- TwoAndFour
  SyslogPages <- FirstPageOfP2
  MayDie = {p1}
  MayWakeEarly = {p2}
INVARIANTS
  FaultsAreContained
PROPERTY RequestsAreServed
CHECK_DEADLOCK FALSE
