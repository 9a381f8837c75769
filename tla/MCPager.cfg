SPECIFICATION Spec
CONSTANTS
  Pids = {p1, p2}
  NFrames = 2
  NBlocks = 4
  MaxPages = 2
  z = z
  a = a
  b = b
  Values <- MCValues
  Zero <- MCZero
  Junk <- MCStored
  StaleBlocks = {1}
  NoPid = NoPid
  NULL = NULL
  Unset = Unset
  PageSize = 2
  Wild = Wild
INVARIANTS
  TypeOK
  FrameOwnership
  BlockOwnership
  MappedFrameIsOwn
  CleanPageMatchesBacking
  
PROPERTY
  ImplementsPageMemory
SYMMETRY PidSymmetry
CHECK_DEADLOCK FALSE
