SPECIFICATION Spec
CONSTANT NBlocks = 8
INVARIANT
  ZeroOnlyWhenNoneIsFree
CHECK_DEADLOCK FALSE
