SPECIFICATION Spec
CONSTANT NBlocks = 8
INVARIANTS
  TypeOK
  AllocationIsExclusive
  BlocksAreAccountedFor
  ListIsIntact
CHECK_DEADLOCK FALSE
