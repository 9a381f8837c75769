SPECIFICATION Spec
CONSTANT NFrames = 4
INVARIANTS
  ComputesSecondChance
  BoundedScan
