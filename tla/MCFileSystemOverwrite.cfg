SPECIFICATION Spec
CONSTANTS
  NBlocks = 10
  BlkSz = 2
  MaxLinks = 2
  Names = {a}
  MaxDepth = 1
  Contents <- MCContents
  Overwrites = TRUE
  Garbage = Garbage
  Dir = Dir
INVARIANT
  LinksAreDataBlocks
