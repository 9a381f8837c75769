SPECIFICATION Spec
CONSTANTS
  NBlocks = 10
  BlkSz = 2
  MaxLinks = 2
  Names = {a, b}
  MaxDepth = 2
  Contents <- MCContents
  Overwrites = FALSE
  Garbage = Garbage
  Dir = Dir
INVARIANTS
  TypeOK
  BlocksArePartitioned
  InodesAreLinked
  ListsWhatIsThere
PROPERTY
  ImplementsTree
VIEW Image
SYMMETRY Symmetry
