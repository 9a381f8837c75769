SPECIFICATION FairSpec
CONSTANTS
  MAXARGS = 3
  Lines <- MCLines
  Garbage <- MCGarbage
INVARIANTS ParserIsRight DescriptorsAreRight NothingIsLeftRunning
PROPERTY PromptReturns
