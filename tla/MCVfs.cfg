SPECIFICATION VfsSpec
CONSTANTS
  Inodes = 5
  PerBlock = 3
  Blocks = 3
  MaxFile = 2
  Names <- MCNames
  Cut <- MCCut
  BlockContents <- MCContents
  OldDisks <- MCOldDisks
  Paths <- MCPaths
  Data <- MCData
  MaxOps = 3
  MaxCrashes = 1
INVARIANTS
  TreeSound
  BlocksOwned
  ReadsBack
  NothingLost
CHECK_DEADLOCK FALSE
