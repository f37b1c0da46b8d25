SPECIFICATION Spec
CONSTANTS
  FdMax = 2
  Reserved = 0
  PipeMax = 4
  PairMax = 2
  Cap = 1
  Cloexec = {TRUE}
  MayFork = TRUE
INVARIANTS
  PipesOwnBuffers
  SocketsConnected
  PairsDisjoint
PROPERTIES
  BytesKept
