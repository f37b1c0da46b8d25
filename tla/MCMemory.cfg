SPECIFICATION Spec
CONSTANTS
  PageSize = 2
  WordSize = 32
  Regions <- MCRegions
  Reserved = 4
  MemoryTop = 40
  BootRoot = 12
  Limit = 9
  MmapBase = 2
  HeapBase = 5
  StackBottom = 8
  Images <- MCImages
  ReadOnly = {0}
  Tables = {1, 2, 3}
  TablePath <- MCTablePath
  Requests = {9, 13, 31}
  Hints = {0, 4, 7}
  Lengths = {2}
  MaxCalls = 4
INVARIANTS
  FramesOwned
  HeapExact
PROPERTIES
  SuspendedUntouched
  KeepsMapped
CHECK_DEADLOCK FALSE
