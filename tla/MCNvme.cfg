SPECIFICATION Spec
CONSTANTS
  d0 = d0
  d1 = d1
  d2 = d2
  d3 = d3
  zero = zero
  ident = ident
  new = new
  Depth = 3
  CidMax = 4
  BPP = 2
  Blocks <- MCBlocks
  Data <- MCData
  Fill <- MCFill
  Zero <- MCZero
  Ident <- MCIdent
  Disk0 <- MCDisk0
  Lengths <- MCLengths
  MaxOps = 2
INVARIANTS
  PhaseTells
  OwnAnswer
  ReadsTheDisk
  WritesPrefix
PROPERTY
  OperationsReturn
CHECK_DEADLOCK FALSE
