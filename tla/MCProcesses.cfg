SPECIFICATION Spec
CONSTANTS
  MaxChildren = 2
  MaxPid = 4
  Frames = 2
  v1 = v1
  v2 = v2
  Val <- MCVal
  Costs <- MCCosts
  Codes <- MCCodes
SYMMETRY Symmetry
VIEW View
INVARIANTS
  OneSuspendedParent
  ZombieTable
  ForkIsolation
PROPERTIES
  PidLifecycle
  ParentResumes
CHECK_DEADLOCK FALSE
