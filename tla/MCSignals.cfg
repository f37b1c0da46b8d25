SPECIFICATION Spec
CONSTANTS
  Signals = {2, 9}
  Unblockable = {9}
  DefaultIgnored = {}
  TtySignals = {2}
  Actions <- MCActions
  MaxDepth = 2
  MayFork = TRUE
  MayEdit = TRUE
INVARIANTS
  MaskRestored
  KillStopOpen
  NoReentry
  OwnStack
PROPERTIES
  KillUncaught
CHECK_DEADLOCK FALSE
