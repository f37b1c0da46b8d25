SPECIFICATION Spec
CONSTANTS
  RingSize = 3
  LineSize = 3
  QueueMax = 2
  Codes = {"c", "d", "enter", "backspace"}
  SerialBytes = {}
  Modes <- Cooked
  MaxKeys = 4
INVARIANTS
  TypeOK
  KeysAccounted
  KeysInOrder
CHECK_DEADLOCK FALSE
