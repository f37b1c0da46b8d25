SPECIFICATION FairSpec
CONSTANTS
  RingSize = 3
  LineSize = 3
  QueueMax = 2
  Codes = {"c", "d", "l", "enter", "backspace", "f1"}
  SerialBytes = {"nl"}
  Modes <- AllModes
  MaxKeys = 2
PROPERTIES
  KeysConsumed
  ReadReturns
