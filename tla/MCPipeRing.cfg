SPECIFICATION PipeSpec
CONSTANTS
  Byte <- MCByte
  Zero = 0
  Cap = 3
  MaxRequest = 4
PROPERTIES
  ImplementsFifo
