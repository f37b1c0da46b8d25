SPECIFICATION Spec
CONSTANTS
  Plain = {"a"}
  Devices = {}
  Directories <- MCDirectories
  Offset <- MCOffset
  Binaries <- MCBinaries
  Texts <- MCTexts
  Byte = {1}
  Zero = 0
  Slots = 2
  Cap = 2
  Chunk = 1
  Fds = {3}
  Accesses = {"rw"}
  MaxRequest = 2
  Rooms = {24, 56}
  MaxPosition = 1
VIEW View
INVARIANTS
  PathsUnique
PROPERTIES
  ImplementsStore
