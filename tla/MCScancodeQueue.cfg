SPECIFICATION QueueSpec
CONSTANTS
  a = a
  b = b
  none = none
  Size = 4
  Code <- MCCode
  None <- MCNone
PROPERTY
  ImplementsCodeFifo
