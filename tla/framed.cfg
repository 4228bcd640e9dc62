SPECIFICATION Spec
CONSTANTS
  Messages <- MCMessages
  Foreign <- MCForeign
  Base = 8
  PrefixBytes = 2
  WriterMax = 5
  ReaderMax = 4
  Chunk = 4
  WireCap = 4
  MaxItems = 3
  None = None
INVARIANTS BuffersBounded
PROPERTIES ImplementsPipe
CHECK_DEADLOCK FALSE
