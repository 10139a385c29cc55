\* Every sequence of calls on a ring of three bytes.
CONSTANTS
  Byte = {0, 1}
  More = {1}
  Capacity = 3
  Long = 2
  Chunks <- ShortChunks
SPECIFICATION Spec
INVARIANTS
  TypeOK
  ReadWithinData
PROPERTY
  IsFifo
