CONSTANTS
  ReadCap = 2
  WriteCap = 3
  MaxChunk = 2
  MaxSize = 5
  MaxVersion = 3
  None = None
SPECIFICATION Spec
INVARIANTS TypeOK WriteReported ReadIsWhole PermittedAtOnce
