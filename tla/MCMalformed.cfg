SPECIFICATION LogSpec
CONSTANTS
  Streams <- MCStreams
  Wrong = {"cr", "lf", "sp", "comma", "semicolon", "ctl", "text", "d1", "colon"}
  MaxLength = 10
  ChunkSizes = {1, 100}
  MaxDepth = 1
  TopOps = {"execute", "reset"}
  NestedOps = {}
  Missing = {}
  Outcomes = {"returns", "errors"}
  HeaderResults = {0}
INVARIANTS
  OneFraming
  TruncationIsSeen
  ResetStartsAfresh
PROPERTIES
  OrderKept
CHECK_DEADLOCK FALSE
