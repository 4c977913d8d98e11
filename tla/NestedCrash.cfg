SPECIFICATION Spec
CONSTANTS
  Streams <- MCStreams
  MaxLength = 20
  ChunkSizes = {1, 2, 100}
  MaxDepth = 2
  TopOps = {"execute"}
  NestedOps = {"finish"}
  Missing = {}
  Outcomes = {"returns"}
  HeaderResults = {0}
INVARIANT
  NullStateIsCaught
CHECK_DEADLOCK FALSE
