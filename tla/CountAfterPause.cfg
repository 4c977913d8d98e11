SPECIFICATION Spec
CONSTANTS
  Streams <- MCStreams
  MaxLength = 20
  ChunkSizes = {1, 2, 100}
  MaxDepth = 1
  TopOps = {"execute", "pause"}
  NestedOps = {}
  Missing = {}
  Outcomes = {"returns"}
  HeaderResults = {0}
INVARIANT
  CountIsOfThisChunk
CHECK_DEADLOCK FALSE
