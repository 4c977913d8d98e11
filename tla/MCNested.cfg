SPECIFICATION Spec
CONSTANTS
  Streams <- MCStreams
  MaxLength = 20
  ChunkSizes = {3, 100}
  MaxDepth = 2
  TopOps = {"execute", "finish"}
  NestedOps = {"execute", "finish"}
  Missing = {"on_message_begin"}
  Outcomes = {"returns", "answers no integer"}
  HeaderResults = {0}
PROPERTIES
  StopsInChunk
CHECK_DEADLOCK FALSE
