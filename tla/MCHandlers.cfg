SPECIFICATION FairSpec
CONSTANTS
  Streams <- MCStreams
  MaxLength = 20
  ChunkSizes = {1, 2, 100}
  MaxDepth = 1
  TopOps = {"execute", "finish", "reset", "pause", "resume", "resume_after_upgrade"}
  NestedOps = {"reset", "pause", "resume"}
  Missing = {}
  Outcomes = {"returns", "errors"}
  HeaderResults = {0, 1, 2, 21, 24}
INVARIANTS
  BindingTypeOK
  LuaStateHeld
PROPERTIES
  FailureIsFinal
  StopsInChunk
  CallsReturn
CHECK_DEADLOCK FALSE
