SPECIFICATION LogSpec
CONSTANTS
  Streams <- MCStreams
  MaxLength = 100
  ChunkSizes = {1, 2, 3, 100}
  MaxDepth = 1
  TopOps = {"execute", "pause", "resume", "resume_after_upgrade"}
  NestedOps = {}
  Missing = {}
  Outcomes = {"returns"}
  HeaderResults = {0, 21}
INVARIANTS
  LogIsPrefixOfMeaning
  AllDelivered
  WellFormedAccepted
CHECK_DEADLOCK FALSE
