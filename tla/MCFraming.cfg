SPECIFICATION FramingSpec
CONSTANTS
  Streams <- MCStreams
  MaxHeaders = 3
  MaxLength = 20
  ChunkSizes = {100}
  MaxDepth = 1
  TopOps = {"execute", "finish", "resume_after_upgrade"}
  NestedOps = {}
  Missing = {"on_message_begin", "on_header_field", "on_header_value"}
  Outcomes = {"returns"}
  HeaderResults = {0}
INVARIANTS
  FramingFollowsRfc
  KeepAliveFollowsRfc
  NextFollowsRfc
  RefusesOnlyAmbiguous
CHECK_DEADLOCK FALSE
