SPECIFICATION FairSpec
CONSTANTS
  x1 = x1
  x2 = x2
  Queries = {x1, x2}
  Memory <- MCMemory
  Allocators = {"malloc", "arena"}
  Default = "malloc"
  Texts <- MCTexts
  FlagSets <- MCFlagSets
  Limits = {0}
  DEFAULT_MAX_PAIRS = 2
  BufferSizes = {0, 2, 100}
  PoolPad = 1
  Failures = TRUE
  Calls <- MCCalls
INVARIANTS
  TypeOK
  EveryBlockOwnedOnce
  FreedByItsAllocator
  PoolIsEnough
PROPERTIES
  ImplementsList
  CallsEnd
CHECK_DEADLOCK FALSE
