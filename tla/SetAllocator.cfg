SPECIFICATION Spec
CONSTANTS
  x1 = x1
  x2 = x2
  Queries = {x1}
  Allocators = {"malloc", "arena"}
  Default = "malloc"
  Memory <- MCMemory
  Texts <- MCShortTexts
  FlagSets <- MCTextFlags
  Limits = {0}
  DEFAULT_MAX_PAIRS = 2
  BufferSizes = {0}
  PoolPad = 1
  Failures = FALSE
  Calls <- MCSwitchCalls
  MaxBytes = 1
  BufSize = 2048
  Junk = 0
INVARIANT
  FreedByItsAllocator
CHECK_DEADLOCK FALSE
