SPECIFICATION OnceSpec
CONSTANTS
  x1 = x1
  x2 = x2
  Queries = {x1}
  Allocators = {"malloc", "arena"}
  Default = "malloc"
  Memory <- MCMemory
  Texts <- MCLongTexts
  FlagSets <- MCTextFlags
  Limits = {0}
  DEFAULT_MAX_PAIRS = 2
  BufferSizes = {0}
  PoolPad = 1
  Failures = FALSE
  Calls <- MCTextCalls
  MaxBytes = 3
  BufSize = 16
  Junk = 0
INVARIANT
  DecodeInvertsEncode
CHECK_DEADLOCK FALSE
