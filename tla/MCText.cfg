SPECIFICATION OnceSpec
CONSTANTS
  x1 = x1
  x2 = x2
  Queries = {x1}
  Allocators = {"malloc", "arena"}
  Default = "malloc"
  Memory <- MCMemory
  Texts <- MCShortTexts
  FlagSets <- MCTextFlags
  Limits = {0, 3}
  DEFAULT_MAX_PAIRS = 2
  BufferSizes = {0, 100}
  PoolPad = 1
  Failures = FALSE
  Calls <- MCTextCalls
  MaxBytes = 3
  BufSize = 2048
  Junk = 0
INVARIANTS
  EveryBlockOwnedOnce
  QuickParsersAgree
  DecodeInvertsEncode
  MergeLosesNothing
  StringifyKeepsPairs
PROPERTIES
  ImplementsList
  SortedByKey
CHECK_DEADLOCK FALSE
