CONSTANTS
  WordBits = 8
  WordBytes = 4
  IntSize = 128
  CharSize = 8
  HEAP_ADDR = 16
  STACK_ADDR = 32
  StackWords = 3
  MemoryWords = 3
  MAX_FDS = 5
  RegIds <- LoadRegs
  CodeWord <- MCCodeWord
  FloatResult <- MCFloatResult
  FloatTaken <- MCFloatTaken
  Samples = {0, 9}
  Lines <- MCLines
  Workloads <- FloatLoad
SPECIFICATION Spec
CHECK_DEADLOCK FALSE
INVARIANT SentinelStops
