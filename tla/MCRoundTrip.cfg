CONSTANTS
  WordBits = 10
  IBits = 8
  SBits = 9
  MemoryWords = 16
  QUOTE = 34
  Infinite = {120}
  Printable <- MCPrintable
  Escapes = {9, 10, 13, 34, 92}
  LineSize = 13
  AsciiSize = 128
  Garbled <- MCGarbled
  Workloads <- NegativeData
SPECIFICATION Spec
CHECK_DEADLOCK FALSE
INVARIANT SurvivesRoundTrip
