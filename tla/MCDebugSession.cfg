CONSTANTS
  Programs <- MCPrograms
  Prefills <- MCPrefills
  LineTexts <- MCLineTexts
  PipeSize = 4
  BufferSize = 3
  StrLen = 2
  MAX_CONTINUE_STEPS = 3
  MaxBreakpoints = 2
  MaxSent = 6
SPECIFICATION Spec
CHECK_DEADLOCK FALSE
INVARIANTS
  TypeOK
  InputConserved
PROPERTIES
  ContinueReturns
