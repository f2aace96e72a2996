CONSTANTS
  Programs <- MCPrograms
  StdinLengths = {0, 1, 2}
  PipeSize = 2
  Failures = {"pipe", "fork", "alloc", "disk"}
SPECIFICATION Spec
CHECK_DEADLOCK FALSE
INVARIANTS
  TypeOK
  OutputComplete
  
  TempsRemoved
PROPERTY Answered
