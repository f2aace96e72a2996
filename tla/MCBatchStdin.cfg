CONSTANTS
  Programs <- MCPrograms
  StdinLengths = {2}
  PipeSize = 1
  Failures = {"pipe", "fork", "alloc", "disk"}
SPECIFICATION Spec
CHECK_DEADLOCK FALSE
PROPERTY PrefillEnds
