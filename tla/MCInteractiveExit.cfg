CONSTANTS
  Pids = {p1, p2}
  ExitCodes = {0, 3}
  PipeSize = 1
  MaxLeaks = 1
  MaxChunks = 1
  Failures = {}
  NOBODY = NOBODY
  ALIVE = ALIVE
  NONE = NONE
SPECIFICATION Spec
INVARIANT ExitCodeReported
