CONSTANTS
  Pids = {p1, p2, p3}
  ExitCodes = {0, 3}
  PipeSize = 1
  MaxLeaks = 1
  MaxChunks = 2
  Failures = {"assemble", "pipe", "fork"}
  NOBODY = NOBODY
  ALIVE = ALIVE
  NONE = NONE
SPECIFICATION FairSpec
INVARIANTS
  TypeOK
  OutputComplete
  NoOrphan
  BinariesOwned
PROPERTY KeepsServing
