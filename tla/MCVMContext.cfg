CONSTANTS
  VMs = {v1, v2}
  Addrs = {a1, a2, a3}
  short = short
  alike = alike
  long = long
  bad = bad
  Binaries <- MCBinaries
  BadBinaries <- MCBadBinaries
  Length <- MCLength
  MAX_FDS = 6
  NULL = NULL
  EXITED = EXITED
SPECIFICATION Spec
INVARIANTS
  TypeOK
  DecodeCacheCoherent
  ArenasOwned
CHECK_DEADLOCK FALSE
