SPECIFICATION FairSpec
CONSTANTS
  Blocks = {k1, k2, k3}
  Vals = {x, y}
  NBUF = 2
  NULL = NULL
  Procs = {p1, p2}
  DiskErrors = {FALSE}
PROPERTY Transparent RequestDone
CHECK_DEADLOCK FALSE
