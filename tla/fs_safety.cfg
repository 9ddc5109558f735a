SPECIFICATION Spec
CONSTANTS
  a = a
  b = b
  Procs = {p1, p2}
  NULL = NULL
  Names = {a, b}
  Paths <- MCPaths
  Blocks = {1}
  NINODES = 4
  NINODE = 3
  MAXFILE = 1
  MaxCalls = 4
SYMMETRY Symmetry
INVARIANTS RefCounts NothingFreedInUse LinksCovered BlocksOwned LockOrder
CHECK_DEADLOCK FALSE
