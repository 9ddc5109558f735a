SPECIFICATION Spec
CONSTANTS
  Procs = {p1, p2}
  Blocks = {b1, b2, b3}
  Vals = {v1, v2}
  MAXOPBLOCKS = 2
  LOGSIZE = 4
  nlog = 4
INVARIANTS  SleeperHasWaker
 
SYMMETRY Symmetry
