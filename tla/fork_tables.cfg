SPECIFICATION Spec
CONSTANTS
  CLOCKSIZE = 2
  NULL = NULL
  Procs = {p1, p2}
  initproc = p1
  Frames = {f1, f2, f3}
  NPAGES = 2
PROPERTY OneTableChanges
SYMMETRY Symmetry
CHECK_DEADLOCK FALSE
