SPECIFICATION Spec
CONSTANTS
  Vals = {x, y}
  PIPESIZE = 2
  UINT = 4
  MaxN = 3
  NULL = NULL
  Readers = {r1}
  Writers = {w1, w2}
INVARIANT NoLostWakeup
PROPERTY IsFifo
SYMMETRY Symmetry
CHECK_DEADLOCK FALSE
