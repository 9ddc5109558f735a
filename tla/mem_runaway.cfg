SPECIFICATION Spec
CONSTANTS
  CLOCKSIZE = 2
  NULL = NULL
  PGSIZE = 2
  NPAGES = 6
  TEXT = 1
  Vals = {0}
  Footprints <- OnePage
  SbrkArgs <- WholePages
  DumpOffsets = {0}
INVARIANT RemoveStaysInside
CHECK_DEADLOCK FALSE
