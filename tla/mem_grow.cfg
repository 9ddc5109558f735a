SPECIFICATION ListSpec
CONSTANTS
  CLOCKSIZE = 2
  NULL = NULL
  PGSIZE = 2
  NPAGES = 5
  TEXT = 1
  Vals = {0}
  Footprints <- TwoPages
  SbrkArgs <- Grow
  DumpOffsets = {0}
  Nums = {2, 5}
  Splits = {5}
INVARIANT ListedTruthfully
PROPERTIES  InsnCompletes
CHECK_DEADLOCK FALSE
