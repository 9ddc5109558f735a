SPECIFICATION FairSpec
CONSTANTS
  NPROC = 3
  CPUs = {c1}
  NULL = NULL
PROPERTIES
  InitReaps
  KilledExits
