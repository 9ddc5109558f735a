SPECIFICATION Spec
CONSTANTS
  NPROC = 3
  CPUs = {c1, c2}
  NULL = NULL
INVARIANTS StackUsedOnce NoZombieMissed SleepLockExclusive NoLostWakeup
SYMMETRY Symmetry
