SPECIFICATION Spec
INVARIANTS LocksSafe InterruptsRestored NoLostInput ReadsBack BlocksAccounted
  HeapPartitioned PagesOwnedOnce  NoneStuck PromptAfterForeground
  ParsesGrammar ArgumentsInside
PROPERTIES ClockIsSecondChance ConsoleIsTty
CHECK_DEADLOCK FALSE
