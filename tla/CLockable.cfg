\* Three threads, locks nested twice, the lock counter modulo 4.
CONSTANTS
  Threads = {t1, t2, t3}
  NoThread = NoThread
  MaxDepth = 2
  CountMod = 4
  RuleOfThumb = TRUE
SPECIFICATION FairSpec
INVARIANTS
  MutualExclusion
  LockCountExact
  NothingLeftBehind
  WaitingExact
PROPERTIES
  IsRecursiveLock
  LockReturns
  SwitchReturns
