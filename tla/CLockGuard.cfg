\* Two threads with two guards each compete for two objects.
CONSTANTS
  a = a
  b = b
  Threads = {t1, t2}
  Objects = {a, b}
  Null = Null
  Guards = {g1, g2}
  NoGuard = NoGuard
  Requests <- MCRequests
  MaxInUse = 2
  CarefulTakeOver = TRUE
  CarefulUnlock = TRUE
SPECIFICATION FairSpec
INVARIANTS
  GuardsBalance
  NothingHeldWhileWaiting
  OuterLocksKept
PROPERTIES
  ResetReturns
