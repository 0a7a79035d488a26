CONSTANTS
  k1 = k1
  k2 = k2
  t1 = t1
  t2 = t2
  Threads = {t1, t2}
  Keys = {k1, k2}
  Nil = Nil
  Sizes = {1, 2}
  Bucket <- MCBucket
  MaxLoad = 1
  Grown <- MCGrown
  InitKeys <- MCInitKeys
  RhsSize = 2
  RhsKeys = {k2}
  Ops = {"add", "get", "remKey", "delKey", "pop", "clear", "grow", "+="}
  MayFail = TRUE
  Calls <- MCCalls
SPECIFICATION Spec
INVARIANTS
  ChangesExclude
  TableExact
PROPERTIES
  GetFindsUnlessOvertaken
  CallsReturn
CHECK_DEADLOCK FALSE
