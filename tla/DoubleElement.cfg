CONSTANTS
  t1 = t1
  t2 = t2
  t3 = t3
  e1 = e1
  e2 = e2
  e3 = e3
  Threads = {t1, t2, t3}
  Elems = {e1, e2, e3, x1, x2}
  First = e1
  InitRow <- MCInitRow
  Nil = Nil
  Calls <- MCCalls
  RemoveTwice = FALSE
SPECIFICATION Spec
INVARIANTS
  NeighboursAgree
PROPERTIES
  ImplementsChain
  CallsReturn
CHECK_DEADLOCK FALSE
