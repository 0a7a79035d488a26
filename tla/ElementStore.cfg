CONSTANTS
  Threads = {t1, t2, t3}
  Elems = {e1, e2}
  Nil = Nil
  Freed = Freed
  MaxCalls = 3
  MaxUnused = 1
  Destroy = TRUE
SPECIFICATION Spec
INVARIANTS
  GoneIsForgotten
PROPERTIES
  NotesAreKept
  CallsReturn
CHECK_DEADLOCK FALSE
