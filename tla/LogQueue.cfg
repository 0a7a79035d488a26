SPECIFICATION Spec
CONSTANTS
  Clients = {c1}
  Controller = ctl
  Nobody = nobody
  MaxThreads = 2
  MaxMessages = 3
  MaxEnables = 2
  MayFail = TRUE
  QuietSwitch = TRUE
INVARIANTS
  EachMessageOnce
  NothingLeftBehind
  InOrderWhileRunning
PROPERTIES
  EndReturns
CHECK_DEADLOCK FALSE
