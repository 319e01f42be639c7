\* A thread is cancelled that holds the lock of its connection.
SPECIFICATION Spec
CONSTANTS
  c1 = c1
  Conns = {c1}
  MaxRequests = 1
  HandlerMayTimeOut = TRUE
  MayFail = FALSE
  NULL = NULL
INVARIANTS LockHolderAlive
CHECK_DEADLOCK FALSE
