\* A handler that ran into the 30 s leaves a connection in KEEP_ALIVE.
SPECIFICATION Spec
CONSTANTS
  c1 = c1
  Conns = {c1}
  MaxRequests = 1
  HandlerMayTimeOut = TRUE
  MayFail = FALSE
  NULL = NULL
INVARIANTS KeepAliveIsServed
CHECK_DEADLOCK FALSE
