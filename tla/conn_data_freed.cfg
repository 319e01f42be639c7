\* The data thread stands at a connection that the cleanup thread frees.
SPECIFICATION Spec
CONSTANTS
  c1 = c1
  Conns = {c1}
  MaxRequests = 1
  HandlerMayTimeOut = FALSE
  MayFail = FALSE
  NULL = NULL
INVARIANTS LocksLiveConnections
CHECK_DEADLOCK FALSE
