\* One connection with two requests, every call succeeds, every handler is in time and every thread scheduled.
SPECIFICATION FairSpec
CONSTANTS
  c1 = c1
  Conns = {c1}
  MaxRequests = 2
  HandlerMayTimeOut = FALSE
  MayFail = FALSE
  NULL = NULL
INVARIANTS TypeOK LockHolderAlive KeepAliveIsServed StopsRealThreads
PROPERTIES RequestsTakenUp ClosedIsFreed RequestsEnd
CHECK_DEADLOCK FALSE
