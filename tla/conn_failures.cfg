\* One connection with two requests; handlers may run into the 30 s, and pthread_create and dup may fail.
SPECIFICATION Spec
CONSTANTS
  c1 = c1
  Conns = {c1}
  MaxRequests = 2
  HandlerMayTimeOut = TRUE
  MayFail = TRUE
  NULL = NULL
INVARIANTS InUseExact FreedIsQuiet FreedForAReason
PROPERTIES StartsClean ServedNotAborted KeepsLifecycle
CHECK_DEADLOCK FALSE
