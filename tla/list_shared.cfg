\* connectionList as the server uses it: the data thread (walker) walks it, the cleanup
\* thread (cleaner) walks and unlinks, a listen thread (pusher1) appends; the walker may
\* destroy the list between two passes, or the appender while the walker stands at a link.
\* The run stops where a thread touches a freed node (list_dangling shows that it happens).
SPECIFICATION HSpec
CONSTANTS
  cleaner = cleaner  walker = walker
  pusher1 = pusher1  pusher2 = pusher2
  l1 = l1  l2 = l2  l3 = l3  l4 = l4
  Links = {l1, l2, l3}
  Threads = {cleaner, walker, pusher1}
  Pushers = {pusher1}
  Walkers = {cleaner, walker}
  Unlinkers = {cleaner}
  Destroyers = {walker, pusher1}
  List = List
  NULL = NULL
SYMMETRY SymLinks
INVARIANTS FreedUnreferenced NoLeak BackPointers NoWaitCycle DestroyLeavesNothing PredecessorHeld
PROPERTIES PassIsComplete
CHECK_DEADLOCK FALSE
