\* A walker and an unlinker: linked_next follows a pointer to a freed link.
SPECIFICATION HSpec
CONSTANTS
  cleaner = cleaner  walker = walker
  pusher1 = pusher1  pusher2 = pusher2
  l1 = l1  l2 = l2  l3 = l3  l4 = l4
  Links = {l1, l2}
  Threads = {cleaner, walker, pusher1}
  Pushers = {pusher1}
  Walkers = {cleaner, walker}
  Unlinkers = {cleaner}
  Destroyers = {}
  List = List
  NULL = NULL
SYMMETRY SymLinks
INVARIANTS NoUseAfterFree
CHECK_DEADLOCK FALSE
