\* connectionsToFree, and connectionList as long as only the cleanup thread walks
\* it: one thread walks and unlinks while two others append.
SPECIFICATION HSpec
CONSTANTS
  cleaner = cleaner  walker = walker
  pusher1 = pusher1  pusher2 = pusher2
  l1 = l1  l2 = l2  l3 = l3  l4 = l4
  Links = {l1, l2, l3, l4}
  Threads = {cleaner, pusher1, pusher2}
  Pushers = {pusher1, pusher2}
  Walkers = {cleaner}
  Unlinkers = {cleaner}
  Destroyers = {}
  List = List
  NULL = NULL
INVARIANTS TypeOK RefCount ChainIsMembers NoUseAfterFree
PROPERTIES KeepsPromise
