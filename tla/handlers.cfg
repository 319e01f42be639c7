\* Two requests, one of which may meet any fault; its handler may stay undefined.
SPECIFICATION FairSpec
CONSTANTS
  r1 = r1  r2 = r2
  Requests = {r1, r2}
  Unruly = {r2}
  Slow = {r1}
  Things = {"file", "program"}
  Scripts <- MCScripts
  Files <- MCFiles
  Room = 1
  Server = Server
CHECK_DEADLOCK FALSE
INVARIANTS TypeOK  ChildReaped
PROPERTIES KeepsPromise AllEnds
