SPECIFICATION SessSpec
CONSTANTS
  Processes = {p1, p2}
  Dirs = 5
  Earlier = 1
  Slow = {TRUE, FALSE}
INVARIANTS
  LiveIsKept
  UndisturbedCopy
  NewestKept
  CollectedWhenAlone
PROPERTIES
  SessionEnds
