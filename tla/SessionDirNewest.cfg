SPECIFICATION SessSpec
CONSTANTS
  Processes = {p1, p2}
  Dirs = 5
  Earlier = 0
  Slow = {TRUE}
INVARIANT
  MostRecentStays
