SPECIFICATION FairSpec
CONSTANTS
  Threads = {t1, t2, t3}
  MAX_READERS = 2
  Word = 5
  ReportsWake = {TRUE, FALSE}
  Repeating = {}
INVARIANTS
  ReadersWaitBehindWriters
  NoLostReader
  NoLostWriter
PROPERTIES
  ImplementsRwLock
  CallsReturn
