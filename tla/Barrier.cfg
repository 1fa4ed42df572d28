SPECIFICATION FairSpec
CONSTANTS
  Threads = {t1, t2, t3, t4}
  TimedThreads = {}
  Word = 4
  num_threads = 3
  Generations = 3
  MaxCalls = 6
  MaxSpurious = 1
INVARIANTS
  Rendezvous
PROPERTY GroupLeaves
