SPECIFICATION FairSpec
CONSTANTS
  Threads = {t1, t2, t3}
  MaxCalls = 2
INVARIANTS
  NoLostWakeup
PROPERTIES
  ImplementsLock
  LockReturns
