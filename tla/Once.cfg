SPECIFICATION FairSpec
CONSTANTS
  Threads = {t1, t2, t3}
  Null = Null
  Forcing = {t2, t3}
  Unparked = {t1}
  MaxFailures = 2
INVARIANTS
  OneInitializer
  ReturnMeansComplete
  WalkerAtLiveNode
PROPERTY CallsEnd
