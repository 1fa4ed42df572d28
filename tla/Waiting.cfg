SPECIFICATION FairSpec
CONSTANTS
  Unparkers = {u1, u2, u3}
  Word = 4
  ParkThreads = {o, u1, u2}
  ParkOwner = o
  WaitThreads = {c1, c2, p1, p2}
  TimedConsumers = {c1}
  Consumers = {c1, c2}
  Repeating = {c2, p2}
INVARIANTS
  TokensCovered
PROPERTIES
  ImplementsParker
  UnparkedReturns
  GenericImplementsParker
  GenericUnparkedReturns
  WaitWhileReturns
