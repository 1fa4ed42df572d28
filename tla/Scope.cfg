SPECIFICATION FairSpec
CONSTANTS
  Main = Main
  None = None
  Children = {c1, c2, c3}
  HalfMax = 1
  Stray = TRUE
CHECK_DEADLOCK FALSE
INVARIANTS
  JoinedUnlessRefused
  JoinFindsResult
  UnhandledPanicReported
PROPERTY ScopeReturns
