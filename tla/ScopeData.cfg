SPECIFICATION Spec
CONSTANTS
  Main = Main
  None = None
  Children = {c1, c2}
  HalfMax = 3
  Stray = FALSE
CHECK_DEADLOCK FALSE
INVARIANT ScopeDataOutlivesUse
