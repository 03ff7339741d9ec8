SPECIFICATION Spec
CONSTANTS
  MaxAmount = 63
  Tolerance = 3
  Quotes <- MCQuotes
INVARIANTS
  TypeOK
  BoundsTight
  WideRangeFound
  BoundsQuotable
  NeverCollapses
PROPERTIES
  Termination
CHECK_DEADLOCK FALSE
