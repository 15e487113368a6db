SPECIFICATION Spec
CONSTANTS
  Ids = {1, 2, 3, 4}
  Limits = {1, 2}
  None = None
  ClockOrdered = FALSE
INVARIANTS
  KInv
  NoRepeat
  NoSkip
  TraversalIsShort
PROPERTIES
  NoDanglingPage
  OnlyInsertsProlong
CHECK_DEADLOCK FALSE
