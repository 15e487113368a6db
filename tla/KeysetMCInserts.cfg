SPECIFICATION Spec
CONSTANTS
  Ids = {1, 2, 3, 4}
  Limits = {1, 2}
  None = None
  ClockOrdered = TRUE
INVARIANTS
  InsertsAreSeen
CHECK_DEADLOCK FALSE
