SPECIFICATION Spec
CONSTANTS
  R1 = r1
  R2 = r2
  C1 = c1
  C2 = c2
  Requests = {r1, r2}
  Slots = {c1, c2}
  NoSlot = NoSlot
  Inputs <- SpoiltInputs
  Counts = {1}
  OutageKinds = {}
  MaxOutages = 0
  MaxCrashes = 0
INVARIANTS
  EveryAppSearchedHasARow
CHECK_DEADLOCK FALSE
