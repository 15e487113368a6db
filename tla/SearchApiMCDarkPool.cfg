SPECIFICATION Spec
CONSTANTS
  R1 = r1
  R2 = r2
  C1 = c1
  C2 = c2
  Requests = {r1, r2}
  Slots = {c1}
  NoSlot = NoSlot
  Inputs <- ProbeInputs
  Counts = {1}
  OutageKinds = {"hung"}
  MaxOutages = 1
  MaxCrashes = 0
INVARIANTS
  UnavailableIsNever500
CHECK_DEADLOCK FALSE
