SPECIFICATION FairSpec
CONSTANTS
  R1 = r1
  R2 = r2
  C1 = c1
  C2 = c2
  Requests = {r1, r2}
  Slots = {c1, c2}
  NoSlot = NoSlot
  Inputs <- SomeInputs
  Counts = {1}
  OutageKinds = {"down", "hung"}
  MaxOutages = 1
  MaxCrashes = 1
PROPERTIES
  ImplementsContract
  EveryStepCounts
  
CHECK_DEADLOCK FALSE
