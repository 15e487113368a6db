SPECIFICATION Spec
CONSTANTS
  R1 = r1
  R2 = r2
  C1 = c1
  C2 = c2
  Requests = {r1, r2}
  Slots = {c1, c2}
  NoSlot = NoSlot
  Inputs <- AllInputs
  Counts = {0, 1}
  OutageKinds = {"down", "hung"}
  MaxOutages = 1
  MaxCrashes = 1
SYMMETRY RequestSymmetry
INVARIANTS
  TypeOK
  IInv
  NoSilentGap
  TrailIsExact
  AuditNeverBreaksSearch
  NoSpurious503
  DarkNever200
  PoolAccounted
PROPERTIES
  AuditLostOnlyInACrowd
  FailsOnlyInACrowd
  Dark500OnlyInACrowd
CHECK_DEADLOCK FALSE
