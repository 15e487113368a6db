SPECIFICATION Spec
CONSTANTS
  Strangers = {"elsewhere"}
  Roles <- UserRoles
  Arrivals <- AllRequests
  Entries <- AnyEntry
  Contents <- ShortTexts
  MaxChanges = 1
INVARIANTS
  UntrustedIs401
CHECK_DEADLOCK FALSE
