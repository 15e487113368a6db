SPECIFICATION Spec
CONSTANTS
  Strangers = {"elsewhere"}
  Roles <- UserRoles
  Arrivals <- AllRequests
  Entries <- AnyEntry
  Contents <- ShortTexts
  MaxChanges = 1
INVARIANTS
  ScopeIsExact
  CursorsAreUsable
  TermIsLiteral
PROPERTIES
  StrangersDoNotMatter
  TrustBeforePermissions
  StrayCursorUnnoticed
CHECK_DEADLOCK FALSE
