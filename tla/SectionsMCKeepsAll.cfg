SPECIFICATION Spec
CONSTANTS
  query <- Found
  User <- Me
  Scope <- AllApps
  SearchableTypes <- Searchable
  None = None
  NoRow = NoRow
  Ids = {1, 2, 3}
  Limits = {1, 2}
  Starts <- WalkStarts
  Writes <- RowsWritten
  MaxWrites = 0
  KeepsAll = TRUE
INVARIANTS
  NoRowTwice
CHECK_DEADLOCK FALSE
