SPECIFICATION FairSpec
CONSTANTS
  query <- Found
  User <- Me
  Scope <- AllApps
  SearchableTypes <- Searchable
  None = None
  NoRow = NoRow
  Ids = {1, 2, 3}
  Limits = {1, 2}
  Starts <- WalkStarts
  Writes <- RowsWritten
  MaxWrites = 1
  KeepsAll = FALSE
INVARIANTS
  SInv
  NoRowTwice
  NoRowMissed
PROPERTIES
  NothingHiddenShows
  EachSectionIsATraversal
  WalkEnds
CHECK_DEADLOCK FALSE
