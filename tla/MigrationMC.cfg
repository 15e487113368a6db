SPECIFICATION Spec
CONSTANTS
  TrigramIndexes <- TRIGRAM_INDEXES
INVARIANTS
  MInv
  SchemaFollowsRevision
  HeadMeansIndexed
