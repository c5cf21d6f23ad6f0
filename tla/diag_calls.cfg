SPECIFICATION Spec
CONSTANTS
  Programs <- AllDiags
  MaxMissing = 1
  Rounds = 1
  Sends = 1
  Shards = 2
INVARIANTS
  TypeOK
  OwnUnlessAbandoned
  QueriesOutlasted
  NothingUnheard
PROPERTY Ends
CHECK_DEADLOCK FALSE
