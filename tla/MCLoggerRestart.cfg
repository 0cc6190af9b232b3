SPECIFICATION Spec
CONSTANTS
  Columns = 2
  Samples = 2
  TRANSACTIONTIME = 2
  SamplesPerSecond = 1
  GpsRetry = 1
  GarbageTimes <- MCGarbage
  MaxStarts = 2
  MaxDisturbances = 2
INVARIANTS TypeOK RowsOfOneRound SavedOnExit CurrentTripIsNewest
PROPERTY KeepsJournal
CHECK_DEADLOCK FALSE
