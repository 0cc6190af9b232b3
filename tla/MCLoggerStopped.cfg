SPECIFICATION Spec
CONSTANTS
  Columns = 1
  Samples = 3
  TRANSACTIONTIME = 2
  SamplesPerSecond = 1
  GpsRetry = 1
  GarbageTimes <- MCGarbage
  MaxStarts = 1
  MaxDisturbances = 0
PROPERTY StoppedTripStays
CHECK_DEADLOCK FALSE
