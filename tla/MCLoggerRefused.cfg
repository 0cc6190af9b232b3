SPECIFICATION Spec
CONSTANTS
  Columns = 1
  Samples = 1
  TRANSACTIONTIME = 2
  SamplesPerSecond = 1
  GpsRetry = 1
  GarbageTimes <- MCGarbage
  MaxStarts = 1
  MaxDisturbances = 2
PROPERTY RefusalNotFatal
CHECK_DEADLOCK FALSE
