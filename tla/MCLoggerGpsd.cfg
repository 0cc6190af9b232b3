SPECIFICATION FairSpec
CONSTANTS
  Columns = 1
  Samples = 2
  TRANSACTIONTIME = 2
  SamplesPerSecond = 1
  GpsRetry = 1
  GarbageTimes <- MCGarbage
  MaxStarts = 1
  MaxDisturbances = 2
PROPERTY ExitSignalObeyed
CHECK_DEADLOCK FALSE
