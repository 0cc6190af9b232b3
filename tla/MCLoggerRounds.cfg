SPECIFICATION FairSpec
CONSTANTS
  Columns = 1
  Samples = 3
  TRANSACTIONTIME = 2
  SamplesPerSecond = 1
  GpsRetry = 1
  GarbageTimes <- MCGarbage
  MaxStarts = 1
  MaxDisturbances = 2
INVARIANT LossBounded
PROPERTY SignalsObeyed
CHECK_DEADLOCK FALSE
