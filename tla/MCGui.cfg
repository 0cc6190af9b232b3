SPECIFICATION GuiFairSpec
CONSTANTS
  Columns = 1
  Samples = 1
  TRANSACTIONTIME = 1
  SamplesPerSecond = 1
  GpsRetry = 1
  GarbageTimes <- MCGarbage
  MaxStarts = 2
  MaxDisturbances = 3
  PipeSize = 1
  LineBuf = 2
INVARIANTS GuiTypeOK NoLoggerLeftBehind
PROPERTIES StaysALogger StopReturns WindowReads
CHECK_DEADLOCK FALSE
