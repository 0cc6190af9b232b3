SPECIFICATION MCSpec
CONSTANTS
  EcuCount = 3
  Delays = {50, 250}
  Coded = {1}
  MaxFrames = 2
  DefaultTimeout = 200
  Lines <- SimLines
  MaxCodes = 2
  MaxLines = 3
  MaxChanges = 3
INVARIANTS
  TypeOK FramesTellTheCodes CodesAreFrozen ServedFramesAreCurrent PromptInTime EarlyEcusAsked
PROPERTIES
  FrozenStaysFrozen LeavesWhenTold
CHECK_DEADLOCK FALSE
