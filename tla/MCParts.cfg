SPECIFICATION PartsSpec
CONSTANTS
  Clients <- MCClients
  Scripts <- MCScripts
  Bursts <- MCBursts
  BufSize = 5
  Writes = 2
  Echo = TRUE
  Rates <- MCRates
  PortRates <- MCPortRates
  Guesses <- MCGuesses
  Speeds <- MCSpeeds
  Requests <- MCRequests
  Targets <- MCTargets
  Bridges = {"a", "b"}
  Mine = "a"
  RequestSize = 2
  ReplySize = 3
  PtySize = 3
  MaxAsked = 2
  NoEnd <- MCMinusOne
  NoTrip <- MCMinusOne
  Unfiled = 0
  UnreliableStarts = {}
  Tools <- MCTools
  Times <- MCTimes
  Logs <- MCLogs
  MaxTrips = 2
  MaxPublish = 1
INVARIANTS
  PartsTypeOK LinesAreRight RatesAgree FileNamesABridge RepliesComeWhole CsvRight GpxRight KmlRight
PROPERTIES
  PoliteAreAnswered OpeningEnds RequestsAreAnswered
CHECK_DEADLOCK FALSE
