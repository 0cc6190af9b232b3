SPECIFICATION Spec
CONSTANTS
  Times = {100, 200, 300}
  RowTimes <- MCRowTimes
  MaxTrips = 2
  MaxRuns = 2
INVARIANTS TypeOK NothingMisfiled RunCompletes
PROPERTY EndedTripsKept
CHECK_DEADLOCK FALSE
