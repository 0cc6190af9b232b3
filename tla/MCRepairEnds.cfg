SPECIFICATION Spec
CONSTANTS
  Times = {100, 200, 300}
  RowTimes <- MCRowTimes
  MaxTrips = 2
  MaxRuns = 1
INVARIANT EndsAreFixed
CHECK_DEADLOCK FALSE
