SPECIFICATION FairSpec
CONSTANTS
  Cars <- MCCars
  Wishlist = {1, 2, 3}
  Named = {1, 3}
  PidsPerMap = 2
  LastGuess = 3
  MaxRounds = 2
  MaxRefusals = 1
INVARIANTS TypeOK RowsOfTheirPids AgeBounded CapabilitiesRight
PROPERTY ReadingEnds
CHECK_DEADLOCK FALSE
