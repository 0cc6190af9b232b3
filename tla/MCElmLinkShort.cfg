SPECIFICATION FairSpec
CONSTANTS
  Cars <- MCCars
  Wishlist = {1, 2, 3}
  Named = {1}
  PidsPerMap = 2
  LastGuess = 3
  MaxRounds = 1
  MaxRefusals = 0
PROPERTY ShortLinesHandled
CHECK_DEADLOCK FALSE
