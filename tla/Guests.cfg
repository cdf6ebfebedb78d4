SPECIFICATION FairSpec
CHECK_DEADLOCK FALSE
CONSTANTS
  w1 = w1
  w2 = w2
  Elements <- MCElements
  MaxGuest = 3
  MaxInstance = 3
  MaxPage = 2
INVARIANTS MapsInverse GuestsOfPage RequestsFindGuest
PROPERTY GuestsOwned
