CONSTANTS
  MaxRooms = 4
  Matching = {1, 2, 4}
  Limit = 2
  MaxActs = 5
  MaxFaults = 1
SPECIFICATION DialogFairSpec
INVARIANTS NoDuplicates ShowsAll
PROPERTY SpinnerEnds
CHECK_DEADLOCK FALSE
