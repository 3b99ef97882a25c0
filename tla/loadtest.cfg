CONSTANTS
  Number = 3
  BatchSize = 2
  RoomNames = 2
  PerClient = 1
  MaxDrops = 1
SPECIFICATION FairSpec
INVARIANTS Accounted NothingLeft
PROPERTY Ends
CHECK_DEADLOCK FALSE
