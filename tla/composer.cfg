CONSTANTS
  Rooms <- TwoRooms
  MaxActs = 5
  MaxFaults = 2
SPECIFICATION FairSpec
INVARIANTS SentOnce SentIsStored
PROPERTIES ClearsSent SendEnds
CHECK_DEADLOCK FALSE
