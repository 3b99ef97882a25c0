CONSTANTS
  MaxMessages = 5
  RoomOf <- TwoRooms
  Mine = {3}
  IdOf <- InOrder
  Take = 2
  MaxActs = 3
  MaxFaults = 1
SPECIFICATION FairSpec
INVARIANTS TypeOK ListShows PanelShows FollowsRoom
PROPERTY EndsLoaded
CHECK_DEADLOCK FALSE
