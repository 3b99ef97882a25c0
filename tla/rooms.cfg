CONSTANTS
  MaxRooms = 3
  Limit = 1
  IdOf <- InOrder
  Matching = {1, 3}
  SameInstance = TRUE
  MaxActs = 3
  MaxPosts = 1
  MaxFaults = 1
SPECIFICATION Spec
INVARIANTS TypeOK NoDuplicates ListHeals BadgeHeals MemberHasMark
CHECK_DEADLOCK FALSE
