CONSTANTS
  a1 = a1
  a2 = a2
  b1 = b1
  c1 = c1
  alice = alice
  bob = bob
  carol = carol
  i1 = i1
  i2 = i2
  r1 = r1
  r2 = r2
  Sockets = {a1, a2, b1}
  Rooms = {r1}
  Users = {alice, bob, carol}
  Instances = {i1}
  UserOf <- UsersOfTabs
  HostOf <- OneHost
  NoRoom = NoRoom
  Polite = TRUE
  Patient = TRUE
  Abrupt = FALSE
  Readers = {}
  Mortal = {}
  Expiry = FALSE
  MaxEvents = 4
SPECIFICATION FairSpec
INVARIANT ListConverges
PROPERTY Forgotten
CHECK_DEADLOCK FALSE
