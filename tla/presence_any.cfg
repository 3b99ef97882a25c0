CONSTANTS
  a1 = a1
  a2 = a2
  b1 = b1
  c1 = c1
  alice = alice
  bob = bob
  carol = carol
  i1 = i1
  i2 = i2
  r1 = r1
  r2 = r2
  Sockets = {a1, b1}
  Rooms = {r1, r2}
  Users = {alice, bob, carol}
  Instances = {i1, i2}
  UserOf <- UsersOfTabs
  HostOf <- TwoHosts
  NoRoom = NoRoom
  Polite = FALSE
  Patient = TRUE
  Abrupt = TRUE
  Readers = {}
  Mortal = {i1}
  Expiry = TRUE
  MaxEvents = 3
SPECIFICATION Spec
INVARIANT SingleRoom
CHECK_DEADLOCK FALSE
