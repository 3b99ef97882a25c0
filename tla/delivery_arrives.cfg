CONSTANTS
  m1 = m1
  m2 = m2
  i1 = i1
  i2 = i2
  Sends = {m1, m2}
  Clients = {1, 2}
  Instances = {i1}
  HostOf <- AllHere
  AuthorOf <- FirstSendsAll
  ContentOf <- Repeated
  NoWork = NoWork
  Attempts = 2
  Concurrency = 2
  MaxStalls = 1
  Early = TRUE
  MaxFaults = 1
  MaxCrashes = 1
  MaxDeletes = 1
SPECIFICATION FairSpec
INVARIANT NothingDeleted
PROPERTIES Arrives KeepsPromise
CHECK_DEADLOCK FALSE
