CONSTANTS
  m1 = m1
  m2 = m2
  i1 = i1
  i2 = i2
  Sends = {m1, m2}
  Clients = {1, 2, 3}
  Instances = {i1, i2}
  HostOf <- LastAway
  AuthorOf <- FirstSendsAll
  ContentOf <- Different
  NoWork = NoWork
  Attempts = 2
  Concurrency = 1
  MaxStalls = 1
  Early = TRUE
  MaxFaults = 1
  MaxCrashes = 1
  MaxDeletes = 0
SPECIFICATION Spec
INVARIANTS TypeOK Stored NothingMissed NothingTwice AnswersFollow
CHECK_DEADLOCK FALSE
