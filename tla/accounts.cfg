CONSTANTS
  t1 = t1
  b1 = b1
  Tabs = {t1}
  Browsers = {b1}
  Emails = {alice, bob}
  Passwords = {p, q}
  BrowserOf <- OneBrowser
  Requests = {q1, q2}
  TabOf <- OneTab
  Nobody = Nobody
  MaxActs = 5
  MaxFaults = 1
SPECIFICATION FairSpec
INVARIANTS TypeOK NoOrphan SocketAgrees RefusedForGood
PROPERTIES NeverTakenOver Loads
CHECK_DEADLOCK FALSE
