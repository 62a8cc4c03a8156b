CONSTANTS
  c1 = c1
  c2 = c2
  c3 = c3
  h1 = h1
  h2 = h2
  g1 = g1
  n1 = n1
  n2 = n2
  n3 = n3
  a1 = a1
  a2 = a2
  a3 = a3
  p1 = p1
  p2 = p2
  f1 = f1
  Calls = {c1, c2, c3}
  OldHosts = {h1, h2}
  OldGroups = {g1}
  Ungrouped = Ungrouped
  NoHost = NoHost
  NoGroup = NoGroup
  Keep = Keep
  Conns = {n1, n2, n3}
  Aliases = {a1, a2, a3}
  Passwords = {p1, p2}
  Fields = {f1}
  MaxHosts = 2
  Requests <- SomeRequests
  Absent = Absent
  Torn = Torn
  StartAccounts <- SomeAccounts
  NoCall = NoCall
  Orphan = Orphan
  MaxCrashes = 1
SPECIFICATION FairSpec
INVARIANT TypeOK
PROPERTIES StoredHostsInOrder AtomicUpdates DeletedWithItsPassword LockComesFree
CHECK_DEADLOCK FALSE
