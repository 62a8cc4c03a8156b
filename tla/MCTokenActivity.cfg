CONSTANTS
  l1 = l1
  l2 = l2
  r1 = r1
  r2 = r2
  r3 = r3
  d1 = d1
  d2 = d2
  m1 = m1
  s1 = s1
  s2 = s2
  NoToken = NoToken
  Logins = {l1}
  Requests = {r1, r2}
  Disconnects = {d1}
  Moves = {m1}
  Servers = {s1, s2}
  FirstServer = s1
  CmsActive = 2
  DefaultActive = 3
  Retention = 1
  MaxTime = 4
  MaxRestarts = 1
SPECIFICATION Spec
INVARIANTS ClosedStaysClosed NeverShownTooLong RejectedStaysRejected
SYMMETRY ActivitySymmetry
CHECK_DEADLOCK FALSE
