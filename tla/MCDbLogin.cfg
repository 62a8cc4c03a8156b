CONSTANTS
  l1 = l1
  l2 = l2
  h1 = h1
  h2 = h2
  o1 = o1
  o2 = o2
  f1 = f1
  s1 = s1
  c1 = c1
  c2 = c2
  dba = dba
  public = public
  FirstToken = FirstToken
  None = None
  Logins = {l1}
  HostLogins = {h1, h2}
  Logouts = {o1}
  Forgets = {f1}
  Saves = {s1}
  Checks = {c1}
  DbUsers = {dba}
SPECIFICATION FairSpec
INVARIANTS ActiveMeansLoggedIn LogoutWins MarkKept
PROPERTY EveryCheckEnds
CHECK_DEADLOCK FALSE
