CONSTANTS
  c1 = c1
  c2 = c2
  c3 = c3
  u1 = u1
  u2 = u2
  s1 = s1
  s2 = s2
  d1 = d1
  d2 = d2
  p1 = p1
  m1 = m1
  NoCall = NoCall
  Calls = {c1, c2}
  Keys <- SomeKeys
  Users = {u1, u2}
  Servers = {s1, s2}
  FirstServer = s1
  Dbs = {d1, d2}
  Plans = {p1}
  Requests <- SomeRequests
  PlanLists <- SomeLists
  Moves = {m1}
SPECIFICATION FairSpec
INVARIANTS InOrder EntryWhileBusy
PROPERTIES EditsAreWhole EveryEditEnds
CHECK_DEADLOCK FALSE
