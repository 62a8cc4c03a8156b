CONSTANTS
  t1 = t1
  t2 = t2
  t3 = t3
  t4 = t4
  r1 = r1
  r2 = r2
  r3 = r3
  r4 = r4
  NoToken = NoToken
  Purge = Purge
  Tokens = {t1, t2, t3}
  Early = {t1}
  Requests = {r1, r2}
  MaxFaults = 1
SPECIFICATION FairSpec
INVARIANTS TokenStaysGood ReuseIsNoticed FamilyRevoked
PROPERTIES ImplementsRotation ExpiredFilesGo
CHECK_DEADLOCK FALSE
