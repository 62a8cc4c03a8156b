CONSTANTS
  j1 = j1
  j2 = j2
  j3 = j3
  d1 = d1
  d2 = d2
  NoJob = NoJob
  Jobs = {j1, j2}
  Dbs = {d1}
  DbOf <- OneDb
  Composite = {}
  RecoverOnStartup = FALSE
  MaxCrashes = 0
  MaxIoFaults = 0
SPECIFICATION Spec
INVARIANTS OneJobPerDatabase
