CONSTANTS
  j1 = j1
  a1 = a1
  a2 = a2
  d1 = d1
  d2 = d2
  NoJob = NoJob
  NoAction = NoAction
  Jobs = {}
  Dbs = {d1, d2}
  DbOf <- NoDbOf
  Composite = {}
  RecoverOnStartup = FALSE
  MaxCrashes = 0
  MaxIoFaults = 0
  Actions = {a1, a2}
  Requests <- SomeRequests
  HaDbs = {d2}
  HaModeOn = TRUE
  Autostart = {d1}
  Listed = {d2}
SPECIFICATION HostFairSpec
INVARIANTS OneActionPerDatabase
PROPERTIES BulkHaStartOnlyStopped SingleResultHolds EveryHoldEnds
CHECK_DEADLOCK FALSE
