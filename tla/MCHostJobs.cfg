CONSTANTS
  j1 = j1
  a1 = a1
  a2 = a2
  d1 = d1
  d2 = d2
  NoJob = NoJob
  NoAction = NoAction
  Jobs = {j1}
  Dbs = {d1, d2}
  DbOf <- DbOfD1
  Composite = {}
  RecoverOnStartup = FALSE
  MaxCrashes = 1
  MaxIoFaults = 0
  Actions = {a1}
  Requests <- SomeRequests
  HaDbs = {d2}
  HaModeOn = TRUE
  Autostart = {d1}
  Listed = {d1, d2}
SPECIFICATION HostSpec
INVARIANTS JobBesideActionOnlyInWindow
CHECK_DEADLOCK FALSE
