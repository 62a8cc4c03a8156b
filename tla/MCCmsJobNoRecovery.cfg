CONSTANTS
  j1 = j1
  j2 = j2
  j3 = j3
  d1 = d1
  d2 = d2
  NoJob = NoJob
  Jobs = {j1, j2}
  Dbs = {d1}
  DbOf <- OneDb
  Composite = {}
  RecoverOnStartup = FALSE
  MaxCrashes = 1
  MaxIoFaults = 1
SPECIFICATION Spec
INVARIANTS WorkingJobVisible
PROPERTIES OvertakenOnlyUnsaved ImplementsLifecycle
