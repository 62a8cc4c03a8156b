CONSTANTS
  r1 = r1
  r2 = r2
  r3 = r3
  a1 = a1
  a2 = a2
  d1 = d1
  Reads = {r1, r2}
  Acts = {a1}
  Dbs = {d1}
  None = None
  Emptied = Emptied
  NoAct = NoAct
  NoAnswer = NoAnswer
  MaxChanges = 1
  MaxCloses = 1
SPECIFICATION FairSpec
INVARIANTS ClosedShowsNothing
PROPERTIES ReadsNeverGoBack PadlocksNeverGoBack LatestReadShows FreshIsFresh SpinnerStops
CHECK_DEADLOCK FALSE
