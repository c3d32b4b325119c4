\* The page polling the document while its user switches tabs and timers.
CONSTANTS
  f1 = f1
  f2 = f2
  i1 = i1
  i2 = i2
  Fetches <- MCFetches
  Timers <- MCTimers
  MaxDocs = 2
  MaxPending = 2
SPECIFICATION FairSpec
INVARIANTS
  TypeOK
  ScreenIsOneDocument
  OneTimerIfChecked
PROPERTIES
  CatchesUp
