SPECIFICATION FairSpec
CONSTANTS
  Workers = {"a", "b"}
  Namings <- MCNamings
  Jobs = {j1, j2}
  Batch = 2
  Attempts = 2
  Manual = {"a"}
  Stoppable = {"a"}
  MaxLapses = 1
  MaxDeaths = 1
INVARIANTS
  StopHandsBack
  GoneMeansHandled
  HandledAlone
PROPERTIES
  ReleasesOwn
  EveryRecordSettled
  StopReturns
CHECK_DEADLOCK FALSE
