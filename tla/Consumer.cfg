SPECIFICATION FairSpec
CONSTANTS
  Members = {"a", "b", "c"}
  Messages = {1, 2}
  Batch = 2
  Manual = {"a"}
  Stoppable = {"a"}
  MaxLapses = 1
  MaxFails = 1
  MaxDeaths = 1
INVARIANTS
  AckedMeansHandled
  CrowdBounded
PROPERTIES
  EveryMessageAcked
CHECK_DEADLOCK FALSE
