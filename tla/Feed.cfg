SPECIFICATION FairSpec
CONSTANTS
  Parts = {"a", "b"}
  Narrowed = TRUE
  MaxCommits = 2
  MaxUnit = 2
  MaxWire = 2
  MaxDrops = 3
  MaxFails = 1
INVARIANTS
  OnceInOrder
  OnlyMatching
  LossOnlyInsideUnit
PROPERTIES
  ResumeCatchesUp
  DeliversAll
CHECK_DEADLOCK FALSE
