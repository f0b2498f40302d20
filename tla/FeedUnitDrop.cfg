SPECIFICATION Spec
CONSTANTS
  Parts = {"a"}
  Narrowed = FALSE
  MaxCommits = 2
  MaxUnit = 2
  MaxWire = 2
  MaxDrops = 1
  MaxFails = 0
INVARIANTS
  NothingSkipped
CHECK_DEADLOCK FALSE
