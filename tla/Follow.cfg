SPECIFICATION FairSpec
CONSTANTS
  Nodes = {n1, n2, n3}
  Home = n1
  Plain = {prod}
  Odd = {quoted}
  NoTenancy = none
  HasUser = TRUE
  Unsendable = TRUE
  MaxEpoch = 1
  MaxExecutes = 2
INVARIANTS
  EpochsForward
  SentAsAtHome
  NoLeakedSocket
PROPERTIES
  MovesWhole
  ExecuteEnds
CHECK_DEADLOCK FALSE
