SPECIFICATION Spec
CONSTANTS
  Nodes = {n1, n2, n3}
  Home = n1
  Plain = {prod}
  Odd = {quoted}
  NoTenancy = none
  HasUser = TRUE
  Unsendable = TRUE
  MaxEpoch = 1
  MaxExecutes = 2
INVARIANTS
  SpentMeansPresented
CHECK_DEADLOCK FALSE
