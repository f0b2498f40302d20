SPECIFICATION FairSpec
CONSTANTS
  Callers = {"a", "b", "c"}
  Names <- MCNamed
  MaxTtl = 2
  MaxCalls = 2
INVARIANTS
  Exclusive
PROPERTIES
  TrueMeansUnbroken
  ComesFree
CHECK_DEADLOCK FALSE
