SPECIFICATION Spec
CONSTANTS
  Callers = {"a", "b"}
  MaxTtl = 1
  MaxCalls = 2
INVARIANTS
  AnswersStand
  RacersAgree
  CountsOnce
CHECK_DEADLOCK FALSE
