SPECIFICATION Spec
CONSTANTS
  Threads = {t1, t2}
  Enders = {}
  MayLose = FALSE
  StartsOpen = FALSE
  MaxTokens = 6
  MaxLapses = 1
  MaxCalls = 2
INVARIANTS
  LapseUnseen
CHECK_DEADLOCK FALSE
