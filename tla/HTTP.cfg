SPECIFICATION Spec
CONSTANTS
  Threads = {t1, t2}
  Enders = {t1}
  MayLose = TRUE
  StartsOpen = TRUE
  MaxTokens = 3
  MaxLapses = 2
  MaxCalls = 2
INVARIANTS
  AppendedOnce
  LapseUnseenAlone
  PasswordSpentOnceAlone
  NoTokenLeftBehind
CHECK_DEADLOCK FALSE
