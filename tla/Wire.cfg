SPECIFICATION Spec
CONSTANTS
  HasUser = TRUE
  Minors = {1, 6}
  CEILING = 3
  Bodies <- MCBodies
  MaxCalls = 3
  MaxInterrupts = 1
INVARIANTS
  Paired
  NamedForWhatItSent
  PresentedOnce
CHECK_DEADLOCK FALSE
