SPECIFICATION Spec
CONSTANTS
  W32 = 1
  W64 = 2
  W128 = 3
  NESTING = 5
  NANOS_PER_SECOND = 100
  FRACTION = 2
  UnitNanos <- SmallUnits
  Specials <- Words
  NAN <- NotANumber
  Wholes <- SmallWholes
  ACCESS_PATHS = 9
  Depth = 2
  Atoms <- Edges
  Others <- SomeIds
  MaxCalls = 2
  ACTS <- Acts
  STATES <- Seals
  CUSTODIES <- Keepers
  NANOS = 10
  Instants <- Era
  Periods <- Era
  Years <- Era
INVARIANTS
  ValueReadsBack
  IdsInOrder
  OutcomesApart
  SurfacesAgree
  OutcomesAgree
  HandlesCarry
  VaultSpeaks
  ReadsAsBuilt
CHECK_DEADLOCK FALSE
