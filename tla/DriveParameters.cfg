SPECIFICATION Spec
CONSTANTS
  Axes <- TwoAxes
  Values = {3}
  DefaultExp = 1
  FallbackLimit = 4
  VelocityMapped = TRUE
  RawObjects = {"exp", "vel"}
  MaxRequests = 2
  MaxLosses = 1
INVARIANTS
  CacheTellsTheTruth
  SuccessIsReal
  ServerAgrees
PROPERTIES
  ParametersAreKept
CHECK_DEADLOCK FALSE
