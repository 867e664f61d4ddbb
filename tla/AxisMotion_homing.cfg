SPECIFICATION Spec
CONSTANTS
    Axes = {a1, a2}
    NoAxis = NoAxis
    InitialMode = "csp"
    Commands = {"home", "stop", "disable", "restart"}
    MaySdoFail = FALSE
    MaxTrajectories = 0
SYMMETRY AxisSymmetry
INVARIANTS
  CompletionIsFresh
  Consistent
