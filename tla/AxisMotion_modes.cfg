SPECIFICATION Spec
CONSTANTS
    Axes = {a1}
    NoAxis = NoAxis
    InitialMode = "csp"
    Commands = {"enable", "disable", "stop", "move_abs", "move_vel", "jog_start",
                "jog_stop", "home", "mode", "manualCW", "restart"}
    MaySdoFail = TRUE
    MaxTrajectories = 0
INVARIANTS
  Consistent
  QuietAfterRestart
