SPECIFICATION FairSpec
CONSTANTS
    Axes = {a1, a2}
    NoAxis = NoAxis
    InitialMode = "csp"
    Commands = {"enable", "disable", "stop", "trajectory", "trajectory_stop",
                "move_rel", "fault_reset", "restart"}
    MaySdoFail = FALSE
    MaxTrajectories = 2
INVARIANTS
  NothingResumes
PROPERTIES
  TrajectoryEnds
