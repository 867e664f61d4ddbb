SPECIFICATION Spec
CONSTANTS
  Endpoints = {"e1", "e2"}
  Configured = "e1"
  CountOf <- MCCountOf
  PvAxes = {2}
  NoEnd = "none"
  MaxClicks = 3
  MaxFaults = 1
INVARIANTS
  PanelIsSound
  MotionIsAttended
PROPERTIES
  ConnectsAgain
CHECK_DEADLOCK FALSE
