SPECIFICATION Spec
CONSTANTS
  Targets = {1, 8}
  Velocities <- MCVelocities
  LimitPairs <- MCLimitPairs
  MaxPosition = 10
  MaxVelocity = 3
  Acceleration = 1
  HomingCycles = 4
  HandshakeCycles = 2
  MaxRequests = 6
INVARIANTS
  MoveIsTaken
  HomingIsCarriedOut
  DriveIsSafe
PROPERTIES
  MotionIsAllowed
