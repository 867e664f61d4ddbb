SPECIFICATION FairSpec
CONSTANTS
    NAxes = 1
    MismatchThreshold = 2
INVARIANTS
  MismatchesAreDetected
  IndInv
PROPERTIES
  FaultsLatch
  ImplementsLifecycle
  RestartHappens
  LossIsNoticed
