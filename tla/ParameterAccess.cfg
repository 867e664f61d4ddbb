SPECIFICATION Spec
CONSTANTS
  Device <- MCDevice
  TypeSize <- MCTypeSize
  Base = 2
  Requests <- MCRequests
  Expert = FALSE
  MaxRequests = 3
  MaxFaults = 1
INVARIANTS
  TransferIsAsked
  AnswerIsReal
  CacheIsHonest
PROPERTIES
  RequestEnds
CHECK_DEADLOCK FALSE
