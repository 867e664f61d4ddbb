SPECIFICATION Spec
CONSTANTS
  Callers = {c1, c2}
  MaxConnections = 2
  MaxRequests = 2
  MaxInbox = 1
  QueueSize = 1
INVARIANTS
  TableIsSound
  StopIsFinal
PROPERTIES
  RequestEnds
