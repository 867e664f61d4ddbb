SPECIFICATION FairAuthoritySpec
CONSTANTS
    Conns = {c1, c2}
    NoConn = NoConn
    MaxId = 3
    MaxChunk = 2
INVARIANTS
  IdInv
PROPERTIES
  ImplementsLock
  GoneOwnerIsReleased
