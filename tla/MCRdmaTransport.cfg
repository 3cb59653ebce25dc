SPECIFICATION FairSpec
CONSTANTS
  Size = 8
  Mtu = 3
  Chunk = 4
  AckInterval = 1
  Windows = {0, 2, 5, 8}
  Wrap = 64
  MaxLoss = 2
  MaxOvertake = 1
  MaxFlight = 4
INVARIANTS
  NothingAckedUnsent
  NothingFollowsCompletion
PROPERTIES
  ImplementsDelivery
  NackBringsProgress
  Completes
CHECK_DEADLOCK FALSE
