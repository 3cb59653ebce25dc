SPECIFICATION Spec
CONSTANTS
  Ports = {1, 2, 3}
  Queues = {1, 3}
  Sizes = {1, 2}
  BufferSize = 10
  Reserve = 1
  ResumeOffset = 1
  Headroom <- MCHeadroom
  Divisor <- MCDivisor
  Route <- MCIncast
  Class <- MCClass
  Fragile = {3}
  MaxControl = 1
  MaxWaiting = 1
INVARIANTS
  CountersMatchQueues
  PfcAlternates
  PfcTellsPaused
PROPERTIES
  ImplementsMmu
  TurnComesCloser
CHECK_DEADLOCK FALSE
