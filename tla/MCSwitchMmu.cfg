SPECIFICATION Spec
CONSTANTS
  Ports = {1, 2}
  Queues = {1, 3}
  Sizes = {1, 3}
  BufferSize = 16
  Reserve = 2
  ResumeOffset = 2
  Headroom <- MCHeadroom
  Divisor <- MCDivisor
INVARIANTS
  TypeOK
  BytesConserved
  SharedPoolAccounted
  PoolNotOverdrawn
  PausedHoldsBytes
  DropOnlyWhenPaused
  WithinBuffer
