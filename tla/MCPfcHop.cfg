SPECIFICATION Spec
CONSTANTS
  Hop = 1
  Others = {2}
  Queue = 3
  Sizes = {1}
  Mtu = 1
  Delay = 3
  BufferSize = 21
  Reserve = 1
  ResumeOffset = 1
  Divisor <- MCDivisor
  MaxOther = 2
  MaxCorrupt = 1
INVARIANTS
  NoLoss
  PauseStateAgrees
  PauseHasAnEnd

  
