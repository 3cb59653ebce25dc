SPECIFICATION Spec
CONSTANTS
  Ports = {36, 44, 52}
  Flows = {1, 2}
  Nobody = 0
  Slots = {0}
  EgressPort <- MCEgressPort
  Slot <- MCSlot
  EpochLength = 2
  Windows = 2
  TimerMod = 4
  PauseTime = 2
  Events = {254, 255}
  ResetEvent = 255
  ReadWindows = 1
  PollPorts = {36}
  MaxPackets = 3
INVARIANTS
  PauseNeverMissed
  PausesCounted
  ReadoutConsistent
  LockExplained
CHECK_DEADLOCK FALSE
