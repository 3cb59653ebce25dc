SPECIFICATION Spec
CONSTANTS
  InPorts = {1, 2}
  Flows = {1, 2}
  NoFlow = 0
  InPort <- MCInPort
  FiveTupleHash <- MCHash
  Depths = {1}
  epochTime = 5
  Wrap = 18
  MaxTime = 20
  MaxPackets = 3
INVARIANTS
  FlowEntriesExact
  PortEntriesExact
  MeterCovers
CHECK_DEADLOCK FALSE
