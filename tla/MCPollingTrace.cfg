SPECIFICATION FairTraceSpec
CONSTANTS
  Ports <- MCPorts
  Host = "host"
  Peer <- MCPeer
  Flows = {"f1", "f2", "f3"}
  Agents = {"f1", "f2"}
  Path <- MCPath
  Times = {1, 3, 4, 16}
  Start = 20
  Gap = 2
  Interval = 12
  Wrap = 64
INVARIANTS
  OnlyDownstreamSeen
  TraceCovers
PROPERTIES
  TracesEnd

CHECK_DEADLOCK FALSE
