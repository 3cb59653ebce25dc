SPECIFICATION FairSpec
CONSTANTS
  Hosts = {"h1", "h2", "h3"}
  Switches = {"s1", "s2", "s3", "s4"}
  Links <- MCLinks
  Packets = {"p"}
  MaxFailures = 4
INVARIANTS
  TablesShortest
PROPERTIES
  LostOnlyIfCutOff
  PacketsEnd
CHECK_DEADLOCK FALSE
