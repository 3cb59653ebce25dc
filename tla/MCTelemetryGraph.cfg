SPECIFICATION GraphSpec
CONSTANTS
    N = 3
    MaxPackets = 5
    MaxQueue = 2
    Entries <- MCEntries
    Names = {a, b}
CHECK_DEADLOCK FALSE
INVARIANTS
    QueuesInProportion
    HeavierFlowBlamed
