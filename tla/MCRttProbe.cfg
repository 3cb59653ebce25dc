SPECIFICATION Spec
CONSTANTS
    AbortTime = 2
    MaxAbort = 2
    MaxDelay = 5
    MaxFlight = 4
    MaxLost = 2
    MaxNack = 1
INVARIANTS
    RequestsAccountedFor
PROPERTIES
    MeasuredAgain
