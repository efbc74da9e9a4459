SPECIFICATION Spec
CONSTANTS
    Types = {"suspect"}
    HandoffQueueDepth = 8
    PipeCapacity = 2
    MaxBurst = 3
    MaxReceived = 6
CHECK_DEADLOCK FALSE
INVARIANT
    QueueTakesItsDepth
