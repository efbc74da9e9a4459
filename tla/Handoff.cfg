SPECIFICATION Spec
CONSTANTS
    Types = {"suspect"}
    HandoffQueueDepth = 2
    PipeCapacity = 6
    MaxBurst = 3
    MaxReceived = 6
CHECK_DEADLOCK FALSE
INVARIANTS
    TypeOK
    WakeupPerMessage
PROPERTIES
    EverythingHandled
    ThreadsExit
