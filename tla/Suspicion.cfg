\* DefaultWANConfig: SuspicionMult = 6 (k = 4) and SuspicionMaxTimeoutMult = 6.
CONSTANTS
    n1 = n1
    p1 = p1
    p2 = p2
    p3 = p3
    p4 = p4
    p5 = p5
    p6 = p6
    Nodes = {n1}
    Peers = {p1, p2, p3, p4, p5, p6}
    K = 4
    Log <- MCLog
    Min = 2
    MaxMult = 6
    MaxEpoch = 3
SPECIFICATION Spec
INVARIANTS TypeOK FiredIsCurrent NoExpiryBeforeMin
PROPERTIES ConfirmationShortens SuspicionsEnd StopAsleepReturns
CHECK_DEADLOCK FALSE
