SPECIFICATION Spec
CONSTANTS
    m1 = m1
    m2 = m2
    m3 = m3
    a1 = a1
    a2 = a2
    Receiver = Receiver
    Members = {m1, m2}
    Addrs = {a1}
    SuspicionMult = 2
    Reclaim = TRUE
    MaxInc <- TwiceM1
    MaxStarts <- Once
    Updaters = {m1}
    Leavers = {m1}
    Probers = {m2}
    Pushers = {m1}
CHECK_DEADLOCK FALSE
INVARIANT
    LeaveTakesEffect
