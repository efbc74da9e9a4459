\* Two of the three periodic timers (PushPullInterval = 0), two attempts of Join.
CONSTANTS
    Tickers = {"probe", "gossip"}
    JoinTries = 2
SPECIFICATION Spec
INVARIANTS TypeOK QuietWhenFreed ClosedOnce ToldToStopFirst
PROPERTIES ShutDownReturns ListenersStop LeaveReturns
CHECK_DEADLOCK FALSE
