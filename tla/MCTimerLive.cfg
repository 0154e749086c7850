SPECIFICATION FairSpec
CONSTANTS
    Timers = {p1, p2}
    Clients = {x1, x2}
    Intervals = {1, 2}
    NULL = NULL
    SKEW = 1
    WRAP = 10
    MaxTime = 4
PROPERTY
    SetTimerExpires
CHECK_DEADLOCK FALSE
