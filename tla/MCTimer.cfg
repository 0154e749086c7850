SPECIFICATION Spec
CONSTANTS
    Timers = {p1, p2, p3}
    Clients = {x1, x2, x3, x4}
    Intervals = {0, 1}
    NULL = NULL
    SKEW = 1
    WRAP = 10
    MaxTime = 3
INVARIANTS
    InOneList
    HeadDecides
    CalledOncePerArming
SYMMETRY Symmetry
CHECK_DEADLOCK FALSE
