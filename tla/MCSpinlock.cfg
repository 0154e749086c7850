SPECIFICATION LocksSpec
CONSTANTS
    Cpus = {c1, c2, c3}
    WRAP = 4
    SIGN = 4
INVARIANTS
    MutualExclusion
    WriterAlone
PROPERTIES
    FirstComeFirstServed
    TicketIsServed
    ReaderGetsLock
