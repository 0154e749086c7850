SPECIFICATION FairSpec
CONSTANTS
    NumCpus = 2
    MAXNUM_OF_THREADS = 4
    Heap = {s1, s2}
    BootStack <- MCBootStack
    NULL = NULL
    Pids = {0}
    Builds = {FALSE}
    b0 = b0
    b1 = b1
PROPERTY
    ReadyThreadRuns
CHECK_DEADLOCK FALSE
