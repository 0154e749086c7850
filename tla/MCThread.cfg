SPECIFICATION Spec
CONSTANTS
    NumCpus = 2
    MAXNUM_OF_THREADS = 4
    Heap = {s1, s2}
    BootStack <- MCBootStack
    NULL = NULL
    Pids = {0, 1}
    Builds = {FALSE, TRUE}
    b0 = b0
    b1 = b1
INVARIANTS
    TypeOK
    OneOwner
    ExitNeverReturns
    NoBadState
    StackSafety
    ContextFollowsThread
    OneCpuRunsThreads
SYMMETRY Symmetry
CHECK_DEADLOCK FALSE
