SPECIFICATION Spec
CONSTANTS
    NUM_OF_PID = 2
    NUM_OF_MSGDSC = 1
    NUM_OF_MSGDSCRECV = 1
    Threads = {t1, t2}
    Names = {n1}
    NULL = NULL
    MaxDepth = 2
    MaxGen = 4
INVARIANTS
    RegistryLive
    CallsWhatWasOpened
    RunningCounts
    ExitedIsFreed
SYMMETRY Symmetry
CHECK_DEADLOCK FALSE
