SPECIFICATION TimeSpec
CONSTANTS
    CPUs = {0, 1}
    BSP = 0
    MAXTIME = 5
INVARIANT TscNotBehind
PROPERTIES
    BehindOnlyBySkew
    StartsAtTimeOfBsp
