SPECIFICATION Spec
CONSTANTS
    NUM_OF_ALLOCSIZE = 3
    NUM_OF_PAGES = 16
    Image = {0, 1, 2, 3, 4, 5}
    Initial = {5}
    Panicmem = {6}
    Requests = {1, 2, 3, 4, 6, 7}
INVARIANTS
    BlocksTile
    FreeLists
    LowersFirst
    Coalesced
    ClientsDisjoint
    NoCorruption
CHECK_DEADLOCK FALSE
