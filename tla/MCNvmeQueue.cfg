SPECIFICATION FairSpec
CONSTANTS
    N = 3
    M = 3
    FETCH = 1
    MAXG = 3
    MAXH = 1
INVARIANTS
    CommandsOwnSlots
    AnsweredOnce
    DoorbellIsGuests
    GuestRingKept
PROPERTY
    EveryoneServed
