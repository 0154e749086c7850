SPECIFICATION Spec
CONSTANTS
    Cpus = {c1, c2}
    SIGN = 4
    Handles = {h1, h2}
    None = None
    BUCKET = 2
    LAST = 2
    SPACE = 16
    PHYS = 8
    Ranges <- MCRanges
    Accesses <- MCAccesses
    NEST = 2
SYMMETRY Symmetry
INVARIANTS
    BucketsIndexHandles
    WalksSeeNoFreed
    MarkedIsSwept
    DeviceAskedFirst
