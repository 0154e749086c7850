SPECIFICATION Spec
CONSTANTS
    PAGESIZE = 4
    MEMORY = 8
    numpages = 1
    numkeeps = 1
    Lengths = {1, 2, 4}
    Keeps <- MCKeeps
INVARIANT
    GivenBackIsFree
CHECK_DEADLOCK FALSE
