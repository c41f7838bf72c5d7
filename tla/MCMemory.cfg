CONSTANTS
    PerUse = 3
    PAGE_SIZE = 2
    s1 = s1
    s2 = s2
    Spaces = {s1, s2}
    Levels = 3
    Ranges <- MCRanges
    Guards <- MCGuards
    STRUCT = 1
    POOL = 2
    Sizes = {1, 2, 3}
    MaxBlocks = 1
    NULL = NULL
SPECIFICATION Spec
SYMMETRY Symmetry
CHECK_DEADLOCK FALSE
INVARIANTS
    Accounted
