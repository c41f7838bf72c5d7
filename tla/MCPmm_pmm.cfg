CONSTANTS
    PAGE_SIZE = 2
    BITMAP_BASE = 3
    PER_PAGE = 6
    FIRST = 1
    E820Maps <- Movable
    Requests = {0, 1, 2}
SPECIFICATION Spec
CHECK_DEADLOCK FALSE
INVARIANTS
    TypeOK
    OwnedOnce
    PagesAccounted
