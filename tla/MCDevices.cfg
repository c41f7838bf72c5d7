CONSTANTS
    p1 = p1
    p2 = p2
    Procs = {p1, p2}
    MaxVfs = 2
    MaxDev = 2
    Setups <- SetupsUsed
    NDevices = 1
    Size = 2
    Lens = {1, 4}
    KBD_BUF_SIZE = 2
    BIG_BUF_SIZE = 2
    Escape = 2
    MaxLeaked = 1
    NULL = NULL
SPECIFICATION Spec
SYMMETRY Symmetry
CHECK_DEADLOCK FALSE
INVARIANTS
    HandlesShared
    KeysInOrder
    TtyReaderWoken
