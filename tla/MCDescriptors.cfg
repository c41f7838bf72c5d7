CONSTANTS
    NULL = NULL
    FILE = FILE
    NoThread = NoThread
    Procs = {1, 2}
    Tids = {0, 1}
    MAX_FILE_HANDLES = 2
    MaxFds = 5
    MaxPipes = 1
    Counts = {1, 2}
    MaxBytes = 3
    PageBytes = 2
    MaxEvent = 0
    MaxLeaked = 0
    Programs <- ProgramsUsed
    Races = FALSE
SPECIFICATION Spec
CHECK_DEADLOCK FALSE
INVARIANTS
    NothingMissing
    HandlesExact
    CountsExact
    ReaderWoken
    BytesInOrder
    ExitNotStuck
