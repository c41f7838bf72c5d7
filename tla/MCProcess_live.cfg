CONSTANTS
    NULL = NULL
    EMPTY = EMPTY
    PLACEHOLDER = PLACEHOLDER
    PROCESS = PROCESS
    MAX_PROCESSES = 5
    MAX_THREADS = 1
    Forkers = {1}
    Exiters = {2}
    Execvers = {}
    Waiters = {1, 3}
    Killers = {2}
    Victims = {3}
    MaxToken = 0
    Orphans = FALSE
    KillRaces = FALSE
SPECIFICATION FairSpec
CHECK_DEADLOCK FALSE
PROPERTIES
    ExitsEnd
    WaitsEnd
