CONSTANTS
    NULL = NULL
    EMPTY = EMPTY
    PLACEHOLDER = PLACEHOLDER
    PROCESS = PROCESS
    MAX_PROCESSES = 5
    MAX_THREADS = 2
    Forkers = {1, 2}
    Exiters = {1, 2}
    Execvers = {2}
    Waiters = {1, 2}
    Killers = {1}
    Victims = {3}
    MaxToken = 0
    Orphans = FALSE
    KillRaces = FALSE
SPECIFICATION Spec
CHECK_DEADLOCK FALSE
INVARIANTS
    NothingGone
    ChildEventsExact
    WakeupNotLost
    NoRequestForgotten
    PidsApart
