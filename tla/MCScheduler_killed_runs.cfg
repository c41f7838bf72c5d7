CONSTANTS
    m = m
    r = r
    u1 = u1
    u2 = u2
    e1 = e1
    e2 = e2
    NULL = NULL
    EMPTY = EMPTY
    PLACEHOLDER = PLACEHOLDER
    NoThread = NoThread
    NoEvent = NoEvent
    NoJob = NoJob
    Cpus = {0, 1}
    Threads = {m, r, u1}
    Procs = {0, 1}
    ProcOf <- ProcOf3
    Events = {e1}
    MAX_TASKS = 4
    MAX_THREADS = 2
    MaxEvent = 1
    Kmain = m
    Urm = r
    Victims = {u1}
    SelfKillers = {}
    Waiters <- Waiters1
    Migrates = FALSE
SPECIFICATION Spec
CHECK_DEADLOCK FALSE
INVARIANTS
    RunsOnlyLive
