CONSTANTS
    Clients = {c1, c2}
    Owners = {c1, c2}
    Tasks = {t1, t2, t3}
    Workers = {w1, w2}
    NULL = NULL
    SpuriousWakeups = FALSE
SPECIFICATION Spec
INVARIANTS
    TasksSafe
    AsleepOnlyIfMissed
PROPERTY ImplementsTaskService
CHECK_DEADLOCK FALSE
