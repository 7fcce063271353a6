CONSTANTS
    Clients = {c1, c2}
    Owners = {c1, c2}
    Tasks = {t1, t2}
    Workers = {w1, w2}
    NULL = NULL
    SpuriousWakeups = FALSE
SPECIFICATION FairSpec
PROPERTY QueuedIsRun
CHECK_DEADLOCK FALSE
