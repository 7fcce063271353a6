CONSTANTS
    Clients = {c1}
    Owners = {c1}
    Tasks = {t1, t2, t3}
    Workers = {w1, w2}
    NULL = NULL
    SpuriousWakeups = TRUE
SPECIFICATION Spec
INVARIANT SetTaskAccepted
CHECK_DEADLOCK FALSE
