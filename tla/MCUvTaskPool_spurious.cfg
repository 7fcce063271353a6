CONSTANTS
    Clients = {c1, c2}
    Owners = {c1, c2}
    Tasks = {t1, t2, t3}
    Workers = {w1, w2, w3}
    NULL = NULL
    SpuriousWakeups = TRUE
SPECIFICATION Spec
SYMMETRY Symmetric
INVARIANT RunsOnce
CHECK_DEADLOCK FALSE
