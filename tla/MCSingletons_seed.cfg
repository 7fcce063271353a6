CONSTANTS
    Threads = {t1, t2}
    Names = {n1, n2}
    Listeners = {l1, l2}
    NULL = NULL
    CallbacksReenter = TRUE
    Users = {u1, u2}
    StoresReordered = TRUE
    N = 3
    M = 2
    Seeds = {s1, s2}
    DefaultSeed = d
    MaxAt = 8
    W = 8
SPECIFICATION ClsSpec
CHECK_DEADLOCK FALSE
INVARIANT SeedTakesEffect
