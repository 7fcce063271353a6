CONSTANTS
    Threads = {t1, t2}
    Names = {n1, n2}
    Listeners = {l1, l2}
    NULL = NULL
    CallbacksReenter = TRUE
    Users = {u1, u2}
    StoresReordered = TRUE
    N = 3
    M = 2
    Seeds = {s1, s2}
    DefaultSeed = d
    MaxAt = 8
    W = 8
    Buffers = {b1, b2}
    NoBuffer = NoBuffer
    Lens = {0, 1, 2, 5}
    MEM_BUFFER_DEFAULT_LEN = 2
    MaxLen = 8
    MAX_PER_LINE_LOG = 4
    PrefixLens = {0, 2}
    Texts = {1, 2, 3, 4, 5, 7, 8, 9, 15, 16, 17}
    MaxLevel = 12
    Makers = {m1, m2, m3}
    Depth = 3
SPECIFICATION MCSpec
CHECK_DEADLOCK FALSE
INVARIANTS
    ListenersSafe
    OneInstance
    StreamInOrder
    RandIntInRange
    WritesFit
    LinesWhole
    DirsMade
PROPERTY DispatchEnds
