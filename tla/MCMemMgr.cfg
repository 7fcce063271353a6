CONSTANTS
    Callers = {t1, t2}
    Blocks = {b1, b2, b3}
    NIL = NIL
    MEM_MGR_ALLOC_ALIGN = 4
    MEM_MGR_ALLOC_MIN_LIMIT = 4
    MEM_MGR_ALLOC_HEAD_LEN = 1
    MallocLens = {3, 4, 8}
    Aligns = {8}
    Limits = {2}
    MaxMalloc = 12
SPECIFICATION MemSpec
CHECK_DEADLOCK FALSE
SYMMETRY Symmetric
INVARIANTS
    BlocksSafe
    Accounted
    NothingHoarded
