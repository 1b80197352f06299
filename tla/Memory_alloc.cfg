CONSTANTS
    KThreads = {k1}
    Procs = {p1, p2}
    KOps = {"get_kernel_pages", "mfree_page", "sys_malloc", "sys_free"}
    UOps = {"get_a_page", "sys_malloc"}
    ByteBits = 3
    KBytes = 1
    UBytes = 1
    VBytes = 1
    TablePages = 4
    PG_SIZE = 4
    KCnts = {2}
    UCnts = {1}
    KOwned = 2
    UOwned = 1
    NULL = NULL
SPECIFICATION Spec
INVARIANTS FramesExclusiveAlone FramesAccounted PagesAccounted ScanIsFirstFit
SYMMETRY Symmetry
CHECK_DEADLOCK FALSE
