CONSTANTS
    KThreads = {k1, k2}
    Procs = {}
    KOps = {"get_kernel_pages", "sys_malloc"}
    UOps = {}
    ByteBits = 2
    KBytes = 3
    UBytes = 1
    VBytes = 3
    TablePages = 2
    PG_SIZE = 4
    KCnts = {1, 2}
    UCnts = {1}
    KOwned = 1
    UOwned = 1
    NULL = NULL
SPECIFICATION Spec
INVARIANT FramesExclusive
