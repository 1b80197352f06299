CONSTANTS
    KThreads = {}
    UProcs = {u1, u2}
    Sleepers = {main, u1}
    main_thread = main
    idle_thread = idle
    Locks = {L}
    pid_lock = P
    NULL = NULL
    Priority = 0
    MaxRepeat = 2
SPECIFICATION Spec
INVARIANTS TypeOK NoPanic MutualExclusion TagInOneList NoLostWakeup InterruptFlagRestored
PROPERTY LocksRefine
