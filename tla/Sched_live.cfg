CONSTANTS
    KThreads = {k1}
    UProcs = {}
    Sleepers = {main, k1}
    main_thread = main
    idle_thread = idle
    Locks = {L}
    pid_lock = P
    NULL = NULL
    Priority = 1
    MaxRepeat = 1
SPECIFICATION FairSpec
PROPERTIES ReadyRuns WaiterWoken
