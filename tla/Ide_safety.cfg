CONSTANTS
    Tasks = {main, t1}
    main_thread = main
    Disks = {hda, hdb}
    Written = {hdb}
    MaxLba = 2
    Lbas = {0}
    Chunk = 2
    Cnts = {3}
    MaxCnt = 3
    TimeLimit = 3
    Sleep = 1
    NULL = NULL
SPECIFICATION FairSpec
INVARIANTS DoneOnce RightTransfer ReadIsAtomic
PROPERTY SleeperWoken
