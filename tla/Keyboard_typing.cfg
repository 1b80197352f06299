CONSTANTS
    Consumers = {c1, c2}
    Producers = {p1}
    Chars <- MCChars
    TaskChars <- MCTaskChars
    bufsize = 3
    NULL = NULL
    Boards <- MCBoards
    MaxDown = 2
SPECIFICATION KSpec
INVARIANTS SleeperKnown NoStuckKeys
PROPERTY FifoRefined
SYMMETRY Symmetry
