CONSTANTS
    ByteBits = 2
    PG_SIZE = 16
    Header = 3
    BlockSize <- MCBlockSize
    Bytes = 5
    Sizes = {2, 6, 13, 14}
    MaxLive = 5
    NULL = NULL
SPECIFICATION Spec
INVARIANTS BlocksApart FreeListExact ArenasExact
