CONSTANTS
    Files = {f, g}
    Nobody = Nobody
    BLOCK_SIZE = 2
    Direct = 1
    Indirect = 3
    NBlocks = 7
    Counts = {1, 2, 3}
    Limit = 5
    Word = 64
SPECIFICATION FileSpec
INVARIANTS ContentsExact BlocksExact ReadsBack
