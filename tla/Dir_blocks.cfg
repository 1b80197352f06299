CONSTANTS
    Names = {"a", "b", "c", "d", "e"}
    Direct = 2
    Indirect = 2
    SlotsPerSec = 3
    NBlocks = 9
    Calls = {"create", "unlink", "readdir"}
SPECIFICATION DirSpec
INVARIANTS EntriesExact DirBlocksExact
