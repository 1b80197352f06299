CONSTANTS
    Names = {a, b}
    NInodes = 3
    NBlocks = 3
    MAX_FILE_OPEN = 6
    MAX_FILES_OPEN_PER_PROC = 5
    MaxDepth = 2
    MaxRefs = 2
SPECIFICATION Spec
INVARIANT OneNamePerInode
SYMMETRY Symmetry
