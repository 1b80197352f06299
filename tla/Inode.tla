------------------------------- MODULE Inode --------------------------------
(* What the modules on file.c and dir.c have in common: inodes, whose last *)
(* sector is a table of more, the bitmap of blocks, and the disk.          *)
EXTENDS Debug

CONSTANTS
    Direct,         \* blocks in the inode, 12
    Indirect,       \* blocks in the indirect table, 128
    NBlocks         \* bound on the blocks of the partition

VARIABLES
    i_size,
    i_sectors,      \* i_sectors[Direct] is the table
    used,           \* block_bitmap
    disk
=============================================================================
