------------------------------ MODULE FileData ------------------------------
(***************************************************************************)
(* The contents of files (fs/file.c, fs/inode.c): file_write appends and   *)
(* allocates blocks ahead, the first Direct ones in the inode, the others  *)
(* in one indirect table on disk; file_read collects the blocks again;     *)
(* inode_release gives them back.  A call is one step: only one task calls *)
(* them on a file.                                                         *)
(*                                                                         *)
(* Position p of file f always gets the byte <<f, p>>, so that a byte on   *)
(* disk says whose it is and where it belongs; <<Nobody, b>> is a number b *)
(* in an indirect table, or a zero.                                        *)
(***************************************************************************)
EXTENDS Integers, FiniteSets, FiniteSetsExt, Inode

CONSTANTS
    Files,
    Nobody,         \* no file
    BLOCK_SIZE,     \* 512 bytes
    Counts,         \* byte counts of the calls
    Limit,          \* bound on the size of a file
    Word            \* 2^32 (scaled), where uint32_t wraps

MaxBlocks == Direct + Indirect

ASSUME FileDataAssumption ==
    /\ Nobody \notin Files
    /\ {BLOCK_SIZE, Direct, Indirect, NBlocks, Word} \subseteq Nat \ {0}
    /\ Counts \subseteq Nat /\ Limit \in Nat /\ Word > BLOCK_SIZE * MaxBlocks

VARIABLE fd_pos

fileVars == <<i_size, i_sectors, fd_pos, used, disk, kernel>>

Blocks == 0..NBlocks        \* block 0 is the root directory
Empty  == [i \in 0..(BLOCK_SIZE - 1) |-> <<Nobody, 0>>]

wrap(x) == x % Word

(* inode_init, for files that exist and are empty *)
FileInit ==
    /\ i_size = [f \in Files |-> 0]
    /\ i_sectors = [f \in Files |-> [i \in 0..Direct |-> 0]]
    /\ fd_pos = [f \in Files |-> 0]
    /\ used = {0}
    /\ disk = [b \in Blocks |-> Empty]
    /\ kernel = "up"

panic == kernel' = "panic" /\ UNCHANGED <<i_size, i_sectors, fd_pos, used, disk>>

-----------------------------------------------------------------------------
(* block_bitmap_alloc, called k times: each takes the first clear bit *)
block_bitmap_alloc(k) ==
    CHOOSE b \in Blocks \ used : Cardinality({c \in Blocks \ used : c < b}) = k - 1

(* i_size / BLOCK_SIZE + 1 *)
UsedBlocks(size) == size \div BLOCK_SIZE + 1

(* The blocks that file_write takes: one for a file's first byte, one for  *)
(* the indirect table when the direct blocks no longer do, and one for     *)
(* each further block; the first two before the others.                    *)
First(f)     == i_sectors[f][0] = 0
Tabled(f, n) == UsedBlocks(i_size[f]) <= Direct /\ UsedBlocks(i_size[f] + n) > Direct
Ahead(f, n)  == (IF First(f) THEN 1 ELSE 0) + (IF Tabled(f, n) THEN 1 ELSE 0)
Taken(f, n)  == Ahead(f, n) + UsedBlocks(i_size[f] + n) - UsedBlocks(i_size[f])

(* What file_write has in i_sectors and all_blocks once it has allocated *)
Alloc(f, n) ==
    LET has    == UsedBlocks(i_size[f])
        will   == UsedBlocks(i_size[f] + n)
        new(i) == block_bitmap_alloc(Ahead(f, n) + i - has + 1)
        sects  == [i \in 0..Direct |->
                      IF i = 0 /\ First(f) THEN block_bitmap_alloc(1)
                      ELSE IF i = Direct /\ Tabled(f, n) THEN block_bitmap_alloc(Ahead(f, n))
                      ELSE IF i \in has..(will - 1) /\ i < Direct THEN new(i)
                      ELSE i_sectors[f][i]]
        blocks == [i \in 0..(MaxBlocks - 1) |->
                      IF i \in has..(will - 1) THEN new(i)
                      ELSE IF i = has - 1 /\ i < Direct THEN sects[i]
                      ELSE IF i >= Direct /\ has > Direct THEN disk[sects[Direct]][i - Direct][2]
                      ELSE 0]
    IN  [taken  |-> {block_bitmap_alloc(k) : k \in 1..Taken(f, n)},
         sects  |-> sects,
         blocks |-> blocks,
         table  |-> IF will > has /\ will > Direct THEN sects[Direct] ELSE 0]

(* The ASSERTs of file_write, and the one of bitmap_scan on a full bitmap *)
WriteAsserts(f, n) ==
    LET has  == UsedBlocks(i_size[f])
        will == UsedBlocks(i_size[f] + n)
    IN  /\ will <= MaxBlocks
        /\ Taken(f, n) <= Cardinality(Blocks \ used)
        /\ \A i \in has..(will - 1) : i < Direct => i_sectors[f][i] = 0
        /\ Tabled(f, n) => i_sectors[f][Direct] = 0
        /\ will > Direct /\ ~Tabled(f, n) => i_sectors[f][Direct] # 0

(* Mutant: the first sector is not read before it is changed. *)
disk_after_blank(f, n, a) ==
    LET size  == i_size[f]
        At(s) == [i \in 0..(BLOCK_SIZE - 1) |->
                     IF s * BLOCK_SIZE + i \in size..(size + n - 1) THEN <<f, s * BLOCK_SIZE + i>>
                     ELSE <<Nobody, 0>>]
        secs  == {p \div BLOCK_SIZE : p \in size..(size + n - 1)}
    IN  [b \in Blocks |->
            IF \E s \in secs : a.blocks[s] = b THEN At(CHOOSE s \in secs : a.blocks[s] = b)
            ELSE IF b # 0 /\ b = a.table THEN [i \in 0..(Indirect - 1) |-> <<Nobody, a.blocks[Direct + i]>>]
            ELSE disk[b]]

(* The disk after file_write's loop: the first sector is read before it is *)
(* changed, the following ones begin as zeros; and the table, if it grew.  *)
disk_after(f, n, a) ==
    LET size  == i_size[f]
        At(s) == [i \in 0..(BLOCK_SIZE - 1) |->
                     IF s * BLOCK_SIZE + i \in size..(size + n - 1) THEN <<f, s * BLOCK_SIZE + i>>
                     ELSE IF s = size \div BLOCK_SIZE THEN disk[a.blocks[s]][i] ELSE <<Nobody, 0>>]
        secs  == {p \div BLOCK_SIZE : p \in size..(size + n - 1)}
    IN  [b \in Blocks |->
            IF \E s \in secs : a.blocks[s] = b THEN At(CHOOSE s \in secs : a.blocks[s] = b)
            ELSE IF b # 0 /\ b = a.table THEN [i \in 0..(Indirect - 1) |-> <<Nobody, a.blocks[Direct + i]>>]
            ELSE disk[b]]

file_write(f, n) ==
    /\ kernel = "up"
    /\ i_size[f] + n <= Limit
    /\ i_size[f] + n <= BLOCK_SIZE * MaxBlocks      \* else: -1, nothing changes
    /\ IF ~WriteAsserts(f, n) THEN panic
       ELSE LET a == Alloc(f, n)
            IN  /\ used' = used \union a.taken
                /\ i_sectors' = [i_sectors EXCEPT ![f] = a.sects]
                /\ disk' = disk_after(f, n, a)
                /\ i_size' = [i_size EXCEPT ![f] = @ + n]
                /\ fd_pos' = [fd_pos EXCEPT ![f] = wrap(i_size[f] - 1 + n)]
                /\ UNCHANGED kernel

-----------------------------------------------------------------------------
(* Mutant: a read that ends in the table takes no direct block. *)
ReadBlocks_split(f, s, e) ==
    [i \in 0..(MaxBlocks - 1) |->
        CASE i < Direct /\ i \in s..e /\ e < Direct -> i_sectors[f][i]
          [] i >= Direct /\ e >= Direct -> disk[i_sectors[f][Direct]][i - Direct][2]
          [] OTHER -> 0]

(* all_blocks of file_read, for the blocks from s to e: direct ones from   *)
(* the inode, and the whole table as soon as it is needed                  *)
ReadBlocks(f, s, e) ==
    [i \in 0..(MaxBlocks - 1) |->
        CASE i < Direct /\ i \in s..e -> i_sectors[f][i]
          [] i >= Direct /\ e >= Direct -> disk[i_sectors[f][Direct]][i - Direct][2]
          [] OTHER -> 0]

(* How much a read of n bytes is cut to at the end of the file *)
ReadSize(f, n) ==
    IF wrap(fd_pos[f] + n) > i_size[f] THEN wrap(i_size[f] - fd_pos[f]) ELSE n

ReadStart(f)  == fd_pos[f] \div BLOCK_SIZE
ReadEnd(f, n) == wrap(fd_pos[f] + ReadSize(f, n)) \div BLOCK_SIZE

(* The bytes that go to the caller's buffer *)
ReadBytes(f, n) ==
    [k \in 0..(ReadSize(f, n) - 1) |->
        disk[ReadBlocks(f, ReadStart(f), ReadEnd(f, n))[(fd_pos[f] + k) \div BLOCK_SIZE]]
            [(fd_pos[f] + k) % BLOCK_SIZE]]

ReadAsserts(f, n) ==
    /\ ReadStart(f) < MaxBlocks - 1 /\ ReadEnd(f, n) < MaxBlocks - 1
    /\ ReadStart(f) # ReadEnd(f, n) /\ ReadEnd(f, n) >= Direct => i_sectors[f][Direct] # 0

file_read(f, n) ==
    /\ kernel = "up"
    /\ ~(wrap(fd_pos[f] + n) > i_size[f] /\ ReadSize(f, n) = 0)      \* else: -1
    /\ IF ~ReadAsserts(f, n) THEN panic
       ELSE /\ fd_pos' = [fd_pos EXCEPT ![f] = @ + ReadSize(f, n)]
            /\ UNCHANGED <<i_size, i_sectors, used, disk, kernel>>

(* sys_lseek: SEEK_SET, SEEK_CUR and SEEK_END come to a new position *)
sys_lseek(f, new_pos) ==
    /\ kernel = "up"
    /\ new_pos \in 0..(i_size[f] - 1)                       \* else: -1
    /\ fd_pos' = [fd_pos EXCEPT ![f] = new_pos]
    /\ UNCHANGED <<i_size, i_sectors, used, disk, kernel>>

FileBlocks(f) ==
    {i_sectors[f][i] : i \in 0..Direct} \union
    (IF i_sectors[f][Direct] = 0 THEN {}
     ELSE {disk[i_sectors[f][Direct]][i][2] : i \in 0..(Indirect - 1)})

(* Mutant: the blocks in the table are given back, the table is not. *)
inode_release_keeps(f) ==
    /\ kernel = "up"
    /\ used' = (used \ FileBlocks(f)) \union {0, i_sectors[f][Direct]}
    /\ i_sectors' = [i_sectors EXCEPT ![f] = [i \in 0..Direct |-> 0]]
    /\ i_size' = [i_size EXCEPT ![f] = 0]
    /\ fd_pos' = [fd_pos EXCEPT ![f] = 0]
    /\ disk' = [b \in Blocks |-> IF b \in FileBlocks(f) THEN Empty ELSE disk[b]]
    /\ UNCHANGED kernel

(* sys_unlink's inode_release, and the file created anew.  What a free     *)
(* block holds from now on is left open: a block of bytes that are no      *)
(* file's.                                                                 *)
inode_release(f) ==
    /\ kernel = "up"
    /\ used' = (used \ FileBlocks(f)) \union {0}
    /\ i_sectors' = [i_sectors EXCEPT ![f] = [i \in 0..Direct |-> 0]]
    /\ i_size' = [i_size EXCEPT ![f] = 0]
    /\ fd_pos' = [fd_pos EXCEPT ![f] = 0]
    /\ disk' = [b \in Blocks |-> IF b \in FileBlocks(f) THEN Empty ELSE disk[b]]
    /\ UNCHANGED kernel

file_stopped == kernel # "up" /\ UNCHANGED fileVars

FileNext ==
    \/ \E f \in Files :
          \/ \E n \in Counts : file_write(f, n) \/ file_read(f, n)
          \/ \E p \in 0..Limit : sys_lseek(f, p)
          \/ inode_release(f)
    \/ file_stopped

FileSpec == FileInit /\ [][FileNext]_fileVars

-----------------------------------------------------------------------------
BlockOf(f, i) == IF i < Direct THEN i_sectors[f][i] ELSE disk[i_sectors[f][Direct]][i - Direct][2]

(* What was written stays where file_read looks for it: every byte of      *)
(* every file is on disk in its place, however the files were extended and *)
(* deleted around it (file_write, file.c:227-430).                         *)
ContentsExact ==
    \A f \in Files : \A p \in 0..(i_size[f] - 1) :
        disk[BlockOf(f, p \div BLOCK_SIZE)][p % BLOCK_SIZE] = <<f, p>>

(* No block belongs to two files, and a bit of the block bitmap is set     *)
(* exactly if an inode or its table has the block: inode_release gives all *)
(* of them back (inode.c:193-252).                                         *)
BlocksExact ==
    /\ used = {0} \union UNION {FileBlocks(f) : f \in Files}
    /\ \A f, g \in Files : f # g => FileBlocks(f) \intersect FileBlocks(g) \subseteq {0}

(* Whatever file_read is asked for, it returns the bytes from the position *)
(* of the descriptor on, as many as there are up to the count, whether     *)
(* they lie in direct or in indirect blocks (file.c:432).                  *)
ReadsBack ==
    \A f \in Files, n \in Counts :
        fd_pos[f] < i_size[f] =>
            ReadBytes(f, n) = [k \in 0..(Min({n, i_size[f] - fd_pos[f]}) - 1) |-> <<f, fd_pos[f] + k>>]
=============================================================================
