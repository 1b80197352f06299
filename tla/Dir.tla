-------------------------------- MODULE Dir ---------------------------------
(***************************************************************************)
(* The entries of one directory on disk (fs/dir.c): sync_dir_entry puts a  *)
(* new entry into the first free slot of the directory's blocks or into a  *)
(* new block, delete_dir_entry clears it and gives back a block that is    *)
(* left empty, search_dir_entry and dir_read go through all blocks.        *)
(* Names stand for entries with their inode numbers.                       *)
(***************************************************************************)
EXTENDS Integers, FiniteSets, FiniteSetsExt, Inode

CONSTANTS
    Names,
    SlotsPerSec,    \* entries per sector, 512 / 24 = 21
    Calls           \* the calls that are made

Slots == 0..(SlotsPerSec - 1)
Dots  == {".", ".."}
EntrySize == 24     \* sizeof(struct dir_entry)

ASSUME DirAssumption ==
    /\ {Direct, Indirect, NBlocks} \subseteq Nat \ {0} /\ SlotsPerSec \in Nat \ {0, 1}
    /\ Names \intersect (Dots \union {""}) = {} /\ Calls \subseteq {"create", "unlink", "readdir"}

VARIABLE names      \* the entries created and not deleted

dirVars == <<i_sectors, i_size, used, disk, names, kernel>>

DirBlocks == 1..NBlocks
(* An entry is a name, "" is FT_UNKNOWN; i_size is in entries. *)
NoEntries == [s \in Slots |-> ""]

(* partition_format and sys_mkdir: the first block has "." and ".." *)
DirInit ==
    /\ i_sectors = [i \in 0..Direct |-> IF i = 0 THEN 1 ELSE 0]
    /\ i_size = 2
    /\ used = {1}
    /\ disk = [b \in DirBlocks |-> IF b = 1 THEN [NoEntries EXCEPT ![0] = ".", ![1] = ".."]
                                ELSE NoEntries]
    /\ names = {}
    /\ kernel = "up"

dir_block_alloc(k) ==
    CHOOSE b \in DirBlocks \ used : Cardinality({c \in DirBlocks \ used : c < b}) = k - 1

(* all_blocks: search_dir_entry and delete_dir_entry read the table ... *)
AllBlocks ==
    [i \in 0..(Direct + Indirect - 1) |->
        IF i < Direct THEN i_sectors[i]
        ELSE IF i_sectors[Direct] = 0 THEN 0 ELSE disk[i_sectors[Direct]][i - Direct]]

(* ... and sync_dir_entry does not. *)
SyncBlocks == [i \in 0..(Direct + Indirect - 1) |-> IF i < Direct THEN i_sectors[i] ELSE 0]

Entries(b) == {disk[b][s] : s \in Slots} \ {""}

(* search_dir_entry *)
Found(n) == \E i \in DOMAIN AllBlocks : AllBlocks[i] # 0 /\ n \in Entries(AllBlocks[i])

-----------------------------------------------------------------------------
(* sync_dir_entry, for a name that search_file has not found *)
FirstPlace == Min({i \in DOMAIN SyncBlocks : SyncBlocks[i] = 0 \/ "" \in {disk[SyncBlocks[i]][s] : s \in Slots}})

(* Mutant: the last slot is taken, free or not. *)
FirstSlot_last(b) == SlotsPerSec - 1

FirstSlot(b) == Min({s \in Slots : disk[b][s] = ""})

create_in_slot(n) ==
    LET b == SyncBlocks[FirstPlace]
    IN  /\ b # 0
        /\ disk' = [disk EXCEPT ![b][FirstSlot(b)] = n]
        /\ UNCHANGED <<i_sectors, used>>

create_in_block(n) ==
    LET b == dir_block_alloc(1)
    IN  /\ SyncBlocks[FirstPlace] = 0 /\ FirstPlace < Direct
        /\ used' = used \union {b}
        /\ i_sectors' = [i_sectors EXCEPT ![FirstPlace] = b]
        /\ disk' = [disk EXCEPT ![b] = [NoEntries EXCEPT ![0] = n]]

create_in_table(n) ==
    LET t == dir_block_alloc(1)
        b == dir_block_alloc(2)
    IN  /\ FirstPlace = Direct
        /\ used' = used \union {t, b}
        /\ i_sectors' = [i_sectors EXCEPT ![Direct] = t]
        /\ disk' = [disk EXCEPT ![t] = [i \in 0..(Indirect - 1) |-> IF i = 0 THEN b ELSE 0],
                                ![b] = [NoEntries EXCEPT ![0] = n]]

(* The blocks that are allocated; bitmap_scan stops on a full bitmap. *)
BlocksNeeded == IF SyncBlocks[FirstPlace] # 0 THEN 0 ELSE IF FirstPlace < Direct THEN 1 ELSE 2

sync_dir_entry(n) ==
    /\ kernel = "up" /\ "create" \in Calls
    /\ n \notin names /\ ~Found(n)
    /\ IF BlocksNeeded > Cardinality(DirBlocks \ used)
         THEN kernel' = "panic" /\ UNCHANGED <<i_sectors, i_size, used, disk, names>>
         ELSE /\ create_in_slot(n) \/ create_in_block(n) \/ create_in_table(n)
              /\ i_size' = i_size + 1
              /\ names' = names \union {n}
              /\ UNCHANGED kernel

-----------------------------------------------------------------------------
PlaceOf(n) == Min({i \in DOMAIN AllBlocks : AllBlocks[i] # 0 /\ n \in Entries(AllBlocks[i])})

(* dir_entry_cnt = 1 and it is not the directory's first block *)
LastInBlock(n, b) == Entries(b) = {n}

delete_slot(n, b) ==
    /\ ~LastInBlock(n, b)
    /\ disk' = [disk EXCEPT ![b] = [s \in Slots |-> IF disk[b][s] = n THEN "" ELSE disk[b][s]]]
    /\ i_size' = i_size - 1
    /\ UNCHANGED <<i_sectors, used, kernel>>

(* Mutant: the block stays marked in the bitmap. *)
delete_block_keeps(n, b) ==
    /\ LastInBlock(n, b) /\ PlaceOf(n) < Direct
    /\ i_sectors' = [i_sectors EXCEPT ![PlaceOf(n)] = 0]
    /\ i_size' = i_size - 1
    /\ UNCHANGED <<used, disk, kernel>>

delete_block(n, b) ==
    /\ LastInBlock(n, b) /\ PlaceOf(n) < Direct
    /\ used' = used \ {b}
    /\ i_sectors' = [i_sectors EXCEPT ![PlaceOf(n)] = 0]
    /\ i_size' = i_size - 1
    /\ UNCHANGED <<disk, kernel>>

(* The loop that counts the blocks of the table does not move on. *)
delete_indirect(n, b) ==
    /\ LastInBlock(n, b) /\ PlaceOf(n) >= Direct
    /\ used' = used \ {b}
    /\ kernel' = "hang"
    /\ UNCHANGED <<i_sectors, i_size, disk>>

delete_dir_entry(n) ==
    /\ kernel = "up" /\ "unlink" \in Calls
    /\ Found(n)
    /\ LET b == AllBlocks[PlaceOf(n)]
       IN  delete_slot(n, b) \/ delete_block(n, b) \/ delete_indirect(n, b)
    /\ names' = names \ {n}

(* dir_read of a directory just opened, after the first k slots of its     *)
(* blocks: cur_dir_entry_pos, dir_pos, which grows by the slot's index,    *)
(* and how it ended.  The end is looked for before a sector is read.       *)
ReadSlots ==
    LET after[k \in 0..(SlotsPerSec * (Direct + Indirect))] ==
            LET r == after[k - 1]
                b == AllBlocks[(k - 1) \div SlotsPerSec]
                s == (k - 1) % SlotsPerSec
            IN  CASE k = 0 -> [cur |-> 0, dir_pos |-> 0, ended |-> "no"]
                  [] k # 0 /\ r.ended # "no" -> r
                  [] k # 0 /\ r.ended = "no" /\ s = 0 /\ r.dir_pos >= i_size * EntrySize ->
                        [r EXCEPT !.ended = "up"]
                  [] OTHER ->
                        IF b = 0 \/ disk[b][s] = "" THEN r
                        ELSE IF r.cur < r.dir_pos THEN [r EXCEPT !.cur = @ + EntrySize]
                        ELSE IF r.cur = r.dir_pos THEN [r EXCEPT !.dir_pos = @ + s]
                        ELSE [r EXCEPT !.ended = "panic"]
    IN  after[SlotsPerSec * (Direct + Indirect)]

(* With no return for an entry the search fails the ASSERT, or goes on     *)
(* behind the 140 blocks: dir_pos < dir_inode compares with a pointer.     *)
dir_read ==
    /\ kernel = "up" /\ "readdir" \in Calls
    /\ kernel' = IF ReadSlots.ended = "no" THEN "astray" ELSE ReadSlots.ended
    /\ UNCHANGED <<i_sectors, i_size, used, disk, names>>

dir_stopped == kernel # "up" /\ UNCHANGED dirVars

DirNext ==
    \/ \E n \in Names : sync_dir_entry(n) \/ delete_dir_entry(n)
    \/ dir_read
    \/ dir_stopped

DirSpec == DirInit /\ [][DirNext]_dirVars

-----------------------------------------------------------------------------
InUse == {AllBlocks[i] : i \in DOMAIN AllBlocks} \ {0}

(* A look-up finds exactly the names that were created and not deleted,    *)
(* each in one slot, and always "." and ".." (sync_dir_entry, dir.c:113);  *)
(* i_size counts them.                                                     *)
EntriesExact ==
    kernel = "up" =>
        /\ \A n \in Names \union Dots : Found(n) <=> n \in names \union Dots
        /\ \A b, c \in InUse, s, r \in Slots :
              disk[b][s] # "" /\ disk[b][s] = disk[c][r] => b = c /\ s = r
        /\ i_size = Cardinality(names) + 2

(* A block is marked exactly while the directory has it: deleting the last *)
(* entry of a block gives it back, and no block is given back with         *)
(* entries in it (delete_dir_entry, dir.c:215-336).                        *)
DirBlocksExact ==
    kernel = "up" => used = InUse \union ({i_sectors[Direct]} \ {0})
=============================================================================
