--------------------------------- MODULE Fs ---------------------------------
(***************************************************************************)
(* The calls of fs/fs.c on paths and descriptors: the tree of directories, *)
(* the two bitmaps, the list of open inodes and the tables of open files.  *)
(* The kernel's main thread is the only caller.  A call is one step on the *)
(* memory; the sectors it writes are put into todo, in the order of the    *)
(* code, and reach the disk one by one: the disk of every state is one     *)
(* that a power failure may leave.  Directories have one block and files   *)
(* at most one; Dir and FileData have the blocks in detail.                *)
(*                                                                         *)
(* mount_partition reads the block bitmap into inode_bitmap and never      *)
(* reads the inode bitmap (fs.c:64-65).  So a start may forget inodes, and *)
(* the first sys_mkdir or sys_write after a start fails an ASSERT.  That   *)
(* would hide most of the code behind it: the model has that start and the *)
(* one that the comments of fs.c describe, and mount_loads says which.     *)
(***************************************************************************)
EXTENDS Integers, Sequences, FiniteSets, FiniteSetsExt, Debug

CONSTANTS
    Names,
    NInodes, NBlocks,           \* bounds; 4096 inodes in the source
    MAX_FILE_OPEN,              \* 32; slots 0, 1 and 2 are not used
    MAX_FILES_OPEN_PER_PROC,    \* 8
    MaxDepth, MaxRefs           \* bounds on paths and on open counts

Inodes == 0..(NInodes - 1)
Blocks == 0..(NBlocks - 1)
Slots  == 3..(MAX_FILE_OPEN - 1)
Fds    == 3..(MAX_FILES_OPEN_PER_PROC - 1)
Dots   == {".", ".."}

ASSUME FsAssumption ==
    /\ {NInodes, NBlocks, MAX_FILE_OPEN, MAX_FILES_OPEN_PER_PROC, MaxDepth, MaxRefs} \subseteq Nat \ {0}
    /\ Names \intersect Dots = {}

VARIABLES
    d_inode, d_ibits, d_bbits, d_block,     \* the disk
    inode_bitmap, block_bitmap,             \* cur_part's bitmaps
    open_inodes,                            \* cur_part's list, by inode number
    file_table, fd_table,
    cwd_inode_nr,
    dirs,           \* how often sys_opendir has returned each directory
    todo,           \* the writes of the call that the disk has not done
    mount_loads,    \* mount_partition reads both bitmaps (FALSE in the source)
    lost            \* history: a start has read other inode bits than the disk's

disk   == <<d_inode, d_ibits, d_bbits, d_block>>
bits   == <<inode_bitmap, block_bitmap>>
files  == <<file_table, fd_table>>
vars   == <<disk, bits, open_inodes, files, cwd_inode_nr, dirs, todo, mount_loads, lost, kernel>>

Nil     == -1
Blank   == [size |-> 0, blk |-> Nil]        \* a zeroed inode; sizes in entries
Closed  == [cnt |-> 0, inode |-> Blank, write_deny |-> FALSE]
NoFile  == [ino |-> Nil, write |-> FALSE]

Entry(name, i, type) == [name |-> name, ino |-> i, type |-> type]
DotEntries(i, up) == {Entry(".", i, "directory"), Entry("..", up, "directory")}

-----------------------------------------------------------------------------
(* inode_open and inode_close on the list o of open inodes; root_dir keeps *)
(* inode 0 open.                                                           *)
opened(v) == [cnt |-> 1, inode |-> v, write_deny |-> FALSE]

inode_open(o, i) ==
    [o EXCEPT ![i] = IF o[i].cnt = 0 THEN opened(d_inode[i])
                     ELSE [o[i] EXCEPT !.cnt = o[i].cnt + 1]]

inode_close(o, i) ==
    [o EXCEPT ![i] = IF o[i].cnt = 1 THEN Closed
                     ELSE [o[i] EXCEPT !.cnt = o[i].cnt - 1]]

(* The inode that inode_open(i) would find, and its change in memory *)
inode(i) == IF open_inodes[i].cnt = 0 THEN d_inode[i] ELSE open_inodes[i].inode

changed(o, i, v) == IF o[i].cnt = 0 THEN o ELSE [o EXCEPT ![i].inode = v]

(* Mutant: one bit of the inode number is kept. *)
inode_sync_bit(i, v) == [to |-> "inode", at |-> i % 2, v |-> v]

(* Mutant: bitmap_sync takes the other bitmap. *)
sync_inode_bits_block(v) == [to |-> "ibits", at |-> Nil, v |-> block_bitmap]

(* The sectors that are written.  inode_sync keeps eight bits of i_no. *)
inode_sync(i, v)   == [to |-> "inode", at |-> i % 256, v |-> v]
inode_delete(i)    == [to |-> "inode", at |-> i, v |-> Blank]
sync_inode_bits(v) == [to |-> "ibits", at |-> Nil, v |-> v]
sync_block_bits(v) == [to |-> "bbits", at |-> Nil, v |-> v]
write_block(b, v)  == [to |-> "block", at |-> b, v |-> v]

-----------------------------------------------------------------------------
(* What mount_partition reads, filesys_init sets up and open_root_dir      *)
(* opens.  In the source (~mount_loads) the block bitmap goes to           *)
(* inode_bitmap, and block_bitmap keeps the zeroes of sys_malloc.          *)
mount_partition(ibits, bbits) ==
    /\ inode_bitmap' = IF mount_loads THEN ibits ELSE bbits
    /\ block_bitmap' = IF mount_loads THEN bbits ELSE {}

root_opened(inodes) == [i \in Inodes |-> IF i = 0 THEN opened(inodes[0]) ELSE Closed]

(* partition_format, then the first start *)
formatted == [i \in Inodes |-> IF i = 0 THEN [size |-> 2, blk |-> 0] ELSE Blank]

Init ==
    /\ d_inode = formatted
    /\ d_ibits = {0} /\ d_bbits = {0}
    /\ d_block = [b \in Blocks |-> IF b = 0 THEN DotEntries(0, 0) ELSE {}]
    /\ inode_bitmap = {0}
    /\ mount_loads \in BOOLEAN
    /\ block_bitmap = IF mount_loads THEN {0} ELSE {}
    /\ open_inodes = root_opened(formatted)
    /\ file_table = [s \in Slots |-> NoFile]
    /\ fd_table = [fd \in Fds |-> Nil]
    /\ cwd_inode_nr = 0
    /\ dirs = [i \in Inodes |-> 0]
    /\ todo = << >>
    /\ lost = FALSE
    /\ kernel = "up"

Quiet == kernel = "up" /\ todo = << >>

(* The machine is switched off between two calls, or when an ASSERT has    *)
(* failed, and on again.                                                   *)
filesys_init ==
    /\ todo = << >>
    /\ mount_partition(d_ibits, d_bbits)
    /\ lost' = (lost \/ inode_bitmap' # d_ibits)
    /\ open_inodes' = root_opened(d_inode)
    /\ file_table' = [s \in Slots |-> NoFile]
    /\ fd_table' = [fd \in Fds |-> Nil]
    /\ cwd_inode_nr' = 0
    /\ dirs' = [i \in Inodes |-> 0]
    /\ kernel' = "up"
    /\ UNCHANGED <<disk, todo, mount_loads>>

(* The next sector of the call in progress reaches the disk. *)
ide_write ==
    /\ kernel = "up" /\ todo # << >>
    /\ todo' = Tail(todo)
    /\ LET w == Head(todo)
       IN  /\ d_inode' = IF w.to = "inode" THEN [d_inode EXCEPT ![w.at] = w.v] ELSE d_inode
           /\ d_ibits' = IF w.to = "ibits" THEN w.v ELSE d_ibits
           /\ d_bbits' = IF w.to = "bbits" THEN w.v ELSE d_bbits
           /\ d_block' = IF w.to = "block" THEN [d_block EXCEPT ![w.at] = w.v] ELSE d_block
    /\ UNCHANGED <<bits, open_inodes, files, cwd_inode_nr, dirs, mount_loads, lost, kernel>>

-----------------------------------------------------------------------------
(* A path is the sequence of the names between its slashes. *)
Paths == UNION {[1..n -> Names \union {".."}] : n \in 1..MaxDepth}

entries(i) == IF inode(i).blk = Nil THEN {} ELSE d_block[inode(i).blk]

(* search_dir_entry *)
found(i, name) == {e \in entries(i) : e.name = name}

(* search_file: the inode (or -1), its type, the directory where the last  *)
(* name was looked for, and how many names were looked for.  The search    *)
(* ends at a name that is missing and at a regular file, also when names   *)
(* are left.                                                               *)
search_step(r, name) ==
    LET f == found(r.ino, name)
        e == CHOOSE e \in f : TRUE
        d == r.depth + 1
    IN  IF r.type # "directory" THEN r
        ELSE IF f = {} THEN [ino |-> Nil, type |-> "unknown", parent |-> r.ino, depth |-> d]
        ELSE [ino |-> e.ino, type |-> e.type, parent |-> r.ino, depth |-> d]

root_record == [ino |-> 0, type |-> "directory", parent |-> 0, depth |-> 0]

search_file(path) ==
    LET walk[n \in 0..Len(path)] ==
            IF n = 0 THEN root_record ELSE search_step(walk[n - 1], path[n])
    IN  walk[Len(path)]

(* searched_record.parent_dir is the static root_dir, which dir_close      *)
(* leaves alone, when the search ended at the first name; otherwise the    *)
(* search has opened it, and a caller that does not close it keeps it.     *)
parent_kept(o, r) ==
    IF r.type # "directory" /\ r.depth = 1 THEN o ELSE inode_open(o, r.parent)

grown(i)  == [inode(i) EXCEPT !.size = @ + 1]

(* Mutant: the size does not follow a deletion. *)
shrunk_same(i) == inode(i)
shrunk(i) == [inode(i) EXCEPT !.size = @ - 1]

sync_dir_entry(i, e)   == write_block(inode(i).blk, entries(i) \union {e})
clear_dir_entry(i, no) == write_block(inode(i).blk, {e \in entries(i) : e.ino # no \/ e.name \in Dots})

inode_bitmap_alloc == Min(Inodes \ inode_bitmap)

block_bitmap_alloc == Min(Blocks \ block_bitmap)

FreeSlots == {s \in Slots : file_table[s] = NoFile}
FreeFds   == {fd \in Fds : fd_table[fd] = Nil}

(* With no descriptor left the slot of file_table stays taken. *)
pcb_fd_install(s) ==
    fd_table' = IF FreeFds = {} THEN fd_table ELSE [fd_table EXCEPT ![Min(FreeFds)] = s]


(* bitmap_scan stops the kernel on a full bitmap: the calls stop before. *)
InodeLeft == inode_bitmap # Inodes
BlockLeft == block_bitmap # Blocks

-----------------------------------------------------------------------------
(* Every call on a path begins with search_file; r is what it has found.   *)

(* sys_open with O_CREAT; a full file_table rolls back.  After a start that *)
(* has lost bits the new inode may have the number of one that is open,    *)
(* and the list then has both: that call is left out.                      *)
file_create(r, name, write) ==
    LET i == inode_bitmap_alloc
        s == Min(FreeSlots)
        bitmap == inode_bitmap \union {i}
    IN  /\ InodeLeft /\ open_inodes[i].cnt = 0
        /\ \/ FreeSlots = {} /\ UNCHANGED vars
           \/ /\ FreeSlots # {}
              /\ inode_bitmap' = bitmap
              /\ file_table' = [file_table EXCEPT ![s] = [ino |-> i, write |-> write]]
              /\ pcb_fd_install(s)
              /\ open_inodes' = [changed(open_inodes, r.parent, grown(r.parent))
                                   EXCEPT ![i] = opened(Blank)]
              /\ todo' = << sync_dir_entry(r.parent, Entry(name, i, "regular")),
                            inode_sync(r.parent, grown(r.parent)),
                            inode_sync(i, Blank),
                            sync_inode_bits(bitmap) >>
              /\ UNCHANGED <<disk, block_bitmap, cwd_inode_nr, dirs, mount_loads, lost, kernel>>

(* sys_open of a file that exists: the parent stays open; a file that is   *)
(* being written is refused to a second writer, with the slot and the      *)
(* inode taken.                                                            *)
file_open(r, write) ==
    LET kept   == parent_kept(open_inodes, r)
        o      == inode_open(kept, r.ino)
        s      == Min(FreeSlots)
        denied == write /\ o[r.ino].write_deny
    IN  /\ \/ FreeSlots = {} /\ open_inodes' = kept /\ UNCHANGED files
           \/ /\ FreeSlots # {}
              /\ file_table' = [file_table EXCEPT ![s] = [ino |-> r.ino, write |-> write]]
              /\ open_inodes' = IF write THEN [o EXCEPT ![r.ino].write_deny = TRUE] ELSE o
              /\ \/ denied /\ UNCHANGED fd_table
                 \/ ~denied /\ pcb_fd_install(s)
        /\ UNCHANGED <<disk, bits, cwd_inode_nr, dirs, todo, mount_loads, lost, kernel>>

sys_open(path, r, creat, write) ==
    LET missing == r.ino = Nil
    IN  /\ Quiet
        /\ \/ r.type = "directory" /\ UNCHANGED vars
           \/ /\ r.type # "directory" /\ r.depth # Len(path)
              /\ open_inodes' = parent_kept(open_inodes, r)
              /\ UNCHANGED <<disk, bits, files, cwd_inode_nr, dirs, todo, mount_loads, lost, kernel>>
           \/ /\ r.type # "directory" /\ r.depth = Len(path)
              /\ \/ missing # creat /\ UNCHANGED vars
                 \/ missing /\ creat /\ file_create(r, path[Len(path)], write)
                 \/ ~missing /\ ~creat /\ file_open(r, write)

(* Closing a descriptor, also one that only reads, ends write_deny. *)
sys_close(fd) ==
    LET i == file_table[fd_table[fd]].ino
    IN  /\ Quiet /\ fd_table[fd] # Nil
        /\ open_inodes' = inode_close([open_inodes EXCEPT ![i].write_deny = FALSE], i)
        /\ file_table' = [file_table EXCEPT ![fd_table[fd]] = NoFile]
        /\ fd_table' = [fd_table EXCEPT ![fd] = Nil]
        /\ UNCHANGED <<disk, bits, cwd_inode_nr, dirs, todo, mount_loads, lost, kernel>>

(* The ASSERT that comes before the first write of a call *)
checked(p, writes) == ASSERT(p) /\ todo' = IF p THEN writes ELSE << >>

(* The first write to a file: it gets its block. *)
sys_write(fd) ==
    LET f == file_table[fd_table[fd]]
        b == block_bitmap_alloc
        bitmap == block_bitmap \union {b}
        v == [size |-> 1, blk |-> b]
    IN  /\ Quiet /\ fd_table[fd] # Nil /\ BlockLeft
        /\ f.write /\ inode(f.ino).blk = Nil
        /\ block_bitmap' = bitmap
        /\ open_inodes' = changed(open_inodes, f.ino, v)
        /\ checked(b # 0, <<sync_block_bits(bitmap), inode_sync(f.ino, v)>>)
        /\ UNCHANGED <<disk, inode_bitmap, files, cwd_inode_nr, dirs, mount_loads, lost>>

-----------------------------------------------------------------------------
(* The entries that delete_dir_entry finds; there must not be two. *)
named(p, i) == {e \in entries(p) : e.ino = i /\ e.name \notin Dots}
OnlyName(p, i) == \A e, f \in named(p, i) : e = f

(* Mutant: the bit of the inode is not given back. *)
remove_leaky(p, i) ==
    /\ open_inodes' = changed(open_inodes, p, shrunk(p))
    /\ checked(OnlyName(p, i), <<clear_dir_entry(p, i), inode_sync(p, shrunk(p)), inode_delete(i)>>)
    /\ UNCHANGED <<disk, bits, files, cwd_inode_nr, dirs, mount_loads, lost>>

(* delete_dir_entry, then inode_release *)
remove(p, i) ==
    LET b == inode(i).blk
    IN  /\ inode_bitmap' = inode_bitmap \ {i}
        /\ block_bitmap' = block_bitmap \ {b}
        /\ open_inodes' = changed(open_inodes, p, shrunk(p))
        /\ checked(OnlyName(p, i),
                   <<clear_dir_entry(p, i), inode_sync(p, shrunk(p))>>
                   \o (IF b = Nil THEN << >> ELSE <<sync_block_bits(block_bitmap \ {b})>>)
                   \o <<sync_inode_bits(inode_bitmap \ {i}), inode_delete(i)>>)
        /\ UNCHANGED <<disk, files, cwd_inode_nr, dirs, mount_loads, lost>>

(* Mutant: only the files behind the caller's descriptors are looked at. *)
in_use_fds(i) == \E fd \in Fds : fd_table[fd] # Nil /\ file_table[fd_table[fd]].ino = i

in_use(i) == \E s \in Slots : file_table[s].ino = i

(* Nobody unlinks or removes a path that leads to the root: it fails an    *)
(* ASSERT.  A path with more names behind a file names the file.           *)
sys_unlink(r) ==
    LET refused == r.type # "regular" \/ in_use(r.ino)
    IN  /\ Quiet /\ r.ino # 0
        /\ \/ refused /\ UNCHANGED vars
           \/ ~refused /\ remove(r.parent, r.ino)

(* The order of the writes: the block's bit, the block, the entry in the   *)
(* parent, the parent's inode, the new inode, the inode's bit.             *)
make_dir(p, name) ==
    LET i == inode_bitmap_alloc
        b == block_bitmap_alloc
    IN  /\ InodeLeft /\ BlockLeft
        /\ inode_bitmap' = inode_bitmap \union {i}
        /\ block_bitmap' = block_bitmap \union {b}
        /\ open_inodes' = changed(open_inodes, p, grown(p))
        /\ checked(b # 0,
                << sync_block_bits(block_bitmap \union {b}),
                   write_block(b, DotEntries(i, p)),
                   sync_dir_entry(p, Entry(name, i, "directory")),
                   inode_sync(p, grown(p)),
                   inode_sync(i, [size |-> 2, blk |-> b]),
                   sync_inode_bits(inode_bitmap \union {i}) >>)
        /\ UNCHANGED <<disk, files, cwd_inode_nr, dirs, mount_loads, lost>>

sys_mkdir(path, r) ==
    LET refused == r.ino # Nil \/ r.depth # Len(path)
    IN  /\ Quiet
        /\ \/ refused /\ UNCHANGED vars
           \/ ~refused /\ make_dir(r.parent, path[Len(path)])

(* A directory is empty when one entry is left: "." and ".." are two, and  *)
(* no directory ever is.                                                   *)
dir_is_empty(i) == inode(i).size = 1

sys_rmdir(r) ==
    /\ Quiet /\ r.ino # 0
    /\ IF r.type = "directory" /\ dir_is_empty(r.ino)
         THEN remove(r.parent, r.ino)
         ELSE UNCHANGED vars

sys_opendir(r) ==
    /\ Quiet /\ r.type = "directory"
    /\ open_inodes' = inode_open(open_inodes, r.ino)
    /\ dirs' = [dirs EXCEPT ![r.ino] = @ + 1]
    /\ UNCHANGED <<disk, bits, files, cwd_inode_nr, todo, mount_loads, lost, kernel>>

sys_closedir(i) ==
    /\ Quiet /\ dirs[i] > 0
    /\ open_inodes' = inode_close(open_inodes, i)
    /\ dirs' = [dirs EXCEPT ![i] = @ - 1]
    /\ UNCHANGED <<disk, bits, files, cwd_inode_nr, todo, mount_loads, lost, kernel>>

sys_chdir(r) ==
    /\ Quiet /\ r.type = "directory"
    /\ cwd_inode_nr' = r.ino
    /\ UNCHANGED <<disk, bits, open_inodes, files, dirs, todo, mount_loads, lost, kernel>>

(* Bounds the counts that calls leave behind *)
RefsBounded == \A i \in Inodes : open_inodes'[i].cnt <= MaxRefs

Next ==
    \/ /\ \/ \E path \in Paths :
                LET r == search_file(path) IN
                \/ \E creat, write \in BOOLEAN : sys_open(path, r, creat, write)
                \/ sys_unlink(r) \/ sys_mkdir(path, r) \/ sys_rmdir(r)
                \/ sys_opendir(r) \/ sys_chdir(r)
          \/ \E fd \in Fds : sys_close(fd) \/ sys_write(fd)
          \/ \E i \in Inodes : sys_closedir(i)
       /\ RefsBounded
    \/ ide_write
    \/ filesys_init

Spec == Init /\ [][Next]_vars

-----------------------------------------------------------------------------
(* The tree on the disk *)
OnDisk(i) == IF d_inode[i].blk = Nil THEN {} ELSE d_block[d_inode[i].blk]

(* The directories that are reached from the root: those that are in every *)
(* set with the root and whatever directories the ones in it have          *)
Subdirs(d) == {e.ino : e \in {e \in OnDisk(d) : e.type = "directory"}}

Dirs ==
    {i \in Inodes : \A S \in SUBSET Inodes :
                       0 \in S /\ (\A d \in S : Subdirs(d) \subseteq S) => i \in S}

Links == UNION {[dir : {d}, e : {e \in OnDisk(d) : e.name \notin Dots}] : d \in Dirs}

Live == {0} \union {l.e.ino : l \in Links}

(* What the calls keep, until a start has read other inode bits than the   *)
(* disk's: when no write is pending, the inode bitmap in memory and every  *)
(* open inode are those of the disk;                                       *)
MemoryIsDisk ==
    Quiet /\ ~lost =>
        /\ inode_bitmap = d_ibits
        /\ \A i \in Inodes : open_inodes[i].cnt > 0 => open_inodes[i].inode = d_inode[i]

(* the directories are a tree: no inode has two names, ".." is the         *)
(* directory with the name, i_size counts the entries;                     *)
TreeShape ==
    Quiet /\ ~lost =>
        /\ \A l, m \in Links : (l.e.ino = m.e.ino \/ <<l.dir, l.e.name>> = <<m.dir, m.e.name>>) => l = m
        /\ \A d \in Dirs :
              /\ d_inode[d].size = Cardinality(OnDisk(d))
              /\ \E up \in Dirs :
                    /\ DotEntries(d, up) \subseteq OnDisk(d)
                    /\ d # 0 => \E l \in Links : l.dir = up /\ l.e.ino = d

(* the bits on the disk are those of the inodes with a name and of their   *)
(* blocks, and no block belongs to two inodes;                             *)
BitmapsExact ==
    Quiet /\ ~lost =>
        /\ d_ibits = Live
        /\ d_bbits = {d_inode[i].blk : i \in Live} \ {Nil}
        /\ \A i, j \in Live : i # j /\ d_inode[i].blk = d_inode[j].blk => d_inode[i].blk = Nil

(* and what a power failure leaves: at any write, a block that a name      *)
(* leads to is marked and belongs to one inode, and at most one name leads *)
(* to an inode that is not marked, the one that was being made.            *)
CrashSafe ==
    ~lost =>
        /\ \A i \in Live : d_inode[i].blk \in d_bbits \union {Nil}
        /\ \A i, j \in Live : i # j /\ d_inode[i].blk = d_inode[j].blk => d_inode[i].blk = Nil
        /\ Cardinality({l \in Links : l.e.ino \notin d_ibits}) <= 1

(* ASSERT(dir_entry_found == NULL) of delete_dir_entry (dir.c:260): a      *)
(* directory has one name of an inode.  Not true of the code: the number   *)
(* of a file is given to the next one after a start.                       *)
OneNamePerInode ==
    Quiet => \A l, m \in Links : l.dir = m.dir /\ l.e.ino = m.e.ino => l = m

(* Also after such a start, every slot of file_table and every directory   *)
(* handle holds a reference to its inode, and the inode is a file or       *)
(* directory that still has its name.                                      *)
RefsBacked ==
    LET slots(i) == {s \in Slots : file_table[s].ino = i}
    IN  /\ \A i \in Inodes :
              open_inodes[i].cnt >= Cardinality(slots(i)) + dirs[i] + (IF i = 0 THEN 1 ELSE 0)
        /\ Quiet => /\ {i \in Inodes : slots(i) # {}} \subseteq Live \ Dirs
                    /\ {i \in Inodes : dirs[i] > 0} \subseteq Dirs
=============================================================================
