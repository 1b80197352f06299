# Verification of zhuOS

zhuOS is a small teaching kernel for one x86 processor: threads and processes
under a preemptive round-robin scheduler, semaphores and recursive locks, a
page allocator and a heap, `fork`, an interrupt-driven IDE driver, a keyboard
queue, and a file system with inodes and directories. This directory holds
TLA+ models of its core, the TLC configurations that check them on small
instances, and TLAPS proofs of the safety properties and refinements that the
passing runs check, for instances of any size (section 5 has the hypotheses).

`PROJECT.json` maps every definition to the lines it models and lists the
components, the runs, the hazards and the theorems.

    tlc -workers 2 -config Sched_safety.cfg MCSched      one of the runs
    tlapm SchedProofs.tla                                one of the proofs

## 1. The system

| part | state | operations | used by |
|---|---|---|---|
| scheduler, `thread/thread.c`, `device/timer.c` | status and ticks of each task, ready list, all list, interrupt flag | `schedule`, `thread_block`, `thread_unblock`, `thread_yield`, `thread_start`, `idle`, the timer handler | everything |
| locks, `thread/sync.c` | semaphore value, waiters, holder, nesting count | `sema_down`, `sema_up`, `lock_acquire`, `lock_release` | console, memory pools, channels, pids, I/O queue |
| lists, `lib/kernel/list.c` | `prev` and `next` of each element | insert, remove, find, traverse | scheduler, locks, heap, inodes |
| I/O queue, `device/ioqueue.c` | ring, waiting consumer and producer, lock | `ioq_getchar`, `ioq_putchar` | keyboard interrupt, `sys_read` |
| keyboard, `device/keyboard.c` | control keys, `ext_scancode`, `kbd_buf` | the interrupt handler | I/O queue |
| IDE driver, `device/ide.c` | channel lock, `expecting_intr`, `disk_done`; the disk's registers | `ide_read`, `ide_write`, `intr_hd_handler` | file system |
| page allocator, `kernel/memory.c` | two frame pools, address bitmaps, page tables | `malloc_page`, `get_a_page`, `mfree_page` | heap, thread creation, `fork` |
| heap, `kernel/memory.c` | arenas, block descriptors, free lists | `sys_malloc`, `sys_free` | kernel and processes |
| processes and `fork`, `userprog/` | page directory, address bitmap, cr3 | `process_execute`, `start_process`, `sys_fork` | main, `init` |
| file contents, `fs/file.c`, `fs/inode.c` | inodes, block bitmap, descriptors | write, read, seek, release | main thread |
| directories, `fs/dir.c` | entries in the blocks of a directory | create, delete, look up, read | main thread |
| file system calls, `fs/fs.c` | mounted partition, list of open inodes, `file_table`, descriptors, working directory | open, close, unlink, mkdir, rmdir, opendir, chdir, mount | main thread |

What is hard. The kernel has one processor, and its only protection besides
locks is the interrupt flag; whatever runs with interrupts on may be preempted
between any two accesses. System calls (gates that clear IF) run with
interrupts off and give the processor away only by sleeping. `sync.c` mixes
both: semaphores are atomic, the lock around them is not. Interrupt handlers
(timer, disk, keyboard) touch the same data as tasks do. Memory is reached
through whatever page directory is active when a task sleeps and wakes up. The
file system runs in one thread and is exposed to the borders of its block
tables, to the agreement of what it keeps in memory with the disk, and to the
moment of a power failure rather than to interleavings.

What makes each part correct is stated as properties in its module; the
hazards behind them are listed, line by line, in `PROJECT.json`.

## 2. Modules

| module | models | built on |
|---|---|---|
| `Debug` | `ASSERT` of `kernel/debug.c` and the state of the kernel, `kernel` | |
| `Inode` | what `file.c` and `dir.c` share: an inode, the block bitmap, the disk | `Debug` |
| `Sched` | scheduler, interrupt flag, semaphores, locks, creation of tasks | `AbstractLock` (what the locks promise) |
| `List` | the linked lists at pointer level, for the theorems alone | |
| `Ide` | one IDE channel, its driver and its disks | |
| `IoQueue` | the ring queue and the tasks that use it | `AbstractFifo` (what the queue promises) |
| `Keyboard` | the keyboard, its interrupt and the queue it fills | `IoQueue` |
| `BitmapScan` | `bitmap_scan`, `bitmap_set` and first fit, the reference for the search | |
| `Memory` | page allocator | `BitmapScan` |
| `Heap` | `sys_malloc`, `sys_free` | `BitmapScan` |
| `Fork` | `copy_process` against cr3, beside `start_process` | |
| `FileData` | file blocks: write, read, seek, release | `Inode` |
| `Dir` | entries of one directory | `Inode` |
| `Fs` | the calls on paths and descriptors, and the order of their disk writes | |
| `SchedProofs`, `KeyboardProofs`, `ForkProofs`, `BitmapProofs` | theorems about `Sched`, `Keyboard` with `IoQueue`, `Fork`, `BitmapScan` | |
| `DiskProofs` | theorems about what lies on the disk and how it gets there: `Ide`, `FileData`, `Dir` | |
| `FsProofs` | theorems about `Fs`, and about `List`, of which the open inodes are one | |
| `HeapProofs`, `MemoryProofs` | theorems about `Heap`, `Memory` | `BitmapProofs` |
| `MC*` | the modules as TLC takes them | |

A module on code with ASSERTs extends `Debug`. Modules whose theorems
share a proof module have names of their own for the specification: `FileSpec`,
`DirSpec`, `ListSpec`, and the same for `Init` and `Next`.

### Sched

`status`, `ready`, `all`, `ticks`, `value`, `waiters`, `holder`, `repeat` are
the fields of `task_struct`, `semaphore` and `lock`. `cur` is the running task,
`intr` the interrupt flag, `ctx[t]` the flag with which a switched-out task
resumes. `pc[t]` names the line a task is at where it can be preempted: in
`lock_acquire` after `sema_down` (`hold`, `rep`), in `lock_release` before
`sema_up` (`relh`, `relr`, `up`), in `allocate_pid`, in `thread_start`, in
`idle`. Code under `intr_disable` is one step that ends where the task blocks
or restores the flag. `schedule` is an operator used by every action that
switches, and `switch_to` only exchanges stacks, so that switching is changing
`cur`. `held` is an auxiliary count of the acquisitions each caller knows of;
nothing reads it except the properties, the bound `MaxRepeat` and the choice of
callers to release only what they hold.

Callers are any code that acquires and releases a lock it holds, yields, waits
for a device (`Sleepers`), makes a system call or creates a task. No code in
the kernel holds two different locks at a time (the console lock, the pool
locks and the channel locks are leaves), and the model's callers do the same.
`main` never exits and goes on yielding; no task of zhuOS ever exits.

`ASSERT(p)` sets `kernel` to `"panic"` when `p` fails, as `panic_spin` stops
the processor; nothing happens after it. In `Heap` a panic would have no
successor, and TLC's deadlock check would find it. Where the code does stop, the
stopped state stays (`panic_spin` in `Ide` and `Fork`, `hang` in `IoQueue`,
`file_stopped`, `dir_stopped`), the machine is started again (`Fs`), or the run
does not look for deadlock (`mem_alloc`).

### List

`Sched` and `IoQueue` treat a list as a sequence that changes in one step.
`List` justifies this: the fields are assigned one by one, removed elements
keep stale pointers, `elem_find` walks element by element. `content` is what
each list should hold. `Preemptible` names the functions that are called with
interrupts on; see section 6. What is said of `List` is proved; no run takes it.

### Ide

A task goes through `select_disk`, `select_sector`, `cmd_out`, `sema_down`,
`busy_wait` and the transfer, one step each; the disk (external) accepts a
command, moves to `drq`, raises its interrupt, which stays latched in the 8259,
and may fail; `intr_hd_handler` is one step. A disk may also interrupt inside a
transfer of several sectors (`sector_irqs`), as ATA disks do for READ and WRITE
SECTORS; `extra` records that one has. `Written` are the disks with a file
system, the only ones that are written. The sector count goes through its
8-bit register (`256` is written as `0`), scaled by `Chunk`. The channel lock
is the abstract lock that `Sched` implements.

### IoQueue

Functions of `ioqueue.c` run with interrupts off; a call is one step from its
start, or from where it is woken, to where it returns or blocks. A consumer is
`home`, in `lock_acquire` (`lock`) or in `ioq_wait` (`waiting`, holding the
lock). `initialised` begins with either value: nobody calls `ioqueue_init` for
`kbd_buf`. Then the lock's semaphore is 0 and its list is all null pointers: the
first reader sleeps on a lock that nobody has, and the second never comes out of
`elem_find` (`hang`).

### Keyboard

`Keyboard` extends `IoQueue` by the writer that never sleeps. The hardware
(external) presses, repeats and releases keys and offers the bytes of scan code
set 1; `intr_keyboard_handler` takes one byte per interrupt, keeps
`ext_scancode` between the two bytes of an extended code, changes the status
of the control keys and puts a character unless the ring is full. Codes and
tests are the source's numbers; of the keymap only the difference between
visible and invisible characters is kept, so that a character is the pair of
index and shift.

### Memory and BitmapScan

Bitmaps are sets of indices and may contain an index past the end, which is
what follows the bitmap in memory: the loop of `bitmap_scan` tests one bit too
far. Behind the kernel's address bitmap that bit is set or clear at first, behind
a process's it is clear (the rest of a page that `get_kernel_pages` has zeroed).
Scanning a bitmap, setting it and installing a page table entry are steps of
their own; a caller with interrupts on is preempted between them, a system call
is not unless it sleeps on the pool's lock. `get_kernel_pages` and `mfree_page`
take no lock and `sys_malloc` takes its caller's: calls overlap as they do in the
code, and `raced` records when two without a common lock have. `page_table_add`
takes a frame for a missing page table from the kernel pool whatever lock its
caller has.
`palloc` never returns NULL: on a full pool the `ASSERT` in `bitmap_scan` fails
first, so the error paths of its callers are dead code and not in the model.

### Heap

One call is one step under the pool lock. Free lists are sets (which free block
`list_pop` takes does not matter to any property, and any may be taken).
Addresses, headers, block indices and the mask in `block2arena` are computed as
in the source, with small sizes. The bit behind the address bitmap is set or clear
at first, as in `Memory`.

### Fork

cr3 is explicit: memory is read and written, and pages are installed, in the
page directory that is active. The parent runs with interrupts off until
`lock_acquire` of the user pool puts it to sleep; `schedule` activates the page
directory of whoever runs next. `user_pool` is the pool's bitmap, which the
search (`palloc_scan`) reads and `palloc` sets in a later step of
`start_process`, with the timer in between; only the lock keeps two searches from
finding one frame. The parent scans and sets in one step, interrupts being off.
On a full pool the `ASSERT` of `bitmap_scan` fails (`pool_full`). The first
process may have any set of pages.

### FileData and Dir

Byte `p` of file `f` is the value `<<f, p>>`, so contents say where they belong.
The computations of block counts, of the blocks to allocate and of the table
are the source's, with small blocks and tables; `fd_pos` wraps at `Word`. A
write that finds no block left stops in the `ASSERT` of `bitmap_scan`, as a
directory that needs one does.
The contents of freed blocks are forgotten. In `Dir` a name stands for an
entry; `sync_dir_entry` does not read the indirect table while the other
functions do, as in the source. `dir_read` follows the source's `dir_pos`
arithmetic. Calls are atomic: only the main thread calls the file system, whose
functions are not system calls yet.

### Fs

The disk is an inode table, two bitmaps and directory blocks; the memory has
the bitmaps of `cur_part`, the open inodes with their counts and `write_deny`,
`file_table`, `fd_table` and the working directory. A call is one step on the
memory, since nobody else runs in the file system, and puts the sectors it
writes into `todo` in the order of the code; `ide_write` does them one by one
before the next call. Every state between two writes is therefore a disk that
a power failure can leave. `r` is the result of `search_file`, with its
idiosyncrasies: it stops at a regular file although names are left, and the
parent it returns is the static `root_dir` or a directory that the caller has
to close (`parent_kept` where the caller forgets). Error paths are kept: full
tables, a second writer that is refused with its slot taken, a descriptor table
without room. `filesys_init` is a restart between two calls or after a failed
ASSERT. Blocks are counted, not filled: `Dir` and `FileData` have the levels
below.

`mount_partition` reads the block bitmap into `inode_bitmap` and leaves
`block_bitmap` zero (`fs.c:64-65`). With that a restart forgets inodes, and the
first `sys_mkdir` or `sys_write` gets block 0 and fails its ASSERT (`checked`), so
that nothing behind it would ever be reached. `mount_loads` therefore begins with
either value: false is the source, true is what the comments of `fs.c` say, and
every property and theorem is about both. `lost` records that a start has read
other inode bits than the disk's: from then on one number can have two names, and
the properties about the disk end there (run `fs_mount`). `delete_dir_entry` then
stops the kernel if both are in one directory (`OnlyName`).

## 3. Runs

| run | instance | distinct states | shows |
|---|---|---|---|
| `sched_safety` | main, idle, two processes, one lock besides `pid_lock` | 528 000 | no ASSERT fails; locks exclude and implement `AbstractLock`; each task is in the list its status says; no wake-up is lost; the interrupt flag is restored |
| `sched_live` | main, idle, one kernel thread | 6 800 | a ready task runs; a sleeper on a lock is woken |
| `ide_safety` | two tasks, two disks, one of them written, three sectors in chunks of two | 528 000 | completions count once; until a disk interrupts inside a transfer, each transfer is the one asked for, commands meet an idle disk and long reads are not torn; sleepers are woken |
| `kbd_typing` | two readers, a writer, a ring of 3, four sets of up to three keys, the queue initialised or not | 2 840 000 | no ASSERT fails in a queue that is initialised, and no sleeper there is unknown to all; no control key gets stuck; the ring implements `AbstractFifo` |
| `mem_alloc` | a kernel thread, two processes, two pools, the bit behind the kernel's address bitmap set or clear | 567 000 | frames are exclusive and accounted, the kernel's addresses too, until two calls without a common lock overlap; `bitmap_scan` is first fit, the bit behind counted |
| `mem_race` | two kernel threads | violation | `get_kernel_pages` without the lock: two uses of one frame |
| `heap_blocks` | five blocks in use, four sizes, two block sizes, ten pages, the bit behind set or clear | 1 026 000 | blocks do not overlap; free lists, counters and pages exact |
| `fork_start` | a process, two children, a process in `start_process`, six frames | 26 000 | frames are not shared; the child is a copy; processes are isolated |
| `fdata_append` | two files of up to 5 bytes, blocks of 2, 1 direct block, 7 blocks in all | 63 900 | every byte is read back; blocks are neither shared nor leaked |
| `dir_blocks` | five names, 2 direct blocks, 3 slots per sector | 5 100 | look-ups, block bitmap and size exact |
| `fs_calls` | two names, three inodes and blocks, three slots, two descriptors, paths of two names, both ways of mounting | 90 000 | until a start loses inode bits: memory and disk agree between calls, the directories are a tree, the bitmaps are exact, a power failure hits one object; always: references are backed |
| `fs_mount` | the same | violation | after a restart a directory has two names for one inode |

Bounds. Two processes are enough for a preempted holder, a waiter and a third
task (main) that overtakes; `MaxRepeat = 2` nests a lock; `Priority = 0` in
`sched_safety` lets the timer preempt at every step, `1` in `sched_live` gives
a slice to use up. Three sectors in chunks of two are a full and a last chunk.
A ring of 3 holds two bytes, so that it can be full with both ends inside and
wraps. Pools of three frames and address bitmaps of three pages are full and
fragmented with a two-page allocation in use, and the bit behind is in reach of
a run of two; `heap_blocks` has five bytes of bits in its bitmap. In `FileData`
one direct block and a table of three put the border between them, and the border
between blocks, inside 5 bytes, and two files of that size do not fit into seven
blocks. In `Dir` the fifth name is the first one in the indirect table. The
key sets of `kbd_typing` pair the left and the right key of each kind with a
digit, a letter and caps lock, or an unknown extended key; two keys can be
down at once. In `fs_calls` three inodes allow a directory in a directory, or
two files, with inode and block numbers that are used again; three slots with
two descriptors make each table run full before the other; `MaxRefs` bounds
the references that forgotten parents accumulate. After a start that has lost
bits, a creation that would get the number of an open file is left out.

Symmetry is used in `mem_alloc` (the processes), `kbd_typing` (the readers) and
`fs_calls` and `fs_mount` (the names); none of them checks liveness.

The violations are findings: `thread_start` calls `get_kernel_pages` with
interrupts on and without `kernel_pool.lock`, against the comment that the bitmap
must be searched and set atomically (`kernel/memory.c:96`); and a file that is
created after a restart gets the number of one that exists, because
`mount_partition` reads the wrong bitmap, against the ASSERT of
`delete_dir_entry` that a directory has one entry for an inode (`fs/dir.c:260`).

## 4. Fairness

`Sched!Fairness`: strong fairness of the timer handler (the 8253 keeps
ticking, but the handler runs only while interrupts are on), of the device
interrupts a sleeper waits for, of the running task's own code (a task that is
given the processor again and again gets on), of the return of a system call,
and of releasing a lock that is held (every section in the kernel that holds
one is finite). No fairness is assumed of acquiring a lock, of yielding, or of
creating tasks. `Ide!FairSpec`: the disk answers or fails, its latched
interrupt is delivered, and the tasks run.

## 5. Proofs

TLAPS proves, for every value of the constants that the modules' named
assumptions allow (any number of tasks, locks, disks, processes, pages, lists
and keys; any sizes), where the table gives no further hypothesis:

| theorem | states |
|---|---|
| `SchedProofs!TypeCorrect` | `Spec => []TypeOK` |
| `SchedProofs!TagsInOneList` | `Spec => []TagInOneList` |
| `SchedProofs!NeverPanics` | `Spec => []NoPanic` |
| `SchedProofs!LocksExclude` | `Spec => []MutualExclusion` |
| `SchedProofs!WakeupsAreKept` | `Spec => []NoLostWakeup` |
| `SchedProofs!FlagsAreRestored` | `Spec => []InterruptFlagRestored` |
| `SchedProofs!LocksImplement` | `Spec => LocksRefine`: the lines of `sync.c` implement `AbstractLock` |
| `DiskProofs!CompletionsCountOnce` | `Spec => []DoneOnce`, whatever the disk does |
| `DiskProofs!TransfersAreRight` | `Spec => []RightTransfer`: whatever the disk does, until it interrupts inside a transfer (`extra`) |
| `DiskProofs!ReadsAreAtomic` | `Spec => []ReadIsAtomic`, until `extra` |
| `KeyboardProofs!KeysDoNotStick` | `KSpec => []NoStuckKeys` |
| `KeyboardProofs!RingIsFifo` | `KSpec => FifoRefined`: the ring implements `AbstractFifo` |
| `KeyboardProofs!SleepersAreKnown` | `KSpec => []SleeperKnown`, of which a part is that only a queue that nobody initialised stops the kernel |
| `ForkProofs!SpacesStayDisjoint` | `Spec => []SpacesDisjoint` |
| `ForkProofs!ForksAreCopies` | `Spec => ForkCopies`, an action property |
| `ForkProofs!ProcessesAreIsolated` | `Spec => Isolation`, an action property |
| `BitmapProofs!ScanFindsFirstFit` | `bitmap_scan` returns the first run that fits, or -1, where the bit behind the bitmap counts as one of its bits |
| `MemoryProofs!FramesStayExclusive` | `Spec => []FramesExclusiveAlone`: frames are exclusive, also in a stopped kernel, until two calls without a common lock overlap (`raced`) |
| `MemoryProofs!FramesAreAccounted` | `Spec => []FramesAccounted`, until `raced` |
| `MemoryProofs!PagesAreAccounted` | `Spec => []PagesAccounted`, until `raced` |
| `MemoryProofs!ScansAreFirstFit` | `Spec => []ScanIsFirstFit`, always |
| `HeapProofs!BlocksStayApart` | `Spec => []BlocksApart` |
| `HeapProofs!FreeListsAreExact` | `Spec => []FreeListExact` |
| `HeapProofs!ArenasAreExact` | `Spec => []ArenasExact` |
| `DiskProofs!WrittenBytesStay` | `FileSpec => []ContentsExact` |
| `DiskProofs!BlockBitmapExact` | `FileSpec => []BlocksExact` |
| `DiskProofs!FilesReadBack` | `FileSpec => []ReadsBack`, if `n + BLOCK_SIZE * MaxBlocks < Word` for every count `n`: no count makes `fd_pos + count` wrap round |
| `DiskProofs!LookupsExact` | `DirSpec => []EntriesExact`, if there are fewer names than the direct blocks have slots |
| `DiskProofs!DirectoryBlocksExact` | `DirSpec => []DirBlocksExact`, if there are fewer names than the direct blocks have slots |
| `FsProofs!ListsAreLinked` | `ListSpec => []Linked`, if `ListAssumption` and `"push" \notin Preemptible` |
| `FsProofs!FindIsExact` | `ListSpec => []FindExact`, if `ListAssumption` and `Preemptible = {}` |
| `FsProofs!RestartLosesNothing` | `Spec => []MemoryIsDisk`, here and below if `NInodes <= 256`; this and the next three until a start has lost inode bits |
| `FsProofs!DirectoriesAreATree` | `Spec => []TreeShape` |
| `FsProofs!NoLeakOnDisk` | `Spec => []BitmapsExact` |
| `FsProofs!PowerFailureSafe` | `Spec => []CrashSafe`, at every sector written |
| `FsProofs!OpenFilesStay` | `Spec => [](lost \/ RefsBacked)`; the run checks `RefsBacked` without `lost` |

The hypotheses are those of section 6: with each of them dropped the code does
something else, and the property fails. Where the code itself leaves what a
property is about, in the middle of a behaviour, the model does so too and a
history variable says when: `extra` (a disk interrupts inside a transfer),
`raced` (calls of the page allocator without a common lock overlap), `lost` (a
mount has read other inode bits than the disk's). The properties hold in every
behaviour up to that moment, and no theorem assumes that it does not come. No
code is left out for it: the behaviour goes on, and what then fails is listed in
section 6.

### The arguments

None of the properties is inductive. What has to be added is, in each module:

**Scheduler.** `Inv == TypeInv /\ ListInv /\ LockInv /\ NoPanic`:

* `TypeInv` adds to `TypeOK` that a task inside `thread_start`, or inside a lock
  function that returns to it, has chosen the task it creates.
* `ListInv` says where a task can be for each status. `TagInOneList` alone does
  not say that a blocked task sits at the loop of `sema_down` on the lock in
  whose list it is, or that a task that does not exist yet is in no list; without
  this `thread_unblock` could put a task into the ready list twice. It is
  preserved without reference to the locks.
* `LockInv` says what `holder`, `holder_repeat_nr` and the semaphore's value are
  at each line between which a task can be preempted. The lock belongs to a
  task from the moment `sema_down` took the value until `sema_up` returns it
  (`Inside`), although `holder` says so only for a part of that time: at `hold`
  the value is 0 and the nesting count 0, at `relr` the holder is already NULL
  and the count still 1. Mutual exclusion of `Inside` gives `MutualExclusion`,
  and the line-by-line facts discharge the ASSERTs.
* `NoLostWakeup` is inductive relative to `Inv`: `sema_up` raises the value and
  wakes one waiter in one step, and whoever takes the value leaves it at 0.
* `FlagInv` computes the flag a task must run with from where it is and where
  it returns to (`Mode`): a task in the loop of `sema_down` runs with
  interrupts off and has saved that flag in `old`, any other task that was
  switched out has it in its context.

The refinement needs no more: `held` maps to the abstract lock's state, it
changes in `set_repeat`, in nested calls and at the start of the final release,
and `Inv` shows that it then is nobody's or the caller's.

**IDE driver.** `IdeInv` says that whoever is between getting and giving back
the channel is its holder (or the main thread, before it has booted), that at
each of the driver's lines `expecting_intr` plus the semaphore's value is what
the line needs (`CountInv`), and which chunk the registers describe
(`ChunkInv`). It does not constrain the disk, so that `DoneOnce` holds even if
the disk fails or interrupts too often. `DeviceInv` adds what the disk is doing
while the driver waits (`Working`); it holds until `extra`, since it needs one
interrupt per command. For
`ReadIsAtomic`, `ReadInv` keeps what was read so far equal to the contents of
the disk when the request began, which no other task can have written.

**Queue and keyboard.** The queue is read off the ring with `Count` and `At`,
free of remainders in `Positions`, so that `Tail` and `Append` correspond to the
moves of `tail` and `head`. `SleepInv` says who is in the list of the queue's
lock, who is recorded as `consumer` or `producer`, and that those are the
sleepers; `ioq_wait`'s ASSERT that nobody is recorded yet follows from the lock.
In a queue that nobody initialised everybody is at home until the kernel stops
(`IdleInv`).
`KeyInv` says that a control key's status is backed by a held key or by a byte
on its way to the handler, where half of a two-byte code may have arrived. It
showed that a key whose second byte were 0x60 would have the break code 0xe0,
the prefix itself; no keyboard has it, and `Codes` now leaves it out.

**Lists.** `Chain` relates the pointers of each list to its contents, `Unique`
puts an element in one place, and `PushInv` says what a task that has read the
first element still knows, which is true only as long as nobody runs in
between. `FindInv` says that a search stands on a node of its list and has passed
only others.

**Fork.** `MapInv` says which pages are mapped in each directory, `PartlyMapped`
for the child under construction: exactly those that `copy_body_stack3` has
passed. `ActiveInv` says whose directory is active at each step; it is the
parent's when the parent comes back from the pool's lock, and then the ASSERT
stops the kernel before anything is installed. That spaces are disjoint rests on
the pool (`PoolInv`): every frame in use is marked, and what a search has found is
still unmarked when the task that searched comes to mark it, which follows from
the lock (`LockInv`) and not from the search. `ChildInv` gives a child one parent; `CopyInv` says that what has been copied still equals the parent's page,
because the parent does not run in user mode and nobody else maps its frames.
The next page is the smallest that is left, which exists because page numbers
are well-founded.

**Bitmap.** What a recursively defined function computes is out of reach of the
provers as an induction, but not as a well-founded argument: the loop's count
at a position is characterised by the last position before it where the bit is
set, a smallest counterexample to that has a predecessor that is none, and the
library's theorem that every non-empty set of numbers has a minimum replaces the
induction. A run is then found where the count first reaches `cnt`.

**Page allocator.** `MemInv` holds until `raced`. It keeps one task at a time past
the locks (`LockInv`), and says at each step of a call what it has reserved and not yet mapped, or
unmapped and not yet given back: a frame is marked from `palloc` on, before it is
mapped (`Coming`), and no longer after `pfree`, while it still is (`Going`); the
pages of the kernel that are marked and not mapped are those the call has still
to fill, or has already emptied (`Pending`). `FoundInv` says that what a search
found is still free when it is marked, also for a page table taken from the
kernel's pool in the middle of a process's call. The address that `memory.c:74`
computes for a process need not be the reserved one: it can be one that is
mapped, and then the `ASSERT` of `page_table_add` stops the kernel. `Exclusive`
holds even then, the rest of the invariant until then, and a stopped kernel is
inside a call, so that what is claimed between calls is not affected. Of the page
behind the bitmap, which a kernel call for several pages may get, the invariant
says only that it is marked if it is mapped. That a
process's stack page is marked and mapped (`StackInv`) keeps those addresses
inside the address space and the stack's page from being freed.

**Heap.** `HeapInv` adds to the three properties that arenas have pages of their
own (`PagesApart`), that each block in use comes from an arena and
fits in what was cut for it (`LiveInv`), that two callers do not have one address
(`OneCaller`), and that headers agree with their descriptors (`HeadersOK`). A
large block may end in the page behind the bitmap.
The three properties depend on each other: `free_block` gives a page back on the
word of the header's count alone, which is right only if the free list is
exact, which needs that blocks do not overlap. Counts are cardinalities of
finite sets of blocks. The assumptions: a block fits in a page behind the
header, and nothing is empty.

**File contents.** `FileInv` numbers the places of a file, direct blocks first,
then those of the table, then the table itself, and says that a file has blocks
at exactly the places its size needs (`BlocksFitSize`), that no block is at two
places of any files (`OneOwner`), that exactly those are marked (`MarkedIfOwned`)
and that byte `p` is in the block at place `p \div BLOCK_SIZE` (`Stored`). A
write that grows a file takes the smallest free blocks one after the other; that
they are different, and that there are enough, is counting the free blocks below
a number (`CountBelow`). `file_read` collects the blocks between the first and
the last it needs, and each byte is in the one at its place.

**Directories.** `DirInv` says the same of the blocks of a directory, and of the
entries that each name is in one slot and every slot has a name or is empty
(`EntOk`). What is special is the table: `sync_dir_entry` does not read it, so
that a second entry there would cost the first its table. `TableOk` says that
the table has one block with one entry, or is not there. With fewer names than
direct slots, the names, "." and ".." are at most one more than the direct slots;
a name goes to the table only when all of those are full, and by the pigeonhole
principle it then is the only one there. Beyond that bound section 6
(`dir.c:130`) applies; the run is at the bound.

**File system calls.** The disk is taken apart into the blocks and sizes of the
inodes, the entries in the blocks and the two bitmaps. `Good` is what it
satisfies between calls; it adds to the checked properties that ".." is the
directory with the name, that a directory has one "." and one "..", and that
free inodes are blank. `CrashOk` is what remains in the middle of a call.
`FsInv` says that the pending writes lead from the disk as it is now, through
disks that are all `CrashOk`, to one that is `Good` and with which the memory
already agrees (`Leads`, `Agrees`). A call makes such a way, a write goes one
step along it, and that is the whole induction: for each call the disks between
its writes are named, and each is shown to be `CrashOk` in the order in which
the code writes. The directories are those in every set that has the root and
the subdirectories of its members, so that what a call does to them is shown
with one set each, without recursion. `search_file` is a recursion over numbers,
handled like the bitmap's loop by a smallest counterexample. Where
`mount_partition` leaves `block_bitmap` zero, no block but the root's is ever used
(`Plain`): the first call that asks for one fails its ASSERT, and the disk is then
as the calls before have left it (`Stopped`). `AllInv` is
`lost \/ FsInv \/ Stopped`. `dir_is_empty` holds of no directory, so that the
branch of `sys_rmdir` that removes one is dead (`NeverEmpty`). 256 inodes, because
`inode_sync` keeps eight bits of `i_no`.

### Only model-checked

* Liveness under fairness (`ReadyRuns`, `WaiterWoken`, `SleeperWoken`): the
  provers do not handle fairness.
* `RefsBacked` after a start that has lost inode bits.
* What `dir_read` returns: nothing, in every run (section 6), and no property is
  about it.
* `PagesAccounted` says nothing of a process's bitmap, where it does not hold
  (section 6).

## 6. Where the properties end

The code also does what follows, and there the properties do not hold. Some
settings of the constants leave it out of the runs; some of it is in the runs, and
the properties end there (`extra`, `raced`, `lost`, `initialised`). Two are runs of
their own. A change to the code should begin with them.

| where | setting or variable | what happens |
|---|---|---|
| `thread.c:123` | `List` (no run): `Preemptible = {"find"}` | `thread_start` searches a list with interrupts on; the element it stands on moves to another list and the search follows it there: `FindStays` fails |
| `list.c:32` | `List` (no run): `Preemptible = {"push"}` | `list_push` reads the first element before interrupts are off (`inode_open` and `file_create` call it with interrupts on): `Linked` fails |
| `thread.c:60` | `Sched`: two creators, `PidsUnique` | `next_pid` is read after the lock is released: two tasks get one pid |
| `ioqueue.c:51` | `IoQueue`, `WaitsOnlyWhenEmpty` | a consumer that waited for the lock sleeps beside a queue that has data by then, until the next byte |
| `keyboard.c:38` | `IoQueue`: `~initialised` (in the run) | `kbd_buf` is never given to `ioqueue_init`; the first reader sleeps on a lock nobody has, the second stays in `elem_find` |
| `keyboard.c:145`, `:198` | `Keyboard` (in the run) | releasing one of two shift keys ends shift; caps lock toggles with every repeated code |
| `ide.c:180` | `Ide`: `extra` (in the run) | a disk that interrupts for each sector makes a write end early: `RightTransfer` (its part `CommandOnIdle`) and `ReadIsAtomic` fail |
| `ide.c:230` | `Ide` (in the run) | a write error is not looked for |
| `ide.c:146` | `Ide`, `WaitBounded` | `time_limit -= 10 >= 0` subtracts 1 for 10 ms: the limit is 300 seconds, not 30 |
| `memory.c:127`, `:174` | `Memory`: `raced` (in the run) | calls that take different locks, or none, share the kernel pool: `FramesExclusive` fails (run `mem_race`) |
| `memory.c:74` | `Memory`: `PagesAccounted` of a process | the address is `start + bit + PG_SIZE`: the page that is mapped is not the page that is reserved |
| `bitmap.c:50` | `BitmapScan` (in the runs) | a run may include the bit after the bitmap, and `bitmap_scan` is first fit with that bit counted |
| `bitmap.c:32` | a full pool | the `ASSERT` fails before `-1` is returned |
| `fork.c:63` | `Fork`, `InstallsInChild` | `copy_body_stack3` switches to the child's page directory so that entries are not installed in the parent, sleeps on the pool's lock, and `schedule` brings back the parent's; the `ASSERT` in `page_table_add` then stops the kernel, which is why the properties of `fork_start` still hold |
| `file.c:279` | `FileData`: `Limit` at the maximal size | the size is accepted and the `ASSERT` fails |
| `file.c:461` | `FileData`: a file that has its last block | the block can be written, not read |
| `file.c:401` | `FileData`: `0 \in Counts` | writing nothing to an empty file leaves `fd_pos` at 2^32 - 1 |
| `dir.c:130` | `Dir`: a sixth name | the second entry in the indirect table replaces the table of the first |
| `dir.c:292` | `Dir`: deleting in the table (in the run) | the loop never advances: state `"hang"` |
| `dir.c:382` | `Dir`: `dir_read` (in the run) | no entry is ever returned |
| `fs.c:65` | `Fs`: `~mount_loads` (in the run), `lost` | `mount_partition` reads the block bitmap into `inode_bitmap` and leaves `block_bitmap` zero: the first `sys_mkdir` or `sys_write` gets block 0 and its `ASSERT` fails (`fs.c:587`, `file.c:270`), and after a restart a file gets the number of another (run `fs_mount`). `FileData` and `Dir` begin with the block bitmap of the disk |
| `fs.c:473` | `Fs`: `r.ino # 0` in `sys_unlink` and `sys_rmdir` | a path that leads to the root stops the kernel; `/f/x` removes the file `f` (in the run) |
| `dir.c:395` | `Fs` (in the run) | one entry counts as empty, "." and ".." are two: `sys_rmdir` never succeeds |
| `file.c:220` | `Fs` (in the run) | any close resets `write_deny`, and `file_create` never sets it: two writers |
| `file.c:166`, `:207` | `Fs` (in the run) | an open that is refused, or finds no descriptor, keeps its slot until the next start |
| `inode.c:50` | `Fs`: 256 inodes and more | `uint8_t inode_no`: inode 256 is written over inode 0 |

`Dir` conditions its properties on `kernel = "up"`, that is on neither
`dir.c:292` nor `dir.c:382` having happened.

## 7. Not modelled, and the plan

Not modelled: boot code, the IDT and 8259A programming, printing and string
functions (straight-line code or output only); `ide_init`, `partition_scan`
and `partition_format` (once, at start-up, with one thread; the layout that
formatting is meant to leave is the initial state of `Fs`); `sys_stat` and
`sys_getcwd`, which change nothing on the disk or in the tables, and
`sys_rewinddir`; the shell, which executes no command yet.
The file system does nothing to recover: what a mount makes of a disk that a
power failure left half written is whatever is on it, and `CrashSafe` bounds
that instead.

Next, in this order:

1. `Heap` and `Fork` together: the descriptors in the child's copied arenas
   (`fork.c:13`);
2. `Fs` over the blocks of `Dir` and `FileData` instead of counted blocks.
