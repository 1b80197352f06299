------------------------------- MODULE Memory -------------------------------
(***************************************************************************)
(* The page allocator of kernel/memory.c: two pools of page frames, the    *)
(* virtual address bitmaps of the kernel and of each process, and the page *)
(* tables.  A caller with interrupts on can be preempted between any two   *)
(* accesses to a bitmap or a page table; a system call (`off') cannot,     *)
(* except while it sleeps on a pool's lock.                                *)
(***************************************************************************)
EXTENDS Integers, FiniteSets, BitmapScan, Debug

CONSTANTS
    KThreads,           \* kernel threads
    Procs,              \* processes
    KOps, UOps,         \* the calls that threads and processes make
    KBytes, UBytes,     \* btmp_bytes_len of the bitmaps of the two pools
    VBytes,             \* and of the virtual address bitmaps
    TablePages,         \* pages that one page table maps (1024)
    PG_SIZE,
    KCnts, UCnts,       \* the page counts that are asked for
    KOwned, UOwned,     \* bounds on the allocations a task keeps
    NULL

AllOps == {"get_kernel_pages", "mfree_page", "sys_malloc", "sys_free", "get_a_page"}

Tasks  == KThreads \union Procs
Pools  == {"kernel", "user"}
Spaces == {"kernel"} \union Procs      \* kernel_vaddr, userprog_vaddr

ASSUME MemoryAssumption ==
    /\ KThreads \intersect Procs = {} /\ KOps \union UOps \subseteq AllOps
    /\ {KBytes, UBytes, VBytes, TablePages, PG_SIZE, KOwned, UOwned} \union KCnts \union UCnts \subseteq Nat \ {0}
    /\ Tasks \intersect Pools = {} /\ NULL \notin Tasks \union (Pools \X Nat)

Behind == VBytes * ByteBits            \* the bit, and the page, after the last
Pages  == 0..(Behind - 1)
AllPages == 0..Behind                  \* vaddr_get may hand out the last one
STACK3 == Behind - 1                   \* the page of USER_STACK3_VADDR

Bytes(pool) == IF pool = "kernel" THEN KBytes ELSE UBytes
Frames == {<<p, n>> : p \in Pools, n \in 0..(KBytes + UBytes) * ByteBits}

VARIABLES
    used,       \* the bitmaps of the pools
    vused,      \* the bitmaps of virtual addresses
    pt,         \* page tables: the frame a page is mapped to
    tables,     \* the page directories: the frame of each page table
    holder,     \* the locks of the pools
    off,        \* the task that runs with interrupts off
    started,    \* the processes that have left start_process
    pc, call,   \* where each task is, and the arguments and locals it has
    own,        \* what it has allocated: [addr, cnt, heap]
    raced       \* history: two calls without a common lock have overlapped

vars == <<used, vused, pt, tables, holder, off, started, pc, call, own, raced, kernel>>

NoCall == [op |-> "none", pool |-> "kernel", space |-> "kernel", addr |-> 0, cnt |-> 0,
           k |-> 0, bit |-> 0, frame |-> NULL]

(* mem_init, and the first page tables: the kernel's own are all there.    *)
(* The bit behind the kernel's address bitmap may be anything; behind a    *)
(* process's is the rest of a page from get_kernel_pages, which is zero.   *)
Init ==
    /\ used = [p \in Pools |-> {}]
    /\ vused \in [Spaces -> {{}, {Behind}}]
    /\ \A p \in Procs : vused[p] = {}
    /\ pt = [s \in Spaces |-> [v \in AllPages |-> NULL]]
    /\ tables = [p \in Procs |-> [r \in 0..(STACK3 \div TablePages) |-> NULL]]
    /\ holder = [p \in Pools |-> NULL]
    /\ off = NULL
    /\ started = {}
    /\ pc = [t \in Tasks |-> "home"]
    /\ call = [t \in Tasks |-> NoCall]
    /\ own = [t \in Tasks |-> {}]
    /\ raced = FALSE
    /\ kernel = "up"

At(t, p) == kernel = "up" /\ off \in {NULL, t} /\ pc[t] = p
Goto(t, p) == pc' = [pc EXCEPT ![t] = p]

(* A process that has started is in a system call. *)
Masked(t) == t \in started

LocksPool(op) == op \notin {"get_kernel_pages", "mfree_page"}
LockOf(t, c)  == IF LocksPool(c.op) THEN c.pool ELSE t

(* The task is past the lock of its call, if the call has one. *)
Inside(t) == pc[t] \notin {"home", "lock"}

(* Nothing keeps a call that takes no lock, or another one, from coming    *)
(* inside while others are.                                                *)
enter(t, c) ==
    raced' = (raced \/ \E u \in Tasks : Inside(u) /\ LockOf(u, call[u]) # LockOf(t, c))

-----------------------------------------------------------------------------
(* The calls.  A kernel thread's sys_malloc takes kernel pages, a process's *)
(* user pages (here: a request that needs new pages; module Heap has the    *)
(* rest).  thread_start, process_execute and sys_fork call get_kernel_pages *)
(* and sys_fork mfree_page; start_process calls get_a_page.                 *)
Begin(t, c, p) ==
    /\ At(t, "home")
    /\ c.op \in (IF t \in Procs THEN UOps ELSE KOps)
    /\ call' = [call EXCEPT ![t] = c]
    /\ IF LocksPool(c.op) THEN Goto(t, "lock") /\ UNCHANGED raced
       ELSE Goto(t, p) /\ enter(t, c)
    /\ off' = IF Masked(t) THEN t ELSE NULL
    /\ UNCHANGED <<used, vused, pt, tables, holder, started, kernel>>

PoolOf(t)  == IF t \in Procs THEN "user" ELSE "kernel"
SpaceOf(t) == IF t \in Procs THEN t ELSE "kernel"

get_kernel_pages(t) ==
    /\ t \in KThreads \union started
    /\ Cardinality(own[t]) < (IF t \in Procs THEN UOwned ELSE KOwned)
    /\ Begin(t, [NoCall EXCEPT !.op = "get_kernel_pages", !.cnt = 1], "vscan")
    /\ UNCHANGED own

sys_malloc(t) ==
    /\ t \in KThreads \union started
    /\ Cardinality(own[t]) < (IF t \in Procs THEN UOwned ELSE KOwned)
    /\ \E n \in (IF t \in Procs THEN UCnts ELSE KCnts) :
          Begin(t, [NoCall EXCEPT !.op = "sys_malloc", !.cnt = n,
                                  !.pool = PoolOf(t), !.space = SpaceOf(t)], "vscan")
    /\ UNCHANGED own

mfree_page(t) ==
    \E x \in own[t] :
        /\ ~x.heap
        /\ Begin(t, [NoCall EXCEPT !.op = "mfree_page", !.addr = x.addr, !.cnt = x.cnt], "pfree")
        /\ own' = [own EXCEPT ![t] = @ \ {x}]

block2arena(addr) == addr - (addr % PG_SIZE)

sys_free(t) ==
    \E x \in own[t] :
        /\ x.heap
        /\ Begin(t, [NoCall EXCEPT !.op = "sys_free", !.addr = block2arena(x.addr), !.cnt = x.cnt,
                                   !.pool = PoolOf(t), !.space = SpaceOf(t)], "pfree")
        /\ own' = [own EXCEPT ![t] = @ \ {x}]

get_a_page(t) ==
    /\ t \in Procs \ started
    /\ Begin(t, [NoCall EXCEPT !.op = "get_a_page", !.addr = STACK3 * PG_SIZE, !.cnt = 1,
                               !.pool = "user", !.space = t], "setbit")
    /\ UNCHANGED own

(* Mutant: the lock is not taken. *)
lock_acquire_none(t) ==
    /\ At(t, "lock")
    /\ Goto(t, CASE call[t].op = "sys_malloc" -> "vscan"
                 [] call[t].op = "sys_free" -> "pfree"
                 [] call[t].op = "get_a_page" -> "setbit")
    /\ enter(t, call[t])
    /\ UNCHANGED <<used, vused, pt, tables, holder, off, started, call, own, kernel>>

(* lock_acquire(&mem_pool->lock): a system call that finds it taken sleeps *)
(* and lets others run (see module Sched for the lock itself).             *)
lock_acquire(t) ==
    /\ At(t, "lock")
    /\ UNCHANGED <<used, vused, pt, tables, started, call, own, kernel>>
    /\ \/ /\ holder[call[t].pool] = NULL
          /\ holder' = [holder EXCEPT ![call[t].pool] = t]
          /\ off' = IF Masked(t) THEN t ELSE off
          /\ enter(t, call[t])
          /\ Goto(t, CASE call[t].op = "sys_malloc" -> "vscan"
                       [] call[t].op = "sys_free" -> "pfree"
                       [] call[t].op = "get_a_page" -> "setbit")
       \/ /\ holder[call[t].pool] # NULL
          /\ off = t
          /\ off' = NULL
          /\ UNCHANGED <<holder, pc, raced>>

-----------------------------------------------------------------------------
(* vaddr_get: search, then set.  The address of a process's page is        *)
(* computed as vaddr_start + bit_idx_start + PG_SIZE.                      *)
vaddr_get_scan(t) ==
    /\ At(t, "vscan")
    /\ LET i == bitmap_scan(vused[call[t].space], VBytes, call[t].cnt)
       IN  /\ ASSERT(i # PANIC)
           /\ \/ i = NOT_FOUND /\ Goto(t, "fail") /\ UNCHANGED call
              \/ i # NOT_FOUND /\ Goto(t, "vset") /\ call' = [call EXCEPT ![t].bit = i]
    /\ UNCHANGED <<used, vused, pt, tables, holder, off, started, own, raced>>

vaddr_get_set(t) ==
    /\ At(t, "vset")
    /\ LET c == call[t]
       IN  /\ vused' = [vused EXCEPT ![c.space] = bitmap_set(@, c.bit, c.cnt, 1)]
           /\ call' = [call EXCEPT ![t].addr = IF c.space = "kernel" THEN c.bit * PG_SIZE
                                               ELSE c.bit + PG_SIZE]
    /\ Goto(t, "pscan")
    /\ UNCHANGED <<used, pt, tables, holder, off, started, own, raced, kernel>>

(* get_a_page sets the bit of the address it is given. *)
get_a_page_set(t) ==
    /\ At(t, "setbit")
    /\ vused' = [vused EXCEPT ![t] = bitmap_set(@, call[t].addr \div PG_SIZE, 1, 1)]
    /\ Goto(t, "pscan")
    /\ UNCHANGED <<used, pt, tables, holder, off, started, call, own, raced, kernel>>

(* palloc: search, then set *)
palloc_scan(t, pool, p) ==
    /\ LET i == bitmap_scan(used[pool], Bytes(pool), 1)
       IN  /\ ASSERT(i # PANIC)
           /\ call' = [call EXCEPT ![t].bit = i]
    /\ Goto(t, p)
    /\ UNCHANGED <<used, vused, pt, tables, holder, off, started, own, raced>>

palloc(t) == At(t, "pscan") /\ palloc_scan(t, call[t].pool, "pset")

palloc_set(t) ==
    /\ At(t, "pset")
    /\ used' = [used EXCEPT ![call[t].pool] = bitmap_set(@, call[t].bit, 1, 1)]
    /\ call' = [call EXCEPT ![t].frame = <<call[t].pool, call[t].bit>>]
    /\ Goto(t, "map")
    /\ UNCHANGED <<vused, pt, tables, holder, off, started, own, raced, kernel>>

-----------------------------------------------------------------------------
(* page_table_add: the entry of a page must not be present.  A page table  *)
(* that is missing is allocated from the kernel's pool, whose lock the     *)
(* caller does not have.                                                   *)
Page(c)     == (c.addr + c.k * PG_SIZE) \div PG_SIZE
Table(c)    == Page(c) \div TablePages
HasTable(c) == IF c.space = "kernel" THEN TRUE ELSE tables[c.space][Table(c)] # NULL

install(t, c) ==
    /\ ASSERT(pt[c.space][Page(c)] = NULL)
    /\ pt' = [pt EXCEPT ![c.space][Page(c)] = c.frame]
    /\ call' = [call EXCEPT ![t].k = @ + 1]
    /\ Goto(t, IF c.k + 1 < c.cnt THEN "pscan" ELSE "unlock")

page_table_add(t) ==
    /\ At(t, "map")
    /\ \/ /\ HasTable(call[t])
          /\ install(t, call[t])
          /\ UNCHANGED <<used, vused, tables, holder, off, started, own, raced>>
       \/ /\ ~HasTable(call[t])
          /\ palloc_scan(t, "kernel", "tset")

(* Mutant: the page table's frame is not marked in the bitmap. *)
page_table_new_unmarked(t) ==
    /\ At(t, "tset")
    /\ tables' = [tables EXCEPT ![call[t].space][Table(call[t])] = <<"kernel", call[t].bit>>]
    /\ install(t, call[t])
    /\ UNCHANGED <<used, vused, holder, off, started, own, raced>>

page_table_new(t) ==
    /\ At(t, "tset")
    /\ used' = [used EXCEPT !["kernel"] = bitmap_set(@, call[t].bit, 1, 1)]
    /\ tables' = [tables EXCEPT ![call[t].space][Table(call[t])] = <<"kernel", call[t].bit>>]
    /\ install(t, call[t])
    /\ UNCHANGED <<vused, holder, off, started, own, raced>>

-----------------------------------------------------------------------------
(* mfree_page: per page pfree, by the pool the frame belongs to, and       *)
(* page_table_pte_remove; then vaddr_remove.                               *)
Mapped(c) == pt[c.space][Page(c)]

pfree(t) ==
    /\ At(t, "pfree")
    /\ LET f == Mapped(call[t])
       IN  /\ ASSERT(call[t].addr % PG_SIZE = 0 /\ f # NULL /\ f[1] = call[t].pool)
           /\ used' = IF f = NULL THEN used
                      ELSE [used EXCEPT ![f[1]] = bitmap_set(@, f[2], 1, 0)]
    /\ Goto(t, "unmap")
    /\ UNCHANGED <<vused, pt, tables, holder, off, started, call, own, raced>>

page_table_pte_remove(t) ==
    /\ At(t, "unmap")
    /\ pt' = [pt EXCEPT ![call[t].space][Page(call[t])] = NULL]
    /\ call' = [call EXCEPT ![t].k = @ + 1]
    /\ Goto(t, IF call[t].k + 1 < call[t].cnt THEN "pfree" ELSE "vremove")
    /\ UNCHANGED <<used, vused, tables, holder, off, started, own, raced, kernel>>

(* Mutant: only the first page's address is given back. *)
vaddr_remove_one(t) ==
    /\ At(t, "vremove")
    /\ vused' = [vused EXCEPT ![call[t].space] =
                     bitmap_set(@, call[t].addr \div PG_SIZE, 1, 0)]
    /\ Goto(t, "unlock")
    /\ UNCHANGED <<used, pt, tables, holder, off, started, call, own, raced, kernel>>

vaddr_remove(t) ==
    /\ At(t, "vremove")
    /\ vused' = [vused EXCEPT ![call[t].space] =
                     bitmap_set(@, call[t].addr \div PG_SIZE, call[t].cnt, 0)]
    /\ Goto(t, "unlock")
    /\ UNCHANGED <<used, pt, tables, holder, off, started, call, own, raced, kernel>>

(* lock_release, and the return to the caller *)
lock_release(t) ==
    /\ At(t, "unlock") \/ At(t, "fail")
    /\ LET c == call[t]
       IN  /\ holder' = IF LocksPool(c.op) THEN [holder EXCEPT ![c.pool] = NULL] ELSE holder
           /\ own' = IF pc[t] = "unlock" /\ c.op \in {"sys_malloc", "get_kernel_pages"}
                     THEN [own EXCEPT ![t] = @ \union {[addr |-> c.addr, cnt |-> c.cnt, heap |-> LocksPool(c.op)]}]
                     ELSE own
           /\ started' = IF c.op = "get_a_page" THEN started \union {t} ELSE started
    /\ off' = NULL
    /\ Goto(t, "home")
    /\ call' = [call EXCEPT ![t] = NoCall]
    /\ UNCHANGED <<used, vused, pt, tables, raced, kernel>>

-----------------------------------------------------------------------------
Step(t) ==
    \/ get_kernel_pages(t) \/ mfree_page(t) \/ sys_malloc(t) \/ sys_free(t) \/ get_a_page(t)
    \/ lock_acquire(t) \/ lock_release(t)
    \/ vaddr_get_scan(t) \/ vaddr_get_set(t) \/ get_a_page_set(t)
    \/ palloc(t) \/ palloc_set(t) \/ page_table_add(t) \/ page_table_new(t)
    \/ pfree(t) \/ page_table_pte_remove(t) \/ vaddr_remove(t)

Next == \E t \in Tasks : Step(t)

Spec == Init /\ [][Next]_vars

-----------------------------------------------------------------------------
(* The frames that are in use for something, and for what *)
Uses ==
    {<<s, v, pt[s][v]>> : s \in Spaces, v \in AllPages} \union
    {<<p, -1 - r, tables[p][r]>> : p \in Procs, r \in 0..(STACK3 \div TablePages)}

(* No page frame is ever used for two things: two pages of one address     *)
(* space, of two, or a page and a page table (palloc, memory.c:95-104).    *)
FramesExclusive ==
    \A x, y \in {u \in Uses : u[3] # NULL} : x[3] = y[3] => x = y

Quiet == \A t \in Tasks : pc[t] = "home"

(* get_kernel_pages and mfree_page take no lock, and page_table_add takes  *)
(* frames of the kernel's pool under the user pool's.  Until two calls     *)
(* that have no lock in common have been inside at once, FramesExclusive   *)
(* holds,                                                                  *)
FramesExclusiveAlone == raced \/ FramesExclusive

(* between calls a frame is marked in its pool exactly if it is mapped or  *)
(* is a page table: nothing leaks and nothing mapped is free,              *)
FramesAccounted ==
    ~raced /\ Quiet =>
        \A p \in Pools : used[p] = {u[3][2] : u \in {w \in Uses : w[3] # NULL /\ w[3][1] = p}}

(* and between calls a page is marked in the kernel's virtual address      *)
(* bitmap exactly if it is mapped: what vaddr_get reserves is what is      *)
(* mapped and returned ("the start address of the virtual pages",          *)
(* memory.c:48).  The page behind the bitmap is only mapped when its bit   *)
(* is set, so that nobody else gets it.                                    *)
PagesAccounted ==
    ~raced /\ Quiet =>
        /\ \A v \in Pages : v \in vused["kernel"] <=> pt["kernel"][v] # NULL
        /\ pt["kernel"][Behind] # NULL => Behind \in vused["kernel"]

(* Whatever holes the calls have left, the byte-wise search of bitmap_scan *)
(* finds the first run that fits, unless the bitmap is full (bitmap.c:24). *)
(* It counts the bit behind the bitmap as one of its own.                  *)
ScanIsFirstFit ==
    /\ \A s \in Spaces, cnt \in KCnts \union UCnts : IsFirstFit(vused[s], VBytes, cnt)
    /\ \A p \in Pools : IsFirstFit(used[p], Bytes(p), 1)
=============================================================================
