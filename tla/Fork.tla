-------------------------------- MODULE Fork --------------------------------
(***************************************************************************)
(* sys_fork (userprog/fork.c) against the page directory register: the     *)
(* pages of the parent are copied through one kernel page while cr3 goes   *)
(* back and forth between the parent's and the child's page directory.     *)
(* A process in sys_fork runs with interrupts off and gives the CPU away   *)
(* only when it sleeps on the lock of the user pool, which a process in    *)
(* start_process may hold while it is preempted.                           *)
(***************************************************************************)
EXTENDS Integers, FiniteSets, FiniteSetsExt, Debug

CONSTANTS
    first,      \* the process in user mode when the model begins
    Starting,   \* processes about to run start_process
    Fresh,      \* PCBs that sys_fork may take
    Pages,      \* user pages, STACK3 the one of the user stack
    STACK3,
    Data,       \* what a page may hold; 0 after palloc
    NFrames,    \* page frames of the user pool
    NULL

Tasks  == {first} \union Starting \union Fresh
Frames == 1..NFrames

ASSUME ForkAssumption ==
    /\ first \notin Starting \union Fresh /\ Fresh \intersect Starting = {}
    /\ IsFiniteSet(Starting) /\ IsFiniteSet(Fresh)
    /\ Pages = 0..STACK3 /\ STACK3 \in Nat /\ 0 \in Data
    /\ NFrames \in Nat /\ STACK3 < NFrames
    /\ NULL \notin Tasks \union Frames

VARIABLES
    cur, cr3,   \* the running task and the one whose page directory is active
    pc,
    bits,       \* the virtual address bitmaps
    pt,         \* the page tables
    mem,        \* what the frames hold
    user_pool,  \* user_pool.pool_bitmap: the frames marked as taken
    found,      \* the frame that a task's scan of the bitmap has found
    holder,     \* user_pool.lock
    fork        \* of a task in sys_fork: the child, the pages left, the buffer

vars == <<cur, cr3, pc, bits, pt, mem, user_pool, found, holder, fork, kernel>>

(* bitmap_scan for one bit: the first frame that is not marked. *)
scan == Min(Frames \ user_pool)

(* bitmap_set *)
mark(f) == user_pool' = user_pool \union {f}

Holds(t) == [p \in bits[t] |-> IF pt[t][p] = NULL THEN NULL ELSE mem[pt[t][p]]]

(* The first process has a stack and any other pages. *)
Init ==
    /\ cur = first /\ cr3 = first
    /\ pc = [t \in Tasks |-> IF t = first THEN "user" ELSE IF t \in Starting THEN "start" ELSE "none"]
    /\ \E s \in SUBSET Pages : bits = [t \in Tasks |-> IF t = first THEN s \union {STACK3} ELSE {}]
    /\ pt = [t \in Tasks |-> [p \in Pages |-> IF p \in bits[t] THEN p + 1 ELSE NULL]]
    /\ mem = [f \in Frames |-> 0]
    /\ user_pool = {p + 1 : p \in bits[first]}
    /\ found = [t \in Tasks |-> NULL]
    /\ holder = NULL
    /\ fork = [t \in Tasks |-> [child |-> NULL, todo |-> {}, buf |-> 0]]
    /\ kernel = "up"

At(p)   == kernel = "up" /\ pc[cur] = p
Goto(p) == pc' = [pc EXCEPT ![cur] = p]

-----------------------------------------------------------------------------
(* page_dir_activate *)
page_dir_activate(t) == cr3' = t

(* Mutant: the new task runs in the page directory of the old one. *)
switch_lazy(t) ==
    /\ kernel = "up" /\ t # cur
    /\ pc[cur] \in {"user", "start", "stack", "set", "sleep"}
    /\ pc[t] \in {"user", "start", "stack", "set"} \/ (pc[t] = "sleep" /\ holder = NULL)
    /\ cur' = t
    /\ UNCHANGED <<cr3, pc, bits, pt, mem, user_pool, found, holder, fork, kernel>>

(* schedule, from the timer or because cur sleeps, with process_activate.  *)
(* A task that sleeps on the lock is ready again once it is released.      *)
switch(t) ==
    /\ kernel = "up" /\ t # cur
    /\ pc[cur] \in {"user", "start", "stack", "set", "sleep"}
    /\ pc[t] \in {"user", "start", "stack", "set"} \/ (pc[t] = "sleep" /\ holder = NULL)
    /\ cur' = t
    /\ page_dir_activate(t)
    /\ UNCHANGED <<pc, bits, pt, mem, user_pool, found, holder, fork, kernel>>

(* A process writes to one of its pages. *)
write(p, d) ==
    /\ At("user")
    /\ pt[cr3][p] # NULL
    /\ mem' = [mem EXCEPT ![pt[cr3][p]] = d]
    /\ UNCHANGED <<cur, cr3, pc, bits, pt, user_pool, found, holder, fork, kernel>>

(* start_process, with interrupts on: get_a_page for the user stack *)
start_lock ==
    /\ At("start")
    /\ holder = NULL
    /\ holder' = cur
    /\ Goto("stack")
    /\ UNCHANGED <<cur, cr3, bits, pt, mem, user_pool, found, fork, kernel>>

(* palloc: between its scan and its bitmap_set the task may be preempted,  *)
(* only the lock keeps other tasks out.                                    *)
palloc_scan ==
    /\ At("stack")
    /\ Frames \ user_pool # {}
    /\ found' = [found EXCEPT ![cur] = scan]
    /\ Goto("set")
    /\ UNCHANGED <<cur, cr3, bits, pt, mem, user_pool, holder, fork, kernel>>

start_map ==
    /\ At("set")
    /\ pt[cr3][STACK3] = NULL
    /\ mark(found[cur])
    /\ bits' = [bits EXCEPT ![cur] = @ \union {STACK3}]
    /\ pt' = [pt EXCEPT ![cr3][STACK3] = found[cur]]
    /\ mem' = [mem EXCEPT ![found[cur]] = 0]
    /\ found' = [found EXCEPT ![cur] = NULL]
    /\ holder' = NULL
    /\ Goto("user")
    /\ UNCHANGED <<cur, cr3, fork, kernel>>

-----------------------------------------------------------------------------
(* sys_fork: copy_pcb_vaddrbitmap_stack0 gives the child the PCB and the   *)
(* bitmap of its parent, create_page_dir an empty user space.              *)
sys_fork(c) ==
    /\ At("user")
    /\ pc[c] = "none"
    /\ \A t \in Tasks : fork[t].child # c
    /\ bits' = [bits EXCEPT ![c] = bits[cur]]
    /\ fork' = [fork EXCEPT ![cur] = [child |-> c, todo |-> bits[cur], buf |-> 0]]
    /\ Goto("page")
    /\ UNCHANGED <<cur, cr3, pt, mem, user_pool, found, holder, kernel>>

(* copy_body_stack3: the next page of the parent into the buffer, and over *)
(* to the child's page directory                                           *)
copy_page ==
    /\ At("page")
    /\ fork[cur].todo # {}
    /\ fork' = [fork EXCEPT ![cur].buf = mem[pt[cr3][Min(fork[cur].todo)]]]
    /\ page_dir_activate(fork[cur].child)
    /\ Goto("lock")
    /\ UNCHANGED <<cur, bits, pt, mem, user_pool, found, holder, kernel>>

(* Mutant: the lock is not looked at. *)
lock_ignored ==
    /\ kernel = "up" /\ pc[cur] \in {"lock", "sleep"}
    /\ Goto("map")
    /\ UNCHANGED <<cur, cr3, bits, pt, mem, user_pool, found, holder, fork, kernel>>

(* get_a_page_without_opvaddrbitmap: the lock, which may put cur to sleep *)
lock_acquire ==
    /\ kernel = "up" /\ pc[cur] \in {"lock", "sleep"}
    /\ \/ holder = NULL /\ holder' = cur /\ Goto("map")
       \/ holder # NULL /\ pc[cur] = "lock" /\ Goto("sleep") /\ UNCHANGED holder
    /\ UNCHANGED <<cur, cr3, bits, pt, mem, user_pool, found, fork, kernel>>

(* Mutant: the buffer is not copied. *)
map_page_empty ==
    /\ At("map")
    /\ Frames \ user_pool # {}
    /\ mark(scan)
    /\ LET p == Min(fork[cur].todo)
       IN  /\ pt[cr3][p] = NULL
           /\ pt' = [pt EXCEPT ![cr3][p] = scan]
           /\ fork' = [fork EXCEPT ![cur].todo = @ \ {p}]
    /\ holder' = NULL
    /\ page_dir_activate(cur)
    /\ Goto("page")
    /\ UNCHANGED <<cur, bits, mem, found, kernel>>

(* palloc, page_table_add in the active page directory, lock_release, the  *)
(* buffer into the new page, and back to the parent's page directory       *)
map_page ==
    /\ At("map")
    /\ Frames \ user_pool # {}
    /\ mark(scan)
    /\ LET p == Min(fork[cur].todo)
       IN  /\ pt[cr3][p] = NULL
           /\ pt' = [pt EXCEPT ![cr3][p] = scan]
           /\ mem' = [mem EXCEPT ![scan] = fork[cur].buf]
           /\ fork' = [fork EXCEPT ![cur].todo = @ \ {p}]
    /\ holder' = NULL
    /\ page_dir_activate(cur)
    /\ Goto("page")
    /\ UNCHANGED <<cur, bits, found, kernel>>

(* page_table_add finds the entry present and its ASSERT fails. *)
map_page_present ==
    /\ At("map")
    /\ Frames \ user_pool # {}
    /\ pt[cr3][Min(fork[cur].todo)] # NULL
    /\ mark(scan)
    /\ kernel' = "panic"
    /\ UNCHANGED <<cur, cr3, pc, bits, pt, mem, found, holder, fork>>

(* bitmap_scan in palloc finds no clear bit and its ASSERT fails. *)
pool_full ==
    /\ At("stack") \/ At("map")
    /\ Frames \subseteq user_pool
    /\ kernel' = "panic"
    /\ UNCHANGED <<cur, cr3, pc, bits, pt, mem, user_pool, found, holder, fork>>

(* build_child_stack and the ready list: the child returns from the system *)
(* call as the parent does.                                                *)
fork_end ==
    /\ At("page")
    /\ fork[cur].todo = {}
    /\ pc' = [pc EXCEPT ![cur] = "user", ![fork[cur].child] = "user"]
    /\ fork' = [fork EXCEPT ![cur].child = NULL]
    /\ UNCHANGED <<cur, cr3, bits, pt, mem, user_pool, found, holder, kernel>>

panic_spin == kernel = "panic" /\ UNCHANGED vars

Next ==
    \/ \E t \in Tasks : switch(t) \/ sys_fork(t)
    \/ \E p \in Pages, d \in Data : write(p, d)
    \/ start_lock \/ palloc_scan \/ start_map
    \/ copy_page \/ lock_acquire \/ map_page \/ map_page_present \/ pool_full \/ fork_end
    \/ panic_spin

Spec == Init /\ [][Next]_vars

-----------------------------------------------------------------------------
(* No page frame is mapped twice: a fork gives the child frames of its own *)
(* (the comment "d" of copy_body_stack3), although the scan of palloc and  *)
(* its bitmap_set are two steps and a preemption may come in between.      *)
SpacesDisjoint ==
    \A t, u \in Tasks, p, q \in Pages :
        pt[t][p] # NULL /\ pt[t][p] = pt[u][q] => t = u /\ p = q

(* While pages are installed for a child, its page directory is active:    *)
(* "to avoid that the function that allocates memory below installs the    *)
(* pte and pde in the page table of the parent" (fork.c:60).  Not true of  *)
(* the code: a fork that slept on the lock of the user pool goes on in the *)
(* page directory of the parent, and the ASSERT in page_table_add stops    *)
(* the kernel.                                                             *)
InstallsInChild == pc[cur] = "map" => cr3 = fork[cur].child

(* A child begins with exactly the pages of its parent and their contents. *)
ForkCopies ==
    [][\A c \in Tasks : pc[c] = "none" /\ pc'[c] = "user" => Holds(c)' = Holds(cur)]_vars

Alive(t) == pc[t] # "none"

(* Processes do not share memory: a step of one never changes what another *)
(* has in its pages, whatever page directory the kernel has gone through.  *)
Isolation ==
    [][\A t \in Tasks \ {cur} : Alive(t) /\ Alive(t)' => Holds(t)' = Holds(t)]_vars
=============================================================================
