------------------------------- MODULE Sched -------------------------------
(***************************************************************************)
(* The scheduler, the interrupt flag and the recursive locks of zhuOS:     *)
(* thread/thread.c, thread/sync.c, the timer handler of device/timer.c.    *)
(*                                                                         *)
(* One CPU.  Only the task `cur' takes steps; the timer interrupt may      *)
(* come between any two of them while the interrupt flag `intr' is set.    *)
(* What runs with interrupts off is one step; what runs with interrupts    *)
(* on (lock_acquire outside sema_down, lock_release outside sema_up,       *)
(* allocate_pid, thread_start) is one step per access to shared memory.    *)
(***************************************************************************)
EXTENDS Integers, Sequences, Debug

CONSTANTS
    KThreads,     \* kernel threads other than main and idle
    UProcs,       \* user processes: in the kernel they run with interrupts off
    Sleepers,     \* the tasks that wait for a device: the disk, the keyboard
    main_thread, idle_thread,
    Locks,        \* console_lock, the pool locks, the channel locks
    pid_lock,
    NULL,
    Priority,     \* ticks of a time slice (32, 31 or 10 in the source)
    MaxRepeat     \* bound on nested acquisitions of one lock

Tasks    == KThreads \union UProcs \union {main_thread, idle_thread}
AllLocks == Locks \union {pid_lock}

ASSUME ConstantsAssumption ==
    /\ main_thread # idle_thread
    /\ main_thread \notin KThreads \union UProcs
    /\ idle_thread \notin KThreads \union UProcs
    /\ KThreads \intersect UProcs = {}
    /\ Sleepers \subseteq KThreads \union UProcs \union {main_thread}
    /\ NULL \notin Tasks
    /\ pid_lock \notin Locks
    /\ Priority \in Nat
    /\ MaxRepeat \in Nat \ {0}

VARIABLES
    status,       \* task_struct.status ("UNBORN": no such task yet)
    ready, all,   \* thread_ready_list, thread_all_list
    cur,          \* running_thread()
    intr,         \* the IF flag, an enum intr_status
    ctx,          \* IF with which a task that is switched out resumes
    ticks,        \* task_struct.ticks
    value, waiters,   \* struct semaphore of each lock
    holder, repeat,   \* the other fields of struct lock
    held,         \* acquisitions each caller knows it has (see AbstractLock)
    pc,           \* where each task is
    lk,           \* the argument of the lock function it is in
    ret,          \* where that function returns to
    old,          \* old_status of the sema_down it is in
    new,          \* the task it is creating
    next_pid, pid

schedVars == <<status, ready, cur, intr, ctx, ticks>>
lockVars  == <<value, waiters, holder, repeat, held>>
callVars  == <<lk, ret, old>>
birthVars == <<all, new, next_pid, pid>>
vars == <<schedVars, lockVars, callVars, birthVars, pc, kernel>>

(* "BLOCKED" is TASK_BLOCKED on a lock (or idle's own), "ASLEEP" is        *)
(* TASK_BLOCKED until a device interrupts.                                 *)
Statuses   == {"UNBORN", "RUNNING", "READY", "BLOCKED", "ASLEEP"}
INTR_ON    == "INTR_ON"
INTR_OFF   == "INTR_OFF"
IntrStatus == {INTR_ON, INTR_OFF}

(* Where a task runs its own code: kernel code with interrupts on ("kern": *)
(* a kernel thread, or a new process in start_process), user code, or the  *)
(* body of a system call, which an interrupt gate enters with IF clear.    *)
Home  == {"kern", "user", "sys"}

(* Inside lock_acquire, lock_release, allocate_pid, thread_start, idle *)
Acquiring == {"down", "woken", "hold", "rep"}
Releasing == {"relh", "relr", "up"}
Creating  == {"pid_acq", "pid_inc", "pid_rel", "pid_read", "enq_ready", "enq_all"}
Idling    == {"block", "sti", "hlt"}
ReturnPts == Home \union {"pid_inc", "pid_read"}
PCs       == Home \union Acquiring \union Releasing \union Creating \union Idling

(* list.c, on lists seen as sequences: elem_find looks an element up,      *)
(* list_push adds in front; list_append is Append, list_pop Head and Tail. *)
Elems(s) == {s[i] : i \in 1..Len(s)}

list_push(s, t) == <<t>> \o s

-----------------------------------------------------------------------------
(* After the intr_enable() of init_all: main runs, idle has been started.  *)
Init ==
    /\ status = [t \in Tasks |-> CASE t = main_thread -> "RUNNING"
                                   [] t = idle_thread -> "READY"
                                   [] OTHER -> "UNBORN"]
    /\ ready = <<idle_thread>>
    /\ all = <<main_thread, idle_thread>>
    /\ cur = main_thread
    /\ intr = INTR_ON
    /\ ctx = [t \in Tasks |-> INTR_ON]
    /\ ticks = [t \in Tasks |-> Priority]
    /\ value = [l \in AllLocks |-> 1]
    /\ waiters = [l \in AllLocks |-> << >>]
    /\ holder = [l \in AllLocks |-> NULL]
    /\ repeat = [l \in AllLocks |-> 0]
    /\ held = [t \in Tasks |-> [l \in AllLocks |-> 0]]
    /\ pc = [t \in Tasks |-> IF t = idle_thread THEN "block" ELSE "kern"]
    /\ lk = [t \in Tasks |-> pid_lock]
    /\ ret = [t \in Tasks |-> "kern"]
    /\ old = [t \in Tasks |-> INTR_ON]
    /\ new = [t \in Tasks |-> NULL]
    /\ next_pid = 2
    /\ pid = [t \in Tasks |-> CASE t = main_thread -> 1
                                [] t = idle_thread -> 2
                                [] OTHER -> 0]
    /\ kernel = "up"

At(p)   == kernel = "up" /\ pc[cur] = p
Goto(p) == pc' = [pc EXCEPT ![cur] = p]

AtHome == kernel = "up" /\ pc[cur] \in Home


HoldsNothing(t) == \A l \in AllLocks : held[t][l] = 0

-----------------------------------------------------------------------------
(* schedule(), from the test of the ready list on: r and s are the ready   *)
(* list and the statuses its caller left, ok the caller's own ASSERTs.  An *)
(* empty list makes it thread_unblock(idle_thread), which must be blocked. *)
schedule(r, s, ok) ==
    LET rl   == IF r = << >> THEN <<idle_thread>> ELSE r
        next == Head(rl)
    IN  /\ ready' = Tail(rl)
        /\ status' = [s EXCEPT ![next] = "RUNNING"]
        /\ cur' = next
        /\ intr' = ctx'[next]
        /\ ASSERT(ok /\ (r = << >> => s[idle_thread] = "BLOCKED"))

(* thread_block(TASK_BLOCKED): cur leaves the CPU and resumes with the IF  *)
(* flag the caller had; ok stands for the ASSERTs the caller made.         *)
thread_block(resume, ok) ==
    /\ ctx' = [ctx EXCEPT ![cur] = resume]
    /\ schedule(ready, [status EXCEPT ![cur] = "BLOCKED"], ok)

(* thread_yield: to the tail of the ready list; the slice is not renewed *)
thread_yield ==
    /\ AtHome
    /\ pc[cur] # "user"
    /\ ctx' = [ctx EXCEPT ![cur] = intr]
    /\ schedule(Append(ready, cur), [status EXCEPT ![cur] = "READY"],
                cur \notin Elems(ready))
    /\ UNCHANGED <<ticks, lockVars, callVars, birthVars, pc>>

(* A task waits for a device: sema_down(&channel->disk_done), ioq_wait.    *)
(* It may hold a lock (the channel's) meanwhile.  It resumes where it was. *)
device_wait ==
    /\ AtHome
    /\ pc[cur] # "user"
    /\ cur \in Sleepers
    /\ ctx' = [ctx EXCEPT ![cur] = intr]
    /\ schedule(ready, [status EXCEPT ![cur] = "ASLEEP"], TRUE)
    /\ UNCHANGED <<ticks, lockVars, callVars, birthVars, pc>>

(* The device's interrupt handler wakes it: thread_unblock(t), which puts  *)
(* it in FRONT of the ready list and leaves the CPU with cur.  Like any    *)
(* interrupt it ends a hlt.                                                *)
device_intr(t) ==
    /\ kernel = "up"
    /\ intr = INTR_ON
    /\ status[t] = "ASLEEP"
    /\ ASSERT(t \notin Elems(ready))
    /\ ready' = list_push(ready, t)
    /\ status' = [status EXCEPT ![t] = "READY"]
    /\ pc' = IF pc[cur] = "hlt" THEN [pc EXCEPT ![cur] = "block"] ELSE pc
    /\ UNCHANGED <<cur, intr, ctx, ticks, lockVars, callVars, birthVars>>

(* Mutants: the slice runs one tick too long; a preempted task goes to the *)
(* front of the ready list.                                                *)
intr_timer_handler_late ==
    /\ kernel = "up" /\ intr = INTR_ON /\ ticks[cur] >= 0
    /\ ticks' = [ticks EXCEPT ![cur] = @ - 1]
    /\ UNCHANGED <<status, ready, cur, intr, ctx, kernel, pc, lockVars, callVars, birthVars>>

intr_timer_handler_front ==
    /\ kernel = "up" /\ intr = INTR_ON /\ ticks[cur] = 0
    /\ ctx' = [ctx EXCEPT ![cur] = INTR_ON]
    /\ schedule(list_push(ready, cur), [status EXCEPT ![cur] = "READY"], TRUE)
    /\ UNCHANGED <<ticks, pc, lockVars, callVars, birthVars>>

(* intr_timer_handler; a preempted task resumes by iret, with IF set.  An  *)
(* interrupt ends the idle task's hlt.                                     *)
intr_timer_handler ==
    /\ kernel = "up"
    /\ intr = INTR_ON
    /\ pc' = IF pc[cur] = "hlt" THEN [pc EXCEPT ![cur] = "block"] ELSE pc
    /\ UNCHANGED <<lockVars, callVars, birthVars>>
    /\ \/ /\ ticks[cur] = 0
          /\ ticks' = [ticks EXCEPT ![cur] = Priority]
          /\ ctx' = [ctx EXCEPT ![cur] = INTR_ON]
          /\ schedule(Append(ready, cur), [status EXCEPT ![cur] = "READY"],
                      cur \notin Elems(ready))
       \/ /\ ticks[cur] > 0
          /\ ticks' = [ticks EXCEPT ![cur] = @ - 1]
          /\ UNCHANGED <<status, ready, cur, intr, ctx, kernel>>

(* idle(): thread_block(TASK_BLOCKED); sti; hlt *)
idle_block ==
    /\ At("block")
    /\ Goto("sti")
    /\ thread_block(INTR_ON, TRUE)
    /\ UNCHANGED <<ticks, lockVars, callVars, birthVars>>

idle_hlt ==
    /\ At("sti")
    /\ Goto("hlt")
    /\ UNCHANGED <<schedVars, lockVars, callVars, birthVars, kernel>>

-----------------------------------------------------------------------------
(* A process enters and leaves a system call: int 0x80, iret.  A new       *)
(* process leaves start_process for user mode the same way.                *)
syscall_enter ==
    /\ At("user")
    /\ Goto("sys")
    /\ intr' = INTR_OFF
    /\ UNCHANGED <<status, ready, cur, ctx, ticks, lockVars, callVars, birthVars, kernel>>

intr_exit ==
    /\ At("sys") \/ (At("kern") /\ cur \in UProcs)
    /\ HoldsNothing(cur)
    /\ Goto("user")
    /\ intr' = INTR_ON
    /\ UNCHANGED <<status, ready, cur, ctx, ticks, lockVars, callVars, birthVars, kernel>>

-----------------------------------------------------------------------------
(* lock_acquire(l), to return to r.  The holder test is its first access   *)
(* to shared memory; the holder's own increment needs no other.            *)
lock_acquire(l, r) ==
    /\ lk' = [lk EXCEPT ![cur] = l]
    /\ ret' = [ret EXCEPT ![cur] = r]
    /\ UNCHANGED <<schedVars, value, waiters, holder, old, birthVars, kernel>>
    /\ \/ /\ holder[l] # cur
          /\ Goto("down")
          /\ UNCHANGED <<repeat, held>>
       \/ /\ holder[l] = cur
          /\ repeat' = [repeat EXCEPT ![l] = @ + 1]
          /\ held' = [held EXCEPT ![cur][l] = @ + 1]
          /\ Goto(r)

(* Mutants: a woken task does not test the value again (if for while); the *)
(* caller's interrupt status is not restored.                              *)
sema_down_if ==
    /\ At("down") \/ At("woken")
    /\ UNCHANGED <<ticks, holder, repeat, held, lk, ret, old, birthVars>>
    /\ \/ /\ value[lk[cur]] = 0 /\ pc[cur] = "down"
          /\ waiters' = [waiters EXCEPT ![lk[cur]] = Append(@, cur)]
          /\ Goto("woken") /\ thread_block(INTR_OFF, TRUE) /\ UNCHANGED value
       \/ /\ value[lk[cur]] # 0 \/ pc[cur] = "woken"
          /\ value' = [value EXCEPT ![lk[cur]] = @ - 1]
          /\ ASSERT(value[lk[cur]] - 1 = 0)
          /\ Goto("hold") /\ UNCHANGED <<waiters, status, ready, cur, ctx, intr>>

sema_down_enables ==
    /\ At("down") /\ value[lk[cur]] # 0
    /\ value' = [value EXCEPT ![lk[cur]] = @ - 1]
    /\ intr' = INTR_ON
    /\ Goto("hold")
    /\ UNCHANGED <<status, ready, cur, ctx, ticks, waiters, holder, repeat, held, callVars,
                   birthVars, kernel>>

(* sema_down(&plock->semaphore): entered at "down" with the caller's IF,   *)
(* resumed at "woken" inside the while loop after thread_block.            *)
sema_down ==
    /\ At("down") \/ At("woken")
    /\ UNCHANGED <<ticks, holder, repeat, held, lk, ret, birthVars>>
    /\ LET l   == lk[cur]
           was == IF pc[cur] = "down" THEN intr ELSE old[cur]
       IN  \/ /\ value[l] = 0
              /\ waiters' = [waiters EXCEPT ![l] = Append(@, cur)]
              /\ old' = [old EXCEPT ![cur] = was]
              /\ Goto("woken")
              /\ thread_block(INTR_OFF, cur \notin Elems(waiters[l]))
              /\ UNCHANGED value
           \/ /\ value[l] # 0
              /\ value' = [value EXCEPT ![l] = @ - 1]
              /\ ASSERT(value[l] - 1 = 0)
              /\ intr' = was
              /\ old' = [old EXCEPT ![cur] = was]
              /\ Goto("hold")
              /\ UNCHANGED <<waiters, status, ready, cur, ctx>>

(* plock->holder = running_thread() *)
set_holder ==
    /\ At("hold")
    /\ holder' = [holder EXCEPT ![lk[cur]] = cur]
    /\ Goto("rep")
    /\ UNCHANGED <<schedVars, value, waiters, repeat, held, callVars, birthVars, kernel>>

(* ASSERT(holder_repeat_nr == 0); holder_repeat_nr = 1; return *)
set_repeat ==
    /\ At("rep")
    /\ repeat' = [repeat EXCEPT ![lk[cur]] = 1]
    /\ ASSERT(repeat[lk[cur]] = 0)
    /\ held' = [held EXCEPT ![cur][lk[cur]] = @ + 1]
    /\ Goto(ret[cur])
    /\ UNCHANGED <<schedVars, value, waiters, holder, callVars, birthVars>>

(* Mutant: a nested release gives the lock away. *)
lock_release_flat(l, r) ==
    /\ lk' = [lk EXCEPT ![cur] = l]
    /\ ret' = [ret EXCEPT ![cur] = r]
    /\ held' = [held EXCEPT ![cur][l] = @ - 1]
    /\ ASSERT(holder[l] = cur)
    /\ Goto("relh")
    /\ UNCHANGED <<schedVars, value, waiters, holder, repeat, old, birthVars>>

(* lock_release(l), to return to r: its two ASSERTs, and the early return  *)
(* of a nested release.                                                    *)
lock_release(l, r) ==
    /\ lk' = [lk EXCEPT ![cur] = l]
    /\ ret' = [ret EXCEPT ![cur] = r]
    /\ held' = [held EXCEPT ![cur][l] = @ - 1]
    /\ UNCHANGED <<schedVars, value, waiters, holder, old, birthVars>>
    /\ \/ /\ repeat[l] > 1
          /\ ASSERT(holder[l] = cur)
          /\ repeat' = [repeat EXCEPT ![l] = @ - 1]
          /\ Goto(r)
       \/ /\ repeat[l] <= 1
          /\ ASSERT(holder[l] = cur /\ repeat[l] = 1)
          /\ Goto("relh")
          /\ UNCHANGED repeat

(* Mutant: the holder is not reset. *)
clear_holder_keep ==
    At("relh") /\ Goto("relr")
    /\ UNCHANGED <<schedVars, lockVars, callVars, birthVars, kernel>>

(* plock->holder = NULL, before the V operation *)
clear_holder ==
    /\ At("relh")
    /\ holder' = [holder EXCEPT ![lk[cur]] = NULL]
    /\ Goto("relr")
    /\ UNCHANGED <<schedVars, value, waiters, repeat, held, callVars, birthVars, kernel>>

(* plock->holder_repeat_nr = 0 *)
clear_repeat ==
    /\ At("relr")
    /\ repeat' = [repeat EXCEPT ![lk[cur]] = 0]
    /\ Goto("up")
    /\ UNCHANGED <<schedVars, value, waiters, holder, held, callVars, birthVars, kernel>>

(* Mutants: sema_up wakes nobody; it wakes the first waiter and leaves it  *)
(* in the list of waiters.                                                 *)
sema_up_silent ==
    /\ At("up") /\ Goto(ret[cur])
    /\ value' = [value EXCEPT ![lk[cur]] = @ + 1]
    /\ UNCHANGED <<schedVars, waiters, holder, repeat, held, callVars, birthVars, kernel>>

sema_up_peek ==
    /\ At("up") /\ Goto(ret[cur])
    /\ value' = [value EXCEPT ![lk[cur]] = @ + 1]
    /\ \/ waiters[lk[cur]] = << >> /\ UNCHANGED <<ready, status>>
       \/ /\ waiters[lk[cur]] # << >>
          /\ ready' = list_push(ready, Head(waiters[lk[cur]]))
          /\ status' = [status EXCEPT ![Head(waiters[lk[cur]])] = "READY"]
    /\ UNCHANGED <<cur, intr, ctx, ticks, waiters, holder, repeat, held, callVars, birthVars, kernel>>

(* sema_up: the first waiter, if any, goes to the FRONT of the ready list  *)
(* (thread_unblock), the value rises, and cur keeps the CPU.               *)
sema_up ==
    /\ At("up")
    /\ Goto(ret[cur])
    /\ UNCHANGED <<cur, intr, ctx, ticks, holder, repeat, held, callVars, birthVars>>
    /\ LET l == lk[cur]
       IN  /\ value' = [value EXCEPT ![l] = @ + 1]
           /\ \/ /\ waiters[l] = << >>
                 /\ ASSERT(value[l] = 0)
                 /\ UNCHANGED <<waiters, ready, status>>
              \/ /\ waiters[l] # << >>
                 /\ LET t == Head(waiters[l])
                    IN  /\ ASSERT(/\ value[l] = 0
                                  /\ status[t] = "BLOCKED"
                                  /\ t \notin Elems(ready))
                        /\ ready' = list_push(ready, t)
                        /\ status' = [status EXCEPT ![t] = "READY"]
                 /\ waiters' = [waiters EXCEPT ![l] = Tail(@)]

(* The critical sections of the kernel never nest two different locks.     *)
acquire(l) ==
    /\ AtHome
    /\ pc[cur] # "user"
    /\ held[cur][l] < MaxRepeat
    /\ \A k \in AllLocks \ {l} : held[cur][k] = 0
    /\ lock_acquire(l, pc[cur])

release(l) ==
    /\ AtHome
    /\ held[cur][l] > 0
    /\ lock_release(l, pc[cur])

-----------------------------------------------------------------------------
(* Task creation.  Its caller holds no lock: thread_start and              *)
(* process_execute are called from main, sys_fork from a system call.      *)
(* A kernel thread starts threads and processes, a process forks.          *)
create(c) ==
    /\ \/ At("kern") /\ cur \notin UProcs
       \/ At("sys") /\ c \in UProcs
    /\ HoldsNothing(cur)
    /\ status[c] = "UNBORN"
    /\ \A t \in Tasks : new[t] # c
    /\ new' = [new EXCEPT ![cur] = c]
    /\ Goto("pid_acq")
    /\ UNCHANGED <<schedVars, lockVars, callVars, all, next_pid, pid, kernel>>

(* allocate_pid: lock_acquire(&pid_lock); next_pid++; lock_release;        *)
(* return next_pid, read again after the release.                          *)
allocate_pid_acquire == At("pid_acq") /\ lock_acquire(pid_lock, "pid_inc")

allocate_pid_inc ==
    /\ At("pid_inc")
    /\ next_pid' = next_pid + 1
    /\ Goto("pid_rel")
    /\ UNCHANGED <<schedVars, lockVars, callVars, all, new, pid, kernel>>

allocate_pid_release == At("pid_rel") /\ lock_release(pid_lock, "pid_read")

(* ... and the rest of init_thread *)
allocate_pid_return ==
    /\ At("pid_read")
    /\ pid' = [pid EXCEPT ![new[cur]] = next_pid]
    /\ ticks' = [ticks EXCEPT ![new[cur]] = Priority]
    /\ Goto("enq_ready")
    /\ UNCHANGED <<status, ready, cur, intr, ctx, lockVars, callVars, all, new, next_pid, kernel>>

(* The new task joins the ready list.  thread_start appends to the two     *)
(* lists one after the other with interrupts on; process_execute and       *)
(* sys_fork append to both with interrupts off.  A forked child resumes in *)
(* user mode, any other task in the kernel.                                *)
enqueue_ready ==
    /\ At("enq_ready")
    /\ LET c == new[cur]
       IN  /\ ASSERT(c \notin Elems(ready) /\ (c \in UProcs => c \notin Elems(all)))
           /\ ready' = Append(ready, c)
           /\ status' = [status EXCEPT ![c] = "READY"]
           /\ ctx' = [ctx EXCEPT ![c] = INTR_ON]
           /\ \/ /\ c \in UProcs
                 /\ all' = Append(all, c)
                 /\ pc' = IF cur \in UProcs
                          THEN [pc EXCEPT ![cur] = "sys", ![c] = "user"]
                          ELSE [pc EXCEPT ![cur] = "kern"]
              \/ /\ c \notin UProcs
                 /\ Goto("enq_all")
                 /\ UNCHANGED all
    /\ UNCHANGED <<cur, intr, ticks, lockVars, callVars, new, next_pid, pid>>

enqueue_all ==
    /\ At("enq_all")
    /\ ASSERT(new[cur] \notin Elems(all))
    /\ all' = Append(all, new[cur])
    /\ Goto("kern")
    /\ UNCHANGED <<schedVars, lockVars, callVars, new, next_pid, pid>>

-----------------------------------------------------------------------------
(* The steps of the running task that its code will certainly take *)
Progress ==
    \/ idle_block \/ idle_hlt
    \/ sema_down \/ set_holder \/ set_repeat
    \/ clear_holder \/ clear_repeat \/ sema_up
    \/ allocate_pid_acquire \/ allocate_pid_inc \/ allocate_pid_release
    \/ allocate_pid_return \/ enqueue_ready \/ enqueue_all

Next ==
    \/ intr_timer_handler
    \/ Progress
    \/ thread_yield \/ device_wait
    \/ \E t \in Sleepers : device_intr(t)
    \/ syscall_enter \/ intr_exit
    \/ \E l \in Locks : acquire(l) \/ release(l)
    \/ \E c \in KThreads \union UProcs : create(c)

Spec == Init /\ [][Next]_vars

(* The timer never stops and the 8259 latches its interrupt; a task that   *)
(* gets the CPU again and again makes progress; critical sections and      *)
(* system calls end; a device answers.                                     *)
Fairness ==
    /\ SF_vars(intr_timer_handler)
    /\ \A t \in Sleepers : SF_vars(device_intr(t))
    /\ \A t \in Tasks : SF_vars(cur = t /\ Progress)
    /\ \A t \in UProcs : SF_vars(cur = t /\ intr_exit)
    /\ \A t \in Tasks \ {idle_thread}, l \in Locks, n \in 1..MaxRepeat :
          SF_vars(cur = t /\ held[t][l] = n /\ release(l))

FairSpec == Spec /\ Fairness

-----------------------------------------------------------------------------
(* Type invariant of the kernel's data structures (thread.h, sync.h). *)
SchedTypeOK ==
    /\ status \in [Tasks -> Statuses]
    /\ ready \in Seq(Tasks)
    /\ cur \in Tasks
    /\ intr \in IntrStatus
    /\ ctx \in [Tasks -> IntrStatus]
    /\ ticks \in [Tasks -> 0..Priority]
    /\ kernel \in {"up", "panic"}

LockTypeOK ==
    /\ value \in [AllLocks -> Nat]
    /\ waiters \in [AllLocks -> Seq(Tasks)]
    /\ holder \in [AllLocks -> Tasks \union {NULL}]
    /\ repeat \in [AllLocks -> Nat]
    /\ held \in [Tasks -> [AllLocks -> Int]]

CallTypeOK ==
    /\ pc \in [Tasks -> PCs]
    /\ lk \in [Tasks -> AllLocks]
    /\ ret \in [Tasks -> ReturnPts]
    /\ old \in [Tasks -> IntrStatus]

BirthTypeOK ==
    /\ all \in Seq(Tasks)
    /\ new \in [Tasks -> Tasks \union {NULL}]
    /\ next_pid \in Nat
    /\ pid \in [Tasks -> Nat]

TypeOK == SchedTypeOK /\ LockTypeOK /\ CallTypeOK /\ BirthTypeOK

(* No ASSERT of thread.c or sync.c ever fails: nobody enters a waiters or  *)
(* ready list twice, thread_unblock only meets blocked tasks, semaphores   *)
(* stay binary, lock_release is only reached by the holder, a lock just    *)
(* acquired has no left-over nesting count.                                *)
NoPanic == kernel = "up"

(* lock_acquire excludes: two tasks never both have the same lock, however *)
(* timer interrupts fall between the lines of sync.c.                      *)
MutualExclusion ==
    \A t, u \in Tasks, l \in AllLocks : held[t][l] > 0 /\ held[u][l] > 0 => t = u

(* Wherever a task is in lock_acquire or lock_release, the lock is its own *)
(* from the moment sema_down took the value until sema_up gives it back.   *)
Inside(t, l) ==
    \/ held[t][l] > 0
    \/ lk[t] = l /\ pc[t] \in {"hold", "rep", "relh", "relr", "up"}

(* The general_tag of a task links it into exactly the list its status     *)
(* says, once: the ready list if READY, the waiters of the lock it wants   *)
(* if BLOCKED (idle blocks on no list), no list while it runs or waits for *)
(* a device.                                                               *)
Distinct(s) == \A i, j \in 1..Len(s) : s[i] = s[j] => i = j

TagInOneList ==
    /\ Distinct(ready)
    /\ \A l \in AllLocks : Distinct(waiters[l])
    /\ \A t \in Tasks :
          /\ (t = cur) <=> (status[t] = "RUNNING")
          /\ (t \in Elems(ready)) <=> (status[t] = "READY")
          /\ \A l \in AllLocks :
                (t \in Elems(waiters[l])) <=>
                    (status[t] = "BLOCKED" /\ t # idle_thread /\ lk[t] = l)

(* No wake-up is lost: a lock that is free while tasks sleep on it has a   *)
(* woken task on its way to take it (sema_up wakes one waiter per V, and   *)
(* the woken one competes with newcomers because of the while loop).       *)
NoLostWakeup ==
    \A l \in AllLocks :
        value[l] = 1 /\ waiters[l] # << >> =>
            \E t \in Tasks : pc[t] = "woken" /\ lk[t] = l /\ status[t] # "BLOCKED"

(* Sleeping in sema_down and being preempted never disturb the interrupt   *)
(* flag of the code that called: system calls run with interrupts off from *)
(* end to end, kernel threads and user code with interrupts on.            *)
InterruptFlagRestored ==
    /\ pc[cur] \in {"kern", "user", "enq_all"} => intr = INTR_ON
    /\ pc[cur] = "sys" => intr = INTR_OFF

(* What the locks promise, for all callers together. *)
AbstractLocks == INSTANCE AbstractLock
LocksRefine == AbstractLocks!Spec

(* A ready task gets the CPU although unblocked tasks overtake it at the   *)
(* front of the ready list: the time slice that schedule() only renews for *)
(* preempted tasks ends the overtaking.                                    *)
ReadyRuns == \A t \in Tasks : status[t] = "READY" ~> cur = t

(* A task that sleeps on a lock is woken, although the lock may be taken   *)
(* by newcomers and it may have to go to sleep again.                      *)
WaiterWoken == \A t \in Tasks \ {idle_thread} :
                   status[t] = "BLOCKED" ~> status[t] # "BLOCKED"

(* pid_lock is there to give every task a pid of its own (thread.c:24).    *)
(* Not true of the code, which reads next_pid again after the release: it  *)
(* fails as soon as two tasks create tasks.                                *)
PidsUnique ==
    \A t, u \in {v \in Tasks : pid[v] # 0} : pid[t] = pid[u] => t = u
=============================================================================
