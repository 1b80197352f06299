----------------------------- MODULE SchedProofs -----------------------------
(* Proofs about the scheduler, for any number of tasks and locks and any   *)
(* length of the time slice: its types, which task is in which list, that  *)
(* the locks of sync.c are locks whatever the timer does, and that every   *)
(* task gets its interrupt flag back.                                      *)
EXTENDS Sched, TLAPS

(* A task that is creating another one, or that will continue to when the  *)
(* lock function it is in returns, has chosen which.                       *)
CreatorOK ==
    \A t \in Tasks :
        pc[t] \in Creating \/ ret[t] \in Creating => new[t] \in KThreads \union UProcs

TypeInv == TypeOK /\ CreatorOK

(* A sequence of tasks remains one when a task joins it at either end, and *)
(* when its first task leaves it.                                          *)
LEMMA SeqTyping ==
    ASSUME NEW S, NEW s \in Seq(S), NEW x \in S
    PROVE  /\ Append(s, x) \in Seq(S)
           /\ list_push(s, x) \in Seq(S)
           /\ s # << >> => Head(s) \in S /\ Tail(s) \in Seq(S)
BY DEF list_push

(* Basic facts about the sets of tasks. *)
LEMMA TasksFacts ==
    /\ main_thread \in Tasks /\ idle_thread \in Tasks
    /\ KThreads \union UProcs \subseteq Tasks
    /\ Sleepers \subseteq Tasks \ {idle_thread}
    /\ pid_lock \in AllLocks
    /\ Locks \subseteq AllLocks
    /\ NULL \notin Tasks
BY ConstantsAssumption DEF Tasks, AllLocks

(* The places a task can be at. *)
LEMMA PcFacts ==
    /\ Home \subseteq PCs /\ Acquiring \subseteq PCs /\ Releasing \subseteq PCs
    /\ Creating \subseteq PCs /\ Idling \subseteq PCs
    /\ ReturnPts \subseteq PCs
    /\ "down" \in PCs /\ "woken" \in PCs /\ "hold" \in PCs /\ "rep" \in PCs
    /\ "relh" \in PCs /\ "relr" \in PCs /\ "up" \in PCs
    /\ "block" \in PCs /\ "sti" \in PCs /\ "hlt" \in PCs
    /\ "kern" \in PCs /\ "user" \in PCs /\ "sys" \in PCs
    /\ "pid_acq" \in PCs /\ "pid_inc" \in PCs /\ "pid_rel" \in PCs
    /\ "pid_read" \in PCs /\ "enq_ready" \in PCs /\ "enq_all" \in PCs
BY DEF PCs, ReturnPts, Home, Acquiring, Releasing, Creating, Idling

(* schedule() keeps the scheduler's variables well typed. *)
LEMMA ScheduleTyping ==
    ASSUME NEW r \in Seq(Tasks), NEW s \in [Tasks -> Statuses], NEW ok,
           ctx' \in [Tasks -> IntrStatus], schedule(r, s, ok)
    PROVE  /\ status' \in [Tasks -> Statuses]
           /\ ready' \in Seq(Tasks)
           /\ cur' \in Tasks
           /\ intr' \in IntrStatus
           /\ kernel' \in {"up", "panic"}
<1> DEFINE rl == IF r = << >> THEN <<idle_thread>> ELSE r
<1>1. rl \in Seq(Tasks) /\ rl # << >>
  BY TasksFacts
<1>2. Head(rl) \in Tasks /\ Tail(rl) \in Seq(Tasks)
  BY <1>1
<1> QED
  BY <1>1, <1>2 DEF schedule, ASSERT, Statuses, IntrStatus


(* One step per part of the type invariant; the variables of a part change *)
(* in a few actions only.                                                  *)
LEMMA SchedTypeStep == TypeInv /\ Next => SchedTypeOK'
<1> SUFFICES ASSUME TypeInv, Next PROVE SchedTypeOK'
  OBVIOUS
<1> USE TasksFacts DEF ASSERT
<1>0. /\ SchedTypeOK /\ \A t \in Tasks : ctx[t] \in IntrStatus
      /\ INTR_ON \in IntrStatus /\ INTR_OFF \in IntrStatus
      /\ Priority \in 0..Priority
  BY ConstantsAssumption DEF TypeInv, TypeOK, SchedTypeOK, IntrStatus
<1>1. CASE intr_timer_handler
  <2>1. CASE /\ ticks[cur] = 0
             /\ ticks' = [ticks EXCEPT ![cur] = Priority]
             /\ ctx' = [ctx EXCEPT ![cur] = INTR_ON]
             /\ schedule(Append(ready, cur), [status EXCEPT ![cur] = "READY"],
                         cur \notin Elems(ready))
    <3>1. ctx' \in [Tasks -> IntrStatus] /\ ticks' \in [Tasks -> 0..Priority]
      BY <1>0, <2>1 DEF SchedTypeOK
    <3>2. /\ Append(ready, cur) \in Seq(Tasks)
          /\ [status EXCEPT ![cur] = "READY"] \in [Tasks -> Statuses]
      BY <1>0, SeqTyping DEF SchedTypeOK, Statuses
    <3> QED
      BY <2>1, <3>1, <3>2, ScheduleTyping DEF SchedTypeOK
  <2>2. CASE /\ ticks[cur] > 0
             /\ ticks' = [ticks EXCEPT ![cur] = @ - 1]
             /\ UNCHANGED <<status, ready, cur, intr, ctx, kernel>>
    BY <1>0, <2>2, ConstantsAssumption DEF SchedTypeOK
  <2> QED
    BY <1>1, <2>1, <2>2 DEF intr_timer_handler
<1>2. CASE thread_yield
  <2>1. ctx' \in [Tasks -> IntrStatus]
    BY <1>0, <1>2 DEF SchedTypeOK, thread_yield
  <2>2. /\ Append(ready, cur) \in Seq(Tasks)
        /\ [status EXCEPT ![cur] = "READY"] \in [Tasks -> Statuses]
    BY <1>0, SeqTyping DEF SchedTypeOK, Statuses
  <2> QED
    BY <1>0, <1>2, <2>1, <2>2, ScheduleTyping DEF SchedTypeOK, thread_yield
<1>2a. CASE device_wait
  <2>1. ctx' \in [Tasks -> IntrStatus]
    BY <1>0, <1>2a DEF SchedTypeOK, device_wait
  <2>2. [status EXCEPT ![cur] = "ASLEEP"] \in [Tasks -> Statuses]
    BY <1>0 DEF SchedTypeOK, Statuses
  <2> QED
    BY <1>0, <1>2a, <2>1, <2>2, ScheduleTyping DEF SchedTypeOK, device_wait
<1>2b. CASE \E t \in Sleepers : device_intr(t)
  <2>1. PICK t \in Sleepers : device_intr(t)
    BY <1>2b
  <2>2. list_push(ready, t) \in Seq(Tasks)
    BY <1>0, SeqTyping DEF SchedTypeOK
  <2> QED
    BY <1>0, <2>1, <2>2 DEF SchedTypeOK, device_intr, Statuses
<1>3. ASSUME NEW resume \in IntrStatus, NEW ok, thread_block(resume, ok),
             UNCHANGED ticks
      PROVE  SchedTypeOK'
  <2>1. ctx' \in [Tasks -> IntrStatus]
    BY <1>0, <1>3 DEF SchedTypeOK, thread_block
  <2>2. [status EXCEPT ![cur] = "BLOCKED"] \in [Tasks -> Statuses]
    BY <1>0 DEF SchedTypeOK, Statuses
  <2> QED
    BY <1>0, <1>3, <2>1, <2>2, ScheduleTyping DEF SchedTypeOK, thread_block
<1>4. CASE idle_block
  BY <1>0, <1>3, <1>4 DEF idle_block
<1>5. CASE sema_down
  <2> DEFINE was == IF pc[cur] = "down" THEN intr ELSE old[cur]
  <2>1. was \in IntrStatus
    BY DEF TypeInv, TypeOK, SchedTypeOK, CallTypeOK
  <2>2. CASE /\ thread_block(INTR_OFF, cur \notin Elems(waiters[lk[cur]]))
             /\ UNCHANGED ticks
    BY <1>0, <1>3, <2>2
  <2>3. CASE /\ ASSERT(value[lk[cur]] - 1 = 0)
             /\ intr' = was
             /\ UNCHANGED <<ticks, status, ready, cur, ctx>>
    BY <1>0, <2>1, <2>3 DEF SchedTypeOK
  <2> QED
    BY <1>5, <2>2, <2>3 DEF sema_down
<1>6. CASE sema_up
  <2>1. lk[cur] \in AllLocks /\ waiters[lk[cur]] \in Seq(Tasks)
    BY DEF TypeInv, TypeOK, SchedTypeOK, LockTypeOK, CallTypeOK
  <2>2. CASE waiters[lk[cur]] = << >>
    BY <1>0, <1>6, <2>2 DEF SchedTypeOK, sema_up
  <2>3. CASE waiters[lk[cur]] # << >>
    <3>1. Head(waiters[lk[cur]]) \in Tasks
      BY <2>1, <2>3, SeqTyping
    <3>2. list_push(ready, Head(waiters[lk[cur]])) \in Seq(Tasks)
      BY <1>0, <3>1, SeqTyping DEF SchedTypeOK
    <3> QED
      BY <1>0, <1>6, <2>3, <3>1, <3>2 DEF SchedTypeOK, sema_up, Statuses
  <2> QED
    BY <2>2, <2>3
<1>7. CASE enqueue_ready
  <2>1. new[cur] \in Tasks
    BY <1>7 DEF TypeInv, TypeOK, SchedTypeOK, CreatorOK, enqueue_ready, At, Creating
  <2> QED
    BY <1>0, <1>7, <2>1, SeqTyping DEF SchedTypeOK, enqueue_ready, Statuses
<1>8. CASE allocate_pid_return
  BY <1>0, <1>8 DEF SchedTypeOK, allocate_pid_return
<1>9. CASE idle_hlt \/ syscall_enter \/ intr_exit
  BY <1>0, <1>9 DEF SchedTypeOK, idle_hlt, syscall_enter, intr_exit, schedVars
<1>10. CASE set_holder \/ set_repeat \/ clear_holder \/ clear_repeat \/ enqueue_all
  BY <1>0, <1>10 DEF SchedTypeOK, set_holder, set_repeat, clear_holder, clear_repeat,
     enqueue_all, schedVars
<1>11. ASSUME NEW l, NEW r, lock_acquire(l, r) \/ lock_release(l, r) PROVE SchedTypeOK'
  BY <1>0, <1>11 DEF SchedTypeOK, lock_acquire, lock_release, schedVars
<1>12. CASE \/ allocate_pid_acquire \/ allocate_pid_release
            \/ \E l \in Locks : acquire(l) \/ release(l)
  BY <1>11, <1>12 DEF allocate_pid_acquire, allocate_pid_release, acquire, release
<1>13. CASE allocate_pid_inc \/ \E c \in KThreads \union UProcs : create(c)
  BY <1>0, <1>13 DEF SchedTypeOK, allocate_pid_inc, create, schedVars
<1> QED
  BY <1>1, <1>2, <1>2a, <1>2b, <1>4, <1>5, <1>6, <1>7, <1>8, <1>9, <1>10, <1>12, <1>13
     DEF Next, Progress

LEMMA HeldTyping ==
    ASSUME NEW t \in Tasks, NEW l \in AllLocks, held \in [Tasks -> [AllLocks -> Int]]
    PROVE  /\ [held EXCEPT ![t][l] = @ + 1] \in [Tasks -> [AllLocks -> Int]]
           /\ [held EXCEPT ![t][l] = @ - 1] \in [Tasks -> [AllLocks -> Int]]
OBVIOUS

LEMMA LockTypeStep == TypeInv /\ Next => LockTypeOK'
<1> SUFFICES ASSUME TypeInv, Next PROVE LockTypeOK'
  OBVIOUS
<1> USE TasksFacts
<1>0. /\ LockTypeOK /\ cur \in Tasks
      /\ lk[cur] \in AllLocks /\ waiters[lk[cur]] \in Seq(Tasks)
  BY DEF TypeInv, TypeOK, SchedTypeOK, LockTypeOK, CallTypeOK
<1>1. CASE sema_down
  <2>1. CASE value[lk[cur]] = 0
    <3>1. /\ waiters' = [waiters EXCEPT ![lk[cur]] = Append(@, cur)]
          /\ UNCHANGED <<value, holder, repeat, held>>
      BY <1>1, <2>1 DEF sema_down
    <3>2. waiters' \in [AllLocks -> Seq(Tasks)]
      BY <1>0, <3>1, SeqTyping DEF LockTypeOK
    <3> QED
      BY <1>0, <3>1, <3>2 DEF LockTypeOK
  <2>2. CASE value[lk[cur]] # 0
    <3>1. /\ value' = [value EXCEPT ![lk[cur]] = @ - 1]
          /\ UNCHANGED <<waiters, holder, repeat, held>>
      BY <1>1, <2>2 DEF sema_down
    <3> QED
      BY <1>0, <2>2, <3>1 DEF LockTypeOK
  <2> QED
    BY <2>1, <2>2
<1>2. CASE sema_up
  <2>1. value' \in [AllLocks -> Nat]
    BY <1>0, <1>2 DEF LockTypeOK, sema_up
  <2>2. waiters' \in [AllLocks -> Seq(Tasks)]
    <3>1. CASE waiters[lk[cur]] = << >>
      BY <1>0, <1>2, <3>1 DEF LockTypeOK, sema_up
    <3>2. CASE waiters[lk[cur]] # << >>
      <4>1. waiters' = [waiters EXCEPT ![lk[cur]] = Tail(@)]
        BY <1>2, <3>2 DEF sema_up
      <4>2. Tail(waiters[lk[cur]]) \in Seq(Tasks)
        BY <1>0, <3>2, SeqTyping
      <4> QED
        BY <1>0, <4>1, <4>2 DEF LockTypeOK
    <3> QED
      BY <3>1, <3>2
  <2> QED
    BY <1>0, <1>2, <2>1, <2>2 DEF LockTypeOK, sema_up
<1>3. CASE set_holder
  BY <1>0, <1>3 DEF LockTypeOK, set_holder
<1>3b. CASE clear_holder
  BY <1>0, <1>3b DEF LockTypeOK, clear_holder
<1>3c. CASE clear_repeat
  BY <1>0, <1>3c DEF LockTypeOK, clear_repeat
<1>3a. CASE set_repeat
  <2>1. held' \in [Tasks -> [AllLocks -> Int]]
    BY <1>0, <1>3a, HeldTyping DEF LockTypeOK, set_repeat
  <2> QED
    BY <1>0, <1>3a, <2>1 DEF LockTypeOK, set_repeat
<1>4. ASSUME NEW l \in AllLocks, NEW r, lock_acquire(l, r)
      PROVE  LockTypeOK'
  <2>1. CASE holder[l] # cur
    BY <1>0, <1>4, <2>1 DEF LockTypeOK, lock_acquire
  <2>2. CASE holder[l] = cur
    <3>1. /\ repeat' = [repeat EXCEPT ![l] = @ + 1]
          /\ held' = [held EXCEPT ![cur][l] = @ + 1]
          /\ UNCHANGED <<value, waiters, holder>>
      BY <1>4, <2>2 DEF lock_acquire
    <3>2. held' \in [Tasks -> [AllLocks -> Int]]
      BY <1>0, <3>1, HeldTyping DEF LockTypeOK
    <3>3. repeat' \in [AllLocks -> Nat]
      <4>1. repeat \in [AllLocks -> Nat]
        BY <1>0 DEF LockTypeOK
      <4> QED
        BY <1>4, <3>1, <4>1
    <3> QED
      BY <1>0, <3>1, <3>2, <3>3 DEF LockTypeOK
  <2> QED
    BY <2>1, <2>2
<1>4a. ASSUME NEW l \in AllLocks, NEW r, lock_release(l, r)
       PROVE  LockTypeOK'
  <2>0. repeat \in [AllLocks -> Nat]
    BY <1>0 DEF LockTypeOK
  <2>1. held' \in [Tasks -> [AllLocks -> Int]]
    BY <1>0, <1>4a, HeldTyping DEF LockTypeOK, lock_release
  <2>2. repeat' \in [AllLocks -> Nat]
    <3>1. \/ repeat[l] > 1 /\ repeat' = [repeat EXCEPT ![l] = @ - 1]
          \/ repeat' = repeat
      BY <1>4a DEF lock_release
    <3> QED
      BY <1>4a, <2>0, <3>1
  <2>3. UNCHANGED <<value, waiters, holder>>
    BY <1>4a DEF lock_release
  <2> QED
    BY <1>0, <2>1, <2>2, <2>3 DEF LockTypeOK
<1>5. CASE \/ allocate_pid_acquire \/ allocate_pid_release
           \/ \E l \in Locks : acquire(l) \/ release(l)
  BY <1>4, <1>4a, <1>5 DEF allocate_pid_acquire, allocate_pid_release, acquire, release
<1>6. ASSUME UNCHANGED lockVars PROVE LockTypeOK'
  BY <1>0, <1>6 DEF LockTypeOK, lockVars
<1> QED
  BY <1>1, <1>2, <1>3, <1>3a, <1>3b, <1>3c, <1>5, <1>6 DEF Next, Progress, intr_timer_handler, thread_yield,
     device_wait, device_intr, idle_block, idle_hlt, syscall_enter, intr_exit, create, allocate_pid_inc,
     allocate_pid_return, enqueue_ready, enqueue_all

LEMMA CallTypeStep == TypeInv /\ Next => CallTypeOK'
<1> SUFFICES ASSUME TypeInv, Next PROVE CallTypeOK'
  OBVIOUS
<1> USE TasksFacts, PcFacts
<1>0. /\ CallTypeOK /\ cur \in Tasks /\ intr \in IntrStatus
      /\ ret[cur] \in ReturnPts /\ ret[cur] \in PCs
  BY DEF TypeInv, TypeOK, SchedTypeOK, CallTypeOK
<1>1. CASE sema_down
  <2>1. old' \in [Tasks -> IntrStatus]
    BY <1>0, <1>1 DEF CallTypeOK, sema_down
  <2> QED
    BY <1>0, <1>1, <2>1 DEF CallTypeOK, sema_down, Goto
<1>2. CASE sema_up \/ set_repeat
  BY <1>0, <1>2 DEF CallTypeOK, sema_up, set_repeat, Goto, callVars
<1>2a. CASE set_holder \/ clear_holder \/ clear_repeat
  BY <1>0, <1>2a DEF CallTypeOK, set_holder, clear_holder, clear_repeat, Goto, callVars
<1>3. ASSUME NEW l \in AllLocks, NEW r \in ReturnPts,
             lock_acquire(l, r) \/ lock_release(l, r)
      PROVE  CallTypeOK'
  BY <1>0, <1>3 DEF CallTypeOK, lock_acquire, lock_release, Goto
<1>4. CASE \E l \in Locks : acquire(l) \/ release(l)
  BY <1>3, <1>4 DEF acquire, release, AtHome, ReturnPts
<1>5. "pid_inc" \in ReturnPts /\ "pid_read" \in ReturnPts /\ Home \subseteq ReturnPts
  BY DEF ReturnPts
<1>6. CASE allocate_pid_acquire \/ allocate_pid_release
  BY <1>3, <1>5, <1>6 DEF allocate_pid_acquire, allocate_pid_release
<1>7. CASE intr_timer_handler \/ thread_yield
  BY <1>0, <1>7 DEF CallTypeOK, intr_timer_handler, thread_yield, callVars
<1>7a. CASE device_wait \/ \E t \in Sleepers : device_intr(t)
  BY <1>0, <1>7a DEF CallTypeOK, device_wait, device_intr, callVars
<1>8. CASE idle_block \/ idle_hlt \/ syscall_enter \/ intr_exit
  <2>1. /\ Goto("sti") \/ Goto("hlt") \/ Goto("sys") \/ Goto("user")
        /\ UNCHANGED callVars
    BY <1>8 DEF idle_block, idle_hlt, syscall_enter, intr_exit
  <2> QED
    BY <1>0, <2>1 DEF CallTypeOK, Goto, callVars
<1>9. CASE \/ allocate_pid_inc \/ allocate_pid_return \/ enqueue_all
           \/ \E c \in KThreads \union UProcs : create(c)
  BY <1>0, <1>9 DEF CallTypeOK, allocate_pid_inc, allocate_pid_return, enqueue_all, create,
     Goto, callVars
<1>10. CASE enqueue_ready
  <2>1. pc' \in [Tasks -> PCs]
    BY <1>0, <1>10 DEF CallTypeOK, enqueue_ready, Goto
  <2> QED
    BY <1>0, <1>10, <2>1 DEF CallTypeOK, enqueue_ready, callVars
<1> QED
  BY <1>1, <1>2, <1>2a, <1>4, <1>6, <1>7, <1>7a, <1>8, <1>9, <1>10 DEF Next, Progress

LEMMA BirthTypeStep == TypeInv /\ Next => BirthTypeOK' /\ CreatorOK'
<1> SUFFICES ASSUME TypeInv, Next PROVE BirthTypeOK' /\ CreatorOK'
  OBVIOUS
<1> USE TasksFacts
<1>0. /\ BirthTypeOK /\ CreatorOK /\ CallTypeOK /\ cur \in Tasks
  BY DEF TypeInv, TypeOK, SchedTypeOK
<1>1. CASE \E c \in KThreads \union UProcs : create(c)
  BY <1>0, <1>1 DEF BirthTypeOK, CallTypeOK, CreatorOK, create, Goto, callVars
<1>2. CASE allocate_pid_inc \/ allocate_pid_return
  <2>1. CreatorOK'
    BY <1>0, <1>2 DEF CallTypeOK, BirthTypeOK, CreatorOK, allocate_pid_inc, allocate_pid_return,
       At, Goto, Creating, callVars
  <2>2. pid' \in [Tasks -> Nat] /\ next_pid' \in Nat
    BY <1>0, <1>2 DEF BirthTypeOK, allocate_pid_inc, allocate_pid_return
  <2> QED
    BY <1>0, <1>2, <2>1, <2>2 DEF BirthTypeOK, allocate_pid_inc, allocate_pid_return
<1>3. CASE enqueue_ready \/ enqueue_all
  <2>1. new[cur] \in Tasks
    BY <1>0, <1>3 DEF CreatorOK, enqueue_ready, enqueue_all, At, Creating
  <2>2. CreatorOK'
    BY <1>0, <1>3, <2>1 DEF CallTypeOK, CreatorOK, enqueue_ready, enqueue_all,
       At, Goto, Creating, callVars
  <2>3. Append(all, new[cur]) \in Seq(Tasks)
    BY <1>0, <2>1, SeqTyping DEF BirthTypeOK
  <2>4. all' \in Seq(Tasks)
    BY <1>0, <1>3, <2>3 DEF BirthTypeOK, enqueue_ready, enqueue_all
  <2> QED
    BY <1>0, <1>3, <2>2, <2>4 DEF BirthTypeOK, enqueue_ready, enqueue_all
<1>4. ASSUME NEW l, NEW r, lock_acquire(l, r) \/ lock_release(l, r),
             r \in Creating => new[cur] \in KThreads \union UProcs
      PROVE  BirthTypeOK' /\ CreatorOK'
  BY <1>0, <1>4 DEF BirthTypeOK, CallTypeOK, CreatorOK, lock_acquire, lock_release, Goto,
     Creating, birthVars
<1>5. CASE \E l \in Locks : acquire(l) \/ release(l)
  BY <1>0, <1>4, <1>5 DEF acquire, release, AtHome, CreatorOK
<1>6. CASE allocate_pid_acquire \/ allocate_pid_release
  BY <1>0, <1>4, <1>6 DEF allocate_pid_acquire, allocate_pid_release, At, CreatorOK, Creating
<1>7. CASE \/ intr_timer_handler \/ thread_yield \/ idle_block \/ idle_hlt
           \/ syscall_enter \/ intr_exit
  BY <1>0, <1>7 DEF BirthTypeOK, CallTypeOK, CreatorOK, intr_timer_handler, thread_yield,
     idle_block, idle_hlt, syscall_enter, intr_exit, Goto, Creating, callVars, birthVars
<1>7a. CASE device_wait \/ \E t \in Sleepers : device_intr(t)
  <2>1. /\ UNCHANGED <<ret, all, new, next_pid, pid>>
        /\ pc' = pc \/ pc' = [pc EXCEPT ![cur] = "block"]
    BY <1>7a DEF device_wait, device_intr, callVars, birthVars
  <2>2. \A t \in Tasks : pc'[t] \in Creating => pc[t] \in Creating
    BY <1>0, <2>1 DEF CallTypeOK, Creating
  <2> QED
    BY <1>0, <2>1, <2>2 DEF BirthTypeOK, CreatorOK
<1>8. CASE sema_down \/ set_holder \/ clear_holder \/ clear_repeat
  BY <1>0, <1>8 DEF BirthTypeOK, CallTypeOK, CreatorOK, sema_down, set_holder,
     clear_holder, clear_repeat, Goto, Creating, callVars, birthVars
<1>9. CASE sema_up \/ set_repeat
  BY <1>0, <1>9 DEF BirthTypeOK, CallTypeOK, CreatorOK, sema_up, set_repeat, Goto,
     callVars, birthVars
<1> QED
  BY <1>1, <1>2, <1>3, <1>5, <1>6, <1>7, <1>7a, <1>8, <1>9 DEF Next, Progress

LEMMA TypeInit == Init => TypeInv
BY TasksFacts, ConstantsAssumption DEF Init, TypeInv, TypeOK, SchedTypeOK, LockTypeOK,
   CallTypeOK, BirthTypeOK, CreatorOK, PCs, ReturnPts, Home, Creating, Idling, Statuses, IntrStatus,
   INTR_ON

LEMMA TypeStep == TypeInv /\ [Next]_vars => TypeInv'
<1>1. TypeInv /\ UNCHANGED vars => TypeInv'
  BY DEF TypeInv, TypeOK, SchedTypeOK, LockTypeOK, CallTypeOK, BirthTypeOK, CreatorOK,
     vars, schedVars, lockVars, callVars, birthVars
<1> QED
  BY <1>1, SchedTypeStep, LockTypeStep, CallTypeStep, BirthTypeStep DEF TypeInv, TypeOK

(* thread.c and sync.c keep their data structures well formed in every     *)
(* execution: no list ever holds anything but tasks, no counter leaves its *)
(* range, and a task about to be enqueued exists.                          *)
THEOREM TypeCorrect == Spec => []TypeOK
<1>1. TypeInv => TypeOK
  BY DEF TypeInv
<1> QED
  BY <1>1, TypeInit, TypeStep, PTL DEF Spec

-----------------------------------------------------------------------------
(* What the operations of list.c do to the elements of a list, and that    *)
(* they keep a list free of duplicates.                                    *)
LEMMA ElemsEmpty ==
    ASSUME NEW S, NEW s \in Seq(S)
    PROVE  (Elems(s) = {}) <=> (s = << >>)
<1>1. CASE s = << >>
  BY <1>1 DEF Elems
<1>2. CASE s # << >>
  <2>1. 1 \in 1..Len(s)
    BY <1>2
  <2>2. s[1] \in Elems(s)
    BY <2>1 DEF Elems
  <2> QED
    BY <1>2, <2>2
<1> QED
  BY <1>1, <1>2

LEMMA ElemsAppend ==
    ASSUME NEW S, NEW s \in Seq(S), NEW x \in S
    PROVE  Elems(Append(s, x)) = Elems(s) \union {x}
<1>1. Len(Append(s, x)) = Len(s) + 1
  OBVIOUS
<1>2. \A i \in 1..Len(s) : Append(s, x)[i] = s[i]
  OBVIOUS
<1>3. Append(s, x)[Len(s) + 1] = x
  OBVIOUS
<1>4. \A y \in Elems(Append(s, x)) : y \in Elems(s) \union {x}
  BY <1>1, <1>2, <1>3 DEF Elems
<1>5. \A y \in Elems(s) : y \in Elems(Append(s, x))
  BY <1>1, <1>2 DEF Elems
<1>6. x \in Elems(Append(s, x))
  BY <1>1, <1>3 DEF Elems
<1> QED
  BY <1>4, <1>5, <1>6

LEMMA ElemsPush ==
    ASSUME NEW S, NEW s \in Seq(S), NEW x \in S
    PROVE  Elems(list_push(s, x)) = Elems(s) \union {x}
<1> DEFINE p == list_push(s, x)
<1>1. p \in Seq(S) /\ Len(p) = Len(s) + 1 /\ p[1] = x
  BY DEF list_push
<1>2. \A i \in 1..Len(s) : p[i + 1] = s[i]
  BY DEF list_push
<1>2a. \A i \in 2..Len(p) : i - 1 \in 1..Len(s) /\ p[i] = s[i - 1]
  BY <1>1, <1>2
<1> HIDE DEF p
<1>4. ASSUME NEW i \in 1..Len(p) PROVE p[i] \in Elems(s) \union {x}
  <2>1. CASE i = 1
    BY <1>1, <2>1
  <2>2. CASE i # 1
    <3>1. i \in 2..Len(p)
      BY <1>1, <2>2
    <3> QED
      BY <1>2a, <3>1 DEF Elems
  <2> QED
    BY <2>1, <2>2
<1>4a. \A y \in Elems(p) : y \in Elems(s) \union {x}
  BY <1>4 DEF Elems
<1>5. \A y \in Elems(s) : y \in Elems(p)
  BY <1>1, <1>2 DEF Elems
<1>6. x \in Elems(p)
  BY <1>1 DEF Elems
<1> QED
  BY <1>4a, <1>5, <1>6 DEF p

LEMMA ElemsPop ==
    ASSUME NEW S, NEW s \in Seq(S), s # << >>
    PROVE  /\ Elems(s) = Elems(Tail(s)) \union {Head(s)}
           /\ Head(s) \in S /\ Tail(s) \in Seq(S)
           /\ Distinct(s) => Distinct(Tail(s)) /\ Head(s) \notin Elems(Tail(s))
<1> DEFINE p == Tail(s)
<1>1. p \in Seq(S) /\ Len(p) = Len(s) - 1 /\ Head(s) = s[1] /\ Head(s) \in S /\ Len(s) \in Nat
  OBVIOUS
<1>2. \A i \in 1..Len(p) : p[i] = s[i + 1] /\ i + 1 \in 1..Len(s)
  OBVIOUS
<1>3. \A i \in 2..Len(s) : s[i] = p[i - 1] /\ i - 1 \in 1..Len(p)
  BY <1>1, <1>2
<1> HIDE DEF p
<1>4. \A y \in Elems(s) : y \in Elems(p) \union {Head(s)}
  BY <1>1, <1>3 DEF Elems
<1>5. \A y \in Elems(p) : y \in Elems(s)
  BY <1>1, <1>2 DEF Elems
<1>6. 1 \in 1..Len(s)
  OBVIOUS
<1>7. Head(s) \in Elems(s)
  BY <1>1, <1>6 DEF Elems
<1>8. ASSUME Distinct(s) PROVE Distinct(p) /\ Head(s) \notin Elems(p)
  BY <1>1, <1>2, <1>6, <1>8 DEF Distinct, Elems
<1> QED
  BY <1>1, <1>4, <1>5, <1>7, <1>8 DEF p

LEMMA DistinctAdd ==
    ASSUME NEW S, NEW s \in Seq(S), NEW x \in S, Distinct(s), x \notin Elems(s)
    PROVE  Distinct(Append(s, x)) /\ Distinct(list_push(s, x))
<1>1. Distinct(Append(s, x))
  <2>1. Len(Append(s, x)) = Len(s) + 1 /\ Append(s, x)[Len(s) + 1] = x
    OBVIOUS
  <2>2. \A i \in 1..Len(s) : Append(s, x)[i] = s[i]
    OBVIOUS
  <2> QED
    BY <2>1, <2>2 DEF Distinct, Elems
<1>2. Distinct(list_push(s, x))
  <2> DEFINE p == list_push(s, x)
  <2>1. p \in Seq(S) /\ Len(p) = Len(s) + 1 /\ p[1] = x
    BY DEF list_push
  <2>2. \A i \in 1..Len(s) : p[i + 1] = s[i]
    BY DEF list_push
  <2>3. \A i \in 2..Len(p) : i - 1 \in 1..Len(s) /\ p[i] = s[i - 1]
    BY <2>1, <2>2
  <2> HIDE DEF p
  <2>4. ASSUME NEW i \in 1..Len(p), NEW j \in 1..Len(p), p[i] = p[j] PROVE i = j
    <3>1. CASE i = 1 /\ j # 1
      BY <2>1, <2>3, <2>4, <3>1 DEF Elems
    <3>2. CASE i # 1 /\ j = 1
      BY <2>1, <2>3, <2>4, <3>2 DEF Elems
    <3>3. CASE i # 1 /\ j # 1
      BY <2>1, <2>3, <2>4, <3>3 DEF Distinct
    <3> QED
      BY <3>1, <3>2, <3>3
  <2> QED
    BY <2>4 DEF Distinct, p
<1> QED
  BY <1>1, <1>2

-----------------------------------------------------------------------------
(* The inductive invariant of the lists.  TagInOneList is not inductive:   *)
(* that a task being created is in no list yet has to be followed through  *)
(* allocate_pid, and through the locks it takes there.                     *)
Begun(t) == \/ pc[t] \in Creating \ {"enq_all"}
            \/ pc[t] \in Acquiring \union Releasing /\ ret[t] \in Creating

RunL    == \A t \in Tasks : (t = cur) <=> (status[t] = "RUNNING")
ReadyL  == Distinct(ready) /\ \A t \in Tasks : (t \in Elems(ready)) <=> (status[t] = "READY")
WaitL   == \A l \in AllLocks :
               /\ Distinct(waiters[l])
               /\ \A t \in Tasks : (t \in Elems(waiters[l])) <=>
                      (status[t] = "BLOCKED" /\ t # idle_thread /\ lk[t] = l)
IdleL   == /\ status[idle_thread] # "UNBORN" /\ status[idle_thread] # "ASLEEP"
           /\ \A t \in Tasks : (t = idle_thread) <=> (pc[t] \in Idling)
SleepL  == \A t \in Tasks \ {idle_thread} : status[t] = "BLOCKED" => pc[t] = "woken"
UnbornL == \A t \in Tasks : status[t] = "UNBORN" => pc[t] = "kern"
BirthL  == \A t \in Tasks : Begun(t) => status[new[t]] = "UNBORN"
NewL    == \A t, u \in Tasks : new[t] = new[u] /\ new[t] # NULL => t = u
AllL    == \A t \in Tasks : /\ t \in Elems(all) => status[t] # "UNBORN"
                            /\ pc[t] = "enq_all" => new[t] \notin Elems(all)

BornL   == \A t \in Tasks : pc[t] = "enq_all" => status[new[t]] # "UNBORN"

ListInv == RunL /\ ReadyL /\ WaitL /\ IdleL /\ SleepL /\ UnbornL /\ BirthL /\ NewL /\ AllL
           /\ BornL

ListTypes ==
    /\ status \in [Tasks -> Statuses] /\ ready \in Seq(Tasks) /\ cur \in Tasks
    /\ waiters \in [AllLocks -> Seq(Tasks)] /\ all \in Seq(Tasks)
    /\ pc \in [Tasks -> PCs] /\ lk \in [Tasks -> AllLocks] /\ lk[cur] \in AllLocks
    /\ ret \in [Tasks -> ReturnPts] /\ ret[cur] \in ReturnPts
    /\ new \in [Tasks -> Tasks \union {NULL}]
    /\ idle_thread \in Tasks /\ NULL \notin Tasks /\ pid_lock \in AllLocks
    /\ \A t \in Tasks : Begun(t) \/ pc[t] = "enq_all" =>
                            new[t] \in Tasks /\ new[t] # idle_thread

LEMMA ListTypesHold == TypeInv => ListTypes
<1> SUFFICES ASSUME TypeInv PROVE ListTypes
  OBVIOUS
<1>1. \A t \in Tasks : Begun(t) \/ pc[t] = "enq_all" =>
                           new[t] \in Tasks /\ new[t] # idle_thread
  BY TasksFacts, ConstantsAssumption DEF TypeInv, CreatorOK, Begun, Creating
<1> QED
  BY <1>1, TasksFacts DEF TypeInv, TypeOK, SchedTypeOK, LockTypeOK, CallTypeOK, BirthTypeOK,
     ListTypes

(* schedule() on a ready list that agrees with the statuses: it leaves a   *)
(* list that agrees, one running task, and never needs an idle task that   *)
(* is not blocked.                                                         *)
Schedulable(r, s) ==
    /\ r \in Seq(Tasks) /\ s \in [Tasks -> Statuses]
    /\ Distinct(r)
    /\ \A t \in Tasks : (t \in Elems(r)) <=> (s[t] = "READY")
    /\ \A t \in Tasks : s[t] # "RUNNING"
    /\ s[idle_thread] # "UNBORN" /\ s[idle_thread] # "ASLEEP"

Scheduled(s) ==
    /\ Distinct(ready')
    /\ \A t \in Tasks : (t \in Elems(ready')) <=> (status'[t] = "READY")
    /\ \A t \in Tasks : (t = cur') <=> (status'[t] = "RUNNING")
    /\ \A t \in Tasks : (status'[t] = "UNBORN") <=> (s[t] = "UNBORN")
    /\ \A t \in Tasks : (status'[t] = "ASLEEP") <=> (s[t] = "ASLEEP")
    /\ \A t \in Tasks \ {idle_thread} : (status'[t] = "BLOCKED") <=> (s[t] = "BLOCKED")

LEMMA ScheduleLists ==
    ASSUME NEW r, NEW s, NEW ok, Schedulable(r, s), schedule(r, s, ok)
    PROVE  Scheduled(s) /\ (ok => kernel' = "up")
<1> USE TasksFacts DEF Schedulable, Scheduled
<1> DEFINE rl == IF r = << >> THEN <<idle_thread>> ELSE r
           next == Head(rl)
<1>1. /\ ready' = Tail(rl) /\ status' = [s EXCEPT ![next] = "RUNNING"] /\ cur' = next
      /\ ASSERT(ok /\ (r = << >> => s[idle_thread] = "BLOCKED"))
  BY DEF schedule
<1>2. CASE r = << >>
  <2>1. Elems(r) = {}
    BY <1>2, ElemsEmpty
  <2>2. next = idle_thread /\ Tail(rl) = << >>
    BY <1>2
  <2>3. s[idle_thread] = "BLOCKED"
    BY <2>1 DEF Statuses
  <2>4. ready' = << >> /\ Elems(ready') = {} /\ Distinct(ready')
    <3>1. ready' = << >> /\ Len(<< >>) = 0
      BY <1>1, <2>2
    <3> QED
      BY <3>1 DEF Elems, Distinct
  <2>5. status' = [s EXCEPT ![idle_thread] = "RUNNING"] /\ cur' = idle_thread
    BY <1>1, <2>2
  <2>6. ok => kernel' = "up"
    BY <1>1, <2>3 DEF ASSERT
  <2> QED
    BY <2>1, <2>3, <2>4, <2>5, <2>6 DEF Statuses
<1>3. CASE r # << >>
  <2>1. /\ Elems(r) = Elems(Tail(r)) \union {Head(r)} /\ Head(r) \in Tasks
        /\ Distinct(Tail(r)) /\ Head(r) \notin Elems(Tail(r))
    BY <1>3, ElemsPop
  <2>2. ready' = Tail(r) /\ status' = [s EXCEPT ![Head(r)] = "RUNNING"] /\ cur' = Head(r)
    BY <1>1, <1>3
  <2>3. s[Head(r)] = "READY"
    BY <2>1
  <2>4. ok => kernel' = "up"
    BY <1>1, <1>3 DEF ASSERT
  <2> QED
    BY <2>1, <2>2, <2>3, <2>4 DEF Statuses
<1> QED
  BY <1>2, <1>3

LEMMA ListInit == Init => ListInv
<1> SUFFICES ASSUME Init PROVE ListInv
  OBVIOUS
<1> USE TasksFacts, ConstantsAssumption
<1>0. main_thread # idle_thread
  OBVIOUS
<1>1. /\ \A t \in Tasks : pc[t] = (IF t = idle_thread THEN "block" ELSE "kern")
      /\ \A t \in Tasks : ret[t] = "kern" /\ new[t] = NULL
      /\ \A t \in Tasks : status[t] = (IF t = main_thread THEN "RUNNING"
                                        ELSE IF t = idle_thread THEN "READY" ELSE "UNBORN")
      /\ \A l \in AllLocks : waiters[l] = << >>
      /\ ready = <<idle_thread>> /\ all = <<main_thread, idle_thread>> /\ cur = main_thread
  BY DEF Init
<1>2. Elems(ready) = {idle_thread} /\ Distinct(ready)
  BY <1>1 DEF Elems, Distinct
<1>3. Elems(all) = {main_thread, idle_thread}
  <2>1. Len(all) = 2 /\ all[1] = main_thread /\ all[2] = idle_thread
    BY <1>1
  <2>2. 1..2 = {1, 2}
    OBVIOUS
  <2> QED
    BY <2>1, <2>2 DEF Elems
<1>4. \A l \in AllLocks : Elems(waiters[l]) = {} /\ Distinct(waiters[l])
  BY <1>1 DEF Elems, Distinct
<1>5. RunL /\ ReadyL /\ WaitL
  BY <1>0, <1>1, <1>2, <1>4 DEF RunL, ReadyL, WaitL
<1>6. IdleL /\ SleepL /\ UnbornL
  BY <1>0, <1>1 DEF IdleL, SleepL, UnbornL, Idling
<1>7. BirthL /\ NewL
  BY <1>1 DEF BirthL, NewL, Begun, Creating, Acquiring, Releasing
<1>8. AllL /\ BornL
  BY <1>0, <1>1, <1>3 DEF AllL, BornL
<1> QED
  BY <1>5, <1>6, <1>7, <1>8 DEF ListInv

(* The running task moves on in its own code. *)
LEMMA ListFrame ==
    ASSUME ListTypes, ListInv, UNCHANGED <<status, ready, waiters, cur, all, new>>,
           NEW p, pc' = [pc EXCEPT ![cur] = p],
           (p \in Idling) <=> (pc[cur] \in Idling),
           p # "enq_all",
           \A t \in Tasks \ {cur} : lk'[t] = lk[t] /\ ret'[t] = ret[t],
           Begun(cur)' => Begun(cur)
    PROVE  ListInv'
<1> USE DEF ListTypes
<1>1. status[cur] = "RUNNING"
  BY DEF ListInv, RunL
<1>2. RunL' /\ ReadyL'
  BY DEF ListInv, RunL, ReadyL
<1>3. WaitL'
  BY <1>1 DEF ListInv, WaitL
<1>4. IdleL' /\ SleepL' /\ UnbornL'
  BY <1>1 DEF ListInv, IdleL, SleepL, UnbornL
<1>5. \A t \in Tasks : Begun(t)' => Begun(t)
  BY DEF Begun
<1>6. BirthL' /\ NewL'
  BY <1>5 DEF ListInv, BirthL, NewL
<1>8. AllL' /\ BornL'
  BY DEF ListInv, AllL, BornL
<1> QED
  BY <1>2, <1>3, <1>4, <1>6, <1>8 DEF ListInv

(* The running task goes to the tail of the ready list. *)
LEMMA ListPreempt ==
    ASSUME ListTypes, ListInv, NEW ok,
           schedule(Append(ready, cur), [status EXCEPT ![cur] = "READY"], ok),
           UNCHANGED <<waiters, all, new, lk, ret>>,
           \/ pc' = pc
           \/ pc[cur] = "hlt" /\ pc' = [pc EXCEPT ![cur] = "block"]
    PROVE  ListInv' /\ (ok => kernel' = "up")
<1> USE DEF ListTypes
<1> DEFINE r == Append(ready, cur)
           s == [status EXCEPT ![cur] = "READY"]
<1>1. status[cur] = "RUNNING" /\ cur \notin Elems(ready)
  BY DEF ListInv, RunL, ReadyL
<1>2. r \in Seq(Tasks) /\ Elems(r) = Elems(ready) \union {cur} /\ Distinct(r)
  BY <1>1, ElemsAppend, DistinctAdd, SeqTyping DEF ListInv, ReadyL
<1>3. Schedulable(r, s)
  BY <1>1, <1>2 DEF ListInv, ReadyL, RunL, IdleL, Statuses, Schedulable
<1>4. \A t \in Tasks : /\ s[t] = "UNBORN" <=> status[t] = "UNBORN"
                       /\ s[t] = "BLOCKED" <=> status[t] = "BLOCKED"
  BY <1>1
<1> HIDE DEF r, s
<1>5. Scheduled(s) /\ (ok => kernel' = "up")
  BY <1>3, ScheduleLists DEF r, s
<1>6. RunL' /\ ReadyL'
  BY <1>5 DEF Scheduled, RunL, ReadyL
<1>7. WaitL'
  BY <1>4, <1>5 DEF Scheduled, ListInv, WaitL
<1>8. \A t \in Tasks : /\ pc'[t] \in Idling <=> pc[t] \in Idling
                       /\ pc[t] \notin Idling => pc'[t] = pc[t]
                       /\ pc'[t] = pc[t] \/ pc'[t] = "block"
  BY DEF Idling
<1>9. IdleL' /\ SleepL' /\ UnbornL'
  <2>1. IdleL'
    BY <1>3, <1>5, <1>8 DEF Scheduled, Schedulable, ListInv, IdleL
  <2>2. SleepL'
    BY <1>4, <1>5, <1>8 DEF Scheduled, Schedulable, ListInv, SleepL, Idling
  <2>3. UnbornL'
    BY <1>4, <1>5, <1>8 DEF Scheduled, Schedulable, ListInv, UnbornL, Idling
  <2> QED
    BY <2>1, <2>2, <2>3
<1>10. BirthL' /\ NewL'
  <2>1. \A t \in Tasks : Begun(t)' => Begun(t)
    BY <1>8 DEF Begun, Creating, Acquiring, Releasing
  <2>2. \A t \in Tasks : Begun(t)' => new[t] \in Tasks
    BY <2>1
  <2> QED
    BY <1>4, <1>5, <2>1, <2>2 DEF Scheduled, ListInv, BirthL, NewL
<1>11. AllL' /\ BornL'
  <2>1. \A t \in Tasks : pc'[t] = "enq_all" => pc[t] = "enq_all" /\ new[t] \in Tasks
    BY <1>8
  <2> QED
    BY <1>4, <1>5, <2>1 DEF Scheduled, ListInv, AllL, BornL
<1> QED
  BY <1>5, <1>6, <1>7, <1>9, <1>10, <1>11 DEF ListInv

(* The running task waits for a device, in no list. *)
LEMMA ListDeviceWait ==
    ASSUME ListTypes, ListInv, device_wait
    PROVE  ListInv' /\ kernel' = "up"
<1> USE DEF ListTypes
<1> DEFINE s == [status EXCEPT ![cur] = "ASLEEP"]
<1>1. UNCHANGED <<waiters, all, new, lk, ret, pc>> /\ pc[cur] \in Home
  BY DEF device_wait, AtHome, lockVars, callVars, birthVars
<1>2. cur # idle_thread /\ status[cur] = "RUNNING"
  BY <1>1 DEF ListInv, RunL, IdleL, Idling, Home
<1>3. Schedulable(ready, s)
  BY <1>2 DEF ListInv, ReadyL, RunL, IdleL, Statuses, Schedulable
<1>4. \A t \in Tasks : /\ s[t] = "UNBORN" <=> status[t] = "UNBORN"
                       /\ s[t] = "BLOCKED" <=> status[t] = "BLOCKED"
  BY <1>2
<1>5. Scheduled(s) /\ kernel' = "up"
  <2>1. schedule(ready, s, TRUE)
    BY DEF device_wait
  <2> QED
    BY <1>3, <2>1, ScheduleLists
<1> HIDE DEF s
<1>6. RunL' /\ ReadyL'
  BY <1>5 DEF Scheduled, RunL, ReadyL
<1>7. WaitL'
  BY <1>1, <1>4, <1>5 DEF Scheduled, ListInv, WaitL
<1>8. IdleL'
  BY <1>1, <1>3, <1>5 DEF Scheduled, Schedulable, ListInv, IdleL
<1>9. SleepL' /\ UnbornL'
  BY <1>1, <1>4, <1>5 DEF Scheduled, ListInv, SleepL, UnbornL
<1>10. \A t \in Tasks : Begun(t)' => Begun(t)
  BY <1>1 DEF Begun
<1>11. BirthL' /\ NewL'
  BY <1>1, <1>4, <1>5, <1>10 DEF Scheduled, ListInv, BirthL, NewL
<1>12. AllL' /\ BornL'
  BY <1>1, <1>4, <1>5 DEF Scheduled, ListInv, AllL, BornL
<1> QED
  BY <1>5, <1>6, <1>7, <1>8, <1>9, <1>11, <1>12 DEF ListInv

(* A device wakes a task that waits for it. *)
LEMMA ListDeviceIntr ==
    ASSUME ListTypes, ListInv, NEW h \in Tasks, device_intr(h)
    PROVE  ListInv' /\ kernel' = "up"
<1> USE DEF ListTypes
<1>1. /\ status[h] = "ASLEEP" /\ ready' = list_push(ready, h)
      /\ status' = [status EXCEPT ![h] = "READY"]
      /\ UNCHANGED <<cur, waiters, all, new, lk, ret>>
      /\ ASSERT(h \notin Elems(ready))
  BY DEF device_intr, lockVars, callVars, birthVars
<1>2. pc' = pc \/ (pc[cur] = "hlt" /\ pc' = [pc EXCEPT ![cur] = "block"])
  BY DEF device_intr
<1>3. h # cur /\ h # idle_thread /\ h \notin Elems(ready)
  BY <1>1 DEF ListInv, RunL, ReadyL, IdleL
<1>4. kernel' = "up"
  BY <1>1, <1>3 DEF ASSERT
<1>5. Elems(ready') = Elems(ready) \union {h} /\ Distinct(ready')
  BY <1>1, <1>3, ElemsPush, DistinctAdd DEF ListInv, ReadyL
<1>6. RunL' /\ ReadyL'
  BY <1>1, <1>3, <1>5 DEF ListInv, RunL, ReadyL
<1>7. WaitL'
  BY <1>1 DEF ListInv, WaitL
<1>8. \A t \in Tasks : /\ pc'[t] \in Idling <=> pc[t] \in Idling
                       /\ pc[t] \notin Idling => pc'[t] = pc[t]
                       /\ pc'[t] = pc[t] \/ pc'[t] = "block"
  BY <1>2 DEF Idling
<1>9. IdleL'
  BY <1>1, <1>3, <1>8 DEF ListInv, IdleL
<1>10. SleepL' /\ UnbornL'
  BY <1>1, <1>8 DEF ListInv, SleepL, UnbornL, Idling
<1>11. \A t \in Tasks : Begun(t)' => Begun(t)
  BY <1>1, <1>8 DEF Begun, Creating, Acquiring, Releasing
<1>12. BirthL' /\ NewL'
  BY <1>1, <1>11 DEF ListInv, BirthL, NewL
<1>13. AllL' /\ BornL'
  <2>1. \A t \in Tasks : pc'[t] = "enq_all" => pc[t] = "enq_all"
    BY <1>8
  <2> QED
    BY <1>1, <2>1 DEF ListInv, AllL, BornL
<1> QED
  BY <1>4, <1>6, <1>7, <1>9, <1>10, <1>12, <1>13 DEF ListInv

(* The running task goes to sleep: on no list (idle), or at the tail of    *)
(* the waiters of the lock it wants.                                       *)
LEMMA ListIdleBlock ==
    ASSUME ListTypes, ListInv, idle_block
    PROVE  ListInv' /\ kernel' = "up"
<1> USE DEF ListTypes
<1> DEFINE s == [status EXCEPT ![cur] = "BLOCKED"]
<1>1. /\ pc[cur] = "block" /\ pc' = [pc EXCEPT ![cur] = "sti"]
      /\ UNCHANGED <<waiters, all, new, lk, ret>>
  BY DEF idle_block, At, Goto, lockVars, callVars, birthVars
<1>2. cur = idle_thread /\ status[cur] = "RUNNING"
  BY <1>1 DEF ListInv, RunL, IdleL, Idling
<1>3. Schedulable(ready, s)
  BY <1>2 DEF ListInv, ReadyL, RunL, Statuses, Schedulable
<1>4. \A t \in Tasks : /\ s[t] = "UNBORN" <=> status[t] = "UNBORN"
                       /\ t # idle_thread => (s[t] = "BLOCKED" <=> status[t] = "BLOCKED")
  BY <1>2
<1>5. Scheduled(s) /\ kernel' = "up"
  <2>1. schedule(ready, s, TRUE)
    BY DEF idle_block, thread_block
  <2> QED
    BY <1>3, <2>1, ScheduleLists
<1> HIDE DEF s
<1>6. RunL' /\ ReadyL'
  BY <1>5 DEF Scheduled, RunL, ReadyL
<1>7. WaitL'
  BY <1>1, <1>4, <1>5 DEF Scheduled, ListInv, WaitL
<1>8. IdleL' /\ SleepL' /\ UnbornL'
  <2>1. IdleL'
    BY <1>1, <1>2, <1>3, <1>5 DEF Scheduled, Schedulable, ListInv, IdleL, Idling
  <2>2. SleepL' /\ UnbornL'
    BY <1>1, <1>2, <1>4, <1>5 DEF Scheduled, ListInv, SleepL, UnbornL
  <2> QED
    BY <2>1, <2>2
<1>9. \A t \in Tasks : Begun(t)' => Begun(t)
  BY <1>1 DEF Begun, Creating, Acquiring, Releasing
<1>10. BirthL' /\ NewL'
  BY <1>1, <1>4, <1>5, <1>9 DEF Scheduled, ListInv, BirthL, NewL
<1>11. AllL' /\ BornL'
  <2>1. \A t \in Tasks : pc'[t] = "enq_all" => pc[t] = "enq_all" /\ new[t] \in Tasks
    BY <1>1
  <2> QED
    BY <1>1, <1>4, <1>5, <2>1 DEF Scheduled, ListInv, AllL, BornL
<1> QED
  BY <1>5, <1>6, <1>7, <1>8, <1>10, <1>11 DEF ListInv

LEMMA ListSleep ==
    ASSUME ListTypes, ListInv, sema_down, value[lk[cur]] = 0
    PROVE  ListInv' /\ kernel' = "up"
<1> USE DEF ListTypes
<1> DEFINE s == [status EXCEPT ![cur] = "BLOCKED"]
           l == lk[cur]
<1>1. /\ pc[cur] \in {"down", "woken"} /\ pc' = [pc EXCEPT ![cur] = "woken"]
      /\ waiters' = [waiters EXCEPT ![l] = Append(@, cur)]
      /\ UNCHANGED <<all, new, lk, ret>>
  BY DEF sema_down, At, Goto, birthVars
<1>2. cur # idle_thread /\ status[cur] = "RUNNING" /\ cur \notin Elems(waiters[l])
  BY <1>1 DEF ListInv, RunL, IdleL, WaitL, Idling
<1>3. Schedulable(ready, s)
  BY <1>2 DEF ListInv, ReadyL, RunL, IdleL, Statuses, Schedulable
<1>4. \A t \in Tasks : /\ s[t] = "UNBORN" <=> status[t] = "UNBORN"
                       /\ s[t] = "BLOCKED" <=> status[t] = "BLOCKED" \/ t = cur
  BY <1>2
<1>5. Scheduled(s) /\ kernel' = "up"
  <2>1. schedule(ready, s, cur \notin Elems(waiters[l]))
    BY DEF sema_down, thread_block
  <2> QED
    BY <1>2, <1>3, <2>1, ScheduleLists
<1>5a. /\ Elems(Append(waiters[l], cur)) = Elems(waiters[l]) \union {cur}
       /\ Distinct(Append(waiters[l], cur))
  BY <1>2, ElemsAppend, DistinctAdd DEF ListInv, WaitL
<1> HIDE DEF s
<1>6. RunL' /\ ReadyL'
  BY <1>5 DEF Scheduled, RunL, ReadyL
<1>7. WaitL'
  <2>1. ASSUME NEW k \in AllLocks PROVE Distinct(waiters'[k])
    BY <1>1, <1>5a DEF ListInv, WaitL
  <2>2. ASSUME NEW k \in AllLocks, NEW t \in Tasks
        PROVE  (t \in Elems(waiters'[k])) <=>
                   (status'[t] = "BLOCKED" /\ t # idle_thread /\ lk'[t] = k)
    <3>1. CASE t = idle_thread
      BY <1>1, <1>2, <1>5a, <3>1 DEF ListInv, WaitL
    <3>2. CASE t # idle_thread /\ t # cur
      <4>1. (t \in Elems(waiters'[k])) <=> (t \in Elems(waiters[k]))
        BY <1>1, <1>5a, <3>2
      <4> QED
        BY <1>1, <1>4, <1>5, <3>2, <4>1 DEF Scheduled, ListInv, WaitL
    <3>3. CASE t = cur /\ k = l
      BY <1>1, <1>2, <1>4, <1>5, <1>5a, <3>3 DEF Scheduled
    <3>4. CASE t = cur /\ k # l
      BY <1>1, <1>2, <3>4 DEF ListInv, WaitL
    <3> QED
      BY <3>1, <3>2, <3>3, <3>4
  <2> QED
    BY <2>1, <2>2 DEF WaitL
<1>8. IdleL' /\ SleepL' /\ UnbornL'
  <2>1. IdleL'
    BY <1>1, <1>2, <1>3, <1>5 DEF Scheduled, Schedulable, ListInv, IdleL, Idling
  <2>2. SleepL' /\ UnbornL'
    BY <1>1, <1>2, <1>4, <1>5 DEF Scheduled, ListInv, SleepL, UnbornL
  <2> QED
    BY <2>1, <2>2
<1>9. \A t \in Tasks : Begun(t)' => Begun(t)
  BY <1>1 DEF Begun, Creating, Acquiring, Releasing
<1>10. BirthL' /\ NewL'
  BY <1>1, <1>4, <1>5, <1>9 DEF Scheduled, ListInv, BirthL, NewL
<1>11. AllL' /\ BornL'
  <2>1. \A t \in Tasks : pc'[t] = "enq_all" => pc[t] = "enq_all" /\ new[t] \in Tasks
    BY <1>1
  <2> QED
    BY <1>1, <1>4, <1>5, <2>1 DEF Scheduled, ListInv, AllL, BornL
<1> QED
  BY <1>5, <1>6, <1>7, <1>8, <1>10, <1>11 DEF ListInv

(* sema_up moves the first waiter to the front of the ready list. *)
LEMMA ListWake ==
    ASSUME ListTypes, ListInv, sema_up
    PROVE  /\ ListInv'
           /\ waiters[lk[cur]] # << >> =>
                 /\ Head(waiters[lk[cur]]) \in Tasks \ {idle_thread}
                 /\ status[Head(waiters[lk[cur]])] = "BLOCKED"
                 /\ Head(waiters[lk[cur]]) \notin Elems(ready)
                 /\ lk[Head(waiters[lk[cur]])] = lk[cur]
<1> USE DEF ListTypes
<1> DEFINE l == lk[cur]
<1>1. /\ pc[cur] = "up" /\ pc' = [pc EXCEPT ![cur] = ret[cur]]
      /\ UNCHANGED <<cur, all, new, lk, ret>>
  BY DEF sema_up, At, Goto, callVars, birthVars
<1>2. /\ ret[cur] \notin Idling /\ pc[cur] \notin Idling /\ ret[cur] # "enq_all"
      /\ ret[cur] \in Creating => Begun(cur)
  BY <1>1 DEF Idling, ReturnPts, Home, Creating, Begun, Releasing
<1>3. CASE waiters[l] = << >>
  <2>1. UNCHANGED <<status, ready, waiters>>
    BY <1>3 DEF sema_up
  <2>2. Begun(cur)' => Begun(cur)
    BY <1>1, <1>2 DEF Begun, ReturnPts, Home, Creating, Acquiring, Releasing
  <2>4. ListInv'
    BY <1>1, <1>2, <2>1, <2>2, ListFrame
  <2> QED
    BY <1>3, <2>4
<1>4. CASE waiters[l] # << >>
  <2> DEFINE h == Head(waiters[l])
  <2>1. /\ ready' = list_push(ready, h)
        /\ status' = [status EXCEPT ![h] = "READY"]
        /\ waiters' = [waiters EXCEPT ![l] = Tail(@)]
    BY <1>4 DEF sema_up
  <2>2. /\ Elems(waiters[l]) = Elems(Tail(waiters[l])) \union {h}
        /\ h \in Tasks /\ Distinct(Tail(waiters[l])) /\ h \notin Elems(Tail(waiters[l]))
    BY <1>4, ElemsPop DEF ListInv, WaitL
  <2>3. h # idle_thread /\ status[h] = "BLOCKED" /\ lk[h] = l
    BY <2>2 DEF ListInv, WaitL
  <2>4. h # cur /\ h \notin Elems(ready)
    BY <2>2, <2>3 DEF ListInv, RunL, ReadyL
  <2>5. Elems(ready') = Elems(ready) \union {h} /\ Distinct(ready')
    BY <2>1, <2>2, <2>4, ElemsPush, DistinctAdd DEF ListInv, ReadyL
  <2>6. RunL' /\ ReadyL'
    BY <1>1, <2>1, <2>2, <2>3, <2>4, <2>5 DEF ListInv, RunL, ReadyL
  <2>7. WaitL'
    <3>1. ASSUME NEW k \in AllLocks PROVE Distinct(waiters'[k])
      BY <2>1, <2>2 DEF ListInv, WaitL
    <3>2. ASSUME NEW k \in AllLocks, NEW t \in Tasks
          PROVE  (t \in Elems(waiters'[k])) <=>
                     (status'[t] = "BLOCKED" /\ t # idle_thread /\ lk'[t] = k)
      <4>1. CASE t = h
        <5>1. t \notin Elems(waiters'[k])
          BY <2>1, <2>2, <2>3, <4>1 DEF ListInv, WaitL
        <5> QED
          BY <2>1, <2>2, <4>1, <5>1
      <4>2. CASE t # h
        <5>1. (t \in Elems(waiters'[k])) <=> (t \in Elems(waiters[k]))
          BY <2>1, <2>2, <4>2
        <5> QED
          BY <1>1, <2>1, <4>2, <5>1 DEF ListInv, WaitL
      <4> QED
        BY <4>1, <4>2
    <3> QED
      BY <3>1, <3>2 DEF WaitL
  <2>8. IdleL' /\ SleepL' /\ UnbornL'
    BY <1>1, <1>2, <2>1, <2>2, <2>3, <2>6 DEF ListInv, IdleL, SleepL, UnbornL, RunL
  <2>9. \A t \in Tasks : Begun(t)' => Begun(t)
    BY <1>1, <1>2 DEF Begun, ReturnPts, Home, Creating, Acquiring, Releasing
  <2>10. BirthL' /\ NewL'
    BY <1>1, <2>1, <2>2, <2>3, <2>9 DEF ListInv, BirthL, NewL
  <2>12. AllL' /\ BornL'
    BY <1>1, <1>2, <2>1, <2>2 DEF ListInv, AllL, BornL
  <2>13. ListInv'
    BY <2>6, <2>7, <2>8, <2>10, <2>12 DEF ListInv
  <2> QED
    BY <2>2, <2>3, <2>4, <2>13
<1> QED
  BY <1>3, <1>4

(* A new task joins the ready list: it was in no list before. *)
LEMMA ListEnqueueReady ==
    ASSUME ListTypes, ListInv, enqueue_ready
    PROVE  /\ ListInv' /\ kernel' = "up"
           /\ new[cur] \in Tasks /\ new[cur] # cur /\ pc[new[cur]] = "kern"
<1> USE DEF ListTypes
<1> DEFINE c == new[cur]
<1>1. /\ pc[cur] = "enq_ready"
      /\ ready' = Append(ready, c)
      /\ status' = [status EXCEPT ![c] = "READY"]
      /\ UNCHANGED <<cur, waiters, lk, ret, new>>
      /\ ASSERT(c \notin Elems(ready) /\ (c \in UProcs => c \notin Elems(all)))
  BY DEF enqueue_ready, At, lockVars, callVars
<1>2. \/ /\ c \in UProcs /\ all' = Append(all, c)
         /\ \/ pc' = [pc EXCEPT ![cur] = "sys", ![c] = "user"]
            \/ pc' = [pc EXCEPT ![cur] = "kern"]
      \/ /\ c \notin UProcs /\ all' = all
         /\ pc' = [pc EXCEPT ![cur] = "enq_all"]
  BY DEF enqueue_ready, Goto
<1>3. Begun(cur) /\ c \in Tasks /\ c # idle_thread
  BY <1>1 DEF Begun, Creating
<1>4. status[c] = "UNBORN" /\ pc[c] = "kern"
  BY <1>3 DEF ListInv, BirthL, UnbornL
<1>5. c \notin Elems(ready) /\ c \notin Elems(all) /\ c # cur
  BY <1>3, <1>4 DEF ListInv, ReadyL, AllL, RunL
<1>6. kernel' = "up"
  BY <1>1, <1>5 DEF ASSERT
<1>7. Elems(ready') = Elems(ready) \union {c} /\ Distinct(ready')
  BY <1>1, <1>3, <1>5, ElemsAppend, DistinctAdd DEF ListInv, ReadyL
<1>8. Elems(all') = Elems(all) \/ (c \in UProcs /\ Elems(all') = Elems(all) \union {c})
  <2>1. Elems(Append(all, c)) = Elems(all) \union {c}
    BY <1>3, ElemsAppend
  <2>2. \/ c \in UProcs /\ all' = Append(all, c)
        \/ all' = all
    BY <1>2
  <2>3. CASE all' = all
    BY <2>3
  <2>4. CASE c \in UProcs /\ all' = Append(all, c)
    BY <2>1, <2>4
  <2> QED
    BY <2>2, <2>3, <2>4
<1>9. /\ \A t \in Tasks \ {cur, c} : pc'[t] = pc[t]
      /\ pc'[cur] \in {"sys", "kern", "enq_all"} /\ pc'[c] \in {"user", "kern"}
      /\ pc'[cur] = "enq_all" => Elems(all') = Elems(all)
  BY <1>2, <1>3, <1>4, <1>5
<1> HIDE DEF c
<1>10. RunL' /\ ReadyL'
  BY <1>1, <1>3, <1>4, <1>5, <1>7 DEF ListInv, RunL, ReadyL
<1>11. WaitL'
  BY <1>1, <1>3, <1>4 DEF ListInv, WaitL
<1>12. IdleL'
  BY <1>1, <1>3, <1>4, <1>9 DEF ListInv, IdleL, Idling
<1>13. SleepL' /\ UnbornL'
  BY <1>1, <1>3, <1>9, <1>10 DEF ListInv, SleepL, UnbornL, RunL
<1>14. \A t \in Tasks : Begun(t)' => Begun(t) /\ t # cur
  BY <1>1, <1>4, <1>9 DEF Begun, Creating, Acquiring, Releasing
<1>15. NewL'
  BY <1>1 DEF ListInv, NewL
<1>16. BirthL'
  <2>1. ASSUME NEW t \in Tasks, Begun(t)' PROVE status'[new[t]] = "UNBORN"
    <3>1. Begun(t) /\ t # cur /\ new[t] \in Tasks /\ status[new[t]] = "UNBORN"
      BY <1>14, <2>1 DEF ListInv, BirthL
    <3>2. new[t] # c
      BY <1>3, <3>1 DEF ListInv, NewL, c
    <3> QED
      BY <1>1, <3>1, <3>2
  <2> QED
    BY <1>1, <2>1 DEF BirthL
<1>17. AllL'
  <2>1. ASSUME NEW t \in Tasks, t \in Elems(all') PROVE status'[t] # "UNBORN"
    BY <1>1, <1>3, <1>8, <2>1 DEF ListInv, AllL
  <2>2. ASSUME NEW t \in Tasks, pc'[t] = "enq_all" PROVE new[t] \notin Elems(all')
    <3>1. CASE t = cur
      BY <1>5, <1>9, <2>2, <3>1 DEF c
    <3>2. CASE t # cur
      <4>1. pc[t] = "enq_all" /\ new[t] \notin Elems(all)
        BY <1>9, <2>2, <3>2 DEF ListInv, AllL
      <4>2. new[t] # c
        BY <1>3, <3>2 DEF ListInv, NewL, c
      <4> QED
        BY <1>8, <4>1, <4>2
    <3> QED
      BY <3>1, <3>2
  <2> QED
    BY <1>1, <2>1, <2>2 DEF AllL
<1>18. BornL'
  BY <1>1, <1>3, <1>9 DEF ListInv, BornL, c
<1> QED
  BY <1>3, <1>4, <1>5, <1>6, <1>10, <1>11, <1>12, <1>13, <1>15, <1>16, <1>17, <1>18
     DEF ListInv, c

(* thread_start's second list. *)
LEMMA ListEnqueueAll ==
    ASSUME ListTypes, ListInv, enqueue_all, new[cur] \in KThreads \union UProcs
    PROVE  ListInv' /\ kernel' = "up"
<1> USE DEF ListTypes
<1> DEFINE c == new[cur]
<1>1. /\ pc[cur] = "enq_all" /\ pc' = [pc EXCEPT ![cur] = "kern"]
      /\ all' = Append(all, c)
      /\ UNCHANGED <<status, ready, cur, waiters, lk, ret, new>>
      /\ ASSERT(c \notin Elems(all))
  BY DEF enqueue_all, At, Goto, schedVars, lockVars, callVars
<1>2. c \in Tasks /\ c \notin Elems(all)
  BY <1>1, TasksFacts DEF ListInv, AllL
<1>3. Elems(all') = Elems(all) \union {c}
  BY <1>1, <1>2, ElemsAppend
<1>4. kernel' = "up"
  BY <1>1, <1>2 DEF ASSERT
<1>5. status[c] # "UNBORN"
  BY <1>1 DEF ListInv, BornL, c
<1> HIDE DEF c
<1>6. status[cur] = "RUNNING"
  BY DEF ListInv, RunL
<1>7. RunL' /\ ReadyL' /\ WaitL'
  BY <1>1 DEF ListInv, RunL, ReadyL, WaitL
<1>8. IdleL' /\ SleepL' /\ UnbornL'
  BY <1>1, <1>6 DEF ListInv, IdleL, SleepL, UnbornL, Idling
<1>9. \A t \in Tasks : Begun(t)' => Begun(t)
  BY <1>1 DEF Begun, Creating, Acquiring, Releasing
<1>10. BirthL' /\ NewL' /\ BornL'
  BY <1>1, <1>9 DEF ListInv, BirthL, NewL, BornL
<1>11. AllL'
  <2>1. ASSUME NEW t \in Tasks, pc'[t] = "enq_all" PROVE new[t] # c
    <3>1. t # cur
      BY <1>1, <2>1
    <3> QED
      BY <1>2, <3>1 DEF ListInv, NewL, c
  <2> QED
    BY <1>1, <1>3, <1>5, <2>1 DEF ListInv, AllL
<1> QED
  BY <1>4, <1>7, <1>8, <1>10, <1>11 DEF ListInv

(* The choice of the task to create. *)
LEMMA ListCreate ==
    ASSUME ListTypes, ListInv, NEW c \in Tasks, create(c)
    PROVE  ListInv'
<1> USE DEF ListTypes
<1>1. /\ pc[cur] \in {"kern", "sys"} /\ pc' = [pc EXCEPT ![cur] = "pid_acq"]
      /\ status[c] = "UNBORN" /\ (\A t \in Tasks : new[t] # c)
      /\ new' = [new EXCEPT ![cur] = c]
      /\ UNCHANGED <<status, ready, cur, waiters, lk, ret, all>>
  BY DEF create, At, Goto, schedVars, lockVars, callVars
<1>2. status[cur] = "RUNNING"
  BY DEF ListInv, RunL
<1>3. RunL' /\ ReadyL' /\ WaitL'
  BY <1>1 DEF ListInv, RunL, ReadyL, WaitL
<1>4. IdleL' /\ SleepL' /\ UnbornL'
  BY <1>1, <1>2 DEF ListInv, IdleL, SleepL, UnbornL, Idling
<1>5. \A t \in Tasks \ {cur} : Begun(t)' => Begun(t)
  BY <1>1 DEF Begun
<1>6. BirthL' /\ NewL'
  BY <1>1, <1>5 DEF ListInv, BirthL, NewL
<1>7. BornL' /\ AllL'
  BY <1>1 DEF ListInv, BornL, AllL
<1> QED
  BY <1>3, <1>4, <1>6, <1>7 DEF ListInv

(* Every action preserves the invariant of the lists. *)
LEMMA ListStep == TypeInv /\ ListInv /\ [Next]_vars => ListInv'
<1> SUFFICES ASSUME TypeInv, ListInv, [Next]_vars PROVE ListInv'
  OBVIOUS
<1>0. ListTypes /\ CreatorOK
  BY ListTypesHold DEF TypeInv
<1>f. ASSUME NEW p, Goto(p), p \notin Idling \union {"enq_all"}, pc[cur] \notin Idling,
             UNCHANGED <<status, ready, waiters, cur, all, new>>,
             \A t \in Tasks \ {cur} : lk'[t] = lk[t] /\ ret'[t] = ret[t],
             Begun(cur)' => Begun(cur)
      PROVE  ListInv'
  BY <1>0, <1>f, ListFrame DEF Goto
<1>h. ASSUME NEW p \in Home, Goto(p), pc[cur] \notin Idling,
             UNCHANGED <<status, ready, waiters, cur, all, new>>,
             \A t \in Tasks \ {cur} : lk'[t] = lk[t] /\ ret'[t] = ret[t]
      PROVE  ListInv'
  <2>1. p \notin Idling \union {"enq_all"}
    BY <1>h DEF Idling, Home
  <2>2. pc'[cur] = p /\ cur' = cur
    BY <1>0, <1>h DEF ListTypes, Goto
  <2>3. Begun(cur)' => Begun(cur)
    BY <1>h, <2>2 DEF Begun, Home, Creating, Acquiring, Releasing
  <2> QED
    BY <1>f, <1>h, <2>1, <2>3
<1>1. CASE intr_timer_handler
  <2>1. /\ UNCHANGED <<waiters, all, new, lk, ret>>
        /\ pc' = pc \/ (pc[cur] = "hlt" /\ pc' = [pc EXCEPT ![cur] = "block"])
    BY <1>1 DEF intr_timer_handler, lockVars, callVars, birthVars
  <2>2. CASE UNCHANGED <<status, ready, cur>>
    <3>1. CASE pc' = pc
      <4>1. pc' = [pc EXCEPT ![cur] = pc[cur]]
        BY <1>0, <3>1 DEF ListTypes
      <4> QED
        BY <1>0, <2>1, <2>2, <3>1 DEF ListTypes, ListInv, RunL, ReadyL, WaitL, IdleL, SleepL,
           UnbornL, BirthL, NewL, AllL, BornL, Begun
    <3>2. CASE pc[cur] = "hlt" /\ pc' = [pc EXCEPT ![cur] = "block"]
      <4>1. Begun(cur)' => Begun(cur)
        BY <1>0, <2>2, <3>2 DEF ListTypes, Begun, Creating, Acquiring, Releasing
      <4> QED
        BY <1>0, <2>1, <2>2, <3>2, <4>1, ListFrame DEF Idling
    <3> QED
      BY <2>1, <3>1, <3>2
  <2>3. CASE schedule(Append(ready, cur), [status EXCEPT ![cur] = "READY"],
                      cur \notin Elems(ready))
    BY <1>0, <2>1, <2>3, ListPreempt
  <2> QED
    BY <1>1, <2>2, <2>3 DEF intr_timer_handler
<1>2. CASE thread_yield
  <2>1. /\ UNCHANGED <<waiters, all, new, lk, ret, pc>>
        /\ schedule(Append(ready, cur), [status EXCEPT ![cur] = "READY"],
                    cur \notin Elems(ready))
    BY <1>2 DEF thread_yield, lockVars, callVars, birthVars
  <2> QED
    BY <1>0, <2>1, ListPreempt
<1>2a. CASE device_wait
  BY <1>0, <1>2a, ListDeviceWait
<1>2b. CASE \E t \in Sleepers : device_intr(t)
  BY <1>0, <1>2b, ListDeviceIntr, TasksFacts
<1>3. CASE idle_block
  BY <1>0, <1>3, ListIdleBlock
<1>4. CASE idle_hlt
  <2>1. /\ pc[cur] = "sti" /\ pc' = [pc EXCEPT ![cur] = "hlt"]
        /\ UNCHANGED <<status, ready, waiters, cur, all, new, lk, ret>>
    BY <1>4 DEF idle_hlt, At, Goto, schedVars, lockVars, callVars, birthVars
  <2>2. Begun(cur)' => Begun(cur)
    BY <1>0, <2>1 DEF ListTypes, Begun, Creating, Acquiring, Releasing
  <2> QED
    BY <1>0, <2>1, <2>2, ListFrame DEF Idling
<1>5. CASE syscall_enter
  <2>1. /\ pc[cur] = "user" /\ Goto("sys")
        /\ UNCHANGED <<status, ready, waiters, cur, all, new, lk, ret>>
    BY <1>5 DEF syscall_enter, At, lockVars, callVars, birthVars
  <2>2. pc[cur] \notin Idling /\ "sys" \in Home /\ "user" \in Home
    BY <2>1 DEF Idling, Home
  <2> QED
    BY <1>h, <2>1, <2>2
<1>6. CASE intr_exit
  <2>1. /\ pc[cur] \in {"sys", "kern"} /\ Goto("user")
        /\ UNCHANGED <<status, ready, waiters, cur, all, new, lk, ret>>
    BY <1>6 DEF intr_exit, At, lockVars, callVars, birthVars
  <2>2. pc[cur] \notin Idling /\ "sys" \in Home /\ "user" \in Home
    BY <2>1 DEF Idling, Home
  <2> QED
    BY <1>h, <2>1, <2>2
<1>7. ASSUME NEW l, NEW r \in Home \union Creating, r # "enq_all", lock_acquire(l, r),
             pc[cur] \notin Idling, r \in Home \/ Begun(cur)
      PROVE  ListInv'
  <2>1. /\ Goto("down") \/ Goto(r)
        /\ lk' = [lk EXCEPT ![cur] = l] /\ ret' = [ret EXCEPT ![cur] = r]
        /\ UNCHANGED <<status, ready, waiters, cur, all, new>>
    BY <1>7 DEF lock_acquire, schedVars, birthVars
  <2>2. /\ ret'[cur] = r /\ "down" \in Acquiring /\ "down" \notin Creating /\ "down" # "enq_all"
        /\ \A t \in Tasks \ {cur} : lk'[t] = lk[t] /\ ret'[t] = ret[t]
    BY <1>0, <2>1 DEF ListTypes, Acquiring, Creating
  <2>3. CASE Goto("down")
    <3>1. "down" \notin Idling \union {"enq_all"}
      BY DEF Idling
    <3>2. Begun(cur)' => Begun(cur)
      BY <1>0, <1>7, <2>1, <2>2, <2>3 DEF ListTypes, Goto, Begun, Home, Creating
    <3> QED
      BY <1>7, <1>f, <2>1, <2>2, <2>3, <3>1, <3>2
  <2>4. CASE Goto(r) /\ r \in Home
    BY <1>7, <1>h, <2>1, <2>2, <2>4
  <2>5. CASE Goto(r) /\ r \in Creating /\ Begun(cur)
    <3>1. r \notin Idling \union {"enq_all"}
      BY <1>7, <2>5 DEF Idling, Creating
    <3> QED
      BY <1>7, <1>f, <2>1, <2>2, <2>5, <3>1
  <2> QED
    BY <1>7, <2>1, <2>3, <2>4, <2>5
<1>8. ASSUME NEW l, NEW r \in Home \union Creating, r # "enq_all", lock_release(l, r),
             pc[cur] \notin Idling, r \in Home \/ Begun(cur)
      PROVE  ListInv'
  <2>1. /\ Goto("relh") \/ Goto(r)
        /\ lk' = [lk EXCEPT ![cur] = l] /\ ret' = [ret EXCEPT ![cur] = r]
        /\ UNCHANGED <<status, ready, waiters, cur, all, new>>
    BY <1>8 DEF lock_release, schedVars, birthVars
  <2>2. /\ ret'[cur] = r /\ "relh" \in Releasing /\ "relh" \notin Creating /\ "relh" # "enq_all"
        /\ \A t \in Tasks \ {cur} : lk'[t] = lk[t] /\ ret'[t] = ret[t]
    BY <1>0, <2>1 DEF ListTypes, Releasing, Creating
  <2>3. CASE Goto("relh")
    <3>1. "relh" \notin Idling \union {"enq_all"}
      BY DEF Idling
    <3>2. Begun(cur)' => Begun(cur)
      BY <1>0, <1>8, <2>1, <2>2, <2>3 DEF ListTypes, Goto, Begun, Home, Creating
    <3> QED
      BY <1>8, <1>f, <2>1, <2>2, <2>3, <3>1, <3>2
  <2>4. CASE Goto(r) /\ r \in Home
    BY <1>8, <1>h, <2>1, <2>2, <2>4
  <2>5. CASE Goto(r) /\ r \in Creating /\ Begun(cur)
    <3>1. r \notin Idling \union {"enq_all"}
      BY <1>8, <2>5 DEF Idling, Creating
    <3> QED
      BY <1>8, <1>f, <2>1, <2>2, <2>5, <3>1
  <2> QED
    BY <1>8, <2>1, <2>3, <2>4, <2>5
<1>9. CASE \E l \in Locks : acquire(l)
  <2>1. PICK l \in Locks : acquire(l)
    BY <1>9
  <2>2. /\ pc[cur] \in Home /\ pc[cur] \notin Idling /\ pc[cur] # "enq_all"
        /\ lock_acquire(l, pc[cur])
    BY <2>1 DEF acquire, AtHome, Home, Idling
  <2> QED
    BY <1>7, <2>2
<1>10. CASE \E l \in Locks : release(l)
  <2>1. PICK l \in Locks : release(l)
    BY <1>10
  <2>2. /\ pc[cur] \in Home /\ pc[cur] \notin Idling /\ pc[cur] # "enq_all"
        /\ lock_release(l, pc[cur])
    BY <2>1 DEF release, AtHome, Home, Idling
  <2> QED
    BY <1>8, <2>2
<1>11. CASE allocate_pid_acquire
  <2>1. /\ pc[cur] = "pid_acq" /\ lock_acquire(pid_lock, "pid_inc")
        /\ "pid_inc" \in Creating /\ pc[cur] \in Creating \ {"enq_all"} /\ pc[cur] \notin Idling
    BY <1>11 DEF allocate_pid_acquire, At, Creating, Idling
  <2>2. Begun(cur)
    BY <2>1 DEF Begun
  <2> QED
    BY <1>7, <2>1, <2>2
<1>12. CASE allocate_pid_release
  <2>1. /\ pc[cur] = "pid_rel" /\ lock_release(pid_lock, "pid_read")
        /\ "pid_read" \in Creating /\ pc[cur] \in Creating \ {"enq_all"} /\ pc[cur] \notin Idling
    BY <1>12 DEF allocate_pid_release, At, Creating, Idling
  <2>2. Begun(cur)
    BY <2>1 DEF Begun
  <2> QED
    BY <1>8, <2>1, <2>2
<1>13. CASE sema_down
  <2>1. CASE value[lk[cur]] = 0
    BY <1>0, <1>13, <2>1, ListSleep
  <2>2. CASE value[lk[cur]] # 0
    <3>1. /\ pc[cur] \in {"down", "woken"} /\ Goto("hold")
          /\ UNCHANGED <<status, ready, waiters, cur, all, new, lk, ret>>
      BY <1>13, <2>2 DEF sema_down, At, birthVars
    <3>2. Begun(cur)' => Begun(cur)
      BY <1>0, <3>1 DEF ListTypes, Goto, Begun, Creating, Acquiring, Releasing
    <3> QED
      BY <1>f, <3>1, <3>2 DEF Idling
  <2> QED
    BY <2>1, <2>2
<1>14. CASE set_holder
  <2>1. /\ pc[cur] = "hold" /\ Goto("rep")
        /\ UNCHANGED <<status, ready, waiters, cur, all, new, lk, ret>>
    BY <1>14 DEF set_holder, At, schedVars, callVars, birthVars
  <2>2. Begun(cur)' => Begun(cur)
    BY <1>0, <2>1 DEF ListTypes, Goto, Begun, Creating, Acquiring, Releasing
  <2> QED
    BY <1>f, <2>1, <2>2 DEF Idling
<1>15. CASE set_repeat
  <2>1. /\ pc[cur] = "rep" /\ Goto(ret[cur])
        /\ UNCHANGED <<status, ready, waiters, cur, all, new, lk, ret>>
    BY <1>15 DEF set_repeat, At, schedVars, callVars, birthVars
  <2>2. /\ ret[cur] \in Home \/ (ret[cur] \in Creating /\ Begun(cur))
        /\ ret[cur] # "enq_all"
    BY <1>0, <2>1 DEF ListTypes, ReturnPts, Begun, Home, Creating, Acquiring
  <2>3. pc[cur] \notin Idling
    BY <2>1 DEF Idling
  <2>4. CASE ret[cur] \in Home
    BY <1>h, <2>1, <2>3, <2>4
  <2>5. CASE ret[cur] \in Creating /\ Begun(cur)
    <3>1. ret[cur] \notin Idling \union {"enq_all"}
      BY <2>2, <2>5 DEF Idling, Creating
    <3> QED
      BY <1>f, <2>1, <2>3, <2>5, <3>1
  <2> QED
    BY <2>2, <2>4, <2>5
<1>16. CASE clear_holder
  <2>1. /\ pc[cur] = "relh" /\ Goto("relr")
        /\ UNCHANGED <<status, ready, waiters, cur, all, new, lk, ret>>
    BY <1>16 DEF clear_holder, At, schedVars, callVars, birthVars
  <2>2. Begun(cur)' => Begun(cur)
    BY <1>0, <2>1 DEF ListTypes, Goto, Begun, Creating, Acquiring, Releasing
  <2> QED
    BY <1>f, <2>1, <2>2 DEF Idling
<1>17. CASE clear_repeat
  <2>1. /\ pc[cur] = "relr" /\ Goto("up")
        /\ UNCHANGED <<status, ready, waiters, cur, all, new, lk, ret>>
    BY <1>17 DEF clear_repeat, At, schedVars, callVars, birthVars
  <2>2. Begun(cur)' => Begun(cur)
    BY <1>0, <2>1 DEF ListTypes, Goto, Begun, Creating, Acquiring, Releasing
  <2> QED
    BY <1>f, <2>1, <2>2 DEF Idling
<1>18. CASE sema_up
  BY <1>0, <1>18, ListWake
<1>19. CASE \E c \in KThreads \union UProcs : create(c)
  BY <1>0, <1>19, ListCreate, TasksFacts
<1>20. CASE allocate_pid_inc
  <2>1. /\ pc[cur] = "pid_inc" /\ Goto("pid_rel")
        /\ UNCHANGED <<status, ready, waiters, cur, all, new, lk, ret>>
    BY <1>20 DEF allocate_pid_inc, At, schedVars, lockVars, callVars
  <2>2. Begun(cur)
    BY <2>1 DEF Begun, Creating
  <2> QED
    BY <1>f, <2>1, <2>2 DEF Idling
<1>21. CASE allocate_pid_return
  <2>1. /\ pc[cur] = "pid_read" /\ Goto("enq_ready")
        /\ UNCHANGED <<status, ready, waiters, cur, all, new, lk, ret>>
    BY <1>21 DEF allocate_pid_return, At, lockVars, callVars
  <2>2. Begun(cur)
    BY <2>1 DEF Begun, Creating
  <2> QED
    BY <1>f, <2>1, <2>2 DEF Idling
<1>22. CASE enqueue_ready
  BY <1>0, <1>22, ListEnqueueReady
<1>23. CASE enqueue_all
  <2>1. new[cur] \in KThreads \union UProcs
    BY <1>0, <1>23 DEF ListTypes, CreatorOK, Creating, enqueue_all, At
  <2> QED
    BY <1>0, <1>23, <2>1, ListEnqueueAll
<1>24. CASE UNCHANGED vars
  <2>1. UNCHANGED <<status, ready, waiters, cur, all, new, lk, ret, pc>>
    BY <1>24 DEF vars, schedVars, lockVars, callVars, birthVars
  <2> QED
    BY <1>0, <2>1 DEF ListTypes, ListInv, RunL, ReadyL, WaitL, IdleL, SleepL,
       UnbornL, BirthL, NewL, AllL, BornL, Begun
<1> QED
  BY <1>1, <1>2, <1>2a, <1>2b, <1>3, <1>4, <1>5, <1>6, <1>9, <1>10, <1>11, <1>12, <1>13, <1>14, <1>15,
     <1>16, <1>17, <1>18, <1>19, <1>20, <1>21, <1>22, <1>23, <1>24 DEF Next, Progress

(* Each task is in the one list its status says, for any number of tasks   *)
(* and locks and whatever the timer interrupts (thread.c, sync.c, list.c). *)
THEOREM TagsInOneList == Spec => []TagInOneList
<1>1. ListInv => TagInOneList
  BY DEF ListInv, RunL, ReadyL, WaitL, TagInOneList
<1>2. Spec => [](TypeInv /\ ListInv)
  BY TypeInit, TypeStep, ListInit, ListStep, PTL DEF Spec
<1> QED
  BY <1>1, <1>2, PTL

-----------------------------------------------------------------------------
(* The inductive invariant of the locks.  MutualExclusion speaks of the    *)
(* callers only; to follow it through the lines of sync.c one has to say   *)
(* what holder, holder_repeat_nr and the semaphore's value are at each     *)
(* line of lock_acquire and lock_release where a task can be preempted.    *)
InsidePc == {"hold", "rep", "relh", "relr", "up"}
CallPc   == {"down", "woken"} \union InsidePc

Binary    == \A l \in AllLocks : value[l] \in {0, 1}
Exclusive == \A t, u \in Tasks, l \in AllLocks : Inside(t, l) /\ Inside(u, l) => t = u
Taken     == \A t \in Tasks, l \in AllLocks : Inside(t, l) => value[l] = 0
FreeLock  == \A l \in AllLocks : value[l] = 1 => repeat[l] = 0
Holding   == \A t \in Tasks, l \in AllLocks :
                 /\ held[t][l] >= 0
                 /\ held[t][l] > 0 => holder[l] = t /\ repeat[l] = held[t][l]
Outside   == \A t \in Tasks : pc[t] \in CallPc => held[t][lk[t]] = 0
Lines     == \A t \in Tasks :
                 /\ pc[t] = "hold" => repeat[lk[t]] = 0
                 /\ pc[t] = "rep"  => holder[lk[t]] = t /\ repeat[lk[t]] = 0
                 /\ pc[t] = "relh" => holder[lk[t]] = t /\ repeat[lk[t]] = 1
                 /\ pc[t] = "relr" => holder[lk[t]] = NULL /\ repeat[lk[t]] = 1
                 /\ pc[t] = "up"   => holder[lk[t]] = NULL /\ repeat[lk[t]] = 0
HolderIs  == \A t \in Tasks, l \in AllLocks :
                 holder[l] = t => held[t][l] > 0 \/ (lk[t] = l /\ pc[t] \in {"rep", "relh"})
Returns   == \A t \in Tasks :
                 /\ pc[t] \in Acquiring => ret[t] \in Home \union {"pid_inc"}
                 /\ pc[t] \in Acquiring /\ ret[t] = "pid_inc" => lk[t] = pid_lock
                 /\ pc[t] \in Releasing => ret[t] \in Home \union {"pid_read"}
                 /\ pc[t] \in {"pid_inc", "pid_rel"} => held[t][pid_lock] > 0

LockInv == /\ Binary /\ Exclusive /\ Taken /\ FreeLock /\ Holding
           /\ Outside /\ Lines /\ HolderIs /\ Returns

LockTypes ==
    /\ value \in [AllLocks -> Nat] /\ holder \in [AllLocks -> Tasks \union {NULL}]
    /\ repeat \in [AllLocks -> Nat] /\ held \in [Tasks -> [AllLocks -> Int]]
    /\ pc \in [Tasks -> PCs] /\ lk \in [Tasks -> AllLocks]
    /\ ret \in [Tasks -> ReturnPts]
    /\ cur \in Tasks /\ lk[cur] \in AllLocks /\ NULL \notin Tasks /\ pid_lock \in AllLocks

LEMMA LockTypesHold == TypeInv => LockTypes
BY TasksFacts DEF TypeInv, TypeOK, SchedTypeOK, LockTypeOK, CallTypeOK, LockTypes

LEMMA LockInit == Init => LockInv
<1> SUFFICES ASSUME Init PROVE LockInv
  OBVIOUS
<1>1. \A t \in Tasks : pc[t] \in {"block", "kern"}
  BY DEF Init
<1>2. \A t \in Tasks, l \in AllLocks :
          /\ value[l] = 1 /\ holder[l] = NULL /\ repeat[l] = 0 /\ held[t][l] = 0
  BY DEF Init
<1>3. \A t \in Tasks, l \in AllLocks : ~Inside(t, l)
  BY <1>1, <1>2 DEF Inside
<1>4. Binary /\ Exclusive /\ Taken /\ FreeLock /\ Holding
  BY <1>2, <1>3, TasksFacts DEF Binary, Exclusive, Taken, FreeLock, Holding
<1>5. Outside /\ Lines
  BY <1>1 DEF Outside, Lines, CallPc, InsidePc
<1>6. HolderIs /\ Returns
  BY <1>1, <1>2, TasksFacts DEF HolderIs, Returns, Acquiring, Releasing
<1> QED
  BY <1>4, <1>5, <1>6 DEF LockInv

(* A step outside lock_acquire and lock_release does not matter. *)
LEMMA LockFrame ==
    ASSUME LockTypes, LockInv, UNCHANGED <<value, holder, repeat, held, lk, ret>>,
           \A t \in Tasks :
               \/ pc'[t] = pc[t]
               \/ /\ pc'[t] \notin CallPc /\ pc'[t] \notin {"pid_inc"}
                  /\ pc[t] \notin CallPc
                  /\ pc'[t] = "pid_rel" => pc[t] = "pid_inc"
    PROVE  LockInv'
<1> USE DEF LockTypes
<1>1. \A t \in Tasks, l \in AllLocks : Inside(t, l)' => Inside(t, l)
  BY DEF Inside, CallPc, InsidePc
<1>2. Binary' /\ Exclusive' /\ Taken' /\ FreeLock' /\ Holding'
  BY <1>1 DEF LockInv, Binary, Exclusive, Taken, FreeLock, Holding
<1>3. Outside' /\ Lines'
  BY DEF LockInv, Outside, Lines, CallPc, InsidePc
<1>4. HolderIs'
  BY DEF LockInv, HolderIs, CallPc, InsidePc
<1>5. Returns'
  BY DEF LockInv, Returns, CallPc, InsidePc, Acquiring, Releasing
<1> QED
  BY <1>2, <1>3, <1>4, <1>5 DEF LockInv

LEMMA SemaDownLock == ASSUME LockTypes, LockInv, sema_down PROVE LockInv'
<1> USE DEF LockTypes
<1>0. pc[cur] \in {"down", "woken"} /\ UNCHANGED <<holder, repeat, held, lk, ret>>
  BY DEF sema_down, At
<1>1. CASE value[lk[cur]] = 0
  <2>1. pc' = [pc EXCEPT ![cur] = "woken"] /\ UNCHANGED value
    BY <1>1 DEF sema_down, Goto
  <2>2. \A t \in Tasks, l \in AllLocks : Inside(t, l)' => Inside(t, l)
    BY <1>0, <2>1 DEF Inside
  <2>3. Binary' /\ Exclusive' /\ Taken' /\ FreeLock' /\ Holding'
    BY <1>0, <2>1, <2>2 DEF LockInv, Binary, Exclusive, Taken, FreeLock, Holding
  <2>4. Outside' /\ Lines'
    BY <1>0, <2>1 DEF LockInv, Outside, Lines, CallPc
  <2>5. HolderIs'
    BY <1>0, <2>1 DEF LockInv, HolderIs
  <2>6. Returns'
    BY <1>0, <2>1 DEF LockInv, Returns, Acquiring, Releasing
  <2> QED
    BY <2>3, <2>4, <2>5, <2>6 DEF LockInv
<1>2. CASE value[lk[cur]] # 0
  <2>1. /\ pc' = [pc EXCEPT ![cur] = "hold"]
        /\ value' = [value EXCEPT ![lk[cur]] = @ - 1]
    BY <1>2 DEF sema_down, Goto
  <2>2. value[lk[cur]] = 1
    BY <1>2 DEF LockInv, Binary
  <2>3. \A t \in Tasks : ~Inside(t, lk[cur])
    BY <2>2 DEF LockInv, Taken
  <2>4. \A t \in Tasks, l \in AllLocks :
            Inside(t, l)' => Inside(t, l) \/ (t = cur /\ l = lk[cur])
    BY <1>0, <2>1 DEF Inside
  <2>5. Binary' /\ Exclusive' /\ Taken' /\ FreeLock'
    BY <1>0, <2>1, <2>2, <2>3, <2>4 DEF LockInv, Binary, Exclusive, Taken, FreeLock
  <2>6. Holding' /\ Outside'
    BY <1>0, <2>1 DEF LockInv, Holding, Outside, CallPc
  <2>7. Lines'
    BY <1>0, <2>1, <2>2 DEF LockInv, Lines, FreeLock
  <2>8. HolderIs'
    BY <1>0, <2>1 DEF LockInv, HolderIs
  <2>9. Returns'
    BY <1>0, <2>1 DEF LockInv, Returns, Acquiring, Releasing
  <2> QED
    BY <2>5, <2>6, <2>7, <2>8, <2>9 DEF LockInv
<1> QED
  BY <1>1, <1>2

LEMMA SetHolderLock == ASSUME LockTypes, LockInv, set_holder PROVE LockInv'
<1> USE DEF LockTypes
<1>1. /\ pc[cur] = "hold"
      /\ holder' = [holder EXCEPT ![lk[cur]] = cur]
      /\ pc' = [pc EXCEPT ![cur] = "rep"]
      /\ UNCHANGED <<value, repeat, held, lk, ret>>
  BY DEF set_holder, At, Goto, callVars
<1>2. Inside(cur, lk[cur]) /\ held[cur][lk[cur]] = 0
  BY <1>1 DEF LockInv, Outside, Inside, CallPc, InsidePc
<1>3. \A t \in Tasks, l \in AllLocks : Inside(t, l)' => Inside(t, l)
  BY <1>1 DEF Inside
<1>4. Binary' /\ Exclusive' /\ Taken' /\ FreeLock'
  BY <1>1, <1>3 DEF LockInv, Binary, Exclusive, Taken, FreeLock
<1>5. Holding'
  BY <1>1, <1>2 DEF LockInv, Holding, Exclusive, Inside
<1>6. Outside'
  BY <1>1 DEF LockInv, Outside, CallPc, InsidePc
<1>7. Lines'
  BY <1>1, <1>2 DEF LockInv, Lines, Exclusive, Inside
<1>8. HolderIs'
  BY <1>1 DEF LockInv, HolderIs
<1>9. Returns'
  BY <1>1 DEF LockInv, Returns, Acquiring, Releasing
<1> QED
  BY <1>4, <1>5, <1>6, <1>7, <1>8, <1>9 DEF LockInv

LEMMA SetRepeatLock == ASSUME LockTypes, LockInv, set_repeat PROVE LockInv'
<1> USE DEF LockTypes
<1>1. /\ pc[cur] = "rep"
      /\ repeat' = [repeat EXCEPT ![lk[cur]] = 1]
      /\ held' = [held EXCEPT ![cur][lk[cur]] = @ + 1]
      /\ pc' = [pc EXCEPT ![cur] = ret[cur]]
      /\ UNCHANGED <<value, holder, lk, ret>>
  BY DEF set_repeat, At, Goto, callVars
<1>2. ret[cur] \in Home \union {"pid_inc"} /\ (ret[cur] = "pid_inc" => lk[cur] = pid_lock)
  BY <1>1 DEF LockInv, Returns, Acquiring
<1>3. ret[cur] \notin CallPc
  BY <1>2 DEF Home, CallPc, InsidePc
<1>4. Inside(cur, lk[cur])
  BY <1>1 DEF Inside
<1>5. held[cur][lk[cur]] = 0
  BY <1>1 DEF LockInv, Outside, CallPc, InsidePc
<1>6. \A t \in Tasks, l \in AllLocks : Inside(t, l)' => Inside(t, l)
  BY <1>1, <1>3, <1>4 DEF Inside, CallPc, InsidePc
<1>7. Binary' /\ Exclusive' /\ Taken'
  BY <1>1, <1>6 DEF LockInv, Binary, Exclusive, Taken
<1>8. FreeLock'
  BY <1>1, <1>4 DEF LockInv, FreeLock, Taken
<1>9. Holding'
  BY <1>1, <1>4, <1>5 DEF LockInv, Holding, Exclusive, Lines, Inside
<1>10. Outside'
  BY <1>1, <1>3 DEF LockInv, Outside
<1>11. Lines'
  BY <1>1, <1>3, <1>4 DEF LockInv, Lines, Exclusive, Inside, CallPc, InsidePc
<1>12. HolderIs'
  BY <1>1, <1>3, <1>5 DEF LockInv, HolderIs
<1>13. Returns'
  BY <1>1, <1>2, <1>5 DEF LockInv, Returns, Acquiring, Releasing, Home
<1> QED
  BY <1>7, <1>8, <1>9, <1>10, <1>11, <1>12, <1>13 DEF LockInv

LEMMA ClearHolderLock == ASSUME LockTypes, LockInv, clear_holder PROVE LockInv'
<1> USE DEF LockTypes
<1>1. /\ pc[cur] = "relh"
      /\ holder' = [holder EXCEPT ![lk[cur]] = NULL]
      /\ pc' = [pc EXCEPT ![cur] = "relr"]
      /\ UNCHANGED <<value, repeat, held, lk, ret>>
  BY DEF clear_holder, At, Goto, callVars
<1>2. Inside(cur, lk[cur]) /\ held[cur][lk[cur]] = 0
  BY <1>1 DEF LockInv, Outside, Inside, CallPc, InsidePc
<1>3. \A t \in Tasks, l \in AllLocks : Inside(t, l)' => Inside(t, l)
  BY <1>1 DEF Inside
<1>4. Binary' /\ Exclusive' /\ Taken' /\ FreeLock'
  BY <1>1, <1>3 DEF LockInv, Binary, Exclusive, Taken, FreeLock
<1>5. Holding'
  BY <1>1, <1>2 DEF LockInv, Holding, Exclusive, Inside
<1>6. Outside'
  BY <1>1 DEF LockInv, Outside, CallPc, InsidePc
<1>7. Lines'
  BY <1>1, <1>2 DEF LockInv, Lines, Exclusive, Inside
<1>8. HolderIs'
  BY <1>1 DEF LockInv, HolderIs
<1>9. Returns'
  BY <1>1 DEF LockInv, Returns, Acquiring, Releasing
<1> QED
  BY <1>4, <1>5, <1>6, <1>7, <1>8, <1>9 DEF LockInv

LEMMA ClearRepeatLock == ASSUME LockTypes, LockInv, clear_repeat PROVE LockInv'
<1> USE DEF LockTypes
<1>1. /\ pc[cur] = "relr"
      /\ repeat' = [repeat EXCEPT ![lk[cur]] = 0]
      /\ pc' = [pc EXCEPT ![cur] = "up"]
      /\ UNCHANGED <<value, holder, held, lk, ret>>
  BY DEF clear_repeat, At, Goto, callVars
<1>2. Inside(cur, lk[cur]) /\ held[cur][lk[cur]] = 0
  BY <1>1 DEF LockInv, Outside, Inside, CallPc, InsidePc
<1>3. \A t \in Tasks, l \in AllLocks : Inside(t, l)' => Inside(t, l)
  BY <1>1 DEF Inside
<1>4. Binary' /\ Exclusive' /\ Taken' /\ FreeLock'
  BY <1>1, <1>3 DEF LockInv, Binary, Exclusive, Taken, FreeLock
<1>5. Holding'
  BY <1>1, <1>2 DEF LockInv, Holding, Exclusive, Inside
<1>6. Outside'
  BY <1>1 DEF LockInv, Outside, CallPc, InsidePc
<1>7. Lines'
  BY <1>1, <1>2 DEF LockInv, Lines, Exclusive, Inside
<1>8. HolderIs'
  BY <1>1 DEF LockInv, HolderIs
<1>9. Returns'
  BY <1>1 DEF LockInv, Returns, Acquiring, Releasing
<1> QED
  BY <1>4, <1>5, <1>6, <1>7, <1>8, <1>9 DEF LockInv

LEMMA SemaUpLock == ASSUME LockTypes, LockInv, sema_up PROVE LockInv'
<1> USE DEF LockTypes
<1>1. /\ pc[cur] = "up"
      /\ value' = [value EXCEPT ![lk[cur]] = @ + 1]
      /\ pc' = [pc EXCEPT ![cur] = ret[cur]]
      /\ UNCHANGED <<holder, repeat, held, lk, ret>>
  BY DEF sema_up, At, Goto, callVars
<1>2. ret[cur] \in Home \union {"pid_read"}
  BY <1>1 DEF LockInv, Returns, Releasing
<1>3. ret[cur] \notin CallPc
  BY <1>2 DEF Home, CallPc, InsidePc
<1>4. Inside(cur, lk[cur]) /\ held[cur][lk[cur]] = 0
  BY <1>1 DEF LockInv, Outside, Inside, CallPc, InsidePc
<1>5. value[lk[cur]] = 0 /\ repeat[lk[cur]] = 0
  BY <1>1, <1>4 DEF LockInv, Taken, Lines
<1>6. \A t \in Tasks, l \in AllLocks : Inside(t, l)' => Inside(t, l) /\ l # lk[cur]
  BY <1>1, <1>3, <1>4 DEF LockInv, Exclusive, Inside, CallPc, InsidePc
<1>7. Binary' /\ FreeLock'
  BY <1>1, <1>5 DEF LockInv, Binary, FreeLock
<1>8. Exclusive' /\ Taken'
  BY <1>1, <1>6 DEF LockInv, Exclusive, Taken
<1>9. Holding' /\ Outside'
  BY <1>1, <1>3 DEF LockInv, Holding, Outside
<1>10. Lines'
  BY <1>1, <1>3 DEF LockInv, Lines, CallPc, InsidePc
<1>11. HolderIs'
  BY <1>1, <1>3 DEF LockInv, HolderIs
<1>12. Returns'
  BY <1>1, <1>2 DEF LockInv, Returns, Acquiring, Releasing, Home
<1> QED
  BY <1>7, <1>8, <1>9, <1>10, <1>11, <1>12 DEF LockInv

LEMMA AcquireLock ==
    ASSUME LockTypes, LockInv, NEW l \in AllLocks, NEW r \in Home \union {"pid_inc"},
           r = "pid_inc" => l = pid_lock,
           pc[cur] \notin CallPc,
           lock_acquire(l, r)
    PROVE  LockInv'
<1> USE DEF LockTypes
<1>0. /\ lk' = [lk EXCEPT ![cur] = l] /\ ret' = [ret EXCEPT ![cur] = r]
      /\ UNCHANGED <<value, holder>>
  BY DEF lock_acquire
<1>1. r \notin CallPc
  BY DEF Home, CallPc, InsidePc
<1>2. CASE holder[l] # cur
  <2>1. pc' = [pc EXCEPT ![cur] = "down"] /\ UNCHANGED <<repeat, held>>
    BY <1>2 DEF lock_acquire, Goto
  <2>2. \A t \in Tasks, k \in AllLocks : Inside(t, k)' => Inside(t, k)
    BY <1>0, <2>1 DEF Inside
  <2>3. held[cur][l] = 0
    BY <1>2 DEF LockInv, Holding
  <2>4. Binary' /\ Exclusive' /\ Taken' /\ FreeLock' /\ Holding'
    BY <1>0, <2>1, <2>2 DEF LockInv, Binary, Exclusive, Taken, FreeLock, Holding
  <2>5. Outside' /\ Lines'
    BY <1>0, <2>1, <2>3 DEF LockInv, Outside, Lines, CallPc, InsidePc
  <2>6. HolderIs'
    BY <1>0, <2>1 DEF LockInv, HolderIs, CallPc, InsidePc
  <2>7. Returns'
    BY <1>0, <2>1 DEF LockInv, Returns, Acquiring, Releasing
  <2> QED
    BY <2>4, <2>5, <2>6, <2>7 DEF LockInv
<1>3. CASE holder[l] = cur
  <2>1. /\ pc' = [pc EXCEPT ![cur] = r]
        /\ repeat' = [repeat EXCEPT ![l] = @ + 1]
        /\ held' = [held EXCEPT ![cur][l] = @ + 1]
    BY <1>3 DEF lock_acquire, Goto
  <2>2. held[cur][l] > 0 /\ repeat[l] = held[cur][l]
    BY <1>3 DEF LockInv, HolderIs, Holding, CallPc, InsidePc
  <2>3. Inside(cur, l)
    BY <2>2 DEF Inside
  <2>4. \A t \in Tasks, k \in AllLocks : Inside(t, k)' => Inside(t, k)
    BY <1>0, <1>1, <2>1, <2>2 DEF Inside, CallPc, InsidePc
  <2>5. Binary' /\ Exclusive' /\ Taken'
    BY <1>0, <2>1, <2>4 DEF LockInv, Binary, Exclusive, Taken
  <2>6. FreeLock'
    BY <1>0, <2>1, <2>3 DEF LockInv, FreeLock, Taken
  <2>7. Holding'
    BY <1>0, <2>1, <2>2, <2>3 DEF LockInv, Holding, Exclusive, Inside
  <2>8. Outside'
    BY <1>0, <1>1, <2>1 DEF LockInv, Outside
  <2>9. Lines'
    BY <1>0, <1>1, <2>1, <2>3 DEF LockInv, Lines, Exclusive, Inside, CallPc, InsidePc
  <2>10. HolderIs'
    BY <1>0, <1>1, <2>1, <2>2 DEF LockInv, HolderIs, CallPc, InsidePc
  <2>11. Returns'
    BY <1>0, <1>1, <2>1, <2>2 DEF LockInv, Returns, Acquiring, Releasing, Home
  <2> QED
    BY <2>5, <2>6, <2>7, <2>8, <2>9, <2>10, <2>11 DEF LockInv
<1> QED
  BY <1>2, <1>3

LEMMA ReleaseLock ==
    ASSUME LockTypes, LockInv, NEW l \in AllLocks, NEW r \in Home \union {"pid_read"},
           pc[cur] \notin CallPc, held[cur][l] > 0,
           lock_release(l, r)
    PROVE  LockInv'
<1> USE DEF LockTypes
<1>0. /\ lk' = [lk EXCEPT ![cur] = l] /\ ret' = [ret EXCEPT ![cur] = r]
      /\ held' = [held EXCEPT ![cur][l] = @ - 1]
      /\ UNCHANGED <<value, holder>>
  BY DEF lock_release
<1>1. r \notin CallPc
  BY DEF Home, CallPc, InsidePc
<1>2. holder[l] = cur /\ repeat[l] = held[cur][l] /\ Inside(cur, l)
  BY DEF LockInv, Holding, Inside
<1>3. CASE repeat[l] > 1
  <2>1. pc' = [pc EXCEPT ![cur] = r] /\ repeat' = [repeat EXCEPT ![l] = @ - 1]
    BY <1>3 DEF lock_release, Goto
  <2>4. \A t \in Tasks, k \in AllLocks : Inside(t, k)' => Inside(t, k)
    BY <1>0, <1>1, <1>2, <2>1 DEF Inside, CallPc, InsidePc
  <2>5. Binary' /\ Exclusive' /\ Taken'
    BY <1>0, <2>1, <2>4 DEF LockInv, Binary, Exclusive, Taken
  <2>6. FreeLock'
    BY <1>0, <1>2, <2>1 DEF LockInv, FreeLock, Taken
  <2>7. Holding'
    BY <1>0, <1>2, <1>3, <2>1 DEF LockInv, Holding, Exclusive, Inside
  <2>8. Outside'
    BY <1>0, <1>1, <2>1 DEF LockInv, Outside
  <2>9. Lines'
    BY <1>0, <1>1, <1>2, <2>1 DEF LockInv, Lines, Exclusive, Inside, CallPc, InsidePc
  <2>10. HolderIs'
    BY <1>0, <1>1, <1>2, <1>3, <2>1 DEF LockInv, HolderIs, CallPc, InsidePc
  <2>11. Returns'
    BY <1>0, <1>1, <2>1 DEF LockInv, Returns, Acquiring, Releasing, Home
  <2> QED
    BY <2>5, <2>6, <2>7, <2>8, <2>9, <2>10, <2>11 DEF LockInv
<1>4. CASE repeat[l] <= 1
  <2>1. pc' = [pc EXCEPT ![cur] = "relh"] /\ repeat' = repeat
    BY <1>4 DEF lock_release, Goto
  <2>2. repeat[l] = 1 /\ held[cur][l] = 1
    BY <1>2, <1>4
  <2>4. \A t \in Tasks, k \in AllLocks : Inside(t, k)' => Inside(t, k)
    BY <1>0, <1>2, <2>1 DEF Inside
  <2>5. Binary' /\ Exclusive' /\ Taken'
    BY <1>0, <2>1, <2>4 DEF LockInv, Binary, Exclusive, Taken
  <2>6. FreeLock'
    BY <1>0, <2>1 DEF LockInv, FreeLock
  <2>7. Holding'
    BY <1>0, <2>1, <2>2 DEF LockInv, Holding
  <2>8. Outside'
    BY <1>0, <2>1, <2>2 DEF LockInv, Outside
  <2>9. Lines'
    BY <1>0, <1>2, <2>1, <2>2 DEF LockInv, Lines
  <2>10. HolderIs'
    BY <1>0, <1>2, <2>1 DEF LockInv, HolderIs, CallPc, InsidePc
  <2>11. Returns'
    BY <1>0, <2>1 DEF LockInv, Returns, Acquiring, Releasing
  <2> QED
    BY <2>5, <2>6, <2>7, <2>8, <2>9, <2>10, <2>11 DEF LockInv
<1> QED
  BY <1>3, <1>4

LEMMA LockStep == TypeInv /\ ListInv /\ LockInv /\ [Next]_vars => LockInv'
<1> SUFFICES ASSUME TypeInv, ListInv, LockInv, [Next]_vars PROVE LockInv'
  OBVIOUS
<1> USE TasksFacts
<1>0. LockTypes /\ CreatorOK
  BY LockTypesHold DEF TypeInv
<1>1. CASE sema_down
  BY <1>0, <1>1, SemaDownLock
<1>2. CASE set_holder
  BY <1>0, <1>2, SetHolderLock
<1>3. CASE set_repeat
  BY <1>0, <1>3, SetRepeatLock
<1>4. CASE clear_holder
  BY <1>0, <1>4, ClearHolderLock
<1>5. CASE clear_repeat
  BY <1>0, <1>5, ClearRepeatLock
<1>6. CASE sema_up
  BY <1>0, <1>6, SemaUpLock
<1>7. CASE \E l \in Locks : acquire(l)
  <2>1. pc[cur] \in Home /\ pc[cur] \notin CallPc /\ pc[cur] # "pid_inc"
    BY <1>7 DEF acquire, AtHome, Home, CallPc, InsidePc
  <2> QED
    BY <1>0, <1>7, <2>1, AcquireLock DEF acquire
<1>8. CASE \E l \in Locks : release(l)
  <2>1. pc[cur] \in Home /\ pc[cur] \notin CallPc
    BY <1>8 DEF release, AtHome, Home, CallPc, InsidePc
  <2> QED
    BY <1>0, <1>8, <2>1, ReleaseLock DEF release
<1>9. CASE allocate_pid_acquire
  <2>1. pc[cur] \notin CallPc /\ lock_acquire(pid_lock, "pid_inc")
    BY <1>9 DEF allocate_pid_acquire, At, CallPc, InsidePc
  <2> QED
    BY <1>0, <2>1, AcquireLock
<1>10. CASE allocate_pid_release
  <2>1. pc[cur] \notin CallPc /\ lock_release(pid_lock, "pid_read")
    BY <1>10 DEF allocate_pid_release, At, CallPc, InsidePc
  <2>2. held[cur][pid_lock] > 0
    BY <1>0, <1>10 DEF LockTypes, LockInv, Returns, allocate_pid_release, At
  <2> QED
    BY <1>0, <2>1, <2>2, ReleaseLock
<1>11. ASSUME NEW p, Goto(p), p \notin CallPc, p # "pid_inc",
              p = "pid_rel" => pc[cur] = "pid_inc", pc[cur] \notin CallPc,
              UNCHANGED <<value, holder, repeat, held, lk, ret>>
       PROVE  LockInv'
  BY <1>0, <1>11, LockFrame DEF LockTypes, Goto
<1>12a. CASE idle_block
  BY <1>11, <1>12a DEF idle_block, At, CallPc, InsidePc, lockVars, callVars
<1>12b. CASE idle_hlt
  BY <1>11, <1>12b DEF idle_hlt, At, CallPc, InsidePc, lockVars, callVars
<1>13a. CASE syscall_enter
  BY <1>11, <1>13a DEF syscall_enter, At, CallPc, InsidePc, lockVars, callVars
<1>13b. CASE intr_exit
  BY <1>11, <1>13b DEF intr_exit, At, CallPc, InsidePc, lockVars, callVars
<1>14. CASE \E c \in KThreads \union UProcs : create(c)
  BY <1>11, <1>14 DEF create, At, CallPc, InsidePc, lockVars, callVars
<1>15a. CASE allocate_pid_inc
  BY <1>11, <1>15a DEF allocate_pid_inc, At, CallPc, InsidePc, lockVars, callVars
<1>15b. CASE allocate_pid_return
  BY <1>11, <1>15b DEF allocate_pid_return, At, CallPc, InsidePc, lockVars, callVars
<1>15c. CASE enqueue_all
  BY <1>11, <1>15c DEF enqueue_all, At, CallPc, InsidePc, lockVars, callVars
<1>16. CASE enqueue_ready
  <2>1. pc[cur] = "enq_ready" /\ UNCHANGED <<value, holder, repeat, held, lk, ret>>
    BY <1>16 DEF enqueue_ready, At, lockVars, callVars
  <2>2. CASE new[cur] \in UProcs /\ cur \in UProcs
    <3>1. pc' = [pc EXCEPT ![cur] = "sys", ![new[cur]] = "user"]
      BY <1>16, <2>2 DEF enqueue_ready
    <3>2. pc[new[cur]] = "kern"
      BY <1>16, ListTypesHold, ListEnqueueReady
    <3> QED
      BY <1>0, <2>1, <3>1, <3>2, LockFrame DEF LockTypes, CallPc, InsidePc
  <2>3. CASE ~(new[cur] \in UProcs /\ cur \in UProcs)
    <3>1. Goto("kern") \/ Goto("enq_all")
      BY <1>16, <2>3 DEF enqueue_ready, Goto
    <3> QED
      BY <1>11, <2>1, <3>1 DEF CallPc, InsidePc
  <2> QED
    BY <2>2, <2>3
<1>17. CASE \/ intr_timer_handler \/ thread_yield \/ device_wait
            \/ (\E t \in Sleepers : device_intr(t)) \/ UNCHANGED vars
  <2>1. /\ UNCHANGED <<value, holder, repeat, held, lk, ret>>
        /\ pc' = pc \/ (pc[cur] = "hlt" /\ pc' = [pc EXCEPT ![cur] = "block"])
    BY <1>17 DEF intr_timer_handler, thread_yield, device_wait, device_intr, vars, lockVars, callVars
  <2> QED
    BY <1>0, <2>1, LockFrame DEF LockTypes, CallPc, InsidePc
<1> QED
  BY <1>1, <1>2, <1>3, <1>4, <1>5, <1>6, <1>7, <1>8, <1>9, <1>10, <1>12a, <1>12b,
     <1>13a, <1>13b, <1>14, <1>15a, <1>15b, <1>15c, <1>16, <1>17 DEF Next, Progress

-----------------------------------------------------------------------------
(* No ASSERT fails: what the two invariants say at the line of each one.   *)
LEMMA NoPanicStep == TypeInv /\ ListInv /\ LockInv /\ NoPanic /\ [Next]_vars => NoPanic'
<1> SUFFICES ASSUME TypeInv, ListInv, LockInv, NoPanic, [Next]_vars PROVE kernel' = "up"
  BY DEF NoPanic
<1> USE TasksFacts
<1>0. LockTypes /\ ListTypes /\ CreatorOK /\ kernel = "up"
  BY LockTypesHold, ListTypesHold DEF TypeInv, NoPanic
<1>1. CASE intr_timer_handler
  <2>1. CASE UNCHANGED kernel
    BY <1>0, <2>1
  <2>2. CASE schedule(Append(ready, cur), [status EXCEPT ![cur] = "READY"],
                      cur \notin Elems(ready))
    <3>1. /\ UNCHANGED <<waiters, all, new, lk, ret>>
          /\ pc' = pc \/ (pc[cur] = "hlt" /\ pc' = [pc EXCEPT ![cur] = "block"])
      BY <1>1 DEF intr_timer_handler, lockVars, callVars, birthVars
    <3>2. cur \notin Elems(ready)
      BY <1>0 DEF ListTypes, ListInv, RunL, ReadyL
    <3> QED
      BY <1>0, <2>2, <3>1, <3>2, ListPreempt
  <2> QED
    BY <1>1, <2>1, <2>2 DEF intr_timer_handler
<1>2. CASE thread_yield
  <2>1. /\ UNCHANGED <<waiters, all, new, lk, ret, pc>>
        /\ schedule(Append(ready, cur), [status EXCEPT ![cur] = "READY"],
                    cur \notin Elems(ready))
    BY <1>2 DEF thread_yield, lockVars, callVars, birthVars
  <2>2. cur \notin Elems(ready)
    BY <1>0 DEF ListTypes, ListInv, RunL, ReadyL
  <2> QED
    BY <1>0, <2>1, <2>2, ListPreempt
<1>2a. CASE device_wait
  BY <1>0, <1>2a, ListDeviceWait
<1>2b. CASE \E t \in Sleepers : device_intr(t)
  BY <1>0, <1>2b, ListDeviceIntr
<1>3. CASE idle_block
  BY <1>0, <1>3, ListIdleBlock
<1>4. CASE sema_down
  <2>1. CASE value[lk[cur]] = 0
    BY <1>0, <1>4, <2>1, ListSleep
  <2>2. CASE value[lk[cur]] # 0
    <3>1. ASSERT(value[lk[cur]] - 1 = 0)
      BY <1>4, <2>2 DEF sema_down
    <3>2. value[lk[cur]] = 1
      BY <1>0, <2>2 DEF LockTypes, LockInv, Binary
    <3> QED
      BY <3>1, <3>2 DEF ASSERT
  <2> QED
    BY <2>1, <2>2
<1>5. CASE set_repeat
  <2>1. ASSERT(repeat[lk[cur]] = 0) /\ pc[cur] = "rep"
    BY <1>5 DEF set_repeat, At
  <2> QED
    BY <1>0, <2>1 DEF LockTypes, LockInv, Lines, ASSERT
<1>6. ASSUME NEW l \in AllLocks, NEW r, lock_release(l, r), held[cur][l] > 0
      PROVE  kernel' = "up"
  <2>1. holder[l] = cur /\ repeat[l] = held[cur][l]
    BY <1>0, <1>6 DEF LockTypes, LockInv, Holding
  <2>2. \/ ASSERT(holder[l] = cur)
        \/ repeat[l] <= 1 /\ ASSERT(holder[l] = cur /\ repeat[l] = 1)
    BY <1>6 DEF lock_release
  <2>3. repeat[l] \in Nat
    BY <1>0 DEF LockTypes
  <2> QED
    BY <1>6, <2>1, <2>2, <2>3 DEF ASSERT
<1>7. CASE \E l \in Locks : release(l)
  BY <1>6, <1>7 DEF release
<1>8. CASE allocate_pid_release
  <2>1. held[cur][pid_lock] > 0
    BY <1>0, <1>8 DEF LockTypes, LockInv, Returns, allocate_pid_release, At
  <2> QED
    BY <1>6, <1>8, <2>1 DEF allocate_pid_release
<1>9. CASE sema_up
  <2>1. pc[cur] = "up" /\ Inside(cur, lk[cur])
    BY <1>9 DEF sema_up, At, Inside
  <2>2. value[lk[cur]] = 0
    BY <1>0, <2>1 DEF LockTypes, LockInv, Taken
  <2>3. CASE waiters[lk[cur]] = << >>
    <3>1. ASSERT(value[lk[cur]] = 0)
      BY <1>9, <2>3 DEF sema_up
    <3> QED
      BY <2>2, <3>1 DEF ASSERT
  <2>4. CASE waiters[lk[cur]] # << >>
    <3>1. ASSERT(/\ value[lk[cur]] = 0
                 /\ status[Head(waiters[lk[cur]])] = "BLOCKED"
                 /\ Head(waiters[lk[cur]]) \notin Elems(ready))
      BY <1>9, <2>4 DEF sema_up
    <3>2. /\ status[Head(waiters[lk[cur]])] = "BLOCKED"
          /\ Head(waiters[lk[cur]]) \notin Elems(ready)
      BY <1>0, <1>9, <2>4, ListWake
    <3> QED
      BY <2>2, <3>1, <3>2 DEF ASSERT
  <2> QED
    BY <2>3, <2>4
<1>10. CASE enqueue_ready
  BY <1>0, <1>10, ListEnqueueReady
<1>11. CASE enqueue_all
  <2>1. new[cur] \in KThreads \union UProcs
    BY <1>0, <1>11 DEF ListTypes, CreatorOK, Creating, enqueue_all, At
  <2> QED
    BY <1>0, <1>11, <2>1, ListEnqueueAll
<1>12. CASE idle_hlt \/ syscall_enter \/ intr_exit
  BY <1>0, <1>12 DEF idle_hlt, syscall_enter, intr_exit
<1>13. CASE set_holder \/ clear_holder \/ clear_repeat
  BY <1>0, <1>13 DEF set_holder, clear_holder, clear_repeat
<1>14. CASE \/ allocate_pid_acquire
            \/ \E l \in Locks : acquire(l)
  BY <1>0, <1>14 DEF allocate_pid_acquire, acquire, lock_acquire
<1>15. CASE \/ allocate_pid_inc \/ allocate_pid_return
            \/ \E c \in KThreads \union UProcs : create(c)
  BY <1>0, <1>15 DEF allocate_pid_inc, allocate_pid_return, create
<1>16. CASE UNCHANGED vars
  BY <1>0, <1>16 DEF vars
<1> QED
  BY <1>1, <1>2, <1>2a, <1>2b, <1>3, <1>4, <1>5, <1>7, <1>8, <1>9, <1>10, <1>11, <1>12, <1>13, <1>14,
     <1>15, <1>16 DEF Next, Progress

Inv == TypeInv /\ ListInv /\ LockInv /\ NoPanic

LEMMA InvHolds == Spec => []Inv
<1>1. Init => NoPanic
  BY DEF Init, NoPanic
<1>2. Init => Inv
  BY <1>1, TypeInit, ListInit, LockInit DEF Inv
<1>3. Inv /\ [Next]_vars => Inv'
  BY TypeStep, ListStep, LockStep, NoPanicStep DEF Inv
<1> QED
  BY <1>2, <1>3, PTL DEF Spec

(* No ASSERT of thread.c, sync.c, process.c or fork.c that guards a list,  *)
(* a semaphore or a lock ever stops the kernel.                            *)
THEOREM NeverPanics == Spec => []NoPanic
BY InvHolds, PTL DEF Inv

(* Two tasks never both hold a lock of sync.c. *)
THEOREM LocksExclude == Spec => []MutualExclusion
<1>1. LockInv => MutualExclusion
  BY DEF LockInv, Exclusive, Inside, MutualExclusion
<1> QED
  BY <1>1, InvHolds, PTL DEF Inv

(* lock_acquire and lock_release, run line by line among timer interrupts, *)
(* implement the atomic recursive lock of AbstractLock.                    *)
THEOREM LocksImplement == Spec => LocksRefine
<1>1. Init => AbstractLocks!Init
  BY DEF Init, AbstractLocks!Init
<1>2. Inv /\ [Next]_vars => [AbstractLocks!Next]_held
  <2> SUFFICES ASSUME Inv, [Next]_vars PROVE AbstractLocks!Next \/ held' = held
    OBVIOUS
  <2> USE TasksFacts
  <2>0. LockTypes /\ LockInv
    BY LockTypesHold DEF Inv
  <2>1. CASE set_repeat
    <3>1. pc[cur] = "rep" /\ held' = [held EXCEPT ![cur][lk[cur]] = @ + 1]
      BY <2>1 DEF set_repeat, At
    <3>2. Inside(cur, lk[cur]) /\ held[cur][lk[cur]] = 0
      BY <2>0, <3>1 DEF LockTypes, LockInv, Outside, Inside, CallPc, InsidePc
    <3>3. \A u \in Tasks : held[u][lk[cur]] = 0
      <4>1. ASSUME NEW u \in Tasks PROVE held[u][lk[cur]] >= 0 /\ held[u][lk[cur]] \in Int
        BY <2>0 DEF LockTypes, LockInv, Holding
      <4>2. ASSUME NEW u \in Tasks, held[u][lk[cur]] > 0 PROVE u = cur
        BY <2>0, <3>2, <4>2 DEF LockTypes, LockInv, Exclusive, Inside
      <4> QED
        BY <3>2, <4>1, <4>2
    <3>4. held' = [held EXCEPT ![cur][lk[cur]] = 1]
      BY <2>0, <3>1, <3>2 DEF LockTypes
    <3>5. AbstractLocks!Acquire(cur, lk[cur])
      BY <3>3, <3>4 DEF AbstractLocks!Acquire
    <3> QED
      BY <2>0, <3>5 DEF LockTypes, AbstractLocks!Next
  <2>2. ASSUME NEW l \in AllLocks, NEW r, lock_acquire(l, r), pc[cur] \notin CallPc
        PROVE  AbstractLocks!Next \/ held' = held
    <3>1. CASE held' = held
      BY <3>1
    <3>2. CASE holder[l] = cur /\ held' = [held EXCEPT ![cur][l] = @ + 1]
      <4>1. held[cur][l] > 0
        BY <2>0, <2>2, <3>2 DEF LockTypes, LockInv, HolderIs, CallPc, InsidePc
      <4> QED
        BY <2>0, <3>2, <4>1 DEF LockTypes, AbstractLocks!Next, AbstractLocks!Reacquire
    <3> QED
      BY <2>2, <3>1, <3>2 DEF lock_acquire
  <2>3. ASSUME NEW l \in AllLocks, NEW r, lock_release(l, r), held[cur][l] > 0
        PROVE  AbstractLocks!Next
    <3>1. held' = [held EXCEPT ![cur][l] = @ - 1]
      BY <2>3 DEF lock_release
    <3> QED
      BY <2>0, <2>3, <3>1 DEF LockTypes, AbstractLocks!Next, AbstractLocks!Release
  <2>4. CASE allocate_pid_acquire
    BY <2>2, <2>4 DEF allocate_pid_acquire, At, CallPc, InsidePc
  <2>5. CASE \E l \in Locks : acquire(l)
    <3>1. pc[cur] \notin CallPc
      BY <2>5 DEF acquire, AtHome, Home, CallPc, InsidePc
    <3> QED
      BY <2>2, <2>5, <3>1 DEF acquire
  <2>6. CASE allocate_pid_release
    <3>1. held[cur][pid_lock] > 0
      BY <2>0, <2>6 DEF LockTypes, LockInv, Returns, allocate_pid_release, At
    <3> QED
      BY <2>3, <2>6, <3>1 DEF allocate_pid_release
  <2>7. CASE \E l \in Locks : release(l)
    BY <2>3, <2>7 DEF release
  <2>8. CASE intr_timer_handler \/ thread_yield \/ idle_block \/ idle_hlt
    BY <2>8 DEF intr_timer_handler, thread_yield, idle_block, idle_hlt, lockVars
  <2>8a. CASE device_wait \/ \E t \in Sleepers : device_intr(t)
    BY <2>8a DEF device_wait, device_intr, lockVars
  <2>9. CASE syscall_enter \/ intr_exit \/ sema_down \/ sema_up
    BY <2>9 DEF syscall_enter, intr_exit, sema_down, sema_up, lockVars
  <2>10. CASE set_holder \/ clear_holder \/ clear_repeat
    BY <2>10 DEF set_holder, clear_holder, clear_repeat
  <2>11. CASE \/ allocate_pid_inc \/ allocate_pid_return
              \/ \E c \in KThreads \union UProcs : create(c)
    BY <2>11 DEF allocate_pid_inc, allocate_pid_return, create, lockVars
  <2>12. CASE enqueue_ready \/ enqueue_all \/ UNCHANGED vars
    BY <2>12 DEF enqueue_ready, enqueue_all, vars, lockVars
  <2> QED
    BY <2>1, <2>4, <2>5, <2>6, <2>7, <2>8, <2>8a, <2>9, <2>10, <2>11, <2>12 DEF Next, Progress
<1> QED
  BY <1>1, <1>2, InvHolds, PTL DEF Spec, LocksRefine, AbstractLocks!Spec

-----------------------------------------------------------------------------
(* The wake-ups.  Only sema_up frees a lock, and it wakes a waiter when    *)
(* there is one; a woken task stays on its way until it has taken a free   *)
(* lock or found it taken.                                                 *)
LEMMA WakeFrame ==
    ASSUME NoLostWakeup, UNCHANGED <<value, waiters>>,
           \A t \in Tasks : pc[t] = "woken" /\ status[t] # "BLOCKED" =>
                               pc'[t] = "woken" /\ lk'[t] = lk[t] /\ status'[t] # "BLOCKED"
    PROVE  NoLostWakeup'
BY DEF NoLostWakeup

LEMMA WakeStep == Inv /\ NoLostWakeup /\ [Next]_vars => NoLostWakeup'
<1> SUFFICES ASSUME Inv, NoLostWakeup, [Next]_vars PROVE NoLostWakeup'
  OBVIOUS
<1> USE TasksFacts
<1>0. LockTypes /\ ListTypes /\ LockInv /\ ListInv /\ kernel = "up"
  BY LockTypesHold, ListTypesHold DEF Inv, NoPanic
<1>1. ASSUME NEW p, Goto(p), pc[cur] # "woken", UNCHANGED <<value, waiters, status>>,
             \A t \in Tasks \ {cur} : lk'[t] = lk[t]
      PROVE  NoLostWakeup'
  BY <1>0, <1>1, WakeFrame DEF LockTypes, Goto
<1>2. ASSUME NEW l \in AllLocks, NEW r,
             lock_acquire(l, r) \/ lock_release(l, r), pc[cur] # "woken"
      PROVE  NoLostWakeup'
  <2>1. /\ Goto("down") \/ Goto(r) \/ Goto("relh")
        /\ lk' = [lk EXCEPT ![cur] = l] /\ UNCHANGED <<value, waiters, status>>
    BY <1>2 DEF lock_acquire, lock_release, schedVars
  <2>2. \A t \in Tasks \ {cur} : lk'[t] = lk[t]
    BY <1>0, <2>1 DEF LockTypes
  <2> QED
    BY <1>1, <1>2, <2>1, <2>2
<1>3. ASSUME NEW r, NEW s, NEW ok, schedule(r, s, ok), s = [status EXCEPT ![cur] = "READY"],
             r = Append(ready, cur),
             UNCHANGED <<value, waiters, lk>>,
             pc' = pc \/ (pc[cur] = "hlt" /\ pc' = [pc EXCEPT ![cur] = "block"])
      PROVE  NoLostWakeup'
  <2>1. \E n : status' = [s EXCEPT ![n] = "RUNNING"]
    BY <1>3 DEF schedule
  <2>2. s \in [Tasks -> Statuses]
    BY <1>0, <1>3 DEF ListTypes, Statuses
  <2>3. \A t \in Tasks : status[t] # "BLOCKED" => status'[t] # "BLOCKED"
    BY <1>0, <1>3, <2>1, <2>2 DEF ListTypes
  <2>4. \A t \in Tasks : pc[t] = "woken" => pc'[t] = "woken"
    BY <1>0, <1>3 DEF LockTypes
  <2> QED
    BY <1>3, <2>3, <2>4, WakeFrame
<1>4. CASE intr_timer_handler
  <2>1. /\ UNCHANGED <<value, waiters, lk>>
        /\ pc' = pc \/ (pc[cur] = "hlt" /\ pc' = [pc EXCEPT ![cur] = "block"])
    BY <1>4 DEF intr_timer_handler, lockVars, callVars
  <2>2. CASE UNCHANGED status
    BY <1>0, <2>1, <2>2, WakeFrame DEF LockTypes
  <2>3. CASE schedule(Append(ready, cur), [status EXCEPT ![cur] = "READY"],
                      cur \notin Elems(ready))
    BY <1>3, <2>1, <2>3
  <2> QED
    BY <1>4, <2>2, <2>3 DEF intr_timer_handler
<1>5. CASE thread_yield
  <2>1. /\ UNCHANGED <<value, waiters, lk, pc>>
        /\ schedule(Append(ready, cur), [status EXCEPT ![cur] = "READY"],
                    cur \notin Elems(ready))
    BY <1>5 DEF thread_yield, lockVars, callVars
  <2> QED
    BY <1>3, <2>1
<1>5a. CASE device_wait
  <2>1. /\ pc[cur] # "woken" /\ UNCHANGED <<value, waiters, lk, pc>>
        /\ schedule(ready, [status EXCEPT ![cur] = "ASLEEP"], TRUE)
    BY <1>5a DEF device_wait, AtHome, Home, lockVars, callVars
  <2>2. \E n : status' = [[status EXCEPT ![cur] = "ASLEEP"] EXCEPT ![n] = "RUNNING"]
    BY <2>1 DEF schedule
  <2>3. \A t \in Tasks : status[t] # "BLOCKED" => status'[t] # "BLOCKED"
    BY <1>0, <2>2 DEF ListTypes
  <2> QED
    BY <2>1, <2>3, WakeFrame
<1>5b. CASE \E t \in Sleepers : device_intr(t)
  <2>1. PICK h \in Sleepers : device_intr(h)
    BY <1>5b
  <2>2. /\ UNCHANGED <<value, waiters, lk>> /\ status' = [status EXCEPT ![h] = "READY"]
        /\ pc' = pc \/ (pc[cur] = "hlt" /\ pc' = [pc EXCEPT ![cur] = "block"])
    BY <2>1 DEF device_intr, lockVars, callVars
  <2>3. \A t \in Tasks : status[t] # "BLOCKED" => status'[t] # "BLOCKED"
    BY <1>0, <2>2 DEF ListTypes
  <2>4. \A t \in Tasks : pc[t] = "woken" => pc'[t] = "woken"
    BY <1>0, <2>2 DEF LockTypes
  <2> QED
    BY <2>2, <2>3, <2>4, WakeFrame
<1>6. CASE idle_block
  <2>1. /\ pc[cur] = "block" /\ pc' = [pc EXCEPT ![cur] = "sti"]
        /\ UNCHANGED <<value, waiters, lk>>
        /\ schedule(ready, [status EXCEPT ![cur] = "BLOCKED"], TRUE)
    BY <1>6 DEF idle_block, At, Goto, thread_block, lockVars, callVars
  <2>2. \E n : status' = [[status EXCEPT ![cur] = "BLOCKED"] EXCEPT ![n] = "RUNNING"]
    BY <2>1 DEF schedule
  <2>3. \A t \in Tasks : t # cur /\ status[t] # "BLOCKED" => status'[t] # "BLOCKED"
    BY <1>0, <2>2 DEF ListTypes
  <2>4. \A t \in Tasks : pc[t] = "woken" => t # cur /\ pc'[t] = "woken"
    BY <1>0, <2>1 DEF LockTypes
  <2> QED
    BY <2>1, <2>3, <2>4, WakeFrame
<1>7. CASE sema_down
  <2>1. CASE value[lk[cur]] = 0
    <3>1. /\ pc' = [pc EXCEPT ![cur] = "woken"] /\ UNCHANGED <<value, lk>>
          /\ waiters' = [waiters EXCEPT ![lk[cur]] = Append(@, cur)]
          /\ schedule(ready, [status EXCEPT ![cur] = "BLOCKED"], cur \notin Elems(waiters[lk[cur]]))
      BY <1>7, <2>1 DEF sema_down, Goto, thread_block
    <3>2. \E n : status' = [[status EXCEPT ![cur] = "BLOCKED"] EXCEPT ![n] = "RUNNING"]
      BY <3>1 DEF schedule
    <3>3. \A t \in Tasks : t # cur /\ status[t] # "BLOCKED" => status'[t] # "BLOCKED"
      BY <1>0, <3>2 DEF ListTypes
    <3>4. ASSUME NEW l \in AllLocks, value'[l] = 1, waiters'[l] # << >>
          PROVE  \E t \in Tasks : pc'[t] = "woken" /\ lk'[t] = l /\ status'[t] # "BLOCKED"
      <4>1. l # lk[cur] /\ value[l] = 1 /\ waiters[l] # << >>
        BY <1>0, <2>1, <3>1, <3>4 DEF ListTypes
      <4>2. PICK t \in Tasks : pc[t] = "woken" /\ lk[t] = l /\ status[t] # "BLOCKED"
        BY <4>1 DEF NoLostWakeup
      <4>3. t # cur /\ pc'[t] = "woken" /\ lk'[t] = l
        BY <1>0, <3>1, <4>1, <4>2 DEF LockTypes
      <4> QED
        BY <3>3, <4>2, <4>3
    <3> QED
      BY <3>4 DEF NoLostWakeup
  <2>2. CASE value[lk[cur]] # 0
    <3>1. /\ pc' = [pc EXCEPT ![cur] = "hold"] /\ UNCHANGED <<waiters, status, lk>>
          /\ value' = [value EXCEPT ![lk[cur]] = @ - 1]
      BY <1>7, <2>2 DEF sema_down, Goto
    <3>2. value'[lk[cur]] = 0
      BY <1>0, <2>2, <3>1 DEF LockTypes, LockInv, Binary
    <3>3. ASSUME NEW l \in AllLocks, value'[l] = 1, waiters'[l] # << >>
          PROVE  \E t \in Tasks : pc'[t] = "woken" /\ lk'[t] = l /\ status'[t] # "BLOCKED"
      <4>1. l # lk[cur] /\ value[l] = 1 /\ waiters[l] # << >>
        BY <1>0, <3>1, <3>2, <3>3 DEF LockTypes
      <4>2. PICK t \in Tasks : pc[t] = "woken" /\ lk[t] = l /\ status[t] # "BLOCKED"
        BY <4>1 DEF NoLostWakeup
      <4> QED
        BY <1>0, <3>1, <4>1, <4>2 DEF LockTypes
    <3> QED
      BY <3>3 DEF NoLostWakeup
  <2> QED
    BY <2>1, <2>2
<1>8. CASE sema_up
  <2>1. pc[cur] = "up" /\ pc' = [pc EXCEPT ![cur] = ret[cur]] /\ UNCHANGED lk
    BY <1>8 DEF sema_up, At, Goto, callVars
  <2>2. value' = [value EXCEPT ![lk[cur]] = @ + 1]
    BY <1>8 DEF sema_up
  <2>3. CASE waiters[lk[cur]] = << >>
    <3>1. UNCHANGED <<waiters, status>>
      BY <1>8, <2>3 DEF sema_up
    <3>2. ASSUME NEW l \in AllLocks, value'[l] = 1, waiters'[l] # << >>
          PROVE  \E t \in Tasks : pc'[t] = "woken" /\ lk'[t] = l /\ status'[t] # "BLOCKED"
      <4>1. value[l] = 1 /\ waiters[l] # << >>
        BY <1>0, <2>2, <2>3, <3>1, <3>2 DEF LockTypes
      <4>2. PICK t \in Tasks : pc[t] = "woken" /\ lk[t] = l /\ status[t] # "BLOCKED"
        BY <4>1 DEF NoLostWakeup
      <4> QED
        BY <1>0, <2>1, <3>1, <4>2 DEF LockTypes
    <3> QED
      BY <3>2 DEF NoLostWakeup
  <2>4. CASE waiters[lk[cur]] # << >>
    <3> DEFINE h == Head(waiters[lk[cur]])
    <3>1. /\ status' = [status EXCEPT ![h] = "READY"]
          /\ waiters' = [waiters EXCEPT ![lk[cur]] = Tail(@)]
      BY <1>8, <2>4 DEF sema_up
    <3>2. h \in Tasks \ {idle_thread} /\ status[h] = "BLOCKED" /\ lk[h] = lk[cur]
      BY <1>0, <1>8, <2>4, ListWake
    <3>3. h # cur /\ pc[h] = "woken"
      BY <1>0, <3>2 DEF ListTypes, ListInv, RunL, SleepL
    <3> HIDE DEF h
    <3>4. pc'[h] = "woken" /\ lk'[h] = lk[cur] /\ status'[h] # "BLOCKED"
      BY <1>0, <2>1, <3>1, <3>2, <3>3 DEF LockTypes, ListTypes
    <3>5. ASSUME NEW l \in AllLocks, value'[l] = 1, waiters'[l] # << >>
          PROVE  \E t \in Tasks : pc'[t] = "woken" /\ lk'[t] = l /\ status'[t] # "BLOCKED"
      <4>1. CASE l = lk[cur]
        BY <3>2, <3>4, <4>1
      <4>2. CASE l # lk[cur]
        <5>1. value[l] = 1 /\ waiters[l] # << >>
          BY <1>0, <2>2, <3>1, <3>5, <4>2 DEF LockTypes, ListTypes
        <5>2. PICK t \in Tasks : pc[t] = "woken" /\ lk[t] = l /\ status[t] # "BLOCKED"
          BY <5>1 DEF NoLostWakeup
        <5>3. t # cur /\ t # h
          BY <2>1, <3>2, <5>2
        <5> QED
          BY <1>0, <2>1, <3>1, <5>2, <5>3 DEF LockTypes, ListTypes
      <4> QED
        BY <4>1, <4>2
    <3> QED
      BY <3>5 DEF NoLostWakeup
  <2> QED
    BY <2>3, <2>4
<1>9. CASE enqueue_ready
  <2>1. /\ new[cur] \in Tasks /\ pc[new[cur]] = "kern" /\ pc[cur] = "enq_ready"
        /\ status' = [status EXCEPT ![new[cur]] = "READY"] /\ UNCHANGED <<value, waiters, lk>>
    BY <1>0, <1>9, ListEnqueueReady DEF enqueue_ready, At, lockVars, callVars
  <2>2. \A t \in Tasks : t # cur /\ t # new[cur] => pc'[t] = pc[t]
    BY <1>0, <1>9 DEF LockTypes, enqueue_ready, Goto
  <2> QED
    BY <1>0, <2>1, <2>2, WakeFrame DEF ListTypes
<1>10. CASE allocate_pid_acquire
  BY <1>2, <1>10 DEF allocate_pid_acquire, At
<1>11. CASE allocate_pid_release
  BY <1>2, <1>11 DEF allocate_pid_release, At
<1>12. CASE \E l \in Locks : acquire(l)
  BY <1>2, <1>12 DEF acquire, AtHome, Home
<1>13. CASE \E l \in Locks : release(l)
  BY <1>2, <1>13 DEF release, AtHome, Home
<1>14. CASE idle_hlt
  BY <1>1, <1>14 DEF idle_hlt, At, schedVars, lockVars, callVars
<1>15. CASE syscall_enter
  BY <1>1, <1>15 DEF syscall_enter, At, lockVars, callVars
<1>16. CASE intr_exit
  BY <1>1, <1>16 DEF intr_exit, At, lockVars, callVars
<1>17. CASE set_holder
  BY <1>1, <1>17 DEF set_holder, At, schedVars, callVars
<1>18. CASE set_repeat
  BY <1>1, <1>18 DEF set_repeat, At, schedVars, callVars
<1>19. CASE clear_holder
  BY <1>1, <1>19 DEF clear_holder, At, schedVars, callVars
<1>20. CASE clear_repeat
  BY <1>1, <1>20 DEF clear_repeat, At, schedVars, callVars
<1>21. CASE allocate_pid_inc
  BY <1>1, <1>21 DEF allocate_pid_inc, At, schedVars, lockVars, callVars
<1>22. CASE allocate_pid_return
  BY <1>1, <1>22 DEF allocate_pid_return, At, lockVars, callVars
<1>23. CASE enqueue_all
  BY <1>1, <1>23 DEF enqueue_all, At, schedVars, lockVars, callVars
<1>24. CASE \E c \in KThreads \union UProcs : create(c)
  BY <1>1, <1>24 DEF create, At, schedVars, lockVars, callVars
<1>25. CASE UNCHANGED vars
  BY <1>25, WakeFrame DEF vars, schedVars, lockVars, callVars
<1> QED
  BY <1>4, <1>5, <1>5a, <1>5b, <1>6, <1>7, <1>8, <1>9, <1>10, <1>11, <1>12, <1>13, <1>14, <1>15, <1>16,
     <1>17, <1>18, <1>19, <1>20, <1>21, <1>22, <1>23, <1>24, <1>25 DEF Next, Progress

(* A lock never stays free while its waiters sleep with nobody woken: the  *)
(* one waiter that sema_up wakes per V operation is enough.                *)
THEOREM WakeupsAreKept == Spec => []NoLostWakeup
<1>1. Init => NoLostWakeup
  BY DEF Init, NoLostWakeup
<1> QED
  BY <1>1, WakeStep, InvHolds, PTL DEF Spec

-----------------------------------------------------------------------------
(* The interrupt flag.  The flag that the code of a task runs with follows *)
(* from where it is and where it will return to; a task in the loop of     *)
(* sema_down has it in old, any other task that is not running in the      *)
(* context that schedule saved.                                            *)
InCall(t) == pc[t] \in Acquiring \union Releasing

Mode(t) ==
    IF pc[t] = "sys" \/ (InCall(t) /\ ret[t] = "sys") \/ (Begun(t) /\ t \in UProcs)
    THEN INTR_OFF ELSE INTR_ON

(* Only processes are in user mode or in a system call, and a process only *)
(* creates processes.                                                      *)
Place(t) ==
    /\ pc[t] \in {"sys", "user"} \/ (InCall(t) /\ ret[t] \in {"sys", "user"}) => t \in UProcs
    /\ Begun(t) /\ t \in UProcs => new[t] \in UProcs

Saved(t, flag) == IF pc[t] = "woken" THEN flag = INTR_OFF /\ old[t] = Mode(t) ELSE flag = Mode(t)

FlagInv ==
    /\ \A t \in Tasks : Place(t)
    /\ Saved(cur, intr)
    /\ \A t \in Tasks \ {cur} : Saved(t, ctx[t])

LEMMA FlagInit == Init => FlagInv
BY TasksFacts, ConstantsAssumption
   DEF Init, FlagInv, Place, Saved, Mode, Begun, InCall, Acquiring, Releasing, Creating

(* A step that keeps the CPU. *)
LEMMA FlagHere ==
    ASSUME ListTypes, FlagInv, UNCHANGED <<cur, ctx>>,
           \A t \in Tasks \ {cur} : /\ pc'[t] = pc[t] /\ ret'[t] = ret[t]
                                    /\ new'[t] = new[t] /\ old'[t] = old[t],
           Place(cur)', Saved(cur, intr)'
    PROVE  FlagInv'
<1>1. \A t \in Tasks \ {cur} : Place(t)' /\ Mode(t)' = Mode(t)
  BY DEF FlagInv, Place, Mode, InCall, Begun
<1>2. \A t \in Tasks \ {cur} : Saved(t, ctx[t])'
  BY <1>1 DEF FlagInv, Saved
<1> QED
  BY <1>1, <1>2 DEF FlagInv

(* A step that gives the CPU away. *)
LEMMA FlagAway ==
    ASSUME ListTypes, FlagInv, cur' \in Tasks, intr' = ctx'[cur'],
           \A t \in Tasks \ {cur} : ctx'[t] = ctx[t] /\ pc'[t] = pc[t] /\ old'[t] = old[t],
           UNCHANGED <<ret, new>>,
           \A t \in Tasks : t = cur => Place(t)' /\ Saved(t, ctx[t])'
    PROVE  FlagInv'
<1>1. \A t \in Tasks \ {cur} : Place(t)' /\ Mode(t)' = Mode(t)
  BY DEF FlagInv, Place, Mode, InCall, Begun
<1>2. \A t \in Tasks \ {cur} : Saved(t, ctx[t])'
  BY <1>1 DEF FlagInv, Saved
<1>3. \A t \in Tasks : Place(t)' /\ Saved(t, ctx[t])'
  BY <1>1, <1>2
<1>4. Saved(cur, intr)'
  BY <1>3
<1> QED
  BY <1>3, <1>4 DEF FlagInv

LEMMA FlagStep == TypeInv /\ TypeInv' /\ ListInv /\ FlagInv /\ [Next]_vars => FlagInv'
<1> SUFFICES ASSUME TypeInv, TypeInv', ListInv, FlagInv, [Next]_vars PROVE FlagInv'
  OBVIOUS
<1>0. /\ ListTypes /\ ctx \in [Tasks -> IntrStatus] /\ old \in [Tasks -> IntrStatus]
      /\ cur \in Tasks /\ cur' \in Tasks /\ Place(cur) /\ Saved(cur, intr)
      /\ pc \in [Tasks -> PCs] /\ ret \in [Tasks -> ReturnPts] /\ new \in [Tasks -> Tasks \union {NULL}]
      /\ INTR_ON # INTR_OFF
  BY ListTypesHold DEF TypeInv, TypeOK, SchedTypeOK, CallTypeOK, BirthTypeOK, FlagInv, INTR_ON, INTR_OFF
<1> USE DEF InCall, Begun, Acquiring, Releasing, Creating
(* The running task goes from one place to another where it has the same   *)
(* flag.                                                                   *)
<1>1. ASSUME NEW p, Goto(p), UNCHANGED <<cur, ctx, intr, old>>,
             ret' = ret \/ \E r : ret' = [ret EXCEPT ![cur] = r],
             new' = new \/ \E c : new' = [new EXCEPT ![cur] = c],
             pc[cur] # "woken", p # "woken", Place(cur)', Mode(cur)' = Mode(cur)
      PROVE  FlagInv'
  <2>1. \A t \in Tasks \ {cur} : /\ pc'[t] = pc[t] /\ ret'[t] = ret[t]
                                 /\ new'[t] = new[t] /\ old'[t] = old[t]
    BY <1>0, <1>1 DEF Goto
  <2>2. Saved(cur, intr)'
    BY <1>0, <1>1 DEF Saved, Goto
  <2> QED
    BY <1>0, <1>1, <2>1, <2>2, FlagHere
<1>2. ASSUME NEW p \in {"hold", "rep", "relh", "relr", "up", ret[cur]}, Goto(p), InCall(cur), pc[cur] # "woken",
             UNCHANGED <<cur, ctx, intr, callVars, new>>
      PROVE  FlagInv'
  <2>0. pc' = [pc EXCEPT ![cur] = p] /\ UNCHANGED <<ret, old>> /\ ret[cur] \in ReturnPts /\ pc'[cur] = p
    BY <1>0, <1>2 DEF Goto, callVars
  <2>1. Place(cur)' /\ Mode(cur)' = Mode(cur) /\ p # "woken"
    BY <1>0, <1>2, <2>0 DEF Place, Mode, ReturnPts, Home
  <2> QED
    BY <1>1, <1>2, <2>0, <2>1
<1>3. CASE set_holder \/ set_repeat \/ clear_holder \/ clear_repeat \/ sema_up
  BY <1>2, <1>3 DEF set_holder, set_repeat, clear_holder, clear_repeat, sema_up, At, schedVars, birthVars
<1>4. CASE sema_down
  <2> DEFINE was == IF pc[cur] = "down" THEN intr ELSE old[cur]
  <2>1. pc[cur] \in {"down", "woken"} /\ was = Mode(cur) /\ UNCHANGED <<ret, new>>
    BY <1>0, <1>4 DEF sema_down, At, Saved, birthVars
  <2> HIDE DEF was
  <2>2. CASE Goto("hold") /\ intr' = was /\ old' = [old EXCEPT ![cur] = was] /\ UNCHANGED <<cur, ctx>>
    <3>1. \A t \in Tasks \ {cur} : /\ pc'[t] = pc[t] /\ ret'[t] = ret[t]
                                   /\ new'[t] = new[t] /\ old'[t] = old[t]
      BY <1>0, <2>1, <2>2 DEF Goto
    <3>2. Place(cur)' /\ Mode(cur)' = Mode(cur) /\ pc'[cur] = "hold"
      BY <1>0, <2>1, <2>2 DEF Goto, Place, Mode
    <3>3. Saved(cur, intr)'
      BY <2>1, <2>2, <3>2 DEF Saved
    <3> QED
      BY <1>0, <2>2, <3>1, <3>2, <3>3, FlagHere
  <2>3. CASE Goto("woken") /\ old' = [old EXCEPT ![cur] = was] /\ intr' = ctx'[cur']
             /\ ctx' = [ctx EXCEPT ![cur] = INTR_OFF]
    <3>1. \A t \in Tasks \ {cur} : ctx'[t] = ctx[t] /\ pc'[t] = pc[t] /\ old'[t] = old[t]
      BY <1>0, <2>3 DEF Goto
    <3>2. ASSUME NEW t \in Tasks, t = cur PROVE Place(t)' /\ Saved(t, ctx[t])'
      <4>1. pc'[t] = "woken" /\ old'[t] = was /\ ctx'[t] = INTR_OFF
        BY <1>0, <2>3, <3>2 DEF Goto
      <4>2. Place(t)' /\ Mode(t)' = was
        BY <1>0, <2>1, <3>2, <4>1 DEF Place, Mode
      <4> QED
        BY <4>1, <4>2 DEF Saved
    <3> QED
      BY <1>0, <2>1, <2>3, <3>1, <3>2, FlagAway
  <2> QED
    BY <1>4, <2>2, <2>3 DEF sema_down, thread_block, schedule, was
(* The running task is preempted, yields or blocks with nothing but its    *)
(* place in hlt changed.                                                   *)
<1>5. ASSUME ctx' = [ctx EXCEPT ![cur] = intr], intr' = ctx'[cur'], UNCHANGED <<callVars, new>>,
             pc' = pc \/ (pc[cur] \in Idling /\ \E p \in Idling : pc' = [pc EXCEPT ![cur] = p])
      PROVE  FlagInv'
  <2>1. \A t \in Tasks \ {cur} : ctx'[t] = ctx[t] /\ pc'[t] = pc[t] /\ old'[t] = old[t]
    BY <1>0, <1>5 DEF callVars
  <2>2. ASSUME NEW t \in Tasks, t = cur PROVE Place(t)' /\ Saved(t, ctx[t])'
    <3>1. UNCHANGED <<ret, old, new>> /\ ctx'[t] = intr
      BY <1>0, <1>5, <2>2 DEF callVars
    <3>2. pc'[t] = pc[t] \/ (pc[t] \in Idling /\ pc'[t] \in Idling)
      BY <1>0, <1>5, <2>2
    <3>3. Place(t)' /\ Mode(t)' = Mode(t) /\ (pc'[t] = "woken" <=> pc[t] = "woken")
      BY <1>0, <2>2, <3>1, <3>2 DEF Place, Mode, Idling
    <3> QED
      BY <1>0, <2>2, <3>1, <3>3 DEF Saved
  <2> QED
    BY <1>0, <1>5, <2>1, <2>2, FlagAway DEF callVars
(* ... or stays. *)
<1>6. ASSUME UNCHANGED <<cur, ctx, intr, callVars, new>>,
             pc' = pc \/ (pc[cur] \in Idling /\ \E p \in Idling : pc' = [pc EXCEPT ![cur] = p])
      PROVE  FlagInv'
  <2>1. UNCHANGED <<ret, old>>
    BY <1>6 DEF callVars
  <2>2. \A t \in Tasks \ {cur} : pc'[t] = pc[t]
    BY <1>0, <1>6
  <2>3. pc'[cur] = pc[cur] \/ (pc[cur] \in Idling /\ pc'[cur] \in Idling)
    BY <1>0, <1>6
  <2>4. Place(cur)' /\ Mode(cur)' = Mode(cur) /\ (pc'[cur] = "woken" <=> pc[cur] = "woken")
    BY <1>0, <1>6, <2>1, <2>3 DEF Place, Mode, Idling
  <2>5. Saved(cur, intr)'
    BY <1>0, <1>6, <2>1, <2>4 DEF Saved
  <2> QED
    BY <1>0, <1>6, <2>1, <2>2, <2>4, <2>5, FlagHere
<1>7. CASE intr_timer_handler
  <2>1. pc' = pc \/ (pc[cur] \in Idling /\ \E p \in Idling : pc' = [pc EXCEPT ![cur] = p])
    BY <1>7 DEF intr_timer_handler, Idling
  <2> QED
    BY <1>5, <1>6, <1>7, <2>1 DEF intr_timer_handler, schedule, birthVars
<1>8. CASE thread_yield \/ device_wait
  BY <1>5, <1>8 DEF thread_yield, device_wait, schedule, birthVars
<1>9. ASSUME NEW t \in Sleepers, device_intr(t) PROVE FlagInv'
  <2>1. pc' = pc \/ (pc[cur] \in Idling /\ \E p \in Idling : pc' = [pc EXCEPT ![cur] = p])
    BY <1>9 DEF device_intr, Idling
  <2> QED
    BY <1>6, <1>9, <2>1 DEF device_intr, birthVars
<1>10. CASE idle_block
  <2>1. pc[cur] = "block" /\ intr = INTR_ON
    BY <1>0, <1>10 DEF idle_block, At, Saved, Mode
  <2> QED
    BY <1>5, <1>10, <2>1 DEF idle_block, Goto, Idling, thread_block, schedule, birthVars
<1>11. CASE idle_hlt
  BY <1>6, <1>11 DEF idle_hlt, At, Goto, Idling, schedVars, birthVars
<1>12. CASE syscall_enter \/ intr_exit
  <2>1. /\ UNCHANGED <<cur, ctx, ret, old, new>> /\ cur \in UProcs
        /\ \/ pc' = [pc EXCEPT ![cur] = "sys"] /\ intr' = INTR_OFF
           \/ pc' = [pc EXCEPT ![cur] = "user"] /\ intr' = INTR_ON
    BY <1>0, <1>12 DEF syscall_enter, intr_exit, At, Goto, Place, callVars, birthVars
  <2>2. Place(cur)' /\ Saved(cur, intr)'
    BY <1>0, <2>1 DEF Place, Saved, Mode
  <2> QED
    BY <1>0, <2>1, <2>2, FlagHere
<1>13. ASSUME NEW l, NEW r, lock_acquire(l, r) \/ lock_release(l, r),
              \/ pc[cur] \in Home /\ r = pc[cur]
              \/ pc[cur] \in {"pid_acq", "pid_rel"} /\ r \in {"pid_inc", "pid_read"}
       PROVE  FlagInv'
  <2>1. /\ UNCHANGED <<cur, ctx, intr, old, new>> /\ ret' = [ret EXCEPT ![cur] = r]
        /\ \E p \in {"down", "relh", r} : Goto(p)
    BY <1>13 DEF lock_acquire, lock_release, schedVars, birthVars
  <2>2. PICK p \in {"down", "relh", r} : Goto(p)
    BY <2>1
  <2>3. pc'[cur] = p /\ ret'[cur] = r /\ pc[cur] # "woken" /\ p # "woken"
    BY <1>0, <1>13, <2>1, <2>2 DEF Goto, Home
  <2>4. Place(cur)' /\ Mode(cur)' = Mode(cur)
    BY <1>0, <1>13, <2>1, <2>3 DEF Place, Mode, Home
  <2> QED
    BY <1>1, <2>1, <2>2, <2>3, <2>4
<1>14. CASE \/ \E l \in Locks : acquire(l) \/ release(l)
            \/ allocate_pid_acquire \/ allocate_pid_release
  BY <1>13, <1>14 DEF acquire, release, AtHome, allocate_pid_acquire, allocate_pid_release, At
<1>15. CASE allocate_pid_inc \/ allocate_pid_return
  <2>1. /\ UNCHANGED <<cur, ctx, intr, ret, old, new>>
        /\ \/ pc[cur] = "pid_inc" /\ Goto("pid_rel")
           \/ pc[cur] = "pid_read" /\ Goto("enq_ready")
    BY <1>15 DEF allocate_pid_inc, allocate_pid_return, At, schedVars, callVars
  <2>2. Place(cur)' /\ Mode(cur)' = Mode(cur)
    BY <1>0, <2>1 DEF Place, Mode, Goto
  <2> QED
    BY <1>1, <2>1, <2>2
<1>16. ASSUME NEW c \in KThreads \union UProcs, create(c) PROVE FlagInv'
  <2>1. /\ UNCHANGED <<cur, ctx, intr, ret, old>> /\ Goto("pid_acq") /\ new' = [new EXCEPT ![cur] = c]
        /\ \/ pc[cur] = "kern" /\ cur \notin UProcs
           \/ pc[cur] = "sys" /\ c \in UProcs
    BY <1>16 DEF create, At, schedVars, callVars
  <2>2. Place(cur)' /\ Mode(cur)' = Mode(cur)
    BY <1>0, <2>1 DEF Place, Mode, Goto
  <2> QED
    BY <1>1, <2>1, <2>2
<1>17. CASE enqueue_all
  <2>1. /\ UNCHANGED <<cur, ctx, intr, ret, old, new>> /\ pc[cur] = "enq_all" /\ Goto("kern")
    BY <1>17 DEF enqueue_all, At, schedVars, callVars
  <2>2. Place(cur)' /\ Mode(cur)' = Mode(cur)
    BY <1>0, <2>1 DEF Place, Mode, Goto
  <2> QED
    BY <1>1, <2>1, <2>2
<1>18. CASE enqueue_ready
  <2> DEFINE c == new[cur]
  <2>1. /\ UNCHANGED <<cur, intr, ret, old, new>> /\ pc[cur] = "enq_ready" /\ ctx' = [ctx EXCEPT ![c] = INTR_ON]
        /\ \/ c \in UProcs /\ cur \in UProcs /\ pc' = [pc EXCEPT ![cur] = "sys", ![c] = "user"]
           \/ c \in UProcs /\ cur \notin UProcs /\ pc' = [pc EXCEPT ![cur] = "kern"]
           \/ c \notin UProcs /\ pc' = [pc EXCEPT ![cur] = "enq_all"]
    BY <1>18 DEF enqueue_ready, At, Goto, callVars
  <2>2. c \in Tasks /\ c # cur /\ pc[c] = "kern"
    BY <1>0, <2>1 DEF ListTypes, ListInv, BirthL, RunL, UnbornL
  <2>3. \A t \in Tasks \ {cur, c} : pc'[t] = pc[t] /\ ctx'[t] = ctx[t]
    BY <1>0, <2>1, <2>2
  <2>4. Place(cur)' /\ Saved(cur, intr)'
    BY <1>0, <2>1, <2>2 DEF Place, Saved, Mode
  <2>5. \A t \in Tasks : t = c => Place(t)' /\ Saved(t, ctx[t])'
    BY <1>0, <2>1, <2>2 DEF Place, Saved, Mode
  <2>6. \A t \in Tasks \ {cur, c} : Place(t)' /\ Saved(t, ctx[t])'
    BY <2>1, <2>3 DEF FlagInv, Place, Saved, Mode
  <2> QED
    BY <2>1, <2>4, <2>5, <2>6 DEF FlagInv
<1>19. CASE UNCHANGED vars
  BY <1>6, <1>19 DEF vars, schedVars, birthVars
<1> QED
  BY <1>3, <1>4, <1>7, <1>8, <1>9, <1>10, <1>11, <1>12, <1>14, <1>15, <1>16, <1>17, <1>18, <1>19
  DEF Next, Progress

(* Whatever sleeps, preemptions and switches lie in between, a task goes   *)
(* on with the interrupt flag its caller had: off in a system call, on in  *)
(* a kernel thread and in user mode.                                       *)
THEOREM FlagsAreRestored == Spec => []InterruptFlagRestored
<1>1. FlagInv => InterruptFlagRestored
  BY DEF FlagInv, InterruptFlagRestored, Saved, Mode, Begun, InCall, Acquiring, Releasing, Creating
<1>2. Inv => TypeInv /\ ListInv
  BY DEF Inv
<1> QED
  BY <1>1, <1>2, FlagInit, FlagStep, InvHolds, PTL DEF Spec
=============================================================================
