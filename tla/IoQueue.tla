------------------------------ MODULE IoQueue ------------------------------
(***************************************************************************)
(* The ring queue of device/ioqueue.c, shared by tasks that read from it   *)
(* or write to it; Keyboard.tla adds the interrupt that writes to it too.  *)
(* Every function of ioqueue.c runs with interrupts off: a call is one     *)
(* step from where it starts, or is resumed, to where it returns or        *)
(* blocks.                                                                 *)
(***************************************************************************)
EXTENDS Integers, Sequences, Debug

CONSTANTS
    Consumers, Producers,   \* tasks that call ioq_getchar, ioq_putchar
    Chars,
    TaskChars,              \* the characters that tasks write (a bound)
    bufsize,                \* 64 in the source
    NULL

ASSUME IoQueueAssumption ==
    /\ Consumers \intersect Producers = {}
    /\ NULL \notin Consumers \union Producers \union Chars
    /\ TaskChars \subseteq Chars
    /\ bufsize \in Nat /\ bufsize > 1

Tasks == Consumers \union Producers

VARIABLES
    initialised,            \* ioqueue_init has been called (for kbd_buf it is not)
    buf, head, tail,        \* the ring
    consumer, producer,     \* the task that waits for data, for room
    holder, waiters,        \* ioq->lock and the tasks that sleep on it
    pc,                     \* "home"; in lock_acquire; in ioq_wait
    asleep,                 \* the tasks that are TASK_BLOCKED
    got                     \* the last character each consumer got

ring  == <<buf, head, tail>>
queue == <<consumer, producer, holder, waiters>>
vars  == <<initialised, ring, queue, pc, asleep, got, kernel>>

next_pos(pos) == (pos + 1) % bufsize

ioq_full  == next_pos(head) = tail
ioq_empty == head = tail


(* ioqueue_init, or the zeroes of a global that nobody initialised *)
Init ==
    /\ initialised \in BOOLEAN
    /\ buf = [i \in 0..(bufsize - 1) |-> NULL]
    /\ head = 0 /\ tail = 0
    /\ consumer = NULL /\ producer = NULL
    /\ holder = NULL /\ waiters = << >>
    /\ pc = [t \in Tasks |-> "home"]
    /\ asleep = {}
    /\ got = [t \in Consumers |-> NULL]
    /\ kernel = "up"

-----------------------------------------------------------------------------
(* The loop conditions of ioq_getchar and ioq_putchar *)
MustWait(t) == IF t \in Consumers THEN ioq_empty ELSE ioq_full

(* The rest of ioq_getchar: take a byte and wake the producer.  s is the   *)
(* set of sleepers left by what the caller did before.                     *)
take(t, s) ==
    /\ got' = [got EXCEPT ![t] = buf[tail]]
    /\ tail' = next_pos(tail)
    /\ producer' = NULL
    /\ ASSERT(producer # NULL => producer \in s)
    /\ asleep' = s \ {producer}
    /\ UNCHANGED <<buf, head, consumer>>

(* Mutant: the consumer is forgotten without being woken. *)
store_silent(c, s) ==
    /\ buf' = [buf EXCEPT ![head] = c] /\ head' = next_pos(head)
    /\ consumer' = NULL /\ asleep' = s
    /\ UNCHANGED <<tail, producer, got, kernel>>

(* The rest of ioq_putchar: store a byte and wake the consumer *)
store(c, s) ==
    /\ buf' = [buf EXCEPT ![head] = c]
    /\ head' = next_pos(head)
    /\ consumer' = NULL
    /\ ASSERT(consumer # NULL => consumer \in s)
    /\ asleep' = s \ {consumer}
    /\ UNCHANGED <<tail, producer, got>>

transfer(t, s) ==
    \/ t \in Consumers /\ take(t, s)
    \/ t \in Producers /\ \E c \in TaskChars : store(c, s)

(* lock_acquire of a free lock, then ioq_wait: t becomes the waiter of its *)
(* kind and blocks with the lock.                                          *)
ioq_wait(t, s) ==
    /\ holder' = t
    /\ pc' = [pc EXCEPT ![t] = "waiting"]
    /\ asleep' = s \union {t}
    /\ \/ /\ t \in Consumers
          /\ ASSERT(consumer = NULL)
          /\ consumer' = t
          /\ UNCHANGED producer
       \/ /\ t \in Producers
          /\ ASSERT(producer = NULL)
          /\ producer' = t
          /\ UNCHANGED consumer
    /\ UNCHANGED <<ring, got>>

(* sema_down of ioq->lock puts t to sleep.  In a lock that was never       *)
(* initialised the list of waiters is a chain of null pointers, and        *)
(* elem_find, the first thing sema_down calls, does not come back from it. *)
lock_wait(t) ==
    /\ waiters' = Append(waiters, t)
    /\ pc' = [pc EXCEPT ![t] = "lock"]
    /\ asleep' = asleep \union {t}
    /\ ASSERT(initialised)
    /\ UNCHANGED <<ring, consumer, producer, holder, got>>

Up(t, p) == kernel = "up" /\ pc[t] = p /\ t \notin asleep

LockFree == initialised /\ holder = NULL

(* A call that need not wait; one that waits; one that first has to wait   *)
(* for the lock of a queue on which another task waits.                    *)
ioq_call(t) ==
    /\ Up(t, "home")
    /\ \/ ~MustWait(t) /\ transfer(t, asleep) /\ UNCHANGED <<holder, waiters, pc>>
       \/ MustWait(t) /\ LockFree /\ ioq_wait(t, asleep) /\ UNCHANGED waiters
       \/ MustWait(t) /\ ~LockFree /\ lock_wait(t)

(* The task sema_up woke looks at the lock again.  When it gets it, it     *)
(* goes on with ioq_wait: only the loop around looks at the queue.         *)
lock_resume(t) ==
    /\ Up(t, "lock")
    /\ \/ holder = NULL /\ ioq_wait(t, asleep) /\ UNCHANGED waiters
       \/ holder # NULL /\ lock_wait(t)

(* The task that wakeup() woke: lock_release, which wakes the first task   *)
(* that waits for the lock, and the loop condition again.                  *)
wait_resume(t) ==
    /\ Up(t, "waiting")
    /\ LET woken == IF waiters = << >> THEN {} ELSE {Head(waiters)}
       IN  /\ waiters' = IF waiters = << >> THEN waiters ELSE Tail(waiters)
           /\ \/ /\ ~MustWait(t)
                 /\ transfer(t, asleep \ woken)
                 /\ holder' = NULL
                 /\ pc' = [pc EXCEPT ![t] = "home"]
              \/ /\ MustWait(t)
                 /\ ioq_wait(t, asleep \ woken)

Resume(t) == lock_resume(t) \/ wait_resume(t)

(* elem_find goes round in the null pointers with interrupts off. *)
hang == kernel = "panic" /\ UNCHANGED vars

Next ==
    \/ (\E t \in Tasks : ioq_call(t) \/ Resume(t)) /\ UNCHANGED initialised
    \/ hang

Spec == Init /\ [][Next]_vars

-----------------------------------------------------------------------------
(* The ring from tail to head is a bounded FIFO queue, whoever calls it. *)
Contents == [i \in 1..((head - tail + bufsize) % bufsize) |-> buf[(tail + i - 1) % bufsize]]
Fifo == INSTANCE AbstractFifo WITH q <- Contents, Capacity <- bufsize - 1
FifoRefined == Fifo!Spec

(* The kernel only stops in a queue that nobody initialised.  While it     *)
(* runs, a waiting task has the lock, and a task that sleeps anywhere is   *)
(* known to somebody who will wake it.                                     *)
SleeperKnown ==
    /\ kernel = "panic" => ~initialised
    /\ kernel = "up" =>
          \A t \in asleep :
              \/ pc[t] = "waiting" /\ holder = t /\ t \in {consumer, producer}
              \/ pc[t] = "lock" /\ holder # NULL /\ t \in {waiters[i] : i \in 1..Len(waiters)}
              \/ pc[t] = "lock" /\ \E u \in Tasks \ asleep : pc[u] = "lock"

(* The consumer is recorded when the queue is empty (comment of            *)
(* ioq_getchar, ioqueue.c:49): it does not sleep while there is data.      *)
(* Not true of the code: bytes that come while it waits for the lock do    *)
(* not keep it from recording itself, without a further look at the queue. *)
WaitsOnlyWhenEmpty == consumer # NULL => ioq_empty
=============================================================================
