-------------------------------- MODULE Ide --------------------------------
(***************************************************************************)
(* One IDE channel and its driver, device/ide.c: tasks that read and write *)
(* sectors in chunks, the semaphore disk_done that the disk interrupt      *)
(* raises, and the disk itself as the driver uses it (external).  A step   *)
(* of any task, of the disk or of the interrupt handler may come between   *)
(* any two steps of a task; the channel lock is the lock of module Sched.  *)
(***************************************************************************)
EXTENDS Integers, Sequences, Debug

CONSTANTS
    Tasks, main_thread,   \* main identifies the disks before anybody reads
    Disks,                \* the disks on the channel
    Written,              \* those that are written to: the ones with a file system
    MaxLba,               \* max_lba
    Lbas,                 \* the first sectors of the requests
    Chunk,                \* sectors one command may move: 256, a full uint8_t
    Cnts, MaxCnt,         \* the sector counts of the requests, and their bound
    TimeLimit,            \* busy_wait's limit in ms (30 * 1000)
    Sleep,                \* ms per round of busy_wait (10)
    NULL

ASSUME IdeAssumption ==
    /\ main_thread \in Tasks
    /\ NULL \notin Tasks
    /\ Written \subseteq Disks
    /\ MaxLba \in Nat
    /\ Lbas \subseteq 0..MaxLba
    /\ 0 \in Lbas
    /\ Chunk \in Nat \ {0}
    /\ MaxCnt \in Nat \ {0}
    /\ Cnts \subseteq 1..MaxCnt
    /\ TimeLimit \in Nat \ {0}
    /\ Sleep \in Nat \ {0}

VARIABLES
    pc,           \* where each task is
    rq,           \* its request: operation, disk, first sector, count
    done, op,     \* secs_done, secs_op
    limit,        \* busy_wait's time_limit, set when its command is given
    waited,       \* ms it has slept in busy_wait
    buf, snap,    \* sectors it has read; the disk when it got the channel
    holder,       \* the task that has the channel lock
    expecting,    \* channel->expecting_intr
    value,        \* the value of channel->disk_done
    reg,          \* the registers: device, lba, sector count
    dev,          \* the selected disk: "idle", "busy", "drq" or "flush"
    cmd, data,    \* the command it executes, and whose data it has to write
    irq,          \* its interrupt, latched in the 8259
    contents,     \* of the disks: who wrote each sector last
    extra,        \* history: the disk has interrupted inside a transfer
    booted        \* identify_disk has run

taskVars == <<pc, rq, done, op, limit, waited, buf, snap>>
chanVars == <<holder, expecting, value>>
devVars  == <<reg, dev, cmd, data, irq, contents>>
vars == <<taskVars, chanVars, devVars, booted, extra, kernel>>

Ops      == {"READ", "WRITE", "IDENTIFY"}
Sectors  == 0..(MaxLba + MaxCnt)
Requests == [op : Ops, hd : Disks, lba : Lbas, cnt : 1..MaxCnt]

NoRequest == [op |-> "IDENTIFY", hd |-> CHOOSE d \in Disks : TRUE, lba |-> 0, cnt |-> 1]

(* What the sector count register makes of a count, and the disk of it *)
ToRegister(n)   == n % Chunk
FromRegister(c) == IF c = 0 THEN Chunk ELSE c

Up(t, p)   == kernel = "up" /\ pc[t] = p
Goto(t, p) == pc' = [pc EXCEPT ![t] = p]

Init ==
    /\ pc = [t \in Tasks |-> IF t = main_thread THEN "expect" ELSE "off"]
    /\ rq = [t \in Tasks |-> NoRequest]
    /\ done = [t \in Tasks |-> 0]
    /\ op = [t \in Tasks |-> 1]
    /\ limit = [t \in Tasks |-> 0]
    /\ waited = [t \in Tasks |-> 0]
    /\ buf = [t \in Tasks |-> << >>]
    /\ contents = [d \in Disks |-> [s \in Sectors |-> NULL]]
    /\ snap = [t \in Tasks |-> NULL]
    /\ holder = NULL
    /\ expecting = FALSE
    /\ value = 0
    /\ reg = [hd |-> NoRequest.hd, lba |-> 0, cnt |-> 1]
    /\ dev = "idle" /\ cmd = "IDENTIFY" /\ data = NULL /\ irq = FALSE
    /\ booted = FALSE
    /\ extra = FALSE
    /\ kernel = "up"

-----------------------------------------------------------------------------
(* ide_read, ide_write: the ASSERTs, then lock_acquire(&channel->lock) *)
ide_request(t, r) ==
    /\ Up(t, "home")
    /\ r.op # "IDENTIFY" /\ r.cnt \in Cnts
    /\ r.op = "WRITE" => r.hd \in Written
    /\ rq' = [rq EXCEPT ![t] = r]
    /\ Goto(t, "lock")
    /\ ASSERT(r.lba <= MaxLba /\ r.cnt > 0)
    /\ UNCHANGED <<done, op, limit, waited, buf, snap, chanVars, devVars, booted, extra>>

lock_acquire(t) ==
    /\ Up(t, "lock")
    /\ holder = NULL
    /\ holder' = t
    /\ snap' = [snap EXCEPT ![t] = contents]
    /\ Goto(t, "sector")
    /\ UNCHANGED <<rq, done, op, limit, waited, buf, expecting, value, devVars, booted, extra, kernel>>

(* select_disk, and select_sector of the next chunk of at most 256 sectors *)
select_sector(t) ==
    /\ Up(t, "sector")
    /\ done[t] < rq[t].cnt
    /\ LET n == IF done[t] + Chunk <= rq[t].cnt THEN Chunk ELSE rq[t].cnt - done[t]
       IN  /\ op' = [op EXCEPT ![t] = n]
           /\ reg' = [hd |-> rq[t].hd, lba |-> rq[t].lba + done[t], cnt |-> ToRegister(n)]
    /\ ASSERT(rq[t].lba + done[t] <= MaxLba)
    /\ Goto(t, "expect")
    /\ UNCHANGED <<rq, done, limit, waited, buf, snap, chanVars, dev, cmd, data, irq, contents, booted, extra>>

(* Mutant: the driver forgets that it expects an interrupt. *)
cmd_out_expect_not(t) ==
    Up(t, "expect") /\ Goto(t, "out")
    /\ UNCHANGED <<rq, done, op, limit, waited, buf, snap, chanVars, devVars, booted, extra, kernel>>

(* cmd_out: expecting_intr = true, and then the command.  A reader waits   *)
(* for the interrupt next, a writer for the disk to ask for the data.  A   *)
(* disk that is still at work may drop what it does or the new command.    *)
cmd_out_expect(t) ==
    /\ Up(t, "expect")
    /\ expecting' = TRUE
    /\ Goto(t, "out")
    /\ UNCHANGED <<rq, done, op, limit, waited, buf, snap, holder, value, devVars, booted, extra, kernel>>

cmd_out(t) ==
    /\ Up(t, "out")
    /\ \/ dev' = "busy" /\ cmd' = rq[t].op
       \/ dev # "idle" /\ UNCHANGED <<dev, cmd>>
    /\ Goto(t, IF rq[t].op = "WRITE" THEN "wait" ELSE "down")
    /\ limit' = [limit EXCEPT ![t] = TimeLimit]
    /\ UNCHANGED <<rq, done, op, waited, buf, snap, chanVars, reg, data, irq, contents, booted, extra, kernel>>

(* sema_down(&channel->disk_done); a writer has finished its chunk then *)
sema_down(t) ==
    /\ Up(t, "down")
    /\ \/ /\ value = 0
          /\ Goto(t, "blocked")
          /\ UNCHANGED <<value, done>>
       \/ /\ value # 0
          /\ value' = value - 1
          /\ \/ /\ rq[t].op = "WRITE"
                /\ done' = [done EXCEPT ![t] = @ + op[t]]
                /\ Goto(t, IF done'[t] < rq[t].cnt THEN "sector" ELSE "unlock")
             \/ /\ rq[t].op # "WRITE"
                /\ Goto(t, "wait")
                /\ UNCHANGED done
    /\ UNCHANGED <<rq, op, limit, waited, buf, snap, holder, expecting, devVars, booted, extra, kernel>>

(* Mutant: DRQ is not looked at. *)
busy_wait_no_drq(t) ==
    /\ Up(t, "wait") /\ dev \notin {"busy", "flush"} /\ Goto(t, "transfer")
    /\ UNCHANGED <<limit, waited, rq, done, op, buf, snap, chanVars, devVars, booted, extra, kernel>>

(* busy_wait.  `time_limit -= 10 >= 0' subtracts the truth value 1 and     *)
(* tests what is left; out of time, or no DRQ, is a PANIC in the caller.   *)
busy_wait(t) ==
    /\ Up(t, "wait")
    /\ \/ /\ limit[t] > 1
          /\ dev \in {"busy", "flush"}
          /\ limit' = [limit EXCEPT ![t] = @ - 1]
          /\ waited' = [waited EXCEPT ![t] = @ + Sleep]
          /\ UNCHANGED <<pc, kernel>>
       \/ /\ limit[t] > 1
          /\ dev \notin {"busy", "flush"}
          /\ limit' = [limit EXCEPT ![t] = 0]
          /\ ASSERT(dev = "drq")
          /\ Goto(t, "transfer")
          /\ waited' = [waited EXCEPT ![t] = 0]
       \/ /\ limit[t] = 1
          /\ limit' = [limit EXCEPT ![t] = 0]
          /\ ASSERT(FALSE)
          /\ UNCHANGED <<pc, waited>>
    /\ UNCHANGED <<rq, done, op, buf, snap, chanVars, devVars, booted, extra>>

(* Mutant: the channel is given back between two chunks. *)
read_from_sector_unlocks(t) ==
    /\ Up(t, "transfer")
    /\ rq[t].op # "WRITE"
    /\ buf' = [buf EXCEPT ![t] = IF rq[t].op = "READ"
                   THEN @ \o [i \in 1..op[t] |-> contents[reg.hd][reg.lba + i - 1]] ELSE @]
    /\ done' = [done EXCEPT ![t] = IF rq[t].op = "READ" THEN @ + op[t] ELSE 0]
    /\ dev' = "idle" /\ holder' = NULL
    /\ booted' = TRUE
    /\ pc' = IF ~booted THEN [u \in Tasks |-> "home"]
             ELSE [pc EXCEPT ![t] = IF done'[t] < rq[t].cnt THEN "lock" ELSE "unlock"]
    /\ UNCHANGED <<rq, op, limit, waited, snap, expecting, value, reg, cmd, data, irq, contents, extra, kernel>>

(* The disk (external) may interrupt for each sector of a transfer.        *)
sector_irqs(t) ==
    \/ UNCHANGED <<irq, extra>>
    \/ op[t] > 1 /\ irq' = TRUE /\ extra' = TRUE

(* read_from_sector; identify_disk has no lock to give back *)
read_from_sector(t) ==
    /\ Up(t, "transfer")
    /\ rq[t].op # "WRITE"
    /\ buf' = [buf EXCEPT ![t] = IF rq[t].op = "READ"
                   THEN @ \o [i \in 1..op[t] |-> contents[reg.hd][reg.lba + i - 1]] ELSE @]
    /\ done' = [done EXCEPT ![t] = IF rq[t].op = "READ" THEN @ + op[t] ELSE 0]
    /\ dev' = "idle"
    /\ sector_irqs(t)
    /\ \/ /\ rq[t].op = "IDENTIFY"
          /\ booted' = TRUE
          /\ pc' = [u \in Tasks |-> "home"]
       \/ /\ rq[t].op = "READ"
          /\ Goto(t, IF done'[t] < rq[t].cnt THEN "sector" ELSE "unlock")
          /\ UNCHANGED booted
    /\ UNCHANGED <<rq, op, limit, waited, snap, chanVars, reg, cmd, data, contents, kernel>>

write2sector(t) ==
    /\ Up(t, "transfer")
    /\ rq[t].op = "WRITE"
    /\ dev' = "flush"
    /\ data' = t
    /\ sector_irqs(t)
    /\ Goto(t, "down")
    /\ UNCHANGED <<rq, done, op, limit, waited, buf, snap, chanVars, reg, cmd, contents, booted, kernel>>

lock_release(t) ==
    /\ Up(t, "unlock")
    /\ holder' = NULL
    /\ Goto(t, "home")
    /\ rq' = [rq EXCEPT ![t] = NoRequest]
    /\ buf' = [buf EXCEPT ![t] = << >>]
    /\ snap' = [snap EXCEPT ![t] = NULL]
    /\ done' = [done EXCEPT ![t] = 0]
    /\ op' = [op EXCEPT ![t] = 1]
    /\ UNCHANGED <<limit, waited, expecting, value, devVars, booted, extra, kernel>>

-----------------------------------------------------------------------------
(* Mutant: expecting_intr is not reset. *)
intr_hd_handler_keep ==
    /\ kernel = "up" /\ irq /\ expecting
    /\ irq' = FALSE
    /\ value' = value + 1
    /\ pc' = [t \in Tasks |-> IF pc[t] = "blocked" THEN "down" ELSE pc[t]]
    /\ UNCHANGED <<expecting, rq, done, op, limit, waited, buf, snap, holder, reg, dev, cmd, data,
                   contents, booted, extra, kernel>>

(* intr_hd_handler, when the latched interrupt is delivered: sema_up, and  *)
(* the task that sleeps on disk_done tries again.                          *)
intr_hd_handler ==
    /\ kernel = "up"
    /\ irq
    /\ irq' = FALSE
    /\ \/ /\ expecting
          /\ expecting' = FALSE
          /\ ASSERT(value = 0)
          /\ value' = value + 1
          /\ pc' = [t \in Tasks |-> IF pc[t] = "blocked" THEN "down" ELSE pc[t]]
       \/ /\ ~expecting
          /\ UNCHANGED <<expecting, value, pc, kernel>>
    /\ UNCHANGED <<rq, done, op, limit, waited, buf, snap, holder, reg, dev, cmd, data, contents, booted, extra>>

(* The disk (external).  It interrupts when the data of a read is there    *)
(* and when a write is done, not when it first asks for the data to write. *)
(* A command may fail, with an interrupt and without DRQ.                  *)
disk_ready ==
    /\ kernel = "up"
    /\ dev = "busy"
    /\ dev' = "drq"
    /\ irq' = (irq \/ cmd # "WRITE")
    /\ UNCHANGED <<taskVars, chanVars, reg, cmd, data, contents, booted, extra, kernel>>

disk_written ==
    /\ kernel = "up"
    /\ dev = "flush"
    /\ dev' = "idle"
    /\ irq' = TRUE
    /\ data' = NULL
    /\ contents' = [contents EXCEPT ![reg.hd] = [s \in Sectors |->
                    IF s \in reg.lba..(reg.lba + FromRegister(reg.cnt) - 1)
                    THEN data ELSE @[s]]]
    /\ UNCHANGED <<taskVars, chanVars, reg, cmd, booted, extra, kernel>>

disk_fails ==
    /\ kernel = "up"
    /\ dev \in {"busy", "flush"}
    /\ dev' = "idle"
    /\ irq' = TRUE
    /\ UNCHANGED <<taskVars, chanVars, reg, cmd, data, contents, booted, extra, kernel>>

(* panic_spin *)
panic_spin == kernel = "panic" /\ UNCHANGED vars

-----------------------------------------------------------------------------
TaskStep(t) ==
    \/ lock_acquire(t) \/ select_sector(t)
    \/ cmd_out_expect(t) \/ cmd_out(t) \/ sema_down(t)
    \/ busy_wait(t)
    \/ read_from_sector(t) \/ write2sector(t)
    \/ lock_release(t)

Next ==
    \/ \E t \in Tasks : TaskStep(t) \/ \E r \in Requests : ide_request(t, r)
    \/ intr_hd_handler
    \/ disk_ready \/ disk_written \/ disk_fails
    \/ panic_spin

Spec == Init /\ [][Next]_vars

(* A task that has the CPU goes on, the disk ends a command and the 8259   *)
(* delivers its interrupt as soon as some task runs with interrupts on.    *)
Fairness ==
    /\ \A t \in Tasks : WF_vars(TaskStep(t))
    /\ WF_vars(intr_hd_handler)
    /\ WF_vars(disk_ready \/ disk_fails)
    /\ WF_vars(disk_written \/ disk_fails)

FairSpec == Spec /\ Fairness

-----------------------------------------------------------------------------
(* disk_done counts one completion per command, also when the disk         *)
(* interrupts more often: sema_up's ASSERT in the handler cannot fail, and *)
(* no completion is left over when the next command is prepared.           *)
DoneOnce ==
    /\ value \in {0, 1}
    /\ expecting => value = 0
    /\ \A t \in Tasks : pc[t] \in {"sector", "expect"} => value = 0 /\ ~expecting

(* The driver gives the disk no command while it works on another one: the *)
(* interrupt it waits for is the last thing the disk does for a command.   *)
CommandOnIdle == \A t \in Tasks : pc[t] = "out" => dev = "idle"

(* When the driver moves data, the disk has this chunk of this request in  *)
(* its buffer or waits for it: right disk, first sector, count (after its  *)
(* way through the 8-bit register) and command; and it was idle when the   *)
(* command came.  So it is until the disk has interrupted inside a         *)
(* transfer, which the driver takes for the end of the next command.       *)
RightTransfer ==
    ~extra =>
       /\ CommandOnIdle
       /\ \A t \in Tasks :
             kernel = "up" /\ pc[t] = "transfer" =>
                 /\ dev = "drq"
                 /\ cmd = rq[t].op
                 /\ reg.hd = rq[t].hd
                 /\ reg.lba = rq[t].lba + done[t]
                 /\ FromRegister(reg.cnt) = op[t]
                 /\ done[t] + op[t] <= rq[t].cnt

(* A read returns the sectors as they were when it got the channel: no     *)
(* write falls between the chunks of a long read, until the disk has       *)
(* interrupted inside a transfer.                                          *)
ReadIsAtomic ==
    \A t \in Tasks :
        ~extra /\ pc[t] = "unlock" /\ rq[t].op = "READ" =>
            buf[t] = [i \in 1..rq[t].cnt |-> snap[t][rq[t].hd][rq[t].lba + i - 1]]

(* A task that sleeps on disk_done is woken: the interrupt cannot come     *)
(* before the driver expects it.                                           *)
SleeperWoken == \A t \in Tasks : pc[t] = "blocked" ~> pc[t] # "blocked" \/ kernel = "panic"

(* busy_wait gives up after 30 seconds (its comment, ide.c:141-142).  Not  *)
(* true of the code, whose loop subtracts 10 >= 0, which is 1, each time.  *)
WaitBounded == \A t \in Tasks : waited[t] <= TimeLimit
=============================================================================
