----------------------------- MODULE DiskProofs -----------------------------
(* Proofs about the disk: the driver that moves sectors (Ide), the bytes   *)
(* and blocks of files (FileData), and the entries and blocks of a         *)
(* directory (Dir).                                                        *)
EXTENDS Ide, FileData, Dir, SequenceTheorems, FiniteSetTheorems, WellFoundedInduction, TLAPS

-----------------------------------------------------------------------------
(* The driver, for any number of tasks and disks, any requests and any     *)
(* size of a chunk: completions are counted once, a transfer is the one    *)
(* asked for, and a read is not torn by a write.                           *)

(* Between getting and giving back the channel (identify_disk has it       *)
(* without asking).                                                        *)
Active  == {"sector", "expect", "out", "down", "blocked", "wait", "transfer", "unlock"}
Owners  == Tasks \union {NULL}
Content == [Disks -> [Sectors -> Owners]]

IdeTypeOK ==
    /\ pc \in [Tasks -> Active \union {"off", "home", "lock"}]
    /\ rq \in [Tasks -> Requests \union {NoRequest}]
    /\ done \in [Tasks -> Nat] /\ op \in [Tasks -> Nat] /\ limit \in [Tasks -> Nat]
    /\ snap \in [Tasks -> Content \union {NULL}]
    /\ holder \in Owners
    /\ expecting \in BOOLEAN /\ value \in Nat /\ irq \in BOOLEAN
    /\ reg \in [hd : Disks \union {NoRequest.hd}, lba : Nat, cnt : Nat]
    /\ dev \in {"idle", "busy", "drq", "flush"}
    /\ data \in Owners
    /\ contents \in Content
    /\ booted \in BOOLEAN /\ extra \in BOOLEAN
    /\ kernel \in {"up", "panic"}

(* Who is at work: main before the disks are identified, afterwards the    *)
(* task that has the lock.                                                 *)
OwnerInv ==
    /\ ~booted => /\ holder = NULL
                  /\ pc[main_thread] \in Active \ {"sector", "unlock"}
                  /\ rq[main_thread] = NoRequest
                  /\ \A t \in Tasks \ {main_thread} : pc[t] = "off"
                  /\ \A t \in Tasks : done[t] = 0
    /\ booted => \A t \in Tasks :
                     /\ pc[t] # "off"
                     /\ pc[t] \in Active <=> holder = t
                     /\ pc[t] # "home" => rq[t] \in Requests /\ rq[t].op # "IDENTIFY"
                     /\ pc[t] \in {"home", "lock"} => done[t] = 0

(* A command is under way: its interrupt is expected or has been counted. *)
Started(t) ==
    \/ pc[t] \in {"out", "down", "blocked"}
    \/ pc[t] \in {"wait", "transfer"} /\ rq[t].op = "WRITE"

CountInv ==
    /\ (\E t \in Tasks : Started(t)) => (expecting /\ value = 0) \/ (~expecting /\ value = 1)
    /\ (\A t \in Tasks : ~Started(t)) => ~expecting /\ value = 0
    /\ (\E t \in Tasks : pc[t] = "blocked") => expecting

(* The registers hold the chunk that the task is about to move. *)
Chosen(t) ==
    /\ reg.hd = rq[t].hd
    /\ reg.lba = rq[t].lba + done[t]
    /\ FromRegister(reg.cnt) = op[t]
    /\ op[t] > 0 /\ done[t] + op[t] <= rq[t].cnt

Commanded == {"down", "blocked", "wait", "transfer"}

ChunkInv ==
    \A t \in Tasks :
        /\ pc[t] \in Commanded \union {"expect", "out"} => Chosen(t)
        /\ pc[t] = "sector" => done[t] < rq[t].cnt
        /\ pc[t] = "unlock" => done[t] = rq[t].cnt

IdeInv == IdeTypeOK /\ OwnerInv /\ CountInv /\ ChunkInv

(* What the disk does for a command it has been given: a read ends with    *)
(* DRQ or a failure, a write asks for the data first.  Its interrupt is    *)
(* latched exactly until it is counted.                                    *)
Working(t) ==
    /\ cmd = rq[t].op
    /\ rq[t].op # "WRITE" => /\ dev \in {"busy", "drq", "idle"}
                             /\ dev = "busy" => pc[t] # "wait"
    /\ rq[t].op = "WRITE" /\ pc[t] = "wait" => dev \in {"busy", "drq", "idle"}
    /\ rq[t].op = "WRITE" /\ pc[t] \in {"down", "blocked"} => dev \in {"flush", "idle"}
    /\ pc[t] = "transfer" => dev = "drq"
    /\ IF dev \in {"busy", "flush"} \/ (dev = "drq" /\ rq[t].op = "WRITE")
         THEN ~irq /\ expecting
         ELSE irq <=> expecting

DeviceInv ==
    /\ \A t \in Tasks : pc[t] = "out" => dev = "idle"
    /\ kernel = "up" =>
          /\ \A t \in Tasks : pc[t] = "out" => expecting
          /\ (\A t \in Tasks : pc[t] \notin Commanded) => dev = "idle" /\ ~irq
          /\ \A t \in Tasks : pc[t] \in Commanded => Working(t)

(* What a reader has got so far is what the disk held when it got the      *)
(* channel, and still holds.                                               *)
Follows(t) ==
    /\ snap[t] = contents
    /\ Len(buf[t]) = done[t]
    /\ \A i \in 1..done[t] : buf[t][i] = contents[rq[t].hd][rq[t].lba + i - 1]

Quiet == {"off", "home", "lock"}

ReadInv ==
    /\ buf \in [Tasks -> Seq(Owners)]
    /\ \A t \in Tasks : pc[t] \in Quiet \/ ~booted => buf[t] = << >>
    /\ \A t \in Tasks : booted /\ pc[t] \in Active /\ rq[t].op = "READ" => Follows(t)

-----------------------------------------------------------------------------
(* The fields of a request are in range. *)
LEMMA RequestFacts ==
    ASSUME NEW r \in Requests \union {NoRequest}
    PROVE  /\ r.op \in Ops
           /\ r.hd \in Disks \union {NoRequest.hd}
           /\ r.lba \in 0..MaxLba /\ r.lba \in Nat
           /\ r.cnt \in 1..MaxCnt /\ r.cnt \in Nat
<1>1. CASE r \in Requests
  <2>1. r.op \in Ops /\ r.hd \in Disks /\ r.lba \in Lbas /\ r.cnt \in 1..MaxCnt
    BY <1>1 DEF Requests
  <2>2. r.lba \in 0..MaxLba
    BY <2>1, IdeAssumption, Zenon
  <2> QED
    BY <2>1, <2>2, IdeAssumption
<1>2. CASE r = NoRequest
  <2>1. r.op = "IDENTIFY" /\ r.lba = 0 /\ r.cnt = 1 /\ r.hd = NoRequest.hd
    BY <1>2 DEF NoRequest
  <2> QED
    BY <2>1, IdeAssumption DEF Ops
<1> QED
  BY <1>1, <1>2

(* A count of a chunk comes back from the 8-bit register. *)
LEMMA RegisterFacts ==
    ASSUME NEW n \in 1..Chunk
    PROVE  ToRegister(n) \in Nat /\ FromRegister(ToRegister(n)) = n
<1>1. Chunk \in Nat /\ Chunk > 0
  BY IdeAssumption
<1>2. CASE n = Chunk
  BY <1>1, <1>2 DEF ToRegister, FromRegister
<1>3. CASE n < Chunk
  BY <1>1, <1>3 DEF ToRegister, FromRegister
<1> QED
  BY <1>1, <1>2, <1>3

(* Only one task at a time is between getting and giving back the channel. *)
LEMMA OneActive ==
    ASSUME IdeTypeOK, OwnerInv, NEW t \in Tasks, NEW u \in Tasks,
           pc[t] \in Active, pc[u] \in Active
    PROVE  t = u
BY DEF IdeTypeOK, OwnerInv, Active

(* Every variable stays in its range. *)
LEMMA TypeStep == IdeTypeOK /\ [Next]_vars => IdeTypeOK'
<1> SUFFICES ASSUME IdeTypeOK, [Next]_vars PROVE IdeTypeOK'
  OBVIOUS
<1>0. /\ NULL \in Owners /\ Tasks \subseteq Owners
      /\ NoRequest \in Requests \union {NoRequest}
      /\ \A t \in Tasks : /\ rq[t].op \in Ops
                           /\ rq[t].hd \in Disks \union {NoRequest.hd}
                           /\ rq[t].lba \in Nat /\ rq[t].cnt \in Nat
  BY RequestFacts DEF IdeTypeOK, Owners
<1> USE <1>0, IdeAssumption DEF IdeTypeOK, Up, Goto, ASSERT, Active, devVars, chanVars, taskVars
<1>1. ASSUME NEW t \in Tasks, NEW r \in Requests, ide_request(t, r) PROVE IdeTypeOK'
  BY <1>1 DEF ide_request
<1>2. ASSUME NEW t \in Tasks, lock_acquire(t) PROVE IdeTypeOK'
  BY <1>2 DEF lock_acquire
<1>3. ASSUME NEW t \in Tasks, select_sector(t) PROVE IdeTypeOK'
  BY <1>3 DEF select_sector, ToRegister
<1>4. ASSUME NEW t \in Tasks, cmd_out_expect(t) PROVE IdeTypeOK'
  BY <1>4 DEF cmd_out_expect
<1>5. ASSUME NEW t \in Tasks, cmd_out(t) PROVE IdeTypeOK'
  BY <1>5 DEF cmd_out
<1>6. ASSUME NEW t \in Tasks, sema_down(t) PROVE IdeTypeOK'
  BY <1>6 DEF sema_down
<1>7. ASSUME NEW t \in Tasks, busy_wait(t) PROVE IdeTypeOK'
  BY <1>7 DEF busy_wait
<1>8. ASSUME NEW t \in Tasks, read_from_sector(t) PROVE IdeTypeOK'
  <2>1. done' \in [Tasks -> Nat]
    BY <1>8 DEF read_from_sector
  <2>2. pc' \in [Tasks -> Active \union {"off", "home", "lock"}] /\ booted' \in BOOLEAN
    BY <1>8 DEF read_from_sector
  <2>3. irq' \in BOOLEAN /\ extra' \in BOOLEAN
    BY <1>8 DEF read_from_sector, sector_irqs
  <2>4. dev' = "idle" /\ UNCHANGED <<rq, op, limit, snap, chanVars, reg, data, contents, kernel>>
    BY <1>8 DEF read_from_sector
  <2> QED
    BY <2>1, <2>2, <2>3, <2>4
<1>9. ASSUME NEW t \in Tasks, write2sector(t) PROVE IdeTypeOK'
  BY <1>9 DEF write2sector, sector_irqs
<1>10. ASSUME NEW t \in Tasks, lock_release(t) PROVE IdeTypeOK'
  BY <1>10 DEF lock_release
<1>11. CASE intr_hd_handler
  <2>1. pc' \in [Tasks -> Active \union {"off", "home", "lock"}]
    BY <1>11 DEF intr_hd_handler
  <2>2. expecting' \in BOOLEAN /\ irq' \in BOOLEAN /\ kernel' \in {"up", "panic"}
    BY <1>11 DEF intr_hd_handler
  <2>3. value' \in Nat
    BY <1>11 DEF intr_hd_handler
  <2> QED
    BY <1>11, <2>1, <2>2, <2>3 DEF intr_hd_handler
<1>12. CASE disk_ready
  BY <1>12 DEF disk_ready
<1>13. CASE disk_written
  BY <1>13 DEF disk_written, Content
<1>14. CASE disk_fails
  BY <1>14 DEF disk_fails
<1>15. CASE UNCHANGED vars
  BY <1>15 DEF vars
<1> QED
  BY <1>1, <1>2, <1>3, <1>4, <1>5, <1>6, <1>7, <1>8, <1>9, <1>10, <1>11, <1>12, <1>13, <1>14,
     <1>15 DEF Next, TaskStep, panic_spin

(* The task at work is main at first, and later the holder of the lock. *)
LEMMA OwnerStep == IdeTypeOK /\ OwnerInv /\ [Next]_vars => OwnerInv'
<1> SUFFICES ASSUME IdeTypeOK, OwnerInv, [Next]_vars PROVE OwnerInv'
  OBVIOUS
<1>0. /\ \A t \in Tasks : rq[t].op \in Ops /\ rq[t].lba \in Nat /\ rq[t].cnt \in Nat \ {0}
      /\ NoRequest.op = "IDENTIFY"
  BY RequestFacts, IdeAssumption DEF IdeTypeOK, NoRequest
<1> USE <1>0, IdeAssumption DEF IdeTypeOK, OwnerInv, Active, Up, Goto, ASSERT, devVars, chanVars, taskVars
<1>1. ASSUME NEW t \in Tasks, NEW r \in Requests, ide_request(t, r) PROVE OwnerInv'
  BY <1>1 DEF ide_request
<1>2. ASSUME NEW t \in Tasks, lock_acquire(t) PROVE OwnerInv'
  BY <1>2 DEF lock_acquire
<1>3. ASSUME NEW t \in Tasks, select_sector(t) PROVE OwnerInv'
  BY <1>3 DEF select_sector
<1>4. ASSUME NEW t \in Tasks, cmd_out_expect(t) PROVE OwnerInv'
  BY <1>4 DEF cmd_out_expect
<1>5. ASSUME NEW t \in Tasks, cmd_out(t) PROVE OwnerInv'
  BY <1>5 DEF cmd_out
<1>6. ASSUME NEW t \in Tasks, sema_down(t) PROVE OwnerInv'
  <2>1. CASE value = 0
    BY <1>6, <2>1 DEF sema_down
  <2>2. CASE value # 0 /\ rq[t].op = "WRITE"
    <3>1. booted
      BY <1>6, <2>2 DEF sema_down
    <3> QED
      BY <1>6, <2>2, <3>1 DEF sema_down
  <2>3. CASE value # 0 /\ rq[t].op # "WRITE"
    BY <1>6, <2>3 DEF sema_down
  <2> QED
    BY <2>1, <2>2, <2>3
<1>7. ASSUME NEW t \in Tasks, busy_wait(t) PROVE OwnerInv'
  BY <1>7 DEF busy_wait
<1>8. ASSUME NEW t \in Tasks, read_from_sector(t) PROVE OwnerInv'
  <2>1. CASE ~booted
    <3>1. rq[t].op = "IDENTIFY"
      BY <1>8, <2>1 DEF read_from_sector
    <3> QED
      BY <1>8, <2>1, <3>1 DEF read_from_sector
  <2>2. CASE booted
    <3>1. rq[t].op = "READ" /\ holder = t
      BY <1>8, <2>2 DEF read_from_sector
    <3> QED
      BY <1>8, <2>2, <3>1 DEF read_from_sector
  <2> QED
    BY <2>1, <2>2
<1>9. ASSUME NEW t \in Tasks, write2sector(t) PROVE OwnerInv'
  BY <1>9 DEF write2sector
<1>10. ASSUME NEW t \in Tasks, lock_release(t) PROVE OwnerInv'
  BY <1>10 DEF lock_release
<1>11. CASE intr_hd_handler
  BY <1>11 DEF intr_hd_handler
<1>12. CASE disk_ready
  BY <1>12 DEF disk_ready
<1>13. CASE disk_written
  BY <1>13 DEF disk_written
<1>14. CASE disk_fails
  BY <1>14 DEF disk_fails
<1>15. CASE UNCHANGED vars
  BY <1>15 DEF vars
<1> QED
  BY <1>1, <1>2, <1>3, <1>4, <1>5, <1>6, <1>7, <1>8, <1>9, <1>10, <1>11, <1>12, <1>13, <1>14, <1>15 DEF Next, TaskStep, panic_spin

(* Each command is counted once. *)
LEMMA CountStep == IdeTypeOK /\ OwnerInv /\ CountInv /\ [Next]_vars => CountInv'
<1> SUFFICES ASSUME IdeTypeOK, OwnerInv, CountInv, [Next]_vars PROVE CountInv'
  OBVIOUS
<1>0. /\ \A t \in Tasks : rq[t].op \in Ops /\ rq[t].lba \in Nat /\ rq[t].cnt \in Nat \ {0}
      /\ NoRequest.op = "IDENTIFY"
  BY RequestFacts, IdeAssumption DEF IdeTypeOK, NoRequest
<1> USE <1>0, IdeAssumption, OneActive DEF IdeTypeOK, CountInv, Started, Active, Up, Goto, ASSERT, devVars, chanVars, taskVars
<1>1. ASSUME NEW t \in Tasks, NEW r \in Requests, ide_request(t, r) PROVE CountInv'
  BY <1>1 DEF ide_request
<1>2. ASSUME NEW t \in Tasks, lock_acquire(t) PROVE CountInv'
  BY <1>2 DEF lock_acquire
<1>3. ASSUME NEW t \in Tasks, select_sector(t) PROVE CountInv'
  BY <1>3 DEF select_sector
<1>4. ASSUME NEW t \in Tasks, cmd_out_expect(t) PROVE CountInv'
  BY <1>4 DEF cmd_out_expect
<1>5. ASSUME NEW t \in Tasks, cmd_out(t) PROVE CountInv'
  BY <1>5 DEF cmd_out
<1>6. ASSUME NEW t \in Tasks, sema_down(t) PROVE CountInv'
  BY <1>6 DEF sema_down
<1>7. ASSUME NEW t \in Tasks, busy_wait(t) PROVE CountInv'
  BY <1>7 DEF busy_wait
<1>8. ASSUME NEW t \in Tasks, read_from_sector(t) PROVE CountInv'
  <2>1. \A u \in Tasks \ {t} : pc[u] \notin Active
    BY <1>8 DEF read_from_sector
  <2>2. pc[t] = "transfer" /\ rq[t].op # "WRITE" /\ UNCHANGED <<rq, expecting, value>>
    BY <1>8 DEF read_from_sector
  <2>3. ~expecting /\ value = 0
    BY <2>1, <2>2
  <2>4. \A u \in Tasks : pc'[u] \in {"home", "sector", "unlock", pc[u]} /\ pc'[t] # "transfer"
    BY <1>8 DEF read_from_sector
  <2> QED
    BY <2>1, <2>2, <2>3, <2>4
<1>9. ASSUME NEW t \in Tasks, write2sector(t) PROVE CountInv'
  BY <1>9 DEF write2sector
<1>10. ASSUME NEW t \in Tasks, lock_release(t) PROVE CountInv'
  BY <1>10 DEF lock_release
<1>11. CASE intr_hd_handler
  BY <1>11 DEF intr_hd_handler
<1>12. CASE disk_ready
  BY <1>12 DEF disk_ready
<1>13. CASE disk_written
  BY <1>13 DEF disk_written
<1>14. CASE disk_fails
  BY <1>14 DEF disk_fails
<1>15. CASE UNCHANGED vars
  BY <1>15 DEF vars
<1> QED
  BY <1>1, <1>2, <1>3, <1>4, <1>5, <1>6, <1>7, <1>8, <1>9, <1>10, <1>11, <1>12, <1>13, <1>14, <1>15 DEF Next, TaskStep, panic_spin

(* The registers follow the chunks. *)
LEMMA ChunkStep == IdeTypeOK /\ OwnerInv /\ ChunkInv /\ [Next]_vars => ChunkInv'
<1> SUFFICES ASSUME IdeTypeOK, OwnerInv, ChunkInv, [Next]_vars PROVE ChunkInv'
  OBVIOUS
<1>0. /\ \A t \in Tasks : rq[t].op \in Ops /\ rq[t].lba \in Nat /\ rq[t].cnt \in Nat \ {0}
      /\ NoRequest.op = "IDENTIFY"
  BY RequestFacts, IdeAssumption DEF IdeTypeOK, NoRequest
<1> USE <1>0, IdeAssumption, OneActive DEF IdeTypeOK, ChunkInv, Chosen, Commanded, Active, Up, Goto, ASSERT, devVars, chanVars, taskVars
<1>1. ASSUME NEW t \in Tasks, NEW r \in Requests, ide_request(t, r) PROVE ChunkInv'
  BY <1>1 DEF ide_request
<1>2. ASSUME NEW t \in Tasks, lock_acquire(t) PROVE ChunkInv'
  <2>1. done[t] = 0
    BY <1>2 DEF lock_acquire, OwnerInv
  <2> QED
    BY <1>2, <2>1 DEF lock_acquire
<1>3. ASSUME NEW t \in Tasks, select_sector(t) PROVE ChunkInv'
  <2> DEFINE n == IF done[t] + Chunk <= rq[t].cnt THEN Chunk ELSE rq[t].cnt - done[t]
  <2>1. n \in 1..Chunk /\ n \in Nat /\ done[t] + n <= rq[t].cnt
    BY <1>3 DEF select_sector
  <2>2. FromRegister(ToRegister(n)) = n
    BY <2>1, RegisterFacts
  <2>3. /\ op' = [op EXCEPT ![t] = n]
        /\ reg' = [hd |-> rq[t].hd, lba |-> rq[t].lba + done[t], cnt |-> ToRegister(n)]
        /\ pc' = [pc EXCEPT ![t] = "expect"]
        /\ UNCHANGED <<rq, done>>
    BY <1>3 DEF select_sector
  <2>4. Chosen(t)'
    BY <2>1, <2>2, <2>3
  <2>5. \A u \in Tasks \ {t} : pc'[u] = pc[u] /\ pc[u] \notin Active
    BY <1>3, <2>3 DEF select_sector
  <2> QED
    BY <2>3, <2>4, <2>5
<1>4. ASSUME NEW t \in Tasks, cmd_out_expect(t) PROVE ChunkInv'
  BY <1>4 DEF cmd_out_expect
<1>5. ASSUME NEW t \in Tasks, cmd_out(t) PROVE ChunkInv'
  BY <1>5 DEF cmd_out
<1>6. ASSUME NEW t \in Tasks, sema_down(t) PROVE ChunkInv'
  <2>1. Chosen(t) /\ \A u \in Tasks \ {t} : pc[u] \notin Active
    BY <1>6 DEF sema_down
  <2>2. CASE value = 0 \/ rq[t].op # "WRITE"
    BY <1>6, <2>1, <2>2 DEF sema_down
  <2>3. CASE value # 0 /\ rq[t].op = "WRITE"
    <3>1. /\ done' = [done EXCEPT ![t] = @ + op[t]]
          /\ pc' = [pc EXCEPT ![t] = IF done[t] + op[t] < rq[t].cnt THEN "sector" ELSE "unlock"]
      BY <1>6, <2>3 DEF sema_down
    <3>2. UNCHANGED <<rq, op, reg>>
      BY <1>6 DEF sema_down
    <3>3. done[t] \in Nat /\ op[t] \in Nat /\ rq[t].cnt \in Nat /\ done[t] + op[t] <= rq[t].cnt
      BY <2>1
    <3>4. done'[t] = done[t] + op[t] /\ pc'[t] \in {"sector", "unlock"}
      BY <3>1
    <3>5. pc'[t] = "sector" => done'[t] < rq[t].cnt
      BY <3>1, <3>4
    <3>6. pc'[t] = "unlock" => done'[t] = rq[t].cnt
      BY <3>1, <3>3, <3>4
    <3>7. \A u \in Tasks \ {t} : pc'[u] = pc[u]
      BY <3>1
    <3> QED
      BY <2>1, <3>2, <3>4, <3>5, <3>6, <3>7
  <2> QED
    BY <2>2, <2>3
<1>7. ASSUME NEW t \in Tasks, busy_wait(t) PROVE ChunkInv'
  BY <1>7 DEF busy_wait
<1>8. ASSUME NEW t \in Tasks, read_from_sector(t) PROVE ChunkInv'
  <2>1. Chosen(t) /\ \A u \in Tasks \ {t} : pc[u] \notin Active
    BY <1>8 DEF read_from_sector
  <2>2. CASE rq[t].op = "IDENTIFY"
    BY <1>8, <2>2 DEF read_from_sector
  <2>3. CASE rq[t].op = "READ"
    <3>1. /\ done' = [done EXCEPT ![t] = @ + op[t]]
          /\ pc' = [pc EXCEPT ![t] = IF done[t] + op[t] < rq[t].cnt THEN "sector" ELSE "unlock"]
      BY <1>8, <2>3 DEF read_from_sector
    <3>2. UNCHANGED <<rq, op, reg>>
      BY <1>8 DEF read_from_sector
    <3>3. \A u \in Tasks \ {t} : pc'[u] \notin Active
      BY <2>1, <3>1
    <3>4. /\ pc'[t] \in {"sector", "unlock"}
          /\ pc'[t] = "sector" => done'[t] < rq'[t].cnt
          /\ pc'[t] = "unlock" => done'[t] = rq'[t].cnt
      <4>1. done'[t] = done[t] + op[t] /\ rq'[t] = rq[t] /\ done[t] + op[t] <= rq[t].cnt
        BY <2>1, <3>1, <3>2
      <4>2. pc'[t] = IF done[t] + op[t] < rq[t].cnt THEN "sector" ELSE "unlock"
        BY <3>1
      <4>3. done[t] + op[t] \in Nat /\ rq[t].cnt \in Nat
        OBVIOUS
      <4>4. CASE done[t] + op[t] < rq[t].cnt
        BY <4>1, <4>2, <4>4
      <4>5. CASE done[t] + op[t] = rq[t].cnt
        BY <4>1, <4>2, <4>3, <4>5
      <4> QED
        BY <4>1, <4>3, <4>4, <4>5
    <3> QED
      BY <3>3, <3>4
  <2> QED
    BY <1>8, <2>2, <2>3 DEF read_from_sector
<1>9. ASSUME NEW t \in Tasks, write2sector(t) PROVE ChunkInv'
  BY <1>9 DEF write2sector
<1>10. ASSUME NEW t \in Tasks, lock_release(t) PROVE ChunkInv'
  BY <1>10 DEF lock_release
<1>11. CASE intr_hd_handler
  BY <1>11 DEF intr_hd_handler
<1>12. CASE disk_ready
  BY <1>12 DEF disk_ready
<1>13. CASE disk_written
  BY <1>13 DEF disk_written
<1>14. CASE disk_fails
  BY <1>14 DEF disk_fails
<1>15. CASE UNCHANGED vars
  BY <1>15 DEF vars
<1> QED
  BY <1>1, <1>2, <1>3, <1>4, <1>5, <1>6, <1>7, <1>8, <1>9, <1>10, <1>11, <1>12, <1>13, <1>14, <1>15 DEF Next, TaskStep, panic_spin

LEMMA IdeInvInit == Init => IdeInv
<1> SUFFICES ASSUME Init PROVE IdeInv
  OBVIOUS
<1>1. /\ NoRequest.op = "IDENTIFY" /\ NoRequest.lba = 0 /\ NoRequest.cnt = 1
      /\ FromRegister(1) = 1
  BY DEF NoRequest, FromRegister
<1> USE <1>1, IdeAssumption DEF Init, Active
<1>2. IdeTypeOK
  <2>1. contents \in Content
    BY DEF Content, Owners
  <2> QED
    BY <2>1 DEF IdeTypeOK, Owners
<1>3. OwnerInv
  BY DEF OwnerInv
<1>4. CountInv
  BY DEF CountInv, Started
<1>5. ChunkInv
  <2>1. ASSUME NEW t \in Tasks PROVE Chosen(t)
    <3>1. rq[t] = NoRequest /\ done[t] = 0 /\ op[t] = 1
      OBVIOUS
    <3>2. reg.hd = NoRequest.hd /\ reg.lba = 0 /\ reg.cnt = 1
      OBVIOUS
    <3> QED
      BY <3>1, <3>2 DEF Chosen
  <2> QED
    BY <2>1 DEF ChunkInv
<1> QED
  BY <1>2, <1>3, <1>4, <1>5 DEF IdeInv

(* The part of the invariant that no behaviour of the disk can disturb. *)
LEMMA IdeInvariant == Spec => []IdeInv
<1>1. IdeInv /\ [Next]_vars => IdeInv'
  BY TypeStep, OwnerStep, CountStep, ChunkStep DEF IdeInv
<1> QED
  BY IdeInvInit, <1>1, PTL DEF Spec

(* intr_hd_handler and sema_down count each command once, with any number  *)
(* of interrupts from the disk: disk_done is never above 1 and is 0 when   *)
(* the next command is prepared.                                           *)
THEOREM CompletionsCountOnce == Spec => []DoneOnce
<1>1. IdeInv => DoneOnce
  <2> SUFFICES ASSUME IdeInv PROVE DoneOnce
    OBVIOUS
  <2>1. value \in {0, 1} /\ (expecting => value = 0)
    BY DEF IdeInv, CountInv
  <2>2. ASSUME NEW t \in Tasks, pc[t] \in {"sector", "expect"} PROVE value = 0 /\ ~expecting
    <3>1. \A u \in Tasks : ~Started(u)
      BY <2>2, OneActive DEF IdeInv, Started, Active
    <3> QED
      BY <3>1 DEF IdeInv, CountInv
  <2> QED
    BY <2>1, <2>2 DEF DoneOnce
<1> QED
  BY <1>1, IdeInvariant, PTL

-----------------------------------------------------------------------------
(* A disk that has interrupted only when a command was done is idle, and   *)
(* has no interrupt left, when the driver turns to the next one.           *)
LEMMA DeviceStep == IdeInv /\ DeviceInv /\ [Next]_vars => extra' \/ DeviceInv'
<1> SUFFICES ASSUME ~extra', IdeInv, DeviceInv, [Next]_vars PROVE DeviceInv'
  OBVIOUS
<1>0. /\ \A t \in Tasks : rq[t].op \in Ops
      /\ IdeTypeOK /\ OwnerInv /\ CountInv
  BY RequestFacts DEF IdeTypeOK, IdeInv
<1> USE <1>0, OneActive DEF IdeTypeOK, DeviceInv, Working, Commanded, Active, Ops, Up, Goto, ASSERT, devVars, chanVars, taskVars
<1>1. ASSUME NEW t \in Tasks, NEW r \in Requests, ide_request(t, r) PROVE DeviceInv'
  BY <1>1 DEF ide_request
<1>2. ASSUME NEW t \in Tasks, lock_acquire(t) PROVE DeviceInv'
  BY <1>2 DEF lock_acquire
<1>3. ASSUME NEW t \in Tasks, select_sector(t) PROVE DeviceInv'
  BY <1>3 DEF select_sector
<1>4. ASSUME NEW t \in Tasks, cmd_out_expect(t) PROVE DeviceInv'
  BY <1>4 DEF cmd_out_expect
<1>5. ASSUME NEW t \in Tasks, cmd_out(t) PROVE DeviceInv'
  <2>1. \A u \in Tasks \ {t} : pc[u] \notin Active
    BY <1>5 DEF cmd_out
  <2>2. dev = "idle" /\ ~irq /\ expecting
    BY <1>5, <2>1 DEF cmd_out
  <2>3. Working(t)' /\ pc'[t] \in Commanded
    BY <1>5, <2>2 DEF cmd_out
  <2> QED
    BY <1>5, <2>1, <2>3 DEF cmd_out
<1>6. ASSUME NEW t \in Tasks, sema_down(t) PROVE DeviceInv'
  <2>1. \A u \in Tasks \ {t} : pc[u] \notin Active
    BY <1>6 DEF sema_down
  <2>2. CASE value = 0
    BY <1>6, <2>1, <2>2 DEF sema_down
  <2>3. CASE value # 0
    <3>1. Working(t) /\ ~expecting
      BY <1>6, <2>3 DEF sema_down, CountInv, Started
    <3>2. CASE rq[t].op = "WRITE"
      BY <1>6, <2>1, <2>3, <3>1, <3>2 DEF sema_down
    <3>3. CASE rq[t].op # "WRITE"
      BY <1>6, <2>1, <2>3, <3>1, <3>3 DEF sema_down
    <3> QED
      BY <3>2, <3>3
  <2> QED
    BY <2>2, <2>3
<1>7. ASSUME NEW t \in Tasks, busy_wait(t) PROVE DeviceInv'
  BY <1>7 DEF busy_wait
<1>8. ASSUME NEW t \in Tasks, read_from_sector(t) PROVE DeviceInv'
  <2>1. \A u \in Tasks \ {t} : pc[u] \notin Active
    BY <1>8 DEF read_from_sector
  <2>2. Working(t) /\ ~Started(t)
    BY <1>8 DEF read_from_sector, Started
  <2>3. ~expecting
    BY <2>1, <2>2 DEF CountInv, Started
  <2>4. /\ dev = "drq" /\ ~irq
    BY <1>8, <2>2, <2>3 DEF read_from_sector
  <2>5. dev' = "idle" /\ irq' = FALSE
    BY <1>8, <2>4 DEF read_from_sector, sector_irqs
  <2>6. \A u \in Tasks : pc'[u] \in {"home", "sector", "unlock"} \/ (u # t /\ pc'[u] = pc[u])
    BY <1>8 DEF read_from_sector
  <2> QED
    BY <2>1, <2>5, <2>6
<1>9. ASSUME NEW t \in Tasks, write2sector(t) PROVE DeviceInv'
  BY <1>9 DEF write2sector, sector_irqs
<1>10. ASSUME NEW t \in Tasks, lock_release(t) PROVE DeviceInv'
  BY <1>10 DEF lock_release
<1>11. CASE intr_hd_handler
  BY <1>11 DEF intr_hd_handler
<1>12. CASE disk_ready
  BY <1>12 DEF disk_ready
<1>13. CASE disk_written
  BY <1>13 DEF disk_written
<1>14. CASE disk_fails
  BY <1>14 DEF disk_fails
<1>15. CASE UNCHANGED vars
  BY <1>15 DEF vars
<1> QED
  BY <1>1, <1>2, <1>3, <1>4, <1>5, <1>6, <1>7, <1>8, <1>9, <1>10, <1>11, <1>12, <1>13, <1>14, <1>15 DEF Next, TaskStep, panic_spin

(* Once the disk has interrupted inside a transfer it stays recorded. *)
LEMMA ExtraStays == IdeInv /\ extra /\ [Next]_vars => extra'
<1> SUFFICES ASSUME extra, [Next]_vars PROVE extra'
  OBVIOUS
<1> USE DEF ide_request, lock_acquire, select_sector, cmd_out_expect, cmd_out, sema_down, busy_wait,
            read_from_sector, write2sector, lock_release, sector_irqs
<1>1. ASSUME NEW t \in Tasks, TaskStep(t) PROVE extra'
  BY <1>1 DEF TaskStep
<1>2. ASSUME NEW t \in Tasks, NEW r \in Requests, ide_request(t, r) PROVE extra'
  BY <1>2
<1>3. CASE intr_hd_handler \/ disk_ready \/ disk_written \/ disk_fails \/ panic_spin \/ UNCHANGED vars
  BY <1>3 DEF intr_hd_handler, disk_ready, disk_written, disk_fails, panic_spin, vars
<1> QED
  BY <1>1, <1>2, <1>3 DEF Next

LEMMA DeviceInvariant == Spec => [](IdeInv /\ (extra \/ DeviceInv))
<1>1. Init => DeviceInv
  BY DEF Init, DeviceInv, Commanded
<1>2. IdeInv /\ [Next]_vars => IdeInv'
  BY TypeStep, OwnerStep, CountStep, ChunkStep DEF IdeInv
<1>3. IdeInv /\ (extra \/ DeviceInv) /\ [Next]_vars => (extra \/ DeviceInv)'
  BY DeviceStep, ExtraStays
<1> QED
  BY IdeInvInit, <1>1, <1>2, <1>3, PTL DEF Spec

(* The driver moves the chunk of the request it is at, to or from the disk *)
(* it selected, through a count register of any width, and commands only   *)
(* an idle disk, as long as the disk has not interrupted inside a transfer *)
(* (which it cannot do when every command is for one sector).              *)
THEOREM TransfersAreRight == Spec => []RightTransfer
<1>1. IdeInv /\ (extra \/ DeviceInv) => RightTransfer
  BY DEF IdeInv, ChunkInv, Chosen, DeviceInv, Working, Commanded, RightTransfer, CommandOnIdle
<1> QED
  BY <1>1, DeviceInvariant, PTL

-----------------------------------------------------------------------------
(* Steps that leave the buffers and the disk alone. *)
LEMMA ReadFrame ==
    ASSUME ReadInv, UNCHANGED <<buf, contents, booted>>,
           \A t \in Tasks : pc'[t] \in Quiet => pc[t] \in Quiet,
           \A t \in Tasks : pc'[t] \in Active /\ rq'[t].op = "READ" =>
               /\ pc[t] \in Active /\ rq'[t] = rq[t]
               /\ done'[t] = done[t] /\ snap'[t] = snap[t]
    PROVE  ReadInv'
<1>1. ASSUME NEW t \in Tasks, booted, pc'[t] \in Active, rq'[t].op = "READ"
      PROVE  Follows(t)'
  <2>1. Follows(t) /\ rq'[t] = rq[t] /\ done'[t] = done[t] /\ snap'[t] = snap[t]
    BY <1>1 DEF ReadInv
  <2> QED
    BY <2>1 DEF Follows
<1> QED
  BY <1>1 DEF ReadInv

(* A reader's buffer follows the disk, which nobody changes meanwhile.     *)
LEMMA ReadStep == IdeInv /\ DeviceInv /\ ReadInv /\ [Next]_vars => ReadInv'
<1> SUFFICES ASSUME IdeInv, DeviceInv, ReadInv, [Next]_vars PROVE ReadInv'
  OBVIOUS
<1>0. /\ \A t \in Tasks : rq[t].op \in Ops /\ rq[t].lba \in Nat /\ rq[t].cnt \in Nat \ {0}
      /\ IdeTypeOK /\ OwnerInv /\ << >> \in Seq(Owners)
  BY RequestFacts, IdeAssumption DEF IdeTypeOK, IdeInv
<1> USE <1>0 DEF IdeTypeOK, Active, Quiet, Ops, Up, Goto, ASSERT, devVars, chanVars, taskVars
<1>1. ASSUME NEW t \in Tasks, NEW r \in Requests, ide_request(t, r) PROVE ReadInv'
  BY <1>1, ReadFrame DEF ide_request
<1>2. ASSUME NEW t \in Tasks, lock_acquire(t) PROVE ReadInv'
  <2>1. done[t] = 0 /\ buf[t] = << >> /\ booted
    BY <1>2 DEF lock_acquire, OwnerInv, ReadInv
  <2>2. UNCHANGED <<rq, done, buf, contents, booted>>
    BY <1>2 DEF lock_acquire
  <2>3. snap' = [snap EXCEPT ![t] = contents] /\ pc' = [pc EXCEPT ![t] = "sector"]
    BY <1>2 DEF lock_acquire
  <2>4. Follows(t)'
    BY <2>1, <2>2, <2>3 DEF Follows
  <2>5. ASSUME NEW u \in Tasks \ {t}, Follows(u) PROVE Follows(u)'
    BY <2>2, <2>3, <2>5 DEF Follows
  <2> QED
    BY <2>1, <2>2, <2>3, <2>4, <2>5 DEF ReadInv
<1>3. ASSUME NEW t \in Tasks, select_sector(t) PROVE ReadInv'
  BY <1>3, ReadFrame DEF select_sector
<1>4. ASSUME NEW t \in Tasks, cmd_out_expect(t) PROVE ReadInv'
  BY <1>4, ReadFrame DEF cmd_out_expect
<1>5. ASSUME NEW t \in Tasks, cmd_out(t) PROVE ReadInv'
  BY <1>5, ReadFrame DEF cmd_out
<1>6. ASSUME NEW t \in Tasks, sema_down(t) PROVE ReadInv'
  BY <1>6, ReadFrame DEF sema_down
<1>7. ASSUME NEW t \in Tasks, busy_wait(t) PROVE ReadInv'
  BY <1>7, ReadFrame DEF busy_wait
<1>8. ASSUME NEW t \in Tasks, read_from_sector(t) PROVE ReadInv'
  <2>0. UNCHANGED <<rq, snap, contents>> /\ pc[t] = "transfer" /\ rq[t].op # "WRITE"
    BY <1>8 DEF read_from_sector
  <2>1. CASE ~booted \/ rq[t].op = "IDENTIFY"
    <3>1. ~booted /\ rq[t].op = "IDENTIFY"
      BY <2>0, <2>1 DEF OwnerInv, NoRequest
    <3>2. buf' = buf /\ pc' = [u \in Tasks |-> "home"]
      BY <1>8, <3>1 DEF read_from_sector, ReadInv
    <3> QED
      BY <3>1, <3>2 DEF ReadInv
  <2>2. CASE booted /\ rq[t].op = "READ"
    <3>1. Chosen(t) /\ rq[t] \in Requests /\ op[t] \in Nat /\ done[t] \in Nat
      BY <2>0, <2>2 DEF IdeInv, ChunkInv, Commanded, OwnerInv
    <3> DEFINE f == contents[rq[t].hd]
               a == rq[t].lba
    <3>2. rq[t].hd \in Disks /\ a \in 0..MaxLba /\ rq[t].cnt \in 1..MaxCnt
      BY <3>1, RequestFacts DEF Requests
    <3>a. a \in Nat
      BY <3>2, IdeAssumption
    <3>3. \A i \in 1..op[t] : f[a + done[t] + i - 1] \in Owners
      <4>1. f \in [Sectors -> Owners]
        BY <3>2 DEF Content
      <4>2. done[t] + op[t] <= rq[t].cnt
        BY <3>1 DEF Chosen
      <4>3. ASSUME NEW i \in 1..op[t] PROVE a + done[t] + i - 1 \in Sectors
        <5> HIDE DEF a, IdeTypeOK
        <5>1. rq[t].cnt \in Nat /\ rq[t].cnt <= MaxCnt /\ a <= MaxLba /\ MaxCnt \in Nat /\ MaxLba \in Nat
          BY <3>2, IdeAssumption
        <5> QED
          BY <3>1, <3>a, <4>2, <5>1 DEF Sectors
      <4> QED
        BY <4>1, <4>3
    <3>4. Follows(t)
      BY <2>0, <2>2 DEF ReadInv
    <3>5. buf' = [buf EXCEPT ![t] = buf[t] \o [i \in 1..op[t] |-> f[a + done[t] + i - 1]]]
      BY <1>8, <2>2, <3>1 DEF read_from_sector, Chosen
    <3>6. /\ buf'[t] \in Seq(Owners) /\ Len(buf'[t]) = done[t] + op[t]
          /\ \A i \in 1..(done[t] + op[t]) : buf'[t][i] = f[a + i - 1]
      <4> DEFINE e == [i \in 1..op[t] |-> f[a + done[t] + i - 1]]
      <4>1. buf'[t] = buf[t] \o e
        BY <3>5 DEF ReadInv
      <4>2. /\ buf[t] \in Seq(Owners) /\ Len(buf[t]) = done[t]
            /\ \A i \in 1..done[t] : buf[t][i] = f[a + i - 1]
        BY <3>4 DEF Follows, ReadInv
      <4>3. /\ e \in Seq(Owners) /\ Len(e) = op[t]
            /\ \A i \in 1..op[t] : e[i] = f[a + done[t] + i - 1]
        <5> HIDE <1>0 DEF f, a, IdeTypeOK
        <5> QED
          BY <3>1, <3>3
      <4> HIDE <1>0 DEF f, a, e, IdeTypeOK
      <4>4. /\ buf[t] \o e \in Seq(Owners) /\ Len(buf[t] \o e) = done[t] + op[t]
            /\ \A i \in 1..(done[t] + op[t]) : (buf[t] \o e)[i] = f[a + i - 1]
        <5>1. /\ buf[t] \o e \in Seq(Owners) /\ Len(buf[t] \o e) = Len(buf[t]) + Len(e)
              /\ \A i \in 1..(Len(buf[t]) + Len(e)) :
                    (buf[t] \o e)[i] = IF i <= Len(buf[t]) THEN buf[t][i] ELSE e[i - Len(buf[t])]
          BY <4>2, <4>3, ConcatProperties, Zenon
        <5>2. ASSUME NEW i \in 1..(done[t] + op[t]) PROVE (buf[t] \o e)[i] = f[a + i - 1]
          <6>1. CASE i <= done[t]
            BY <3>1, <4>2, <4>3, <5>1, <6>1
          <6>2. CASE i > done[t]
            <7>0. i - done[t] \in 1..op[t]
              BY <3>1, <6>2
            <7>1. (buf[t] \o e)[i] = e[i - done[t]]
              BY <3>1, <4>2, <4>3, <5>1, <6>2
            <7>2. a + done[t] + (i - done[t]) - 1 = a + i - 1
              BY <3>1, <3>a
            <7> QED
              BY <4>3, <7>0, <7>1, <7>2
          <6>3. i <= done[t] \/ i > done[t]
            BY <3>1
          <6> QED
            BY <6>1, <6>2, <6>3
        <5> QED
          BY <4>2, <4>3, <5>1, <5>2
      <4> QED
        BY <4>1, <4>4
    <3>7. /\ done' = [done EXCEPT ![t] = @ + op[t]]
          /\ booted' = booted
      BY <1>8, <2>2 DEF read_from_sector
    <3>8. \E p \in Active : pc' = [pc EXCEPT ![t] = p]
      BY <1>8, <2>2 DEF read_from_sector
    <3>9. buf' \in [Tasks -> Seq(Owners)] /\ \A u \in Tasks \ {t} : buf'[u] = buf[u]
      BY <3>5, <3>6 DEF ReadInv
    <3>10. Follows(t)'
      BY <2>0, <3>4, <3>6, <3>7 DEF Follows
    <3>11. ASSUME NEW u \in Tasks \ {t}, Follows(u) PROVE Follows(u)'
      BY <2>0, <3>7, <3>9, <3>11 DEF Follows
    <3> QED
      BY <2>0, <2>2, <3>7, <3>8, <3>9, <3>10, <3>11 DEF ReadInv
  <2> QED
    BY <2>0, <2>1, <2>2
<1>9. ASSUME NEW t \in Tasks, write2sector(t) PROVE ReadInv'
  BY <1>9, ReadFrame DEF write2sector
<1>10. ASSUME NEW t \in Tasks, lock_release(t) PROVE ReadInv'
  <2>1. ASSUME NEW u \in Tasks \ {t}, Follows(u) PROVE Follows(u)'
    BY <1>10, <2>1 DEF lock_release, Follows
  <2> QED
    BY <1>10, <2>1 DEF lock_release, ReadInv
<1>11. CASE intr_hd_handler
  BY <1>11, ReadFrame DEF intr_hd_handler
<1>12. CASE disk_ready
  BY <1>12, ReadFrame DEF disk_ready
<1>13. CASE disk_written
  <2>1. ASSUME NEW t \in Tasks, pc[t] \in Active, rq[t].op = "READ" PROVE FALSE
    BY <1>13, <2>1, OneActive DEF disk_written, DeviceInv, Working, Commanded
  <2> QED
    BY <1>13, <2>1 DEF disk_written, ReadInv
<1>14. CASE disk_fails
  BY <1>14, ReadFrame DEF disk_fails
<1>15. CASE UNCHANGED vars
  BY <1>15, ReadFrame DEF vars
<1> QED
  BY <1>1, <1>2, <1>3, <1>4, <1>5, <1>6, <1>7, <1>8, <1>9, <1>10, <1>11, <1>12, <1>13, <1>14, <1>15 DEF Next, TaskStep, panic_spin

LEMMA ReadInvInit == Init => ReadInv
BY DEF Init, ReadInv, Active, Quiet

(* A read returns the sectors as they were when it got the channel, in     *)
(* however many chunks it is made, as long as the disk has not interrupted *)
(* inside a transfer.                                                      *)
THEOREM ReadsAreAtomic == Spec => []ReadIsAtomic
<1>1. IdeInv /\ (extra \/ DeviceInv) /\ (extra \/ ReadInv) /\ [Next]_vars => (extra \/ ReadInv)'
  BY ReadStep, ExtraStays
<1>2. ASSUME IdeInv, extra \/ ReadInv PROVE ReadIsAtomic
  <2> SUFFICES ASSUME ReadInv, NEW t \in Tasks, pc[t] = "unlock", rq[t].op = "READ"
               PROVE  buf[t] = [i \in 1..rq[t].cnt |-> snap[t][rq[t].hd][rq[t].lba + i - 1]]
    BY <1>2 DEF ReadIsAtomic
  <2>1. booted /\ done[t] = rq[t].cnt
    BY <1>2 DEF IdeInv, IdeTypeOK, OwnerInv, ChunkInv, Active, NoRequest
  <2>2. /\ buf[t] \in Seq(Owners) /\ Len(buf[t]) = rq[t].cnt /\ snap[t] = contents
        /\ \A i \in 1..rq[t].cnt : buf[t][i] = snap[t][rq[t].hd][rq[t].lba + i - 1]
    BY <1>2, <2>1 DEF ReadInv, Follows, Active
  <2> QED
    BY <2>2
<1> QED
  BY ReadInvInit, <1>1, <1>2, DeviceInvariant, PTL DEF Spec

-----------------------------------------------------------------------------
(* Files, of any number and any sizes.  A file has numbered places for     *)
(* blocks, direct ones, those of the table, and the table itself as the    *)
(* last: FileInv says that no block is in two places, that the blocks in   *)
(* places are those marked in the bitmap, and that what is stored in a     *)
(* place depends only on its number.                                       *)

(* A set of numbers that is not empty has a smallest one. *)
LEMMA Smallest ==
    ASSUME NEW S \in SUBSET Nat, S # {}
    PROVE  \E x \in S : \A y \in S : x <= y
<1>1. PICK x \in S : \A y \in S : ~ (<<y, x>> \in OpToRel(<, Nat))
  BY NatLessThanWellFounded, WFMin
<1> SUFFICES ASSUME NEW y \in S PROVE x <= y
  BY <1>1
<1>2. <<y, x>> \in Nat \X Nat /\ ~ (<<y, x>> \in OpToRel(<, Nat))
  BY <1>1
<1>3. ~ (y < x)
  BY <1>2 DEF OpToRel
<1> QED
  BY <1>3

(* The members of a finite set of numbers can be counted from below. *)
LEMMA CountBelow ==
    ASSUME NEW N \in Nat, NEW F \in SUBSET (0..N), NEW k \in 1..Cardinality(F)
    PROVE  \E b \in F : Cardinality({c \in F : c < b}) = k - 1
<1> DEFINE below(m) == {c \in F : c < m}
           S == {m \in Nat : Cardinality(below(m)) >= k}
<1>0. \A c \in F : c \in Nat /\ c <= N
  OBVIOUS
<1>1. IsFiniteSet(F) /\ Cardinality(F) \in Nat
  <2>1. IsFiniteSet(0..N)
    BY FS_Interval
  <2> QED
    BY <2>1, FS_Subset, FS_CardinalityType
<1>2. ASSUME NEW m \in Nat PROVE IsFiniteSet(below(m)) /\ Cardinality(below(m)) \in Nat
  <2>1. below(m) \subseteq F
    OBVIOUS
  <2> QED
    BY <1>1, <2>1, FS_Subset, FS_CardinalityType
<1>3. N + 1 \in S
  <2>1. \A c \in F : c < N + 1
    BY <1>0
  <2>2. below(N + 1) = F
    BY <2>1, Zenon
  <2>3. Cardinality(F) >= k /\ N + 1 \in Nat
    BY <1>1
  <2> HIDE DEF below
  <2> QED
    BY <2>2, <2>3
<1>4. S \in SUBSET Nat /\ S # {}
  BY <1>3
<1>5. PICK m \in S : \A y \in S : m <= y
  BY <1>4, Smallest
<1>6. m \in Nat /\ Cardinality(below(m)) >= k
  BY <1>5
<1>7. m # 0
  <2> SUFFICES ASSUME m = 0 PROVE FALSE
    OBVIOUS
  <2>0. \A c \in F : ~(c < m)
    BY <1>0
  <2>1. below(m) = {}
    BY <2>0, Zenon
  <2>2. Cardinality(below(m)) = 0
    BY <2>1, FS_EmptySet
  <2> QED
    BY <2>2, <1>6
<1> DEFINE b == m - 1
<1>8. b \in Nat /\ b \notin S
  BY <1>5, <1>6, <1>7
<1>9. Cardinality(below(b)) < k
  BY <1>8, <1>2
<1>10. CASE b \notin F
  <2>1. \A c \in F : c < m <=> c < b
    BY <1>0, <1>6, <1>7, <1>10
  <2>2. below(m) = below(b)
    BY <2>1, Zenon
  <2> QED
    BY <2>2, <1>9, <1>6, <1>2, <1>8
<1>11. CASE b \in F
  <2>0. \A c \in F : c < m <=> c < b \/ c = b
    BY <1>0, <1>6, <1>7
  <2>1. below(m) = below(b) \union {b} /\ b \notin below(b)
    <3>1. ~(b < b)
      BY <1>8
    <3> HIDE DEF b
    <3> QED
      BY <3>1, <2>0, <1>11
  <2>2. Cardinality(below(m)) = Cardinality(below(b)) + 1
    BY <2>1, <1>8, <1>2, FS_AddElement
  <2>3. Cardinality(below(b)) = k - 1
    <3> HIDE DEF below, b
    <3>1. Cardinality(below(b)) \in Nat /\ Cardinality(below(m)) \in Nat
      BY <1>2, <1>6, <1>8
    <3> QED
      BY <3>1, <2>2, <1>6, <1>9
  <2> QED
    BY <2>3, <1>11
<1> QED
  BY <1>10, <1>11

-----------------------------------------------------------------------------
Free == Blocks \ used

(* The k-th call of block_bitmap_alloc finds a free block, another one     *)
(* than the calls before, as long as there are k.                          *)
LEMMA AllocFacts ==
    ASSUME NEW k \in 1..Cardinality(Free)
    PROVE  /\ block_bitmap_alloc(k) \in Free
           /\ Cardinality({c \in Free : c < block_bitmap_alloc(k)}) = k - 1
<1>1. NBlocks \in Nat /\ Free \in SUBSET (0..NBlocks)
  BY FileDataAssumption DEF Free, Blocks
<1>2. \E b \in Free : Cardinality({c \in Free : c < b}) = k - 1
  BY <1>1, CountBelow
<1> QED
  BY <1>2 DEF block_bitmap_alloc, Free

LEMMA AllocDistinct ==
    ASSUME NEW j \in 1..Cardinality(Free), NEW k \in 1..Cardinality(Free),
           block_bitmap_alloc(j) = block_bitmap_alloc(k)
    PROVE  j = k
<1>1. /\ Cardinality({c \in Free : c < block_bitmap_alloc(j)}) = j - 1
      /\ Cardinality({c \in Free : c < block_bitmap_alloc(k)}) = k - 1
  BY AllocFacts
<1> QED
  BY <1>1

-----------------------------------------------------------------------------
(* Division by the size of a block *)
LEMMA DivisionFacts ==
    ASSUME NEW a \in Nat, NEW c \in Nat \ {0}
    PROVE  /\ a \div c \in Nat /\ a % c \in 0..(c - 1)
           /\ a = (a \div c) * c + (a % c)
OBVIOUS

LEMMA TimesMonotonic ==
    ASSUME NEW a \in Nat, NEW b \in Nat, NEW c \in Nat, a <= b
    PROVE  a * c <= b * c /\ a * c \in Nat /\ b * c \in Nat
OBVIOUS

LEMMA DivisionMonotonic ==
    ASSUME NEW a \in Nat, NEW b \in Nat, NEW c \in Nat \ {0}, a <= b
    PROVE  a \div c <= b \div c
<1> DEFINE x == a \div c
           y == b \div c
<1>1. x \in Nat /\ a % c \in 0..(c - 1) /\ a = x * c + (a % c)
  BY DivisionFacts
<1>2. y \in Nat /\ b % c \in 0..(c - 1) /\ b = y * c + (b % c)
  BY DivisionFacts
<1> HIDE DEF x, y
<1> SUFFICES ASSUME x > y PROVE FALSE
  BY <1>1, <1>2 DEF x, y
<1>3. (y + 1) * c <= x * c
  BY <1>1, <1>2, TimesMonotonic
<1>4. (y + 1) * c = y * c + c /\ y * c \in Nat /\ x * c \in Nat
  BY <1>1, <1>2
<1> QED
  BY <1>1, <1>2, <1>3, <1>4

LEMMA UsedBlocksFacts ==
    ASSUME NEW size \in Nat, NEW n \in Nat
    PROVE  /\ UsedBlocks(size) \in Nat \ {0}
           /\ UsedBlocks(size + n) \in Nat \ {0}
           /\ UsedBlocks(size) <= UsedBlocks(size + n)
           /\ size = 0 => UsedBlocks(size) = 1
<1>1. BLOCK_SIZE \in Nat \ {0} /\ size + n \in Nat /\ size <= size + n
  BY FileDataAssumption
<1>2. size \div BLOCK_SIZE \in Nat /\ (size + n) \div BLOCK_SIZE \in Nat
  BY <1>1, DivisionFacts
<1>3. size \div BLOCK_SIZE <= (size + n) \div BLOCK_SIZE
  BY <1>1, DivisionMonotonic
<1>4. size = 0 => size \div BLOCK_SIZE = 0
  BY <1>1
<1> QED
  BY <1>2, <1>3, <1>4 DEF UsedBlocks

LEMMA Bounds ==
    /\ Direct \in Nat \ {0} /\ Indirect \in Nat \ {0} /\ BLOCK_SIZE \in Nat \ {0}
    /\ NBlocks \in Nat /\ MaxBlocks \in Nat /\ MaxBlocks = Direct + Indirect
    /\ 0 \in Blocks /\ Counts \subseteq Nat /\ Word \in Nat \ {0} /\ Word > BLOCK_SIZE * MaxBlocks
BY FileDataAssumption DEF MaxBlocks, Blocks

(***************************************************************************)
(* The blocks of an inode by their places: 0..(MaxBlocks - 1) are those of *)
(* the data, the ones in the table among them, MaxBlocks is the table.     *)
(***************************************************************************)
Places == 0..MaxBlocks

Place(sec, dsk, j) ==
    IF j = MaxBlocks THEN sec[Direct]
    ELSE IF j < Direct THEN sec[j]
    ELSE IF sec[Direct] = 0 THEN 0 ELSE dsk[sec[Direct]][j - Direct][2]

(* An inode has the blocks that its size calls for: those up to the one    *)
(* where the next byte goes, none behind it, and the table if it needs it; *)
(* the first one may be missing while the file is empty.                   *)
BlocksFitSize(sec, dsk, size) ==
    /\ UsedBlocks(size) <= MaxBlocks
    /\ \A j \in Places : Place(sec, dsk, j) \in Blocks
    /\ \A j \in 1..(MaxBlocks - 1) : Place(sec, dsk, j) # 0 <=> j < UsedBlocks(size)
    /\ sec[0] = 0 => size = 0
    /\ sec[Direct] # 0 <=> UsedBlocks(size) > Direct

OneOwner(secs, dsk) ==
    \A f, g \in Files, j, k \in Places :
        Place(secs[f], dsk, j) = Place(secs[g], dsk, k) /\ Place(secs[f], dsk, j) # 0
            => f = g /\ j = k

MarkedIfOwned(secs, dsk, bitmap) ==
    \A b \in Blocks : b \in bitmap <=> b = 0 \/ \E f \in Files, j \in Places : Place(secs[f], dsk, j) = b

Stored(sec, dsk, f, size) ==
    \A p \in 0..(size - 1) : dsk[Place(sec, dsk, p \div BLOCK_SIZE)][p % BLOCK_SIZE] = <<f, p>>

TypeOK ==
    /\ i_size \in [Files -> Nat] /\ fd_pos \in [Files -> Nat]
    /\ i_sectors \in [Files -> [0..Direct -> Blocks]]
    /\ used \in SUBSET Blocks
    /\ disk = [b \in Blocks |-> disk[b]]

FileInv ==
    /\ TypeOK
    /\ \A f \in Files : BlocksFitSize(i_sectors[f], disk, i_size[f])
    /\ OneOwner(i_sectors, disk)
    /\ MarkedIfOwned(i_sectors, disk, used)
    /\ \A f \in Files : Stored(i_sectors[f], disk, f, i_size[f])

-----------------------------------------------------------------------------
(* What file_write(f, n) puts into the places of f: the places that get a  *)
(* block, the call of block_bitmap_alloc that finds it, and all of them.   *)
NewPlaces(f, n) ==
    (IF First(f) THEN {0} ELSE {}) \union (IF Tabled(f, n) THEN {MaxBlocks} ELSE {})
        \union UsedBlocks(i_size[f])..(UsedBlocks(i_size[f] + n) - 1)

CallFor(f, n, j) ==
    IF j = 0 THEN 1
    ELSE IF j = MaxBlocks THEN Ahead(f, n)
    ELSE Ahead(f, n) + j - UsedBlocks(i_size[f]) + 1

PlaceAfter(f, n, j) ==
    IF j \in NewPlaces(f, n) THEN block_bitmap_alloc(CallFor(f, n, j))
    ELSE Place(i_sectors[f], disk, j)

Writes(f, n) == FileInv /\ f \in Files /\ n \in Nat /\ WriteAsserts(f, n)

LEMMA Sizes ==
    ASSUME NEW f, NEW n, Writes(f, n)
    PROVE  /\ i_size[f] \in Nat /\ n \in Nat
           /\ UsedBlocks(i_size[f]) \in 1..MaxBlocks
           /\ UsedBlocks(i_size[f] + n) \in UsedBlocks(i_size[f])..MaxBlocks
           /\ First(f) => i_size[f] = 0 /\ UsedBlocks(i_size[f]) = 1
           /\ Tabled(f, n) => i_sectors[f][Direct] = 0 /\ UsedBlocks(i_size[f] + n) > UsedBlocks(i_size[f])
           /\ Ahead(f, n) \in 0..2
           /\ Taken(f, n) = Ahead(f, n) + UsedBlocks(i_size[f] + n) - UsedBlocks(i_size[f])
           /\ Taken(f, n) \in 0..Cardinality(Free)
<1>1. i_size[f] \in Nat /\ n \in Nat /\ BlocksFitSize(i_sectors[f], disk, i_size[f])
  BY DEF Writes, FileInv, TypeOK
<1>2. /\ UsedBlocks(i_size[f]) \in Nat \ {0} /\ UsedBlocks(i_size[f] + n) \in Nat \ {0}
      /\ UsedBlocks(i_size[f]) <= UsedBlocks(i_size[f] + n)
      /\ i_size[f] = 0 => UsedBlocks(i_size[f]) = 1
  BY <1>1, UsedBlocksFacts
<1>3. /\ UsedBlocks(i_size[f] + n) <= MaxBlocks
      /\ Taken(f, n) <= Cardinality(Free)
      /\ Tabled(f, n) => i_sectors[f][Direct] = 0
  BY DEF Writes, WriteAsserts, Free
<1>4. First(f) => i_size[f] = 0
  BY <1>1 DEF First, BlocksFitSize
<1>5. Ahead(f, n) \in 0..2
  BY DEF Ahead
<1>6. Taken(f, n) = Ahead(f, n) + UsedBlocks(i_size[f] + n) - UsedBlocks(i_size[f])
  BY DEF Taken
<1>7. Tabled(f, n) => UsedBlocks(i_size[f] + n) > UsedBlocks(i_size[f])
  BY <1>2, Bounds DEF Tabled
<1>8. Cardinality(Free) \in Nat
  <2>1. Free \subseteq 0..NBlocks /\ IsFiniteSet(0..NBlocks)
    BY FS_Interval, Bounds DEF Free, Blocks
  <2> QED
    BY <2>1, FS_Subset, FS_CardinalityType
<1> QED
  BY <1>1, <1>2, <1>3, <1>4, <1>5, <1>6, <1>7, <1>8, Bounds

LEMMA CallFacts ==
    ASSUME NEW f, NEW n, Writes(f, n)
    PROVE  /\ \A j \in NewPlaces(f, n) : j \in Places /\ CallFor(f, n, j) \in 1..Taken(f, n)
           /\ \A j, k \in NewPlaces(f, n) : CallFor(f, n, j) = CallFor(f, n, k) => j = k
           /\ \A k \in 1..Taken(f, n) : \E j \in NewPlaces(f, n) : CallFor(f, n, j) = k
<1> DEFINE has == UsedBlocks(i_size[f])
           will == UsedBlocks(i_size[f] + n)
           ahead == Ahead(f, n)
           new == NewPlaces(f, n)
<1>1. /\ has \in 1..MaxBlocks /\ will \in has..MaxBlocks /\ ahead \in 0..2
      /\ First(f) => has = 1
      /\ Tabled(f, n) => will > has
      /\ Taken(f, n) = ahead + will - has
  BY Sizes
<1>2. ahead = (IF First(f) THEN 1 ELSE 0) + (IF Tabled(f, n) THEN 1 ELSE 0)
  BY DEF Ahead
<1>3. \A j : j \in new <=> \/ First(f) /\ j = 0
                           \/ Tabled(f, n) /\ j = MaxBlocks
                           \/ j \in has..(will - 1)
  BY DEF NewPlaces
<1>4. \A j : CallFor(f, n, j) = IF j = 0 THEN 1 ELSE IF j = MaxBlocks THEN ahead ELSE ahead + j - has + 1
  BY DEF CallFor
<1> HIDE DEF has, will, ahead, new
<1>5. MaxBlocks \in Nat \ {0}
  BY Bounds
<1>6. ASSUME NEW j \in new PROVE j \in Places /\ CallFor(f, n, j) \in 1..Taken(f, n)
  BY <1>1, <1>2, <1>3, <1>4, <1>5 DEF Places
<1>7. ASSUME NEW j \in new, NEW k \in new, CallFor(f, n, j) = CallFor(f, n, k) PROVE j = k
  <2> DEFINE Kinds(i) == \/ i = 0 /\ First(f) /\ CallFor(f, n, i) = 1
                         \/ i = MaxBlocks /\ Tabled(f, n) /\ CallFor(f, n, i) = ahead
                         \/ i \in has..(will - 1) /\ CallFor(f, n, i) = ahead + i - has + 1
  <2>1. ASSUME NEW i \in new PROVE Kinds(i)
    BY <1>1, <1>3, <1>4, <1>5
  <2>2. Kinds(j) /\ Kinds(k)
    BY <2>1
  <2>3. /\ First(f) => ahead >= 1
        /\ First(f) /\ Tabled(f, n) => ahead = 2
    BY <1>2
  <2> HIDE <1>3, <1>4
  <2> QED
    BY <2>2, <2>3, <1>1, <1>5, <1>7
<1>8. ASSUME NEW k \in 1..Taken(f, n) PROVE \E j \in new : CallFor(f, n, j) = k
  <2>1. CASE First(f) /\ k = 1
    <3>1. 0 \in new /\ CallFor(f, n, 0) = k
      BY <2>1, <1>3, <1>4
    <3> QED
      BY <3>1
  <2>2. CASE Tabled(f, n) /\ k = ahead
    <3>1. MaxBlocks \in new /\ CallFor(f, n, MaxBlocks) = k
      BY <2>2, <1>3, <1>4, <1>5
    <3> QED
      BY <3>1
  <2>3. CASE k > ahead
    <3>1. k - ahead - 1 + has \in has..(will - 1) /\ k - ahead - 1 + has # 0 /\ k - ahead - 1 + has # MaxBlocks
      BY <2>3, <1>1, <1>8
    <3>2. CallFor(f, n, k - ahead - 1 + has) = k
      BY <3>1, <1>4, <1>1, <1>8
    <3> QED
      BY <3>1, <3>2, <1>3
  <2> QED
    BY <2>1, <2>2, <2>3, <1>1, <1>2, <1>8
<1> QED
  BY <1>6, <1>7, <1>8 DEF new

(* The new blocks are free ones, and different from each other. *)
LEMMA NewBlocks ==
    ASSUME NEW f, NEW n, Writes(f, n)
    PROVE  /\ \A j \in NewPlaces(f, n) : PlaceAfter(f, n, j) \in Free
           /\ \A j, k \in NewPlaces(f, n) : PlaceAfter(f, n, j) = PlaceAfter(f, n, k) => j = k
           /\ \A b : b \in Alloc(f, n).taken <=> \E j \in NewPlaces(f, n) : PlaceAfter(f, n, j) = b
<1>1. \A j \in NewPlaces(f, n) : PlaceAfter(f, n, j) = block_bitmap_alloc(CallFor(f, n, j))
  BY DEF PlaceAfter
<1>2. Taken(f, n) \in 0..Cardinality(Free) /\ Cardinality(Free) \in Nat
  <2>1. Free \subseteq 0..NBlocks /\ IsFiniteSet(0..NBlocks)
    BY FS_Interval, Bounds DEF Free, Blocks
  <2> QED
    BY <2>1, Sizes, FS_Subset, FS_CardinalityType
<1>3. \A k \in 1..Taken(f, n) : k \in 1..Cardinality(Free)
  BY <1>2
<1>4. \A j \in NewPlaces(f, n) : CallFor(f, n, j) \in 1..Cardinality(Free)
  BY <1>3, CallFacts
<1>5. \A j \in NewPlaces(f, n) : PlaceAfter(f, n, j) \in Free
  BY <1>1, <1>4, AllocFacts
<1>6. ASSUME NEW j \in NewPlaces(f, n), NEW k \in NewPlaces(f, n), PlaceAfter(f, n, j) = PlaceAfter(f, n, k)
      PROVE  j = k
  <2>1. CallFor(f, n, j) = CallFor(f, n, k)
    BY <1>1, <1>4, <1>6, AllocDistinct
  <2> QED
    BY <2>1, CallFacts
<1>7. Alloc(f, n).taken = {block_bitmap_alloc(k) : k \in 1..Taken(f, n)}
  BY DEF Alloc
<1>8. ASSUME NEW b
      PROVE  b \in Alloc(f, n).taken <=> \E j \in NewPlaces(f, n) : PlaceAfter(f, n, j) = b
  <2>1. ASSUME b \in Alloc(f, n).taken PROVE \E j \in NewPlaces(f, n) : PlaceAfter(f, n, j) = b
    <3>1. PICK k \in 1..Taken(f, n) : b = block_bitmap_alloc(k)
      BY <1>7, <2>1
    <3>2. PICK j \in NewPlaces(f, n) : CallFor(f, n, j) = k
      BY CallFacts
    <3> QED
      BY <3>1, <3>2, <1>1
  <2>2. ASSUME NEW j \in NewPlaces(f, n), PlaceAfter(f, n, j) = b PROVE b \in Alloc(f, n).taken
    BY <1>1, <1>7, <2>2, CallFacts
  <2> QED
    BY <2>1, <2>2
<1> QED
  BY <1>5, <1>6, <1>8

(* What Alloc computes, in terms of the places. *)
LEMMA AllocFields ==
    ASSUME NEW f, NEW n, Writes(f, n)
    PROVE  /\ Alloc(f, n).sects \in [0..Direct -> Blocks]
           /\ \A j \in 0..(Direct - 1) : Alloc(f, n).sects[j] = PlaceAfter(f, n, j)
           /\ Alloc(f, n).sects[Direct] = PlaceAfter(f, n, MaxBlocks)
           /\ \A j \in (UsedBlocks(i_size[f]) - 1)..(UsedBlocks(i_size[f] + n) - 1) :
                 Alloc(f, n).blocks[j] = PlaceAfter(f, n, j)
           /\ UsedBlocks(i_size[f] + n) > Direct => \A j \in Direct..(MaxBlocks - 1) :
                 Alloc(f, n).blocks[j] = PlaceAfter(f, n, j)
           /\ Alloc(f, n).table = IF /\ UsedBlocks(i_size[f] + n) > UsedBlocks(i_size[f])
                                     /\ UsedBlocks(i_size[f] + n) > Direct
                                  THEN PlaceAfter(f, n, MaxBlocks) ELSE 0
<1> DEFINE has == UsedBlocks(i_size[f])
           will == UsedBlocks(i_size[f] + n)
           ahead == Ahead(f, n)
           sec == i_sectors[f]
           sects == [i \in 0..Direct |->
                      IF i = 0 /\ First(f) THEN block_bitmap_alloc(1)
                      ELSE IF i = Direct /\ Tabled(f, n) THEN block_bitmap_alloc(ahead)
                      ELSE IF i \in has..(will - 1) /\ i < Direct THEN block_bitmap_alloc(ahead + i - has + 1)
                      ELSE sec[i]]
           blocks == [i \in 0..(MaxBlocks - 1) |->
                      IF i \in has..(will - 1) THEN block_bitmap_alloc(ahead + i - has + 1)
                      ELSE IF i = has - 1 /\ i < Direct THEN sects[i]
                      ELSE IF i >= Direct /\ has > Direct THEN disk[sects[Direct]][i - Direct][2]
                      ELSE 0]
<1>1. /\ Alloc(f, n).sects = sects
      /\ Alloc(f, n).blocks = blocks
      /\ Alloc(f, n).table = IF will > has /\ will > Direct THEN sects[Direct] ELSE 0
  BY DEF Alloc
<1>2. /\ has \in 1..MaxBlocks /\ will \in has..MaxBlocks
      /\ First(f) => has = 1
      /\ Tabled(f, n) => will > has
      /\ Direct \in Nat \ {0} /\ MaxBlocks \in Nat /\ Direct < MaxBlocks
  BY Sizes, Bounds
<1>3. \A j : j \in NewPlaces(f, n) <=> \/ First(f) /\ j = 0
                                       \/ Tabled(f, n) /\ j = MaxBlocks
                                       \/ j \in has..(will - 1)
  BY DEF NewPlaces
<1>4. \A j : CallFor(f, n, j) = IF j = 0 THEN 1 ELSE IF j = MaxBlocks THEN ahead ELSE ahead + j - has + 1
  BY DEF CallFor
<1>5. \A j : PlaceAfter(f, n, j) = IF j \in NewPlaces(f, n) THEN block_bitmap_alloc(CallFor(f, n, j))
                                  ELSE Place(sec, disk, j)
  BY DEF PlaceAfter
<1>6. /\ \A j \in 0..(Direct - 1) : Place(sec, disk, j) = sec[j]
      /\ Place(sec, disk, MaxBlocks) = sec[Direct]
      /\ \A j \in Direct..(MaxBlocks - 1) :
            Place(sec, disk, j) = IF sec[Direct] = 0 THEN 0 ELSE disk[sec[Direct]][j - Direct][2]
  BY <1>2 DEF Place
<1>7. /\ sec[Direct] # 0 <=> has > Direct
      /\ \A j \in Places : Place(sec, disk, j) \in Blocks
  BY DEF Writes, FileInv, BlocksFitSize
<1>8. Tabled(f, n) <=> has <= Direct /\ will > Direct
  BY DEF Tabled
<1> HIDE DEF has, will, ahead, sec
<1>9. ASSUME NEW j \in 0..(Direct - 1) PROVE sects[j] = PlaceAfter(f, n, j)
  <2>0. j \in 0..Direct /\ j < Direct /\ j # Direct /\ j # MaxBlocks
    BY <1>2
  <2>1. CASE j = 0 /\ First(f)
    BY <2>0, <2>1, <1>3, <1>4, <1>5
  <2>2. CASE ~(j = 0 /\ First(f)) /\ j \in has..(will - 1)
    <3>1. j # 0
      BY <2>2, <1>2
    <3> QED
      BY <2>0, <2>2, <3>1, <1>3, <1>4, <1>5
  <2>3. CASE ~(j = 0 /\ First(f)) /\ j \notin has..(will - 1)
    BY <2>0, <2>3, <1>3, <1>5, <1>6
  <2> QED
    BY <2>1, <2>2, <2>3
<1>10. sects[Direct] = PlaceAfter(f, n, MaxBlocks)
  BY <1>2, <1>3, <1>4, <1>5, <1>6
<1>11. \A j \in Places : PlaceAfter(f, n, j) \in Blocks
  BY <1>5, <1>7, NewBlocks DEF Free
<1>12. sects \in [0..Direct -> Blocks]
  <2>1. ASSUME NEW j \in 0..Direct PROVE sects[j] \in Blocks
    <3>1. CASE j = Direct
      BY <3>1, <1>10, <1>11, <1>2 DEF Places
    <3>2. CASE j \in 0..(Direct - 1)
      <4>1. j \in Places
        BY <3>2, <1>2 DEF Places
      <4>2. sects[j] = PlaceAfter(f, n, j)
        BY <1>9, <3>2
      <4> QED
        BY <4>1, <4>2, <1>11
    <3> QED
      BY <3>1, <3>2, <1>2
  <2>2. sects = [j \in 0..Direct |-> sects[j]]
    OBVIOUS
  <2> HIDE DEF sects
  <2> QED
    BY <2>1, <2>2
<1>13. ASSUME NEW j \in Direct..(MaxBlocks - 1), will > Direct PROVE blocks[j] = PlaceAfter(f, n, j)
  <2>0. j \in 0..(MaxBlocks - 1) /\ j >= Direct /\ ~(j < Direct)
    BY <1>2
  <2>1. CASE j \in has..(will - 1)
    <3>1. blocks[j] = block_bitmap_alloc(ahead + j - has + 1)
      <4> HIDE DEF sects
      <4> QED
        BY <2>0, <2>1
    <3>2. j \in NewPlaces(f, n) /\ j # 0 /\ j # MaxBlocks
      BY <2>0, <2>1, <1>2, <1>3
    <3> HIDE DEF blocks
    <3> QED
      BY <3>1, <3>2, <1>4, <1>5
  <2>2. CASE j \notin has..(will - 1)
    <3>1. PlaceAfter(f, n, j) = IF sec[Direct] = 0 THEN 0 ELSE disk[sec[Direct]][j - Direct][2]
      BY <2>0, <2>2, <1>2, <1>3, <1>5, <1>6
    <3>2. CASE has > Direct
      <4>1. sects[Direct] = sec[Direct]
        BY <3>2, <1>2, <1>8
      <4>2. blocks[j] = disk[sects[Direct]][j - Direct][2]
        <5> HIDE DEF sects
        <5> QED
          BY <2>0, <2>2, <3>2
      <4> QED
        BY <3>1, <3>2, <4>1, <4>2, <1>7
    <3>3. CASE ~(has > Direct)
      <4>1. blocks[j] = 0
        <5> HIDE DEF sects
        <5> QED
          BY <2>0, <2>2, <3>3
      <4> QED
        BY <3>1, <3>3, <4>1, <1>7
    <3> QED
      BY <3>2, <3>3
  <2> QED
    BY <2>1, <2>2
<1>14. ASSUME NEW j \in (has - 1)..(will - 1) PROVE blocks[j] = PlaceAfter(f, n, j)
  <2>0. j \in 0..(MaxBlocks - 1)
    BY <1>2
  <2>1. CASE j \in has..(will - 1)
    <3>1. blocks[j] = block_bitmap_alloc(ahead + j - has + 1)
      <4> HIDE DEF sects
      <4> QED
        BY <2>0, <2>1
    <3>2. j \in NewPlaces(f, n) /\ j # 0 /\ j # MaxBlocks
      BY <2>0, <2>1, <1>2, <1>3
    <3> HIDE DEF blocks
    <3> QED
      BY <3>1, <3>2, <1>4, <1>5
  <2>2. CASE j = has - 1 /\ j < Direct
    <3>1. blocks[j] = sects[j]
      <4> HIDE DEF sects
      <4> QED
        BY <2>0, <2>2, <1>2
    <3>2. j \in 0..(Direct - 1)
      BY <2>0, <2>2, <1>2
    <3> HIDE DEF sects, blocks
    <3> QED
      BY <3>1, <3>2, <1>9
  <2>3. CASE j = has - 1 /\ j >= Direct
    <3>1. j \in Direct..(MaxBlocks - 1) /\ will > Direct
      BY <2>0, <2>3, <1>2
    <3> HIDE DEF sects, blocks
    <3> QED
      BY <3>1, <1>13
  <2>4. \/ j \in has..(will - 1)
        \/ j = has - 1 /\ j < Direct
        \/ j = has - 1 /\ j >= Direct
    BY <2>0, <1>2
  <2> HIDE DEF sects, blocks
  <2> QED
    BY <2>1, <2>2, <2>3, <2>4
<1> HIDE DEF sects, blocks
<1> QED
  BY <1>1, <1>9, <1>10, <1>12, <1>13, <1>14 DEF has, will

(* Every place of f has its own block, and no place of another file has it. *)
LEMMA AfterDistinct ==
    ASSUME NEW f, NEW n, Writes(f, n)
    PROVE  /\ \A j \in Places : PlaceAfter(f, n, j) \in Blocks
           /\ \A j, k \in Places : PlaceAfter(f, n, j) = PlaceAfter(f, n, k) /\ PlaceAfter(f, n, j) # 0 => j = k
           /\ \A g \in Files, j, k \in Places :
                 g # f /\ Place(i_sectors[g], disk, k) # 0 => PlaceAfter(f, n, j) # Place(i_sectors[g], disk, k)
<1>1. /\ \A j \in NewPlaces(f, n) : PlaceAfter(f, n, j) \in Free
      /\ \A j, k \in NewPlaces(f, n) : PlaceAfter(f, n, j) = PlaceAfter(f, n, k) => j = k
  BY NewBlocks
<1>2. \A j : j \notin NewPlaces(f, n) => PlaceAfter(f, n, j) = Place(i_sectors[f], disk, j)
  BY DEF PlaceAfter
<1>3. /\ f \in Files
      /\ \A g \in Files, j \in Places : Place(i_sectors[g], disk, j) \in Blocks
      /\ \A g \in Files, j \in Places : Place(i_sectors[g], disk, j) \in used
  BY DEF Writes, FileInv, BlocksFitSize, MarkedIfOwned
<1>4. \A g, h \in Files, j, k \in Places :
          Place(i_sectors[g], disk, j) = Place(i_sectors[h], disk, k) /\ Place(i_sectors[g], disk, j) # 0
            => g = h /\ j = k
  BY DEF Writes, FileInv, OneOwner
<1>5. \A b \in Free : b \in Blocks /\ b \notin used
  BY DEF Free
<1> QED
  BY <1>1, <1>2, <1>3, <1>4, <1>5

(* The places of f fit the new size. *)
LEMMA AfterFits ==
    ASSUME NEW f, NEW n, Writes(f, n)
    PROVE  /\ PlaceAfter(f, n, 0) # 0
           /\ \A j \in 1..(MaxBlocks - 1) : PlaceAfter(f, n, j) # 0 <=> j < UsedBlocks(i_size[f] + n)
           /\ PlaceAfter(f, n, MaxBlocks) # 0 <=> UsedBlocks(i_size[f] + n) > Direct
<1> DEFINE has == UsedBlocks(i_size[f])
           will == UsedBlocks(i_size[f] + n)
<1>1. /\ has \in 1..MaxBlocks /\ will \in has..MaxBlocks
      /\ Direct \in Nat \ {0} /\ MaxBlocks \in Nat /\ Direct < MaxBlocks
  BY Sizes, Bounds
<1>2. \A j : j \in NewPlaces(f, n) <=> \/ First(f) /\ j = 0
                                       \/ Tabled(f, n) /\ j = MaxBlocks
                                       \/ j \in has..(will - 1)
  BY DEF NewPlaces
<1>3. \A j : j \notin NewPlaces(f, n) => PlaceAfter(f, n, j) = Place(i_sectors[f], disk, j)
  BY DEF PlaceAfter
<1>4. \A j \in NewPlaces(f, n) : PlaceAfter(f, n, j) # 0
  <2>1. 0 \notin Free
    BY Bounds DEF Writes, FileInv, MarkedIfOwned, Free
  <2> QED
    BY <2>1, NewBlocks
<1>5. /\ i_sectors[f][Direct] # 0 <=> has > Direct
      /\ \A j \in 1..(MaxBlocks - 1) : Place(i_sectors[f], disk, j) # 0 <=> j < has
  BY DEF Writes, FileInv, BlocksFitSize
<1>6. Tabled(f, n) <=> has <= Direct /\ will > Direct
  BY DEF Tabled
<1>7. First(f) <=> i_sectors[f][0] = 0
  BY DEF First
<1>8. /\ Place(i_sectors[f], disk, 0) = i_sectors[f][0]
      /\ Place(i_sectors[f], disk, MaxBlocks) = i_sectors[f][Direct]
  BY <1>1 DEF Place
<1> HIDE DEF has, will
<1>9. PlaceAfter(f, n, 0) # 0
  BY <1>1, <1>2, <1>3, <1>4, <1>7, <1>8
<1>10. ASSUME NEW j \in 1..(MaxBlocks - 1) PROVE PlaceAfter(f, n, j) # 0 <=> j < will
  <2>1. CASE j \in NewPlaces(f, n)
    <3>1. j < will
      BY <2>1, <1>1, <1>2
    <3> QED
      BY <2>1, <3>1, <1>4
  <2>2. CASE j \notin NewPlaces(f, n)
    <3>1. ~(j \in has..(will - 1))
      BY <2>2, <1>2
    <3>2. j < will <=> j < has
      BY <3>1, <1>1
    <3> QED
      BY <2>2, <3>2, <1>3, <1>5
  <2> QED
    BY <2>1, <2>2
<1>11. PlaceAfter(f, n, MaxBlocks) # 0 <=> will > Direct
  <2>1. CASE Tabled(f, n)
    BY <2>1, <1>2, <1>4, <1>6
  <2>2. CASE ~Tabled(f, n)
    <3>1. MaxBlocks \notin NewPlaces(f, n)
      BY <2>2, <1>1, <1>2
    <3> QED
      BY <3>1, <2>2, <1>1, <1>3, <1>5, <1>6, <1>8
  <2> QED
    BY <2>1, <2>2
<1> QED
  BY <1>9, <1>10, <1>11 DEF will

(* The sectors that the bytes go to, and what they hold afterwards *)
FileSectors(f, n) == {p \div BLOCK_SIZE : p \in i_size[f]..(i_size[f] + n - 1)}

Filled(f, n, s) ==
    [i \in 0..(BLOCK_SIZE - 1) |->
        IF s * BLOCK_SIZE + i \in i_size[f]..(i_size[f] + n - 1) THEN <<f, s * BLOCK_SIZE + i>>
        ELSE IF s = i_size[f] \div BLOCK_SIZE THEN disk[PlaceAfter(f, n, s)][i] ELSE <<Nobody, 0>>]

LEMMA SectorFacts ==
    ASSUME NEW f, NEW n, Writes(f, n)
    PROVE  FileSectors(f, n) \subseteq (UsedBlocks(i_size[f]) - 1)..(UsedBlocks(i_size[f] + n) - 1)
<1>1. i_size[f] \in Nat /\ n \in Nat /\ BLOCK_SIZE \in Nat \ {0}
  BY Sizes, Bounds
<1> SUFFICES ASSUME NEW p \in i_size[f]..(i_size[f] + n - 1)
             PROVE  p \div BLOCK_SIZE \in (UsedBlocks(i_size[f]) - 1)..(UsedBlocks(i_size[f] + n) - 1)
  BY DEF FileSectors
<1>2. p \in Nat /\ i_size[f] <= p /\ p <= i_size[f] + n /\ i_size[f] + n \in Nat
  BY <1>1
<1>3. i_size[f] \div BLOCK_SIZE <= p \div BLOCK_SIZE /\ p \div BLOCK_SIZE <= (i_size[f] + n) \div BLOCK_SIZE
  BY <1>1, <1>2, DivisionMonotonic
<1>4. /\ i_size[f] \div BLOCK_SIZE \in Nat /\ p \div BLOCK_SIZE \in Nat
      /\ (i_size[f] + n) \div BLOCK_SIZE \in Nat
  BY <1>1, <1>2, DivisionFacts
<1> QED
  BY <1>3, <1>4 DEF UsedBlocks

LEMMA DiskAfter ==
    ASSUME NEW f, NEW n, Writes(f, n), NEW dsk, dsk = disk_after(f, n, Alloc(f, n))
    PROVE  /\ dsk = [b \in Blocks |-> dsk[b]]
           /\ \A s \in FileSectors(f, n) : dsk[PlaceAfter(f, n, s)] = Filled(f, n, s)
           /\ UsedBlocks(i_size[f] + n) > UsedBlocks(i_size[f]) /\ UsedBlocks(i_size[f] + n) > Direct =>
                 \A i \in 0..(Indirect - 1) :
                    dsk[PlaceAfter(f, n, MaxBlocks)][i] = <<Nobody, PlaceAfter(f, n, Direct + i)>>
           /\ \A b \in Blocks :
                 \/ \E s \in FileSectors(f, n) : b = PlaceAfter(f, n, s)
                 \/ /\ UsedBlocks(i_size[f] + n) > UsedBlocks(i_size[f])
                    /\ UsedBlocks(i_size[f] + n) > Direct /\ b = PlaceAfter(f, n, MaxBlocks)
                 \/ dsk[b] = disk[b]
<1> DEFINE has == UsedBlocks(i_size[f])
           will == UsedBlocks(i_size[f] + n)
           size == i_size[f]
           a == Alloc(f, n)
           P(j) == PlaceAfter(f, n, j)
           secs == FileSectors(f, n)
           At(s) == [i \in 0..(BLOCK_SIZE - 1) |->
                     IF s * BLOCK_SIZE + i \in size..(size + n - 1) THEN <<f, s * BLOCK_SIZE + i>>
                     ELSE IF s = size \div BLOCK_SIZE THEN disk[a.blocks[s]][i] ELSE <<Nobody, 0>>]
<1>1. dsk = [b \in Blocks |->
            IF \E s \in secs : a.blocks[s] = b THEN At(CHOOSE s \in secs : a.blocks[s] = b)
            ELSE IF b # 0 /\ b = a.table THEN [i \in 0..(Indirect - 1) |-> <<Nobody, a.blocks[Direct + i]>>]
            ELSE disk[b]]
  BY DEF disk_after, FileSectors
<1>2. /\ has \in 1..MaxBlocks /\ will \in has..MaxBlocks /\ secs \subseteq (has - 1)..(will - 1)
      /\ Direct \in Nat \ {0} /\ Indirect \in Nat \ {0} /\ MaxBlocks = Direct + Indirect
  BY Sizes, Bounds, SectorFacts
<1>3. /\ \A j \in (has - 1)..(will - 1) : a.blocks[j] = P(j)
      /\ will > Direct => \A j \in Direct..(MaxBlocks - 1) : a.blocks[j] = P(j)
      /\ a.table = IF will > has /\ will > Direct THEN P(MaxBlocks) ELSE 0
  BY AllocFields
<1>4. /\ \A j \in Places : P(j) \in Blocks
      /\ \A j, k \in Places : P(j) = P(k) /\ P(j) # 0 => j = k
  BY AfterDistinct
<1>5. /\ P(0) # 0
      /\ \A j \in 1..(MaxBlocks - 1) : P(j) # 0 <=> j < will
      /\ P(MaxBlocks) # 0 <=> will > Direct
  BY AfterFits
<1>6. \A s \in secs : /\ s \in Places /\ s # MaxBlocks /\ a.blocks[s] = P(s) /\ P(s) # 0 /\ P(s) \in Blocks
  <2> SUFFICES ASSUME NEW s \in secs
               PROVE  s \in Places /\ s # MaxBlocks /\ a.blocks[s] = P(s) /\ P(s) # 0 /\ P(s) \in Blocks
    OBVIOUS
  <2> HIDE DEF secs, has, will, P, a
  <2>1. s \in (has - 1)..(will - 1)
    BY <1>2
  <2>2. s \in Places /\ s # MaxBlocks /\ s < will /\ (s = 0 \/ s \in 1..(MaxBlocks - 1))
    BY <2>1, <1>2 DEF Places
  <2> QED
    BY <2>1, <2>2, <1>3, <1>4, <1>5
<1>7. \A s \in secs : At(s) = Filled(f, n, s)
  <2> SUFFICES ASSUME NEW s \in secs PROVE At(s) = Filled(f, n, s)
    OBVIOUS
  <2>1. a.blocks[s] = P(s)
    BY <1>6
  <2> HIDE DEF a
  <2> QED
    BY <2>1 DEF Filled
<1> HIDE DEF At, P, a, secs, has, will
<1>8. dsk = [b \in Blocks |-> dsk[b]]
  BY <1>1
<1>9. ASSUME NEW s \in secs PROVE dsk[P(s)] = Filled(f, n, s)
  <2>1. PICK t \in secs : t = CHOOSE r \in secs : a.blocks[r] = P(s)
    BY <1>6
  <2>2. a.blocks[t] = P(s)
    BY <2>1, <1>6
  <2>3. t = s
    BY <2>2, <1>6, <1>4
  <2>4. dsk[P(s)] = At(t)
    BY <1>1, <1>6, <2>1
  <2> QED
    BY <2>3, <2>4, <1>7
<1>10. ASSUME will > has, will > Direct, NEW i \in 0..(Indirect - 1)
       PROVE  dsk[P(MaxBlocks)][i] = <<Nobody, P(Direct + i)>>
  <2>1. P(MaxBlocks) # 0 /\ P(MaxBlocks) \in Blocks /\ a.table = P(MaxBlocks) /\ MaxBlocks \in Places
    BY <1>10, <1>2, <1>3, <1>4, <1>5 DEF Places
  <2>2. ~ \E s \in secs : a.blocks[s] = P(MaxBlocks)
    BY <2>1, <1>4, <1>6
  <2>3. dsk[P(MaxBlocks)] = [j \in 0..(Indirect - 1) |-> <<Nobody, a.blocks[Direct + j]>>]
    BY <2>1, <2>2, <1>1
  <2>4. Direct + i \in Direct..(MaxBlocks - 1)
    BY <1>2
  <2>5. a.blocks[Direct + i] = P(Direct + i)
    BY <2>4, <1>3, <1>10
  <2> QED
    BY <2>3, <2>5
<1>11. ASSUME NEW b \in Blocks
       PROVE  \/ \E s \in secs : b = P(s)
              \/ will > has /\ will > Direct /\ b = P(MaxBlocks)
              \/ dsk[b] = disk[b]
  BY <1>1, <1>3, <1>6
<1> QED
  BY <1>8, <1>9, <1>10, <1>11 DEF P, secs, has, will

(* Nothing of another file is touched ... *)
LEMMA OthersKept ==
    ASSUME NEW f, NEW n, Writes(f, n), NEW dsk, dsk = disk_after(f, n, Alloc(f, n)),
           NEW g \in Files, g # f
    PROVE  /\ \A j \in Places : Place(i_sectors[g], disk, j) # 0 =>
                 dsk[Place(i_sectors[g], disk, j)] = disk[Place(i_sectors[g], disk, j)]
           /\ \A j \in Places : Place(i_sectors[g], dsk, j) = Place(i_sectors[g], disk, j)
<1>1. FileSectors(f, n) \subseteq Places /\ MaxBlocks \in Places
  <2>1. /\ UsedBlocks(i_size[f]) \in 1..MaxBlocks
        /\ UsedBlocks(i_size[f] + n) \in UsedBlocks(i_size[f])..MaxBlocks /\ MaxBlocks \in Nat
    BY Sizes, Bounds
  <2>2. FileSectors(f, n) \subseteq (UsedBlocks(i_size[f]) - 1)..(UsedBlocks(i_size[f] + n) - 1)
    BY SectorFacts
  <2> HIDE <2>2
  <2>3. (UsedBlocks(i_size[f]) - 1)..(UsedBlocks(i_size[f] + n) - 1) \subseteq Places
    BY <2>1 DEF Places
  <2> QED
    BY <2>1, <2>2, <2>3 DEF Places
<1>2. ASSUME NEW j \in Places, Place(i_sectors[g], disk, j) # 0
      PROVE  dsk[Place(i_sectors[g], disk, j)] = disk[Place(i_sectors[g], disk, j)]
  <2>1. \A k \in Places : PlaceAfter(f, n, k) # Place(i_sectors[g], disk, j)
    BY <1>2, AfterDistinct
  <2>2. Place(i_sectors[g], disk, j) \in Blocks
    BY DEF Writes, FileInv, BlocksFitSize
  <2> QED
    BY <1>1, <2>1, <2>2, DiskAfter
<1>3. ASSUME NEW j \in Places PROVE Place(i_sectors[g], dsk, j) = Place(i_sectors[g], disk, j)
  <2>1. CASE i_sectors[g][Direct] = 0
    BY <2>1 DEF Place
  <2>2. CASE i_sectors[g][Direct] # 0
    <3>1. Place(i_sectors[g], disk, MaxBlocks) = i_sectors[g][Direct]
      BY DEF Place
    <3>2. dsk[i_sectors[g][Direct]] = disk[i_sectors[g][Direct]]
      BY <1>1, <1>2, <2>2, <3>1
    <3> QED
      BY <3>2 DEF Place
  <2> QED
    BY <2>1, <2>2
<1> QED
  BY <1>2, <1>3

(* ... and f has the places that were worked out. *)
LEMMA PlacesAfter ==
    ASSUME NEW f, NEW n, Writes(f, n), NEW dsk, dsk = disk_after(f, n, Alloc(f, n)), NEW j \in Places
    PROVE  Place(Alloc(f, n).sects, dsk, j) = PlaceAfter(f, n, j)
<1> DEFINE has == UsedBlocks(i_size[f])
           will == UsedBlocks(i_size[f] + n)
           sects == Alloc(f, n).sects
<1>1. /\ has \in 1..MaxBlocks /\ will \in has..MaxBlocks
      /\ Direct \in Nat \ {0} /\ Indirect \in Nat \ {0} /\ MaxBlocks = Direct + Indirect
  BY Sizes, Bounds
<1>2. /\ \A i \in 0..(Direct - 1) : sects[i] = PlaceAfter(f, n, i)
      /\ sects[Direct] = PlaceAfter(f, n, MaxBlocks)
  BY AllocFields
<1>3. /\ \A i \in 1..(MaxBlocks - 1) : PlaceAfter(f, n, i) # 0 <=> i < will
      /\ PlaceAfter(f, n, MaxBlocks) # 0 <=> will > Direct
  BY AfterFits
<1>4. Place(sects, dsk, j) =
        IF j = MaxBlocks THEN sects[Direct]
        ELSE IF j < Direct THEN sects[j]
        ELSE IF sects[Direct] = 0 THEN 0 ELSE dsk[sects[Direct]][j - Direct][2]
  BY DEF Place
<1> SUFFICES Place(sects, dsk, j) = PlaceAfter(f, n, j)
  OBVIOUS
<1> HIDE DEF has, will, sects
<1>5. CASE j = MaxBlocks
  BY <1>2, <1>4, <1>5
<1>6. CASE j \in 0..(Direct - 1)
  BY <1>1, <1>2, <1>4, <1>6
<1>7. CASE j \in Direct..(MaxBlocks - 1) /\ will <= Direct
  BY <1>1, <1>2, <1>3, <1>4, <1>7
<1>8. CASE j \in Direct..(MaxBlocks - 1) /\ will > Direct
  <2>1. Place(sects, dsk, j) = dsk[PlaceAfter(f, n, MaxBlocks)][j - Direct][2]
    BY <1>1, <1>2, <1>3, <1>4, <1>8
  <2>2. CASE will > has
    <3>1. j - Direct \in 0..(Indirect - 1) /\ Direct + (j - Direct) = j
      BY <1>1, <1>8
    <3>2. dsk[PlaceAfter(f, n, MaxBlocks)][j - Direct] = <<Nobody, PlaceAfter(f, n, Direct + (j - Direct))>>
      BY <3>1, <1>8, <2>2, DiskAfter DEF has, will
    <3> QED
      BY <2>1, <3>1, <3>2
  <2>3. CASE will = has
    <3>1. j \notin NewPlaces(f, n) /\ MaxBlocks \notin NewPlaces(f, n)
      BY <1>1, <1>8, <2>3 DEF NewPlaces, Tabled, has, will
    <3>2. /\ PlaceAfter(f, n, j) = Place(i_sectors[f], disk, j)
          /\ PlaceAfter(f, n, MaxBlocks) = Place(i_sectors[f], disk, MaxBlocks)
      BY <3>1 DEF PlaceAfter
    <3>3. PlaceAfter(f, n, MaxBlocks) = i_sectors[f][Direct] /\ i_sectors[f][Direct] # 0
      BY <3>2, <1>3, <1>8 DEF Place
    <3>4. dsk[PlaceAfter(f, n, MaxBlocks)] = disk[PlaceAfter(f, n, MaxBlocks)]
      <4>1. PlaceAfter(f, n, MaxBlocks) \in Blocks /\ MaxBlocks \in Places
        BY <1>1, AfterDistinct DEF Places
      <4>2. ASSUME NEW s \in FileSectors(f, n) PROVE PlaceAfter(f, n, MaxBlocks) # PlaceAfter(f, n, s)
        <5>1. s \in (has - 1)..(will - 1)
          BY SectorFacts DEF has, will
        <5>2. s \in Places /\ s # MaxBlocks
          BY <5>1, <1>1 DEF Places
        <5> QED
          BY <5>2, <4>1, <3>3, AfterDistinct
      <4>3. ~(UsedBlocks(i_size[f] + n) > UsedBlocks(i_size[f]))
        BY <2>3, <1>1 DEF has, will
      <4> QED
        BY <4>1, <4>2, <4>3, DiskAfter
    <3>5. Place(i_sectors[f], disk, j) = disk[i_sectors[f][Direct]][j - Direct][2]
      BY <3>3, <1>1, <1>8 DEF Place
    <3> QED
      BY <2>1, <3>2, <3>3, <3>4, <3>5
  <2> QED
    BY <2>2, <2>3, <1>1
<1> QED
  BY <1>5, <1>6, <1>7, <1>8, <1>1 DEF Places, sects

(* A byte of a file is in a block of the file. *)
LEMMA SectorInPlace ==
    ASSUME NEW sec, NEW dsk, NEW size \in Nat, BlocksFitSize(sec, dsk, size), NEW p \in 0..(size - 1)
    PROVE  /\ p \div BLOCK_SIZE \in 0..(MaxBlocks - 1)
           /\ p \div BLOCK_SIZE \in Places
           /\ p \div BLOCK_SIZE < UsedBlocks(size)
           /\ Place(sec, dsk, p \div BLOCK_SIZE) # 0
<1>1. p \in Nat /\ p <= size /\ size # 0 /\ BLOCK_SIZE \in Nat \ {0} /\ MaxBlocks \in Nat /\ Direct \in Nat \ {0}
      /\ MaxBlocks > Direct
  BY Bounds
<1>2. p \div BLOCK_SIZE <= size \div BLOCK_SIZE /\ p \div BLOCK_SIZE \in Nat /\ size \div BLOCK_SIZE \in Nat
  BY <1>1, DivisionMonotonic, DivisionFacts
<1>3. UsedBlocks(size) <= MaxBlocks /\ UsedBlocks(size) = size \div BLOCK_SIZE + 1
  BY DEF BlocksFitSize, UsedBlocks
<1>4. p \div BLOCK_SIZE \in 0..(MaxBlocks - 1) /\ p \div BLOCK_SIZE < UsedBlocks(size)
  BY <1>1, <1>2, <1>3
<1>5. p \div BLOCK_SIZE \in Places
  BY <1>1, <1>4 DEF Places
<1>6. PICK q : q = p \div BLOCK_SIZE
  OBVIOUS
<1>7. q \in 0..(MaxBlocks - 1) /\ q < UsedBlocks(size)
  BY <1>4, <1>6
<1>8. Place(sec, dsk, q) # 0
  <2>1. CASE q = 0
    <3>1. Place(sec, dsk, q) = sec[0]
      BY <1>1, <2>1 DEF Place
    <3> QED
      BY <3>1, <1>1 DEF BlocksFitSize
  <2>2. CASE q \in 1..(MaxBlocks - 1)
    BY <1>7, <2>2 DEF BlocksFitSize
  <2> QED
    BY <2>1, <2>2, <1>1, <1>7
<1> QED
  BY <1>4, <1>5, <1>6, <1>8

(* The bytes of f are in place after the write: the new ones, those in the *)
(* sector that was read first, and those in sectors that were not touched. *)
LEMMA StoredAfter ==
    ASSUME NEW f, NEW n, Writes(f, n), NEW dsk, dsk = disk_after(f, n, Alloc(f, n))
    PROVE  Stored(Alloc(f, n).sects, dsk, f, i_size[f] + n)
<1> SUFFICES ASSUME NEW p \in 0..((i_size[f] + n) - 1)
             PROVE  dsk[Place(Alloc(f, n).sects, dsk, p \div BLOCK_SIZE)][p % BLOCK_SIZE] = <<f, p>>
  BY DEF Stored
<1> DEFINE size == i_size[f]
           B == BLOCK_SIZE
<1>1. size \in Nat /\ n \in Nat /\ B \in Nat \ {0} /\ size + n \in Nat
  BY Sizes, Bounds
<1>2. /\ UsedBlocks(size) \in 1..MaxBlocks /\ UsedBlocks(size + n) \in UsedBlocks(size)..MaxBlocks
      /\ First(f) => size = 0
      /\ MaxBlocks \in Nat /\ Direct \in Nat /\ MaxBlocks > Direct
  BY Sizes, Bounds
<1> DEFINE s == p \div B
           i == p % B
<1>3. p \in Nat /\ p < size + n /\ p <= size + n
  BY <1>1
<1>4. s \in Nat /\ i \in 0..(B - 1) /\ p = s * B + i
  BY <1>1, <1>3, DivisionFacts
<1>5. s <= (size + n) \div B /\ (size + n) \div B \in Nat
  BY <1>1, <1>3, DivisionMonotonic, DivisionFacts
<1>6. s < UsedBlocks(size + n)
  BY <1>4, <1>5 DEF UsedBlocks
<1>7. s \in Places /\ s # MaxBlocks
  BY <1>2, <1>4, <1>6 DEF Places
<1>8. Place(Alloc(f, n).sects, dsk, s) = PlaceAfter(f, n, s)
  BY <1>7, PlacesAfter
<1>9. SUFFICES dsk[PlaceAfter(f, n, s)][i] = <<f, p>>
  BY <1>8
<1> HIDE DEF s, i
<1>10. CASE p >= size
  <2>1. p \in size..(size + n - 1)
    BY <1>1, <1>3, <1>10
  <2>2. s \in FileSectors(f, n)
    BY <2>1 DEF FileSectors, s
  <2>3. dsk[PlaceAfter(f, n, s)] = Filled(f, n, s)
    BY <2>2, DiskAfter
  <2>4. s * BLOCK_SIZE + i = p
    BY <1>4
  <2> QED
    BY <2>1, <2>3, <2>4, <1>4 DEF Filled
<1>11. CASE p < size
  <2>1. disk[Place(i_sectors[f], disk, s)][i] = <<f, p>>
    <3>1. p \in 0..(size - 1) /\ f \in Files
      BY <1>1, <1>3, <1>11 DEF Writes
    <3>2. Stored(i_sectors[f], disk, f, size)
      BY <3>1 DEF Writes, FileInv
    <3> QED
      BY <3>1, <3>2 DEF Stored, s, i
  <2>2. s <= size \div B /\ size \div B \in Nat
    <3>1. p <= size
      BY <1>1, <1>3, <1>11
    <3> QED
      BY <3>1, <1>1, <1>3, DivisionMonotonic, DivisionFacts DEF s
  <2>3. s < UsedBlocks(size)
    BY <2>2, <1>4 DEF UsedBlocks
  <2>4. ~First(f)
    BY <1>1, <1>2, <1>3, <1>11
  <2>5. s \notin NewPlaces(f, n)
    BY <2>3, <2>4, <1>2, <1>4, <1>7 DEF NewPlaces
  <2>6. PlaceAfter(f, n, s) = Place(i_sectors[f], disk, s)
    BY <2>5 DEF PlaceAfter
  <2>7. CASE s \in FileSectors(f, n)
    <3>1. dsk[PlaceAfter(f, n, s)] = Filled(f, n, s)
      BY <2>7, DiskAfter
    <3>2. s \in (UsedBlocks(size) - 1)..(UsedBlocks(size + n) - 1)
      BY <2>7, SectorFacts
    <3>3. s = size \div B
      BY <3>2, <2>2, <1>4 DEF UsedBlocks
    <3>4. s * BLOCK_SIZE + i = p /\ p \notin size..(size + n - 1)
      BY <1>1, <1>3, <1>4, <1>11
    <3>5. Filled(f, n, s)[i] = disk[PlaceAfter(f, n, s)][i]
      BY <3>3, <3>4, <1>4 DEF Filled
    <3> QED
      BY <3>1, <3>5, <2>1, <2>6
  <2>8. CASE s \notin FileSectors(f, n)
    <3>1. PlaceAfter(f, n, s) \in Blocks /\ PlaceAfter(f, n, s) # 0
      <4>1. s = 0 \/ s \in 1..(MaxBlocks - 1)
        BY <1>4, <1>7, <1>2 DEF Places
      <4> QED
        BY <4>1, <1>6, <1>7, AfterDistinct, AfterFits
    <3>2. ASSUME NEW t \in FileSectors(f, n) PROVE PlaceAfter(f, n, s) # PlaceAfter(f, n, t)
      <4>1. t \in (UsedBlocks(size) - 1)..(UsedBlocks(size + n) - 1)
        BY SectorFacts
      <4>2. t \in Places
        BY <4>1, <1>2 DEF Places
      <4> QED
        BY <4>2, <2>8, <3>1, <1>7, AfterDistinct
    <3>3. PlaceAfter(f, n, s) # PlaceAfter(f, n, MaxBlocks)
      <4>1. MaxBlocks \in Places
        BY <1>2 DEF Places
      <4> QED
        BY <4>1, <3>1, <1>7, AfterDistinct
    <3>4. dsk[PlaceAfter(f, n, s)] = disk[PlaceAfter(f, n, s)]
      BY <3>1, <3>2, <3>3, DiskAfter
    <3> QED
      BY <3>4, <2>1, <2>6
  <2> QED
    BY <2>7, <2>8
<1> QED
  BY <1>10, <1>11, <1>1, <1>3

LEMMA WriteKeeps ==
    ASSUME FileInv, NEW f \in Files, NEW n \in Counts, file_write(f, n)
    PROVE  FileInv'
<1>1. CASE panic
  BY <1>1 DEF panic, FileInv, TypeOK
<1>2. CASE ~panic
  <2> DEFINE a == Alloc(f, n)
  <2>1. Writes(f, n)
    BY <1>2, Bounds DEF file_write, Writes
  <2>2. /\ used' = used \union a.taken
        /\ i_sectors' = [i_sectors EXCEPT ![f] = a.sects]
        /\ disk' = disk_after(f, n, a)
        /\ i_size' = [i_size EXCEPT ![f] = @ + n]
        /\ fd_pos' = [fd_pos EXCEPT ![f] = wrap(i_size[f] - 1 + n)]
    BY <1>2 DEF file_write
  <2>3. PICK dsk : dsk = disk_after(f, n, a) /\ disk' = dsk
    BY <2>2
  <2> HIDE DEF a
  <2>4. i_size \in [Files -> Nat] /\ fd_pos \in [Files -> Nat] /\ n \in Nat
        /\ i_sectors \in [Files -> [0..Direct -> Blocks]] /\ used \in SUBSET Blocks
    BY <2>1 DEF Writes, FileInv, TypeOK
  <2>5. /\ i_size'[f] = i_size[f] + n /\ i_sectors'[f] = a.sects
        /\ \A g \in Files : g # f => i_size'[g] = i_size[g] /\ i_sectors'[g] = i_sectors[g]
    BY <2>2, <2>4
  <2>6. \A j \in Places : Place(i_sectors'[f], disk', j) = PlaceAfter(f, n, j)
    BY <2>1, <2>3, <2>5, PlacesAfter DEF a
  <2>7. \A g \in Files, j \in Places : g # f =>
            /\ Place(i_sectors'[g], disk', j) = Place(i_sectors[g], disk, j)
            /\ Place(i_sectors[g], disk, j) # 0 =>
                  disk'[Place(i_sectors[g], disk, j)] = disk[Place(i_sectors[g], disk, j)]
    BY <2>1, <2>3, <2>5, OthersKept DEF a
  <2>8. /\ a.sects \in [0..Direct -> Blocks]
        /\ \A b : b \in a.taken <=> \E j \in NewPlaces(f, n) : PlaceAfter(f, n, j) = b
        /\ \A j \in NewPlaces(f, n) : PlaceAfter(f, n, j) \in Blocks
        /\ NewPlaces(f, n) \subseteq Places
    BY <2>1, AllocFields, NewBlocks, CallFacts DEF a, Free
  <2>9. TypeOK'
    <3>1. wrap(i_size[f] - 1 + n) \in Nat
      BY <2>4, Bounds DEF wrap
    <3>2. disk' = [b \in Blocks |-> disk'[b]]
      BY <2>1, <2>3, DiskAfter DEF a
    <3>3. used' \in SUBSET Blocks
      BY <2>2, <2>4, <2>8
    <3>4. i_size' \in [Files -> Nat] /\ fd_pos' \in [Files -> Nat]
          /\ i_sectors' \in [Files -> [0..Direct -> Blocks]]
      BY <2>2, <2>4, <2>8, <3>1
    <3> QED
      BY <3>2, <3>3, <3>4 DEF TypeOK, Blocks
  <2>10. \A g \in Files : BlocksFitSize(i_sectors'[g], disk', i_size'[g])
    <3>1. ASSUME NEW g \in Files, g # f PROVE BlocksFitSize(i_sectors'[g], disk', i_size'[g])
      <4>1. BlocksFitSize(i_sectors[g], disk, i_size[g])
        BY <2>1 DEF Writes, FileInv
      <4>2. \A j \in 1..(MaxBlocks - 1) : j \in Places
        BY Bounds DEF Places
      <4> QED
        BY <3>1, <4>1, <4>2, <2>5, <2>7 DEF BlocksFitSize
    <3>2. BlocksFitSize(i_sectors'[f], disk', i_size'[f])
      <4>1. /\ UsedBlocks(i_size[f] + n) <= MaxBlocks
            /\ MaxBlocks \in Nat /\ Direct \in Nat \ {0} /\ MaxBlocks > Direct
        BY <2>1, Sizes, Bounds
      <4>2. 0 \in Places /\ MaxBlocks \in Places /\ \A j \in 1..(MaxBlocks - 1) : j \in Places
        BY <4>1 DEF Places
      <4>3. /\ PlaceAfter(f, n, 0) # 0
            /\ \A j \in 1..(MaxBlocks - 1) : PlaceAfter(f, n, j) # 0 <=> j < UsedBlocks(i_size[f] + n)
            /\ PlaceAfter(f, n, MaxBlocks) # 0 <=> UsedBlocks(i_size[f] + n) > Direct
            /\ \A j \in Places : PlaceAfter(f, n, j) \in Blocks
        BY <2>1, AfterFits, AfterDistinct
      <4>4. i_sectors'[f][0] = PlaceAfter(f, n, 0) /\ i_sectors'[f][Direct] = PlaceAfter(f, n, MaxBlocks)
        BY <2>1, <2>5, <4>1, AllocFields DEF a
      <4> QED
        BY <2>5, <2>6, <4>1, <4>2, <4>3, <4>4 DEF BlocksFitSize
    <3> QED
      BY <3>1, <3>2
  <2>11. OneOwner(i_sectors', disk')
    <3>1. OneOwner(i_sectors, disk)
      BY <2>1 DEF Writes, FileInv
    <3>2. /\ \A j, k \in Places : PlaceAfter(f, n, j) = PlaceAfter(f, n, k) /\ PlaceAfter(f, n, j) # 0 => j = k
          /\ \A g \in Files, j, k \in Places :
                g # f /\ Place(i_sectors[g], disk, k) # 0 => PlaceAfter(f, n, j) # Place(i_sectors[g], disk, k)
      BY <2>1, AfterDistinct
    <3> SUFFICES ASSUME NEW g \in Files, NEW h \in Files, NEW j \in Places, NEW k \in Places,
                        Place(i_sectors'[g], disk', j) = Place(i_sectors'[h], disk', k),
                        Place(i_sectors'[g], disk', j) # 0
                 PROVE  g = h /\ j = k
      BY DEF OneOwner
    <3> QED
      BY <2>6, <2>7, <3>1, <3>2 DEF OneOwner
  <2>12. MarkedIfOwned(i_sectors', disk', used')
    <3>1. MarkedIfOwned(i_sectors, disk, used)
      BY <2>1 DEF Writes, FileInv
    <3>2. \A j \in Places : j \notin NewPlaces(f, n) => PlaceAfter(f, n, j) = Place(i_sectors[f], disk, j)
      BY DEF PlaceAfter
    <3>3. \A j \in NewPlaces(f, n) : Place(i_sectors[f], disk, j) = 0
      <4> SUFFICES ASSUME NEW j \in NewPlaces(f, n) PROVE Place(i_sectors[f], disk, j) = 0
        OBVIOUS
      <4>0. /\ UsedBlocks(i_size[f]) \in 1..MaxBlocks
            /\ UsedBlocks(i_size[f] + n) \in UsedBlocks(i_size[f])..MaxBlocks
            /\ Direct \in Nat \ {0} /\ MaxBlocks \in Nat /\ MaxBlocks > Direct
            /\ Tabled(f, n) => i_sectors[f][Direct] = 0
        BY <2>1, Sizes, Bounds
      <4>1. CASE First(f) /\ j = 0
        BY <4>0, <4>1 DEF First, Place
      <4>2. CASE Tabled(f, n) /\ j = MaxBlocks
        BY <4>0, <4>2 DEF Place
      <4>3. CASE j \in UsedBlocks(i_size[f])..(UsedBlocks(i_size[f] + n) - 1)
        <5>1. j \in 1..(MaxBlocks - 1) /\ ~(j < UsedBlocks(i_size[f]))
          BY <4>0, <4>3
        <5>2. \A k \in 1..(MaxBlocks - 1) : Place(i_sectors[f], disk, k) # 0 <=> k < UsedBlocks(i_size[f])
          BY <2>1 DEF Writes, FileInv, BlocksFitSize
        <5> QED
          BY <5>1, <5>2
      <4> QED
        BY <4>1, <4>2, <4>3 DEF NewPlaces
    <3> SUFFICES ASSUME NEW b \in Blocks
                 PROVE  b \in used' <=> b = 0 \/ \E g \in Files, j \in Places : Place(i_sectors'[g], disk', j) = b
      BY DEF MarkedIfOwned
    <3>4. b \in used <=> b = 0 \/ \E g \in Files, j \in Places : Place(i_sectors[g], disk, j) = b
      BY <3>1 DEF MarkedIfOwned
    <3>5. ASSUME b \in used' PROVE b = 0 \/ \E g \in Files, j \in Places : Place(i_sectors'[g], disk', j) = b
      <4>1. CASE b \in a.taken
        BY <4>1, <2>6, <2>8
      <4>2. CASE b \in used /\ b # 0
        <5>1. PICK g \in Files, j \in Places : Place(i_sectors[g], disk, j) = b
          BY <4>2, <3>4
        <5>2. CASE g # f
          BY <5>1, <5>2, <2>7
        <5>3. CASE g = f
          BY <5>1, <5>3, <4>2, <2>6, <3>2, <3>3
        <5> QED
          BY <5>2, <5>3
      <4> QED
        BY <3>5, <4>1, <4>2, <2>2
    <3>6. ASSUME NEW g \in Files, NEW j \in Places, Place(i_sectors'[g], disk', j) = b PROVE b \in used'
      <4>1. CASE g # f
        BY <3>4, <3>6, <4>1, <2>2, <2>7
      <4>2. CASE g = f /\ j \in NewPlaces(f, n)
        BY <3>6, <4>2, <2>2, <2>6, <2>8
      <4>3. CASE g = f /\ j \notin NewPlaces(f, n)
        BY <3>2, <3>4, <3>6, <4>3, <2>2, <2>6
      <4> QED
        BY <4>1, <4>2, <4>3
    <3>7. b = 0 => b \in used'
      BY <3>4, <2>2
    <3> QED
      BY <3>5, <3>6, <3>7
  <2>13. \A g \in Files : Stored(i_sectors'[g], disk', g, i_size'[g])
    <3>1. ASSUME NEW g \in Files, g # f PROVE Stored(i_sectors'[g], disk', g, i_size'[g])
      <4> SUFFICES ASSUME NEW p \in 0..(i_size[g] - 1)
                   PROVE  disk'[Place(i_sectors'[g], disk', p \div BLOCK_SIZE)][p % BLOCK_SIZE] = <<g, p>>
        BY <3>1, <2>5 DEF Stored
      <4>1. Stored(i_sectors[g], disk, g, i_size[g]) /\ BlocksFitSize(i_sectors[g], disk, i_size[g])
        BY <2>1 DEF Writes, FileInv
      <4>2. p \div BLOCK_SIZE \in Places /\ Place(i_sectors[g], disk, p \div BLOCK_SIZE) # 0
        BY <4>1, <2>4, SectorInPlace
      <4> QED
        BY <3>1, <4>1, <4>2, <2>7 DEF Stored
    <3>2. Stored(i_sectors'[f], disk', f, i_size'[f])
      BY <2>1, <2>3, <2>5, StoredAfter DEF a
    <3> QED
      BY <3>1, <3>2
  <2> QED
    BY <2>9, <2>10, <2>11, <2>12, <2>13 DEF FileInv
<1> QED
  BY <1>1, <1>2

-----------------------------------------------------------------------------
(* What inode_release collects are the blocks in the places. *)
LEMMA FileBlocksPlaces ==
    ASSUME NEW f \in Files, NEW b, b # 0
    PROVE  b \in FileBlocks(f) <=> \E j \in Places : Place(i_sectors[f], disk, j) = b
<1>1. Direct \in Nat \ {0} /\ Indirect \in Nat \ {0} /\ MaxBlocks = Direct + Indirect
  BY Bounds
<1>2. b \in FileBlocks(f) <=>
        \/ \E i \in 0..Direct : b = i_sectors[f][i]
        \/ i_sectors[f][Direct] # 0 /\ \E i \in 0..(Indirect - 1) : b = disk[i_sectors[f][Direct]][i][2]
  BY DEF FileBlocks
<1>3. ASSUME NEW i \in 0..Direct, b = i_sectors[f][i]
      PROVE  \E j \in Places : Place(i_sectors[f], disk, j) = b
  <2>1. CASE i = Direct
    <3>1. MaxBlocks \in Places /\ Place(i_sectors[f], disk, MaxBlocks) = b
      BY <1>1, <1>3, <2>1 DEF Place, Places
    <3> QED
      BY <3>1
  <2>2. CASE i # Direct
    <3>1. i \in Places /\ Place(i_sectors[f], disk, i) = b
      BY <1>1, <1>3, <2>2 DEF Place, Places
    <3> QED
      BY <3>1
  <2> QED
    BY <2>1, <2>2
<1>4. ASSUME i_sectors[f][Direct] # 0, NEW i \in 0..(Indirect - 1), b = disk[i_sectors[f][Direct]][i][2]
      PROVE  \E j \in Places : Place(i_sectors[f], disk, j) = b
  <2>1. Direct + i \in Places /\ Direct + i # MaxBlocks /\ ~(Direct + i < Direct) /\ (Direct + i) - Direct = i
    BY <1>1 DEF Places
  <2>2. Place(i_sectors[f], disk, Direct + i) = b
    BY <1>4, <2>1 DEF Place
  <2> QED
    BY <2>1, <2>2
<1>5. ASSUME NEW j \in Places, Place(i_sectors[f], disk, j) = b PROVE b \in FileBlocks(f)
  <2>1. CASE j = MaxBlocks
    <3>1. b = i_sectors[f][Direct] /\ Direct \in 0..Direct
      BY <1>1, <1>5, <2>1 DEF Place
    <3> QED
      BY <3>1, <1>2
  <2>2. CASE j # MaxBlocks /\ j < Direct
    <3>1. b = i_sectors[f][j] /\ j \in 0..Direct
      BY <1>1, <1>5, <2>2 DEF Place, Places
    <3> QED
      BY <3>1, <1>2
  <2>3. CASE j # MaxBlocks /\ ~(j < Direct)
    <3>1. /\ i_sectors[f][Direct] # 0 /\ b = disk[i_sectors[f][Direct]][j - Direct][2]
          /\ j - Direct \in 0..(Indirect - 1)
      BY <1>1, <1>5, <2>3 DEF Place, Places
    <3> QED
      BY <3>1, <1>2
  <2> QED
    BY <2>1, <2>2, <2>3
<1> QED
  BY <1>2, <1>3, <1>4, <1>5

LEMMA ReleaseKeeps ==
    ASSUME FileInv, NEW f \in Files, inode_release(f)
    PROVE  FileInv'
<1>1. /\ used' = (used \ FileBlocks(f)) \union {0}
      /\ i_sectors' = [i_sectors EXCEPT ![f] = [i \in 0..Direct |-> 0]]
      /\ i_size' = [i_size EXCEPT ![f] = 0]
      /\ fd_pos' = [fd_pos EXCEPT ![f] = 0]
      /\ disk' = [b \in Blocks |-> IF b \in FileBlocks(f) THEN Empty ELSE disk[b]]
  BY DEF inode_release
<1>2. /\ i_size \in [Files -> Nat] /\ fd_pos \in [Files -> Nat]
      /\ i_sectors \in [Files -> [0..Direct -> Blocks]] /\ used \in SUBSET Blocks
  BY DEF FileInv, TypeOK
<1>3. /\ Direct \in Nat \ {0} /\ Indirect \in Nat \ {0} /\ MaxBlocks = Direct + Indirect /\ 0 \in Blocks
      /\ MaxBlocks \in Nat
  BY Bounds
<1>4. \A b : b # 0 => (b \in FileBlocks(f) <=> \E j \in Places : Place(i_sectors[f], disk, j) = b)
  BY FileBlocksPlaces
<1>5. /\ OneOwner(i_sectors, disk) /\ MarkedIfOwned(i_sectors, disk, used)
      /\ \A g \in Files : BlocksFitSize(i_sectors[g], disk, i_size[g]) /\ Stored(i_sectors[g], disk, g, i_size[g])
  BY DEF FileInv
<1>6. /\ i_size'[f] = 0 /\ i_sectors'[f] = [i \in 0..Direct |-> 0]
      /\ \A g \in Files : g # f => i_size'[g] = i_size[g] /\ i_sectors'[g] = i_sectors[g]
  BY <1>1, <1>2
<1>7. \A j \in Places : Place(i_sectors'[f], disk', j) = 0
  BY <1>3, <1>6 DEF Place, Places
<1>8. ASSUME NEW g \in Files, g # f, NEW j \in Places, Place(i_sectors[g], disk, j) # 0
      PROVE  /\ Place(i_sectors[g], disk, j) \notin FileBlocks(f)
             /\ disk'[Place(i_sectors[g], disk, j)] = disk[Place(i_sectors[g], disk, j)]
  <2>1. Place(i_sectors[g], disk, j) \in Blocks
    BY <1>5 DEF BlocksFitSize
  <2>2. Place(i_sectors[g], disk, j) \notin FileBlocks(f)
    BY <1>4, <1>5, <1>8 DEF OneOwner
  <2> QED
    BY <2>1, <2>2, <1>1
<1>9. ASSUME NEW g \in Files, g # f, NEW j \in Places
      PROVE  Place(i_sectors'[g], disk', j) = Place(i_sectors[g], disk, j)
  <2>0. i_sectors'[g] = i_sectors[g]
    BY <1>6, <1>9
  <2>1. CASE i_sectors[g][Direct] = 0
    BY <2>0, <2>1 DEF Place
  <2>2. CASE i_sectors[g][Direct] # 0
    <3>1. Place(i_sectors[g], disk, MaxBlocks) = i_sectors[g][Direct] /\ MaxBlocks \in Places
      BY <1>3 DEF Place, Places
    <3>2. disk'[i_sectors[g][Direct]] = disk[i_sectors[g][Direct]]
      BY <1>8, <1>9, <2>2, <3>1
    <3> QED
      BY <2>0, <3>2 DEF Place
  <2> QED
    BY <2>1, <2>2
<1>10. TypeOK'
  <2>1. i_sectors' \in [Files -> [0..Direct -> Blocks]]
    BY <1>1, <1>2, <1>3
  <2>2. i_size' \in [Files -> Nat] /\ fd_pos' \in [Files -> Nat]
    BY <1>1, <1>2
  <2>3. disk' = [b \in Blocks |-> disk'[b]]
    BY <1>1
  <2> QED
    BY <2>1, <2>2, <2>3, <1>1, <1>2, <1>3 DEF TypeOK, Blocks
<1>11. ASSUME NEW g \in Files PROVE BlocksFitSize(i_sectors'[g], disk', i_size'[g])
  <2>0. \A j \in 1..(MaxBlocks - 1) : j \in Places
    BY <1>3 DEF Places
  <2>1. CASE g # f
    BY <2>0, <2>1, <1>5, <1>6, <1>9 DEF BlocksFitSize
  <2>2. CASE g = f
    <3>1. UsedBlocks(0) = 1
      BY UsedBlocksFacts
    <3>2. i_sectors'[f][0] = 0 /\ i_sectors'[f][Direct] = 0
      BY <1>3, <1>6
    <3> QED
      BY <2>0, <2>2, <3>1, <3>2, <1>3, <1>6, <1>7 DEF BlocksFitSize
  <2> QED
    BY <2>1, <2>2
<1>12. OneOwner(i_sectors', disk')
  BY <1>5, <1>7, <1>9 DEF OneOwner
<1>13. MarkedIfOwned(i_sectors', disk', used')
  <2> SUFFICES ASSUME NEW b \in Blocks
               PROVE  b \in used' <=> b = 0 \/ \E g \in Files, j \in Places : Place(i_sectors'[g], disk', j) = b
    BY DEF MarkedIfOwned
  <2>1. CASE b = 0
    BY <2>1, <1>1
  <2>2. CASE b # 0
    <3>1. b \in used <=> \E g \in Files, j \in Places : Place(i_sectors[g], disk, j) = b
      BY <2>2, <1>5 DEF MarkedIfOwned
    <3>2. ASSUME b \in used' PROVE \E g \in Files, j \in Places : Place(i_sectors'[g], disk', j) = b
      <4>1. b \in used /\ b \notin FileBlocks(f)
        BY <3>2, <2>2, <1>1
      <4>2. PICK g \in Files, j \in Places : Place(i_sectors[g], disk, j) = b
        BY <4>1, <3>1
      <4>3. g # f
        BY <4>1, <4>2, <2>2, <1>4
      <4> QED
        BY <4>2, <4>3, <1>9
    <3>3. ASSUME NEW g \in Files, NEW j \in Places, Place(i_sectors'[g], disk', j) = b PROVE b \in used'
      <4>1. g # f
        BY <3>3, <2>2, <1>7
      <4>2. Place(i_sectors[g], disk, j) = b
        BY <4>1, <3>3, <1>9
      <4>3. b \in used /\ b \notin FileBlocks(f)
        BY <4>1, <4>2, <3>1, <2>2, <1>8
      <4> QED
        BY <4>3, <1>1
    <3> QED
      BY <2>2, <3>2, <3>3
  <2> QED
    BY <2>1, <2>2
<1>14. ASSUME NEW g \in Files PROVE Stored(i_sectors'[g], disk', g, i_size'[g])
  <2>1. CASE g = f
    BY <2>1, <1>6 DEF Stored
  <2>2. CASE g # f
    <3> SUFFICES ASSUME NEW p \in 0..(i_size[g] - 1)
                 PROVE  disk'[Place(i_sectors'[g], disk', p \div BLOCK_SIZE)][p % BLOCK_SIZE] = <<g, p>>
      BY <2>2, <1>6 DEF Stored
    <3>1. i_size[g] \in Nat
      BY <1>2
    <3>2. p \div BLOCK_SIZE \in Places /\ Place(i_sectors[g], disk, p \div BLOCK_SIZE) # 0
      BY <3>1, <1>5, SectorInPlace
    <3>3. disk[Place(i_sectors[g], disk, p \div BLOCK_SIZE)][p % BLOCK_SIZE] = <<g, p>>
      BY <1>5 DEF Stored
    <3> QED
      BY <2>2, <3>2, <3>3, <1>8, <1>9
  <2> QED
    BY <2>1, <2>2
<1> QED
  BY <1>10, <1>11, <1>12, <1>13, <1>14 DEF FileInv

(* The other steps only move the position of the descriptor. *)
LEMMA PositionKeeps ==
    ASSUME FileInv, UNCHANGED <<i_size, i_sectors, used, disk>>, fd_pos' \in [Files -> Nat]
    PROVE  FileInv'
BY DEF FileInv, TypeOK

LEMMA FileInvInit ==
    ASSUME FileInit
    PROVE  FileInv
<1>1. /\ Direct \in Nat \ {0} /\ Indirect \in Nat \ {0} /\ MaxBlocks = Direct + Indirect /\ 0 \in Blocks
      /\ MaxBlocks \in Nat
  BY Bounds
<1>2. /\ i_size = [f \in Files |-> 0] /\ i_sectors = [f \in Files |-> [i \in 0..Direct |-> 0]]
      /\ fd_pos = [f \in Files |-> 0] /\ used = {0} /\ disk = [b \in Blocks |-> Empty]
  BY DEF FileInit
<1>3. TypeOK
  <2>1. i_sectors \in [Files -> [0..Direct -> Blocks]]
    BY <1>1, <1>2
  <2>2. i_size \in [Files -> Nat] /\ fd_pos \in [Files -> Nat]
    BY <1>2
  <2>3. disk = [b \in Blocks |-> disk[b]]
    BY <1>2
  <2> QED
    BY <1>1, <1>2, <2>1, <2>2, <2>3 DEF TypeOK
<1>4. \A f \in Files : \A j \in Places : Place(i_sectors[f], disk, j) = 0
  BY <1>1, <1>2 DEF Place, Places
<1>5. ASSUME NEW f \in Files PROVE BlocksFitSize(i_sectors[f], disk, i_size[f])
  <2>1. UsedBlocks(0) = 1 /\ i_size[f] = 0
    BY <1>2, UsedBlocksFacts
  <2>2. i_sectors[f][0] = 0 /\ i_sectors[f][Direct] = 0
    BY <1>1, <1>2
  <2>3. \A j \in 1..(MaxBlocks - 1) : j \in Places
    BY <1>1 DEF Places
  <2> QED
    BY <2>1, <2>2, <2>3, <1>1, <1>4 DEF BlocksFitSize
<1>6. OneOwner(i_sectors, disk)
  BY <1>4 DEF OneOwner
<1>7. MarkedIfOwned(i_sectors, disk, used)
  BY <1>2, <1>4 DEF MarkedIfOwned
<1>8. \A f \in Files : Stored(i_sectors[f], disk, f, i_size[f])
  BY <1>2 DEF Stored
<1> QED
  BY <1>3, <1>5, <1>6, <1>7, <1>8 DEF FileInv

LEMMA FileStep ==
    ASSUME FileInv, [FileNext]_fileVars
    PROVE  FileInv'
<1>1. ASSUME NEW f \in Files, NEW n \in Counts, file_write(f, n) PROVE FileInv'
  BY <1>1, WriteKeeps
<1>2. ASSUME NEW f \in Files, NEW n \in Counts, file_read(f, n) PROVE FileInv'
  <2>1. CASE panic
    BY <2>1 DEF panic, FileInv, TypeOK
  <2>2. CASE ~panic
    <3>1. fd_pos' = [fd_pos EXCEPT ![f] = @ + ReadSize(f, n)] /\ UNCHANGED <<i_size, i_sectors, used, disk>>
      BY <1>2, <2>2 DEF file_read
    <3>2. fd_pos \in [Files -> Nat] /\ i_size \in [Files -> Nat] /\ n \in Nat
      BY Bounds DEF FileInv, TypeOK
    <3>3. ReadSize(f, n) \in Nat
      <4>1. wrap(i_size[f] - fd_pos[f]) \in Nat
        BY <3>2, Bounds DEF wrap
      <4> QED
        BY <3>2, <4>1 DEF ReadSize
    <3>4. fd_pos' \in [Files -> Nat]
      BY <3>1, <3>2, <3>3
    <3> QED
      BY <3>1, <3>4, PositionKeeps
  <2> QED
    BY <2>1, <2>2
<1>3. ASSUME NEW f \in Files, NEW p \in 0..Limit, sys_lseek(f, p) PROVE FileInv'
  <2>1. fd_pos' \in [Files -> Nat] /\ UNCHANGED <<i_size, i_sectors, used, disk>>
    BY <1>3 DEF sys_lseek, FileInv, TypeOK
  <2> QED
    BY <2>1, PositionKeeps
<1>4. ASSUME NEW f \in Files, inode_release(f) PROVE FileInv'
  BY <1>4, ReleaseKeeps
<1>5. CASE file_stopped \/ UNCHANGED fileVars
  <2>1. UNCHANGED <<i_size, i_sectors, used, disk, fd_pos>>
    BY <1>5 DEF file_stopped, fileVars
  <2> QED
    BY <2>1 DEF FileInv, TypeOK
<1> QED
  BY <1>1, <1>2, <1>3, <1>4, <1>5 DEF FileNext

LEMMA FileAlways == FileSpec => []FileInv
<1>1. FileInit => FileInv
  BY FileInvInit
<1>2. FileInv /\ [FileNext]_fileVars => FileInv'
  BY FileStep
<1> QED
  BY <1>1, <1>2, PTL DEF FileSpec

-----------------------------------------------------------------------------
LEMMA BlockOfPlace ==
    ASSUME FileInv, NEW f \in Files, NEW p \in 0..(i_size[f] - 1)
    PROVE  /\ p \div BLOCK_SIZE \in 0..(MaxBlocks - 1)
           /\ p \div BLOCK_SIZE >= Direct => i_sectors[f][Direct] # 0
           /\ BlockOf(f, p \div BLOCK_SIZE) = Place(i_sectors[f], disk, p \div BLOCK_SIZE)
           /\ disk[BlockOf(f, p \div BLOCK_SIZE)][p % BLOCK_SIZE] = <<f, p>>
<1>1. i_size[f] \in Nat /\ BlocksFitSize(i_sectors[f], disk, i_size[f]) /\ Stored(i_sectors[f], disk, f, i_size[f])
  BY DEF FileInv, TypeOK
<1>2. PICK q : q = p \div BLOCK_SIZE
  OBVIOUS
<1>3. q \in 0..(MaxBlocks - 1) /\ q < UsedBlocks(i_size[f])
  BY <1>1, <1>2, SectorInPlace
<1>4. Direct \in Nat \ {0} /\ MaxBlocks \in Nat /\ UsedBlocks(i_size[f]) \in Nat
  BY <1>1, Bounds, UsedBlocksFacts
<1>5. q >= Direct => i_sectors[f][Direct] # 0
  BY <1>1, <1>3, <1>4 DEF BlocksFitSize
<1>6. BlockOf(f, q) = Place(i_sectors[f], disk, q)
  BY <1>3, <1>4, <1>5 DEF BlockOf, Place
<1>7. disk[Place(i_sectors[f], disk, q)][p % BLOCK_SIZE] = <<f, p>>
  BY <1>1, <1>2 DEF Stored
<1> QED
  BY <1>2, <1>3, <1>5, <1>6, <1>7

(* Every byte that file_write has written stays where file_read looks for  *)
(* it, for any number of files and any sizes: blocks, direct blocks,       *)
(* table, partition.                                                       *)
THEOREM WrittenBytesStay == FileSpec => []ContentsExact
<1>1. FileInv => ContentsExact
  BY BlockOfPlace DEF ContentsExact
<1> QED
  BY <1>1, FileAlways, PTL

(* The block bitmap is exact and no block belongs to two files: what       *)
(* file_write takes was free and is given back by inode_release.           *)
THEOREM BlockBitmapExact == FileSpec => []BlocksExact
<1>1. ASSUME FileInv PROVE BlocksExact
  <2>1. /\ OneOwner(i_sectors, disk) /\ MarkedIfOwned(i_sectors, disk, used) /\ used \in SUBSET Blocks
        /\ \A g \in Files : BlocksFitSize(i_sectors[g], disk, i_size[g])
    BY <1>1 DEF FileInv, TypeOK
  <2>2. \A f \in Files : \A b : b # 0 => (b \in FileBlocks(f) <=> \E j \in Places : Place(i_sectors[f], disk, j) = b)
    BY FileBlocksPlaces
  <2>3. used = {0} \union UNION {FileBlocks(f) : f \in Files}
    <3>1. ASSUME NEW b \in used PROVE b \in {0} \union UNION {FileBlocks(f) : f \in Files}
      <4>1. CASE b = 0
        BY <4>1
      <4>2. CASE b # 0
        <5>1. PICK f \in Files, j \in Places : Place(i_sectors[f], disk, j) = b
          BY <4>2, <2>1 DEF MarkedIfOwned
        <5>2. b \in FileBlocks(f)
          BY <4>2, <5>1, <2>2
        <5> QED
          BY <5>2
      <4> QED
        BY <4>1, <4>2
    <3>2. 0 \in used
      BY <2>1, Bounds DEF MarkedIfOwned
    <3>3. ASSUME NEW f \in Files, NEW b \in FileBlocks(f) PROVE b \in used
      <4>1. CASE b = 0
        BY <4>1, <3>2
      <4>2. CASE b # 0
        <5>1. PICK j \in Places : Place(i_sectors[f], disk, j) = b
          BY <4>2, <2>2
        <5>2. b \in Blocks
          BY <5>1, <2>1 DEF BlocksFitSize
        <5> QED
          BY <5>1, <5>2, <2>1 DEF MarkedIfOwned
      <4> QED
        BY <4>1, <4>2
    <3> QED
      BY <3>1, <3>2, <3>3
  <2>4. ASSUME NEW f \in Files, NEW g \in Files, f # g
        PROVE  FileBlocks(f) \intersect FileBlocks(g) \subseteq {0}
    <3> SUFFICES ASSUME NEW b \in FileBlocks(f), b \in FileBlocks(g), b # 0 PROVE FALSE
      OBVIOUS
    <3>1. PICK j \in Places : Place(i_sectors[f], disk, j) = b
      BY <2>2
    <3>2. PICK k \in Places : Place(i_sectors[g], disk, k) = b
      BY <2>2
    <3> QED
      BY <3>1, <3>2, <2>1, <2>4 DEF OneOwner
  <2> QED
    BY <2>3, <2>4 DEF BlocksExact
<1> QED
  BY <1>1, FileAlways, PTL

(* file_read returns the bytes from the descriptor's position on, as many  *)
(* as there are up to the count, from direct and from indirect blocks      *)
(* alike, for every count that does not wrap round behind the largest file *)
(* (fd_pos + count is computed in a uint32_t).                             *)
THEOREM FilesReadBack ==
    ASSUME \A n \in Counts : n + BLOCK_SIZE * MaxBlocks < Word
    PROVE  FileSpec => []ReadsBack
<1>1. ASSUME FileInv, NEW f \in Files, NEW n \in Counts, fd_pos[f] < i_size[f]
      PROVE  ReadBytes(f, n) = [k \in 0..(Min({n, i_size[f] - fd_pos[f]}) - 1) |-> <<f, fd_pos[f] + k>>]
  <2> DEFINE pos == fd_pos[f]
             size == i_size[f]
             rs == ReadSize(f, n)
             B == BLOCK_SIZE
  <2>1. /\ pos \in Nat /\ size \in Nat /\ n \in Nat /\ pos < size /\ Word \in Nat \ {0}
        /\ B \in Nat \ {0} /\ MaxBlocks \in Nat /\ Direct \in Nat \ {0}
    BY <1>1, Bounds DEF FileInv, TypeOK
  <2>2. size < B * MaxBlocks
    <3>1. UsedBlocks(size) <= MaxBlocks
      BY <1>1 DEF FileInv, BlocksFitSize
    <3>2. PICK q : q = size \div B
      OBVIOUS
    <3>3. q \in Nat /\ size < q * B + B /\ q + 1 <= MaxBlocks
      <4>1. PICK r : r = size % B
        OBVIOUS
      <4>2. q \in Nat /\ r \in 0..(B - 1) /\ size = q * B + r
        BY <2>1, <3>2, <4>1, DivisionFacts
      <4>3. q * B \in Nat /\ q + 1 <= MaxBlocks
        BY <4>2, <2>1, <3>1, <3>2 DEF UsedBlocks
      <4> HIDE DEF size
      <4> QED
        BY <4>2, <4>3, <2>1
    <3>4. (q + 1) * B <= MaxBlocks * B /\ (q + 1) * B \in Nat /\ MaxBlocks * B \in Nat
      BY <2>1, <3>3, TimesMonotonic
    <3>5. (q + 1) * B = q * B + B /\ MaxBlocks * B = B * MaxBlocks /\ q * B \in Nat
      BY <2>1, <3>3
    <3> QED
      BY <2>1, <3>3, <3>4, <3>5
  <2>3. pos + n < Word /\ size - pos \in 0..(Word - 1) /\ pos + n \in Nat /\ size < Word
    <3>1. n + B * MaxBlocks < Word /\ B * MaxBlocks \in Nat
      BY <1>1, <2>1
    <3> HIDE DEF pos, size, B
    <3> QED
      BY <2>1, <2>2, <3>1
  <2>4. \A x \in 0..(Word - 1) : wrap(x) = x
    BY <2>1 DEF wrap
  <2>5. rs = IF pos + n > size THEN size - pos ELSE n
    <3>1. wrap(pos + n) = pos + n /\ wrap(size - pos) = size - pos
      BY <2>1, <2>3, <2>4
    <3> QED
      BY <3>1 DEF ReadSize
  <2>6. Min({n, size - pos}) = rs
    <3> HIDE DEF pos, size, rs
    <3>1. rs \in {n, size - pos} /\ \A y \in {n, size - pos} : rs <= y
      BY <2>1, <2>5
    <3>2. \A x \in {n, size - pos} : (\A y \in {n, size - pos} : x <= y) => x = rs
      BY <2>1, <2>5
    <3> QED
      BY <3>1, <3>2 DEF Min
  <2>7. rs \in Nat /\ pos + rs <= size /\ wrap(pos + rs) = pos + rs
    <3> HIDE DEF pos, size, rs
    <3>1. rs \in Nat /\ pos + rs <= size
      BY <2>1, <2>5
    <3> QED
      BY <3>1, <2>1, <2>3, <2>4
  <2> DEFINE blocks == ReadBlocks(f, ReadStart(f), ReadEnd(f, n))
  <2>8. ASSUME NEW k \in 0..(rs - 1)
        PROVE  disk[blocks[(pos + k) \div B]][(pos + k) % B] = <<f, pos + k>>
    <3>1. pos + k \in 0..(size - 1) /\ pos + k \in Nat /\ pos <= pos + k /\ pos + k <= pos + rs /\ pos + rs \in Nat
      <4> HIDE DEF pos, size, rs
      <4> QED
        BY <2>1, <2>7
    <3>2. PICK q : q = (pos + k) \div B
      OBVIOUS
    <3>3. /\ q \in 0..(MaxBlocks - 1)
          /\ q >= Direct => i_sectors[f][Direct] # 0
          /\ disk[BlockOf(f, q)][(pos + k) % B] = <<f, pos + k>>
      BY <1>1, <3>1, <3>2, BlockOfPlace
    <3>4. pos \div B <= q /\ q <= (pos + rs) \div B
      BY <2>1, <3>1, <3>2, DivisionMonotonic
    <3>5. PICK s \in Nat : s = pos \div B
      BY <2>1, DivisionFacts
    <3>6. PICK e \in Nat : e = (pos + rs) \div B
      BY <2>1, <3>1, DivisionFacts
    <3>7. ReadStart(f) = s /\ ReadEnd(f, n) = e
      BY <2>7, <3>5, <3>6 DEF ReadStart, ReadEnd
    <3>8. s <= q /\ q <= e
      BY <3>4, <3>5, <3>6
    <3>9. blocks[q] = BlockOf(f, q)
      <4>1. blocks = [i \in 0..(MaxBlocks - 1) |->
                        CASE i < Direct /\ i \in s..e -> i_sectors[f][i]
                          [] i >= Direct /\ e >= Direct -> disk[i_sectors[f][Direct]][i - Direct][2]
                          [] OTHER -> 0]
        BY <3>7 DEF ReadBlocks
      <4>2. CASE q < Direct
        <5>1. q \in s..e /\ ~(q >= Direct)
          BY <3>3, <3>8, <4>2, <2>1
        <5>2. blocks[q] = i_sectors[f][q]
          BY <4>1, <4>2, <5>1, <3>3
        <5> HIDE DEF blocks
        <5> QED
          BY <5>2, <4>2 DEF BlockOf
      <4>3. CASE ~(q < Direct)
        <5>1. q >= Direct /\ e >= Direct
          BY <3>3, <3>8, <4>3, <2>1
        <5>2. blocks[q] = disk[i_sectors[f][Direct]][q - Direct][2]
          BY <4>1, <4>3, <5>1, <3>3
        <5> HIDE DEF blocks
        <5> QED
          BY <5>2, <4>3 DEF BlockOf
      <4> QED
        BY <4>2, <4>3
    <3> HIDE DEF blocks
    <3> QED
      BY <3>2, <3>3, <3>9
  <2>9. ReadBytes(f, n) = [k \in 0..(rs - 1) |-> disk[blocks[(pos + k) \div B]][(pos + k) % B]]
    BY DEF ReadBytes
  <2> HIDE DEF blocks, rs
  <2>10. [k \in 0..(rs - 1) |-> disk[blocks[(pos + k) \div B]][(pos + k) % B]] = [k \in 0..(rs - 1) |-> <<f, pos + k>>]
    BY <2>8
  <2> QED
    BY <2>6, <2>9, <2>10
<1>2. FileInv => ReadsBack
  BY <1>1 DEF ReadsBack
<1> QED
  BY <1>2, FileAlways, PTL

-----------------------------------------------------------------------------
(* Directories, for any names and any number of blocks and of slots in     *)
(* them.  i_size, i_sectors, used, disk and kernel are now those of a      *)
(* directory: nothing above is about them.                                 *)

LEMMA SmallestIsMin ==
    ASSUME NEW S \in SUBSET Nat, S # {}
    PROVE  Min(S) \in S /\ \A y \in S : Min(S) <= y
<1>1. \E x \in S : \A y \in S : x <= y
  BY Smallest
<1> QED
  BY <1>1 DEF Min

-----------------------------------------------------------------------------
(* The blocks of the directory by their places, the table at the end, and  *)
(* the entries by block and slot.                                          *)
Total == Direct + Indirect
DataPlaces == 0..(Total - 1)
DirPlaces == 0..Total

Blk(sec, dsk, j) ==
    IF j = Total THEN sec[Direct]
    ELSE IF j < Direct THEN sec[j]
    ELSE IF sec[Direct] = 0 THEN 0 ELSE dsk[sec[Direct]][j - Direct]

Ent(sec, dsk) ==
    [p \in DataPlaces \X Slots |-> IF Blk(sec, dsk, p[1]) = 0 THEN "" ELSE dsk[Blk(sec, dsk, p[1])][p[2]]]

DirOneOwner(sec, dsk) ==
    /\ \A j \in DirPlaces : Blk(sec, dsk, j) \in DirBlocks \union {0}
    /\ \A j, k \in DirPlaces : Blk(sec, dsk, j) = Blk(sec, dsk, k) /\ Blk(sec, dsk, j) # 0 => j = k

DirMarkedIfOwned(sec, dsk, bitmap) ==
    \A b \in DirBlocks : b \in bitmap <=> \E j \in DirPlaces : Blk(sec, dsk, j) = b

SectorsOk(sec, dsk) ==
    \A j \in DataPlaces : Blk(sec, dsk, j) # 0 =>
        dsk[Blk(sec, dsk, j)] \in [Slots -> Names \union Dots \union {""}]

EntOk(ent, nm) ==
    /\ \A p \in DataPlaces \X Slots : ent[p] \in nm \union Dots \union {""}
    /\ \A p, q \in DataPlaces \X Slots : ent[p] = ent[q] /\ ent[p] # "" => p = q
    /\ \A x \in nm \union Dots : \E p \in DataPlaces \X Slots : ent[p] = x

(* The table has one block, with one entry. *)
TableOk(sec, dsk) ==
    sec[Direct] # 0 =>
        /\ Blk(sec, dsk, Direct) # 0
        /\ \A j \in (Direct + 1)..(Total - 1) : Blk(sec, dsk, j) = 0
        /\ \E s \in Slots : /\ Ent(sec, dsk)[<<Direct, s>>] # ""
                            /\ \A r \in Slots : r # s => Ent(sec, dsk)[<<Direct, r>>] = ""

DirTypeOK ==
    /\ i_sectors \in [0..Direct -> DirBlocks \union {0}]
    /\ used \in SUBSET DirBlocks
    /\ disk = [b \in DirBlocks |-> disk[b]]
    /\ names \in SUBSET Names /\ IsFiniteSet(names)
    /\ i_size = Cardinality(names) + 2

DirOk ==
    /\ DirTypeOK
    /\ DirOneOwner(i_sectors, disk)
    /\ DirMarkedIfOwned(i_sectors, disk, used)
    /\ SectorsOk(i_sectors, disk)
    /\ EntOk(Ent(i_sectors, disk), names)
    /\ TableOk(i_sectors, disk)

DirInv == kernel = "up" => DirOk

LEMMA DirBounds ==
    /\ Direct \in Nat \ {0} /\ Indirect \in Nat \ {0} /\ SlotsPerSec \in Nat \ {0, 1} /\ NBlocks \in Nat \ {0}
    /\ Total \in Nat /\ Total = Direct + Indirect /\ Direct < Total
    /\ 0 \notin DirBlocks /\ 0 \in Slots /\ 1 \in Slots
<1>1. Direct \in Nat \ {0} /\ Indirect \in Nat \ {0} /\ SlotsPerSec \in Nat \ {0, 1} /\ NBlocks \in Nat \ {0}
  BY DirAssumption
<1> QED
  BY <1>1 DEF Total, DirBlocks, Slots

LEMMA NameFacts == "" \notin Names \union Dots /\ Names \intersect Dots = {}
<1>1. "" \notin Dots
  BY DEF Dots
<1>2. Names \intersect (Dots \union {""}) = {}
  BY DirAssumption
<1> QED
  BY <1>1, <1>2

LEMMA PairFacts ==
    ASSUME NEW A, NEW B, NEW p \in A \X B
    PROVE  p[1] \in A /\ p[2] \in B /\ p = <<p[1], p[2]>>
OBVIOUS

EntSet(ent, p, x) == [q \in DataPlaces \X Slots |-> IF q = p THEN x ELSE ent[q]]

(* One entry more, one entry less *)
LEMMA EntryAdded ==
    ASSUME NEW ent, NEW nm \in SUBSET Names, EntOk(ent, nm), NEW p \in DataPlaces \X Slots, ent[p] = "",
           NEW n \in Names, n \notin nm,
           NEW ent2, ent2 = EntSet(ent, p, n)
    PROVE  EntOk(ent2, nm \union {n})
<1>1. n # "" /\ n \notin Dots
  BY NameFacts
<1>2. ent2[p] = n /\ \A q \in DataPlaces \X Slots : q # p => ent2[q] = ent[q]
  BY DEF EntSet
<1>3. \A q \in DataPlaces \X Slots : ent[q] # n
  <2>1. \A q \in DataPlaces \X Slots : ent[q] \in nm \union Dots \union {""}
    BY DEF EntOk
  <2> QED
    BY <2>1, <1>1
<1>4. \A q \in DataPlaces \X Slots : ent2[q] \in nm \union {n} \union Dots \union {""}
  BY <1>2 DEF EntOk
<1>5. \A q, r \in DataPlaces \X Slots : ent2[q] = ent2[r] /\ ent2[q] # "" => q = r
  BY <1>2, <1>3 DEF EntOk, EntSet
<1>6. ASSUME NEW x \in nm \union {n} \union Dots PROVE \E q \in DataPlaces \X Slots : ent2[q] = x
  <2>1. CASE x = n
    BY <2>1, <1>2
  <2>2. CASE x # n
    <3>1. PICK q \in DataPlaces \X Slots : ent[q] = x
      BY <2>2 DEF EntOk
    <3>2. q # p
      BY <3>1, <2>2, NameFacts
    <3> QED
      BY <3>1, <3>2, <1>2
  <2> QED
    BY <2>1, <2>2
<1> QED
  BY <1>4, <1>5, <1>6 DEF EntOk

LEMMA EntryRemoved ==
    ASSUME NEW ent, NEW nm \in SUBSET Names, EntOk(ent, nm), NEW p \in DataPlaces \X Slots,
           NEW n \in Names, ent[p] = n,
           NEW ent2, ent2 = EntSet(ent, p, "")
    PROVE  EntOk(ent2, nm \ {n}) /\ n \in nm
<1>1. n # "" /\ n \notin Dots
  BY NameFacts
<1>2. ent2[p] = "" /\ \A q \in DataPlaces \X Slots : q # p => ent2[q] = ent[q] /\ ent[q] # n
  BY <1>1 DEF EntOk, EntSet
<1>3. n \in nm
  BY <1>1 DEF EntOk
<1>4. \A q \in DataPlaces \X Slots : ent2[q] \in (nm \ {n}) \union Dots \union {""}
  BY <1>2 DEF EntOk
<1>5. \A q, r \in DataPlaces \X Slots : ent2[q] = ent2[r] /\ ent2[q] # "" => q = r
  BY <1>2 DEF EntOk, EntSet
<1>6. ASSUME NEW x \in (nm \ {n}) \union Dots PROVE \E q \in DataPlaces \X Slots : ent2[q] = x
  <2>1. PICK q \in DataPlaces \X Slots : ent[q] = x
    BY DEF EntOk
  <2>2. q # p
    BY <2>1, <1>1
  <2> QED
    BY <2>1, <2>2, <1>2
<1> QED
  BY <1>3, <1>4, <1>5, <1>6 DEF EntOk

-----------------------------------------------------------------------------
DirFree == DirBlocks \ used

LEMMA FreeFinite == IsFiniteSet(DirFree) /\ Cardinality(DirFree) \in Nat
<1>1. DirFree \subseteq 1..NBlocks /\ IsFiniteSet(1..NBlocks)
  BY FS_Interval, DirBounds DEF DirFree, DirBlocks
<1> QED
  BY <1>1, FS_Subset, FS_CardinalityType

LEMMA DirAllocFacts ==
    ASSUME NEW k \in 1..Cardinality(DirFree)
    PROVE  /\ dir_block_alloc(k) \in DirFree
           /\ Cardinality({c \in DirFree : c < dir_block_alloc(k)}) = k - 1
<1>1. NBlocks \in Nat /\ DirFree \in SUBSET (0..NBlocks)
  BY DirBounds DEF DirFree, DirBlocks
<1>2. \E b \in DirFree : Cardinality({c \in DirFree : c < b}) = k - 1
  BY <1>1, CountBelow
<1> QED
  BY <1>2 DEF dir_block_alloc, DirFree

(* AllBlocks and SyncBlocks in terms of the places *)
LEMMA AllBlocksPlaces ==
    /\ DOMAIN AllBlocks = DataPlaces
    /\ \A j \in DataPlaces : AllBlocks[j] = Blk(i_sectors, disk, j)
    /\ DOMAIN SyncBlocks = DataPlaces
    /\ \A j \in DataPlaces : SyncBlocks[j] = IF j < Direct THEN Blk(i_sectors, disk, j) ELSE 0
    /\ DataPlaces \subseteq DirPlaces /\ Total \in DirPlaces /\ Total \notin DataPlaces
    /\ Direct \in DataPlaces /\ DataPlaces \in SUBSET Nat
<1>1. Direct \in Nat \ {0} /\ Indirect \in Nat \ {0} /\ Total \in Nat /\ Total = Direct + Indirect
  BY DirBounds
<1>2. DOMAIN AllBlocks = DataPlaces /\ DOMAIN SyncBlocks = DataPlaces
  BY <1>1 DEF AllBlocks, SyncBlocks, DataPlaces, Total
<1>3. ASSUME NEW j \in DataPlaces PROVE AllBlocks[j] = Blk(i_sectors, disk, j)
  <2>1. j \in 0..(Direct + Indirect - 1) /\ j # Total
    BY <1>1 DEF DataPlaces, Total
  <2> QED
    BY <2>1 DEF AllBlocks, Blk
<1>4. ASSUME NEW j \in DataPlaces
      PROVE  SyncBlocks[j] = IF j < Direct THEN Blk(i_sectors, disk, j) ELSE 0
  <2>1. j \in 0..(Direct + Indirect - 1) /\ j # Total
    BY <1>1 DEF DataPlaces, Total
  <2> QED
    BY <2>1 DEF SyncBlocks, Blk
<1>5. /\ DataPlaces \subseteq DirPlaces /\ Total \in DirPlaces /\ Total \notin DataPlaces
      /\ Direct \in DataPlaces /\ DataPlaces \in SUBSET Nat
  BY <1>1 DEF DataPlaces, DirPlaces
<1> QED
  BY <1>2, <1>3, <1>4, <1>5

(* search_dir_entry finds what is in an entry. *)
LEMMA FoundEntry ==
    ASSUME NEW n, n # ""
    PROVE  Found(n) <=> \E p \in DataPlaces \X Slots : Ent(i_sectors, disk)[p] = n
<1>1. \A j \in DataPlaces, s \in Slots :
        Ent(i_sectors, disk)[<<j, s>>] = IF AllBlocks[j] = 0 THEN "" ELSE disk[AllBlocks[j]][s]
  BY AllBlocksPlaces DEF Ent
<1>2. Found(n) <=> \E j \in DataPlaces : AllBlocks[j] # 0 /\ \E s \in Slots : disk[AllBlocks[j]][s] = n
  BY AllBlocksPlaces DEF Found, Entries
<1>3. ASSUME NEW j \in DataPlaces, AllBlocks[j] # 0, NEW s \in Slots, disk[AllBlocks[j]][s] = n
      PROVE  \E p \in DataPlaces \X Slots : Ent(i_sectors, disk)[p] = n
  <2>1. Ent(i_sectors, disk)[<<j, s>>] = n /\ <<j, s>> \in DataPlaces \X Slots
    BY <1>1, <1>3
  <2> QED
    BY <2>1
<1>4. ASSUME NEW p \in DataPlaces \X Slots, Ent(i_sectors, disk)[p] = n
      PROVE  \E j \in DataPlaces : AllBlocks[j] # 0 /\ \E s \in Slots : disk[AllBlocks[j]][s] = n
  <2>1. PICK j \in DataPlaces, s \in Slots : p = <<j, s>>
    <3>1. p[1] \in DataPlaces /\ p[2] \in Slots /\ p = <<p[1], p[2]>>
      BY PairFacts
    <3> QED
      BY <3>1
  <2>2. AllBlocks[j] # 0 /\ disk[AllBlocks[j]][s] = n
    BY <1>1, <1>4, <2>1
  <2> QED
    BY <2>2
<1> QED
  BY <1>2, <1>3, <1>4

(* Where sync_dir_entry puts an entry *)
LEMMA FirstPlaceFacts ==
    /\ FirstPlace \in DataPlaces /\ FirstPlace <= Direct
    /\ SyncBlocks[FirstPlace] # 0 => FirstPlace < Direct /\ SyncBlocks[FirstPlace] = i_sectors[FirstPlace]
    /\ SyncBlocks[FirstPlace] # 0 => \E s \in Slots : disk[SyncBlocks[FirstPlace]][s] = ""
    /\ SyncBlocks[FirstPlace] = 0 /\ FirstPlace < Direct => i_sectors[FirstPlace] = 0
    /\ \A j \in 0..(Direct - 1) : j < FirstPlace =>
          i_sectors[j] # 0 /\ \A s \in Slots : disk[i_sectors[j]][s] # ""
<1> DEFINE S == {i \in DOMAIN SyncBlocks : SyncBlocks[i] = 0 \/ "" \in {disk[SyncBlocks[i]][s] : s \in Slots}}
<1>1. Direct \in Nat \ {0} /\ Total \in Nat /\ Direct < Total
  BY DirBounds
<1>2. /\ DOMAIN SyncBlocks = DataPlaces /\ DataPlaces \in SUBSET Nat /\ Direct \in DataPlaces
      /\ \A j \in DataPlaces : SyncBlocks[j] = IF j < Direct THEN Blk(i_sectors, disk, j) ELSE 0
  BY AllBlocksPlaces
<1>3. \A j \in DataPlaces : j < Direct => Blk(i_sectors, disk, j) = i_sectors[j]
  BY <1>1, <1>2 DEF Blk, DataPlaces
<1>4. Direct \in S /\ S \in SUBSET Nat
  <2>1. SyncBlocks[Direct] = 0
    BY <1>1, <1>2
  <2> QED
    BY <2>1, <1>2
<1>5. FirstPlace \in S /\ \A y \in S : FirstPlace <= y
  BY <1>4, SmallestIsMin DEF FirstPlace
<1>6. FirstPlace \in DataPlaces /\ FirstPlace <= Direct /\ FirstPlace \in Nat
  BY <1>2, <1>4, <1>5
<1>7. SyncBlocks[FirstPlace] # 0 => FirstPlace < Direct /\ SyncBlocks[FirstPlace] = i_sectors[FirstPlace]
  BY <1>2, <1>3, <1>6
<1>8. SyncBlocks[FirstPlace] # 0 => \E s \in Slots : disk[SyncBlocks[FirstPlace]][s] = ""
  BY <1>5
<1>9. SyncBlocks[FirstPlace] = 0 /\ FirstPlace < Direct => i_sectors[FirstPlace] = 0
  BY <1>2, <1>3, <1>6
<1>10. ASSUME NEW j \in 0..(Direct - 1), j < FirstPlace
       PROVE  i_sectors[j] # 0 /\ \A s \in Slots : disk[i_sectors[j]][s] # ""
  <2>1. j \in DataPlaces /\ j < Direct /\ ~(FirstPlace <= j)
    BY <1>1, <1>6, <1>10 DEF DataPlaces
  <2>2. j \notin S
    BY <2>1, <1>5
  <2>3. SyncBlocks[j] = i_sectors[j]
    BY <2>1, <1>2, <1>3
  <2> QED
    BY <2>1, <2>2, <2>3, <1>2
<1> HIDE DEF S
<1> QED
  BY <1>6, <1>7, <1>8, <1>9, <1>10

(* Every direct block is full when an entry goes to the table.  With fewer *)
(* names than the direct blocks have slots, the table is then a new one.   *)
LEMMA TableIsNew ==
    ASSUME IsFiniteSet(Names), Cardinality(Names) < Direct * SlotsPerSec,
           DirOk, FirstPlace = Direct, NEW n \in Names, n \notin names
    PROVE  i_sectors[Direct] = 0
<1> DEFINE E == Ent(i_sectors, disk)
           Full == (0..(Direct - 1)) \X Slots
<1>1. /\ Direct \in Nat \ {0} /\ Total \in Nat /\ Direct < Total /\ SlotsPerSec \in Nat
      /\ DataPlaces \in SUBSET Nat /\ Direct \in DataPlaces
  BY DirBounds, AllBlocksPlaces
<1>2. ASSUME NEW j \in 0..(Direct - 1), NEW s \in Slots
      PROVE  <<j, s>> \in DataPlaces \X Slots /\ E[<<j, s>>] # ""
  <2>0. j < FirstPlace
    BY <1>1
  <2>1. i_sectors[j] # 0 /\ disk[i_sectors[j]][s] # ""
    BY <2>0, FirstPlaceFacts
  <2>2. j \in DataPlaces /\ Blk(i_sectors, disk, j) = i_sectors[j]
    BY <1>1 DEF DataPlaces, Blk
  <2> QED
    BY <2>1, <2>2 DEF Ent
<1> SUFFICES ASSUME i_sectors[Direct] # 0 PROVE FALSE
  OBVIOUS
<1>3. PICK s \in Slots : E[<<Direct, s>>] # ""
  BY DEF DirOk, TableOk
<1> DEFINE e == E[<<Direct, s>>]
           T == (names \union Dots) \ {e}
           g == [p \in Full |-> E[p]]
<1>4. /\ \A p \in DataPlaces \X Slots : E[p] \in names \union Dots \union {""}
      /\ \A p, q \in DataPlaces \X Slots : E[p] = E[q] /\ E[p] # "" => p = q
  BY DEF DirOk, EntOk
<1>5. e \in names \union Dots
  BY <1>1, <1>3, <1>4
<1>6. \A p \in Full : p \in DataPlaces \X Slots /\ E[p] # "" /\ p # <<Direct, s>>
  <2> SUFFICES ASSUME NEW p \in Full
               PROVE  p \in DataPlaces \X Slots /\ E[p] # "" /\ p # <<Direct, s>>
    OBVIOUS
  <2>1. p[1] \in 0..(Direct - 1) /\ p[2] \in Slots /\ p = <<p[1], p[2]>>
    OBVIOUS
  <2>2. p[1] # Direct
    BY <2>1, <1>1
  <2> HIDE DEF E
  <2>3. <<p[1], p[2]>> \in DataPlaces \X Slots /\ E[<<p[1], p[2]>>] # ""
    BY <2>1, <1>2
  <2>4. <<p[1], p[2]>> # <<Direct, s>>
    BY <2>2
  <2> QED
    BY <2>1, <2>3, <2>4, Zenon
<1>7. g \in [Full -> T]
  <2>1. \A p \in Full : E[p] \in T
    <3> HIDE DEF E
    <3> QED
      BY <1>1, <1>3, <1>4, <1>6
  <2> HIDE DEF E, Full, T
  <2> QED
    BY <2>1
<1>8. \A x, y \in Full : g[x] = g[y] => x = y
  <2> HIDE DEF E, Full, T
  <2> QED
    BY <1>4, <1>6
<1>9. /\ IsFiniteSet(Full) /\ Cardinality(Full) = Direct * SlotsPerSec
  <2>1. IsFiniteSet(0..(Direct - 1)) /\ Cardinality(0..(Direct - 1)) = Direct
    BY <1>1, FS_Interval
  <2>2. IsFiniteSet(Slots) /\ Cardinality(Slots) = SlotsPerSec
    <3>1. SlotsPerSec \in Nat \ {0, 1}
      BY DirBounds
    <3>2. IsFiniteSet(0..(SlotsPerSec - 1)) /\ Cardinality(0..(SlotsPerSec - 1)) = SlotsPerSec
      BY <3>1, FS_Interval
    <3> QED
      BY <3>2 DEF Slots
  <2> QED
    BY <2>1, <2>2, FS_Product
<1>10. IsFiniteSet(T) /\ Cardinality(T) = Cardinality(names) + 1 /\ Cardinality(names) \in Nat
  <2>1. IsFiniteSet(names) /\ names \subseteq Names
    BY DEF DirOk, DirTypeOK
  <2>2. "." \notin names /\ ".." \notin names
    BY <2>1, NameFacts DEF Dots
  <2>3. IsFiniteSet(names \union {"."}) /\ Cardinality(names \union {"."}) = Cardinality(names) + 1
    BY <2>1, <2>2, FS_AddElement
  <2>4. ".." \notin names \union {"."}
    BY <2>2
  <2>5. /\ IsFiniteSet((names \union {"."}) \union {".."})
        /\ Cardinality((names \union {"."}) \union {".."}) = Cardinality(names \union {"."}) + 1
    BY <2>3, <2>4, FS_AddElement
  <2>6. (names \union {"."}) \union {".."} = names \union Dots
    BY DEF Dots
  <2>7. Cardinality(names) \in Nat
    BY <2>1, FS_CardinalityType
  <2>8. IsFiniteSet(names \union Dots) /\ Cardinality(names \union Dots) = Cardinality(names) + 2
    <3>1. IsFiniteSet(names \union Dots) /\ Cardinality(names \union Dots) = Cardinality(names \union {"."}) + 1
      BY <2>5, <2>6, Zenon
    <3>2. Cardinality(names \union Dots) = (Cardinality(names) + 1) + 1
      BY <3>1, <2>3, Zenon
    <3> QED
      BY <3>1, <3>2, <2>7
  <2>9. IsFiniteSet(T) /\ Cardinality(T) = Cardinality(names \union Dots) - 1
    BY <2>8, <1>5, FS_RemoveElement
  <2> QED
    BY <2>7, <2>8, <2>9
<1>11. Cardinality(names) < Cardinality(Names) /\ Cardinality(Names) \in Nat
  <2>1. names \subseteq Names \ {n}
    BY DEF DirOk, DirTypeOK
  <2>2. IsFiniteSet(Names \ {n}) /\ Cardinality(Names \ {n}) = Cardinality(Names) - 1
    BY FS_RemoveElement
  <2>3. Cardinality(names) <= Cardinality(Names \ {n})
    BY <2>1, <2>2, FS_Subset
  <2>4. Cardinality(Names) \in Nat
    BY FS_CardinalityType
  <2> QED
    BY <2>2, <2>3, <2>4, <1>10
<1>12. Cardinality(T) < Cardinality(Full)
  <2>1. Direct * SlotsPerSec \in Nat
    BY <1>1
  <2> HIDE DEF T, Full
  <2> QED
    BY <2>1, <1>9, <1>10, <1>11
<1> HIDE DEF g, T, Full
<1>13. \E x, y \in Full : x # y /\ g[x] = g[y]
  BY <1>7, <1>9, <1>10, <1>12, FS_PigeonHole
<1> QED
  BY <1>8, <1>13

-----------------------------------------------------------------------------
(* The three ways in which an entry is created.  In each the entries       *)
(* change in one slot, which was free.                                     *)
Added(sec, dsk, sec2, dsk2, n) ==
    \E p \in DataPlaces \X Slots :
        /\ Ent(sec, dsk)[p] = ""
        /\ Ent(sec2, dsk2) = EntSet(Ent(sec, dsk), p, n)

Removed(sec, dsk, sec2, dsk2, n) ==
    \E p \in DataPlaces \X Slots :
        /\ Ent(sec, dsk)[p] = n
        /\ Ent(sec2, dsk2) = EntSet(Ent(sec, dsk), p, "")

OnBlocks(dsk) == dsk = [c \in DirBlocks |-> dsk[c]]

BlocksOk(sec, dsk, bitmap) ==
    /\ sec \in [0..Direct -> DirBlocks \union {0}] /\ bitmap \in SUBSET DirBlocks /\ OnBlocks(dsk)
    /\ DirOneOwner(sec, dsk) /\ DirMarkedIfOwned(sec, dsk, bitmap) /\ SectorsOk(sec, dsk) /\ TableOk(sec, dsk)

LEMMA PlaceFacts ==
    /\ Direct \in DirPlaces /\ Direct \in 0..Direct /\ Direct # Total /\ ~(Direct < Direct) /\ 0 \in 0..(Direct - 1)
    /\ Direct - Direct = 0 /\ 0 \in 0..(Indirect - 1) /\ \A j \in DirPlaces : j # Total => j \in DataPlaces
    /\ \A j \in (Direct + 1)..(Total - 1) :
          j \in DirPlaces /\ j \in DataPlaces /\ j # Direct /\ j # Total /\ ~(j < Direct) /\ j - Direct \in 0..(Indirect - 1) /\ j - Direct # 0
    /\ \A j \in 0..(Direct - 1) :
          /\ j \in DataPlaces /\ j \in 0..Direct /\ j # Direct /\ j # Total /\ j < Direct
          /\ \A i \in (Direct + 1)..(Total - 1) : i # j
    /\ \A j \in DirPlaces : j < Direct => j \in 0..Direct /\ j \in 0..(Direct - 1)
    /\ \A j \in DataPlaces : j < Direct \/ j = Direct \/ j \in (Direct + 1)..(Total - 1)
<1>1. Direct \in Nat \ {0} /\ Indirect \in Nat \ {0} /\ Total \in Nat /\ Total = Direct + Indirect
  BY DirBounds
<1> QED
  BY <1>1 DEF DirPlaces, DataPlaces

Changed(sec, dsk, sec2, dsk2, j0, s0, x) ==
    \A j \in DataPlaces, s \in Slots :
        Ent(sec2, dsk2)[<<j, s>>] = IF j = j0 /\ s = s0 THEN x ELSE Ent(sec, dsk)[<<j, s>>]

ChangedPlace(sec, dsk, sec2, dsk2, j0, v) ==
    \A j \in DataPlaces, s \in Slots :
        Ent(sec2, dsk2)[<<j, s>>] = IF j = j0 THEN v[s] ELSE Ent(sec, dsk)[<<j, s>>]

SameElse(dsk, dsk2, S) == \A c \in DirBlocks : c \notin S => dsk2[c] = dsk[c]
SecSet(sec, j, b) == [sec EXCEPT ![j] = b]
FreshBlock(n) == [s \in Slots |-> IF s = 0 THEN n ELSE ""]
FreshTable(b) == [i \in 0..(Indirect - 1) |-> IF i = 0 THEN b ELSE 0]
SlotSet(w, s0, x) == [s \in Slots |-> IF s = s0 THEN x ELSE w[s]]

(* Two tables of entries that agree but in one slot *)
LEMMA EntSame ==
    ASSUME NEW sec, NEW dsk, NEW sec2, NEW dsk2, NEW j0 \in DataPlaces, NEW s0 \in Slots, NEW x,
           Changed(sec, dsk, sec2, dsk2, j0, s0, x)
    PROVE  /\ Ent(sec, dsk)[<<j0, s0>>] = "" => Added(sec, dsk, sec2, dsk2, x)
           /\ x = "" => Removed(sec, dsk, sec2, dsk2, Ent(sec, dsk)[<<j0, s0>>])
<1>1. Ent(sec2, dsk2) = [q \in DataPlaces \X Slots |-> Ent(sec2, dsk2)[q]]
  BY DEF Ent
<1>2. ASSUME NEW q \in DataPlaces \X Slots
      PROVE  Ent(sec2, dsk2)[q] = IF q = <<j0, s0>> THEN x ELSE Ent(sec, dsk)[q]
  <2>1. q[1] \in DataPlaces /\ q[2] \in Slots /\ q = <<q[1], q[2]>>
    BY PairFacts
  <2>2. Ent(sec2, dsk2)[<<q[1], q[2]>>] = IF q[1] = j0 /\ q[2] = s0 THEN x ELSE Ent(sec, dsk)[<<q[1], q[2]>>]
    BY <2>1 DEF Changed
  <2>3. q = <<j0, s0>> <=> q[1] = j0 /\ q[2] = s0
    BY <2>1
  <2> QED
    BY <2>1, <2>2, <2>3
<1>3. Ent(sec2, dsk2) = EntSet(Ent(sec, dsk), <<j0, s0>>, x)
  BY <1>1, <1>2 DEF EntSet
<1>4. <<j0, s0>> \in DataPlaces \X Slots
  OBVIOUS
<1> QED
  BY <1>3, <1>4, Zenon DEF Added, Removed

(* An entry is written into, or cleared in, a slot of a direct block. *)
LEMMA SlotWritten ==
    ASSUME NEW sec, NEW dsk, NEW bitmap, BlocksOk(sec, dsk, bitmap),
           NEW j0 \in DataPlaces, j0 # Direct, NEW s0 \in Slots, NEW x \in Names \union {""},
           NEW b, b = Blk(sec, dsk, j0), b # 0,
           NEW dsk2, OnBlocks(dsk2), dsk2[b] = SlotSet(dsk[b], s0, x),
           SameElse(dsk, dsk2, {b})
    PROVE  BlocksOk(sec, dsk2, bitmap) /\ Changed(sec, dsk, sec, dsk2, j0, s0, x)
<1>0. (\A c \in DirBlocks : c # b => dsk2[c] = dsk[c])
  BY DEF SameElse
<1> USE <1>0
<1>1. /\ DirOneOwner(sec, dsk) /\ DirMarkedIfOwned(sec, dsk, bitmap) /\ SectorsOk(sec, dsk) /\ TableOk(sec, dsk)
      /\ sec \in [0..Direct -> DirBlocks \union {0}] /\ bitmap \in SUBSET DirBlocks
  BY DEF BlocksOk
<1>2. DataPlaces \subseteq DirPlaces /\ Total \in DirPlaces /\ Total \notin DataPlaces /\ Direct \in DataPlaces
  BY AllBlocksPlaces
<1>3. b \in DirBlocks /\ dsk[b] \in [Slots -> Names \union Dots \union {""}]
  BY <1>1, <1>2 DEF DirOneOwner, SectorsOk
<1>4. dsk2[b] \in [Slots -> Names \union Dots \union {""}]
  BY <1>3 DEF SlotSet
<1>5. \A j \in DirPlaces : Blk(sec, dsk2, j) = Blk(sec, dsk, j)
  <2>1. sec[Direct] # 0 => sec[Direct] \in DirBlocks /\ sec[Direct] # b
    <3>1. Blk(sec, dsk, Total) = sec[Direct]
      BY DEF Blk
    <3> QED
      BY <3>1, <1>1, <1>2 DEF DirOneOwner
  <2>2. sec[Direct] # 0 => dsk2[sec[Direct]] = dsk[sec[Direct]]
    BY <2>1
  <2> QED
    BY <2>2 DEF Blk
<1>6. \A j \in DataPlaces : j # j0 /\ Blk(sec, dsk, j) # 0 => Blk(sec, dsk, j) # b /\ Blk(sec, dsk, j) \in DirBlocks
  BY <1>1, <1>2 DEF DirOneOwner
<1>7. \A j \in DataPlaces, s \in Slots :
        Ent(sec, dsk2)[<<j, s>>] = IF j = j0 /\ s = s0 THEN x ELSE Ent(sec, dsk)[<<j, s>>]
  <2> SUFFICES ASSUME NEW j \in DataPlaces, NEW s \in Slots
               PROVE  Ent(sec, dsk2)[<<j, s>>] = IF j = j0 /\ s = s0 THEN x ELSE Ent(sec, dsk)[<<j, s>>]
    OBVIOUS
  <2>1. /\ Ent(sec, dsk2)[<<j, s>>] = IF Blk(sec, dsk2, j) = 0 THEN "" ELSE dsk2[Blk(sec, dsk2, j)][s]
        /\ Ent(sec, dsk)[<<j, s>>] = IF Blk(sec, dsk, j) = 0 THEN "" ELSE dsk[Blk(sec, dsk, j)][s]
    BY DEF Ent
  <2>2. Blk(sec, dsk2, j) = Blk(sec, dsk, j)
    BY <1>5, <1>2
  <2>3. CASE j = j0
    <3>1. dsk2[b][s] = IF s = s0 THEN x ELSE dsk[b][s]
      BY DEF SlotSet
    <3> QED
      BY <2>1, <2>2, <2>3, <3>1
  <2>4. CASE j # j0
    <3>1. Blk(sec, dsk, j) # 0 => dsk2[Blk(sec, dsk, j)] = dsk[Blk(sec, dsk, j)]
      BY <2>4, <1>6
    <3> QED
      BY <2>1, <2>2, <2>4, <3>1
  <2> QED
    BY <2>3, <2>4
<1>8. DirOneOwner(sec, dsk2) /\ DirMarkedIfOwned(sec, dsk2, bitmap)
  BY <1>1, <1>5 DEF DirOneOwner, DirMarkedIfOwned
<1>9. SectorsOk(sec, dsk2)
  <2> SUFFICES ASSUME NEW j \in DataPlaces, Blk(sec, dsk2, j) # 0
               PROVE  dsk2[Blk(sec, dsk2, j)] \in [Slots -> Names \union Dots \union {""}]
    BY DEF SectorsOk
  <2>1. Blk(sec, dsk2, j) = Blk(sec, dsk, j)
    BY <1>5, <1>2
  <2>2. CASE j = j0
    BY <2>1, <2>2, <1>4
  <2>3. CASE j # j0
    BY <2>1, <2>3, <1>1, <1>6 DEF SectorsOk
  <2> QED
    BY <2>2, <2>3
<1>10. TableOk(sec, dsk2)
  <2>1. /\ Direct \in DirPlaces /\ \A j \in (Direct + 1)..(Total - 1) : j \in DirPlaces
    BY PlaceFacts
  <2>2. \A s \in Slots : Ent(sec, dsk2)[<<Direct, s>>] = Ent(sec, dsk)[<<Direct, s>>]
    BY <1>2, <1>7
  <2> QED
    BY <2>1, <2>2, <1>1, <1>5 DEF TableOk
<1> QED
  BY <1>1, <1>7, <1>8, <1>9, <1>10 DEF BlocksOk, Changed

(* A direct block is added, with its entries v, or given back (b = 0). *)
LEMMA BlockAdded ==
    ASSUME NEW sec, NEW dsk, NEW bitmap, BlocksOk(sec, dsk, bitmap),
           NEW j0 \in 0..(Direct - 1), sec[j0] = 0, NEW b \in DirBlocks, b \notin bitmap,
           NEW v \in [Slots -> Names \union Dots \union {""}],
           NEW dsk2, OnBlocks(dsk2), dsk2[b] = v, SameElse(dsk, dsk2, {b}),
           NEW sec2, sec2 = SecSet(sec, j0, b)
    PROVE  /\ BlocksOk(sec2, dsk2, bitmap \union {b})
           /\ ChangedPlace(sec, dsk, sec2, dsk2, j0, v)
           /\ \A s \in Slots : Ent(sec, dsk)[<<j0, s>>] = ""
<1>0. (\A c \in DirBlocks : c # b => dsk2[c] = dsk[c]) /\ (sec2 = [sec EXCEPT ![j0] = b])
  BY DEF SameElse, SecSet
<1> USE <1>0
<1>1. /\ DirOneOwner(sec, dsk) /\ DirMarkedIfOwned(sec, dsk, bitmap) /\ SectorsOk(sec, dsk) /\ TableOk(sec, dsk)
      /\ sec \in [0..Direct -> DirBlocks \union {0}] /\ bitmap \in SUBSET DirBlocks /\ OnBlocks(dsk)
  BY DEF BlocksOk
<1>2. DataPlaces \subseteq DirPlaces /\ Total \in DirPlaces /\ Total \notin DataPlaces /\ Direct \in DataPlaces
  BY AllBlocksPlaces
<1>3. /\ j0 \in DataPlaces /\ j0 \in 0..Direct /\ j0 # Direct /\ j0 # Total /\ j0 < Direct
      /\ Direct \in 0..Direct /\ Direct \in DirPlaces /\ \A j \in (Direct + 1)..(Total - 1) : j \in DataPlaces
  BY PlaceFacts
<1>4. dsk2[b] = v /\ \A c \in DirBlocks : c # b => dsk2[c] = dsk[c]
  OBVIOUS
<1>5. /\ sec2 \in [0..Direct -> DirBlocks \union {0}] /\ sec2[j0] = b
      /\ \A j \in 0..Direct : j # j0 => sec2[j] = sec[j]
  BY <1>1, <1>3
<1>6. 0 \notin DirBlocks
  BY DirBounds
<1>7. \A j \in DirPlaces : Blk(sec, dsk, j) # b
  BY <1>1 DEF DirMarkedIfOwned
<1>8. Blk(sec, dsk, j0) = 0 /\ Blk(sec2, dsk2, j0) = b
  BY <1>3, <1>5 DEF Blk
<1>9. ASSUME NEW j \in DirPlaces, j # j0 PROVE Blk(sec2, dsk2, j) = Blk(sec, dsk, j)
  <2>1. sec2[Direct] = sec[Direct]
    BY <1>3, <1>5
  <2>2. sec[Direct] # 0 => sec[Direct] \in DirBlocks /\ sec[Direct] # b
    <3>1. Blk(sec, dsk, Total) = sec[Direct]
      BY DEF Blk
    <3> QED
      BY <3>1, <1>1, <1>2, <1>7 DEF DirOneOwner
  <2>3. sec[Direct] # 0 => dsk2[sec[Direct]] = dsk[sec[Direct]]
    BY <2>2, <1>4
  <2>4. j < Direct => sec2[j] = sec[j]
    <3>1. j < Direct => j \in 0..Direct
      BY PlaceFacts
    <3> QED
      BY <3>1, <1>5, <1>9
  <2>5. CASE j = Total
    BY <2>1, <2>5 DEF Blk
  <2>6. CASE j # Total /\ j < Direct
    BY <2>4, <2>6 DEF Blk
  <2>7. CASE j # Total /\ ~(j < Direct)
    <3>1. /\ Blk(sec, dsk, j) = IF sec[Direct] = 0 THEN 0 ELSE dsk[sec[Direct]][j - Direct]
          /\ Blk(sec2, dsk2, j) = IF sec2[Direct] = 0 THEN 0 ELSE dsk2[sec2[Direct]][j - Direct]
      BY <2>7 DEF Blk
    <3>2. CASE sec[Direct] = 0
      BY <3>1, <3>2, <2>1
    <3>3. CASE sec[Direct] # 0
      <4>1. Blk(sec, dsk, j) = dsk[sec[Direct]][j - Direct]
        BY <3>1, <3>3
      <4>2. Blk(sec2, dsk2, j) = dsk2[sec2[Direct]][j - Direct]
        BY <3>1, <3>3, <2>1
      <4>3. dsk2[sec[Direct]] = dsk[sec[Direct]]
        BY <3>3, <2>3
      <4> HIDE <1>0
      <4> QED
        BY <4>1, <4>2, <4>3, <2>1, Zenon
    <3> QED
      BY <3>2, <3>3
  <2> QED
    BY <2>5, <2>6, <2>7
<1>10. ASSUME NEW j \in DataPlaces, NEW s \in Slots
       PROVE  Ent(sec2, dsk2)[<<j, s>>] = IF j = j0 THEN v[s] ELSE Ent(sec, dsk)[<<j, s>>]
  <2>1. /\ Ent(sec2, dsk2)[<<j, s>>] = IF Blk(sec2, dsk2, j) = 0 THEN "" ELSE dsk2[Blk(sec2, dsk2, j)][s]
        /\ Ent(sec, dsk)[<<j, s>>] = IF Blk(sec, dsk, j) = 0 THEN "" ELSE dsk[Blk(sec, dsk, j)][s]
    BY DEF Ent
  <2>2. CASE j = j0
    BY <2>1, <2>2, <1>4, <1>6, <1>8
  <2>3. CASE j # j0
    <3>1. Blk(sec2, dsk2, j) = Blk(sec, dsk, j) /\ Blk(sec, dsk, j) \in DirBlocks \union {0} /\ Blk(sec, dsk, j) # b
      BY <2>3, <1>1, <1>2, <1>7, <1>9 DEF DirOneOwner
    <3> QED
      BY <3>1, <2>1, <2>3, <1>4
  <2> QED
    BY <2>2, <2>3
<1>11. DirOneOwner(sec2, dsk2)
  <2>1. \A j \in DirPlaces : Blk(sec2, dsk2, j) \in DirBlocks \union {0}
    BY <1>1, <1>8, <1>9 DEF DirOneOwner
  <2>2. ASSUME NEW j \in DirPlaces, NEW k \in DirPlaces, Blk(sec2, dsk2, j) = Blk(sec2, dsk2, k), Blk(sec2, dsk2, j) # 0
        PROVE  j = k
    BY <2>2, <1>1, <1>7, <1>8, <1>9 DEF DirOneOwner
  <2> QED
    BY <2>1, <2>2 DEF DirOneOwner
<1>12. DirMarkedIfOwned(sec2, dsk2, bitmap \union {b})
  <2> SUFFICES ASSUME NEW c \in DirBlocks
               PROVE  c \in bitmap \union {b} <=> \E j \in DirPlaces : Blk(sec2, dsk2, j) = c
    BY DEF DirMarkedIfOwned
  <2>1. CASE c = b
    BY <2>1, <1>2, <1>3, <1>8
  <2>2. CASE c # b
    <3>1. (\E j \in DirPlaces : Blk(sec2, dsk2, j) = c) <=> \E j \in DirPlaces : Blk(sec, dsk, j) = c
      BY <2>2, <1>6, <1>8, <1>9
    <3> QED
      BY <3>1, <2>2, <1>1 DEF DirMarkedIfOwned
  <2> QED
    BY <2>1, <2>2
<1>13. SectorsOk(sec2, dsk2)
  <2> SUFFICES ASSUME NEW j \in DataPlaces, Blk(sec2, dsk2, j) # 0
               PROVE  dsk2[Blk(sec2, dsk2, j)] \in [Slots -> Names \union Dots \union {""}]
    BY DEF SectorsOk
  <2>1. CASE j = j0
    BY <2>1, <1>4, <1>8
  <2>2. CASE j # j0
    <3>1. Blk(sec2, dsk2, j) = Blk(sec, dsk, j) /\ Blk(sec, dsk, j) \in DirBlocks \union {0} /\ Blk(sec, dsk, j) # b
      BY <2>2, <1>1, <1>2, <1>7, <1>9 DEF DirOneOwner
    <3> QED
      BY <3>1, <1>1, <1>4 DEF SectorsOk
  <2> QED
    BY <2>1, <2>2
<1>14. TableOk(sec2, dsk2)
  <2>1. sec2[Direct] = sec[Direct]
    BY <1>3, <1>5
  <2>2. \A s \in Slots : Ent(sec2, dsk2)[<<Direct, s>>] = Ent(sec, dsk)[<<Direct, s>>]
    BY <1>2, <1>3, <1>10
  <2>3. \A j \in (Direct + 1)..(Total - 1) : j # j0 /\ j \in DirPlaces
    BY PlaceFacts
  <2>4. Blk(sec2, dsk2, Direct) = Blk(sec, dsk, Direct)
    BY <1>3, <1>9
  <2>5. \A j \in (Direct + 1)..(Total - 1) : Blk(sec2, dsk2, j) = Blk(sec, dsk, j)
    BY <2>3, <1>9
  <2> QED
    BY <2>1, <2>2, <2>4, <2>5, <1>1 DEF TableOk
<1>15. \A s \in Slots : Ent(sec, dsk)[<<j0, s>>] = ""
  <2> SUFFICES ASSUME NEW s \in Slots PROVE Ent(sec, dsk)[<<j0, s>>] = ""
    OBVIOUS
  <2>1. Ent(sec, dsk)[<<j0, s>>] = IF Blk(sec, dsk, j0) = 0 THEN "" ELSE dsk[Blk(sec, dsk, j0)][s]
    BY <1>3 DEF Ent
  <2> QED
    BY <2>1, <1>8
<1> QED
  BY <1>1, <1>4, <1>5, <1>10, <1>11, <1>12, <1>13, <1>14, <1>15 DEF BlocksOk, ChangedPlace

LEMMA BlockRemoved ==
    ASSUME NEW sec, NEW dsk, NEW bitmap, BlocksOk(sec, dsk, bitmap),
           NEW j0 \in 0..(Direct - 1), NEW b, sec[j0] = b, b # 0,
           NEW sec2, sec2 = SecSet(sec, j0, 0)
    PROVE  /\ BlocksOk(sec2, dsk, bitmap \ {b})
           /\ ChangedPlace(sec, dsk, sec2, dsk, j0, NoEntries)
<1>0. (sec2 = [sec EXCEPT ![j0] = 0])
  BY DEF SecSet
<1> USE <1>0
<1>1. /\ DirOneOwner(sec, dsk) /\ DirMarkedIfOwned(sec, dsk, bitmap) /\ SectorsOk(sec, dsk) /\ TableOk(sec, dsk)
      /\ sec \in [0..Direct -> DirBlocks \union {0}] /\ bitmap \in SUBSET DirBlocks /\ OnBlocks(dsk)
  BY DEF BlocksOk
<1>2. DataPlaces \subseteq DirPlaces /\ Total \in DirPlaces /\ Total \notin DataPlaces /\ Direct \in DataPlaces
  BY AllBlocksPlaces
<1>3. /\ j0 \in DataPlaces /\ j0 \in 0..Direct /\ j0 # Direct /\ j0 # Total /\ j0 < Direct
      /\ Direct \in 0..Direct /\ Direct \in DirPlaces
  BY PlaceFacts
<1>4. /\ sec2 \in [0..Direct -> DirBlocks \union {0}] /\ sec2[j0] = 0
      /\ \A j \in 0..Direct : j # j0 => sec2[j] = sec[j]
  BY <1>1, <1>3
<1>5. 0 \notin DirBlocks
  BY DirBounds
<1>6. Blk(sec, dsk, j0) = b /\ Blk(sec2, dsk, j0) = 0
  BY <1>3, <1>4 DEF Blk
<1>7. ASSUME NEW j \in DirPlaces, j # j0 PROVE Blk(sec2, dsk, j) = Blk(sec, dsk, j) /\ Blk(sec, dsk, j) # b
  <2>1. sec2[Direct] = sec[Direct]
    BY <1>3, <1>4
  <2>2. j < Direct => sec2[j] = sec[j]
    <3>1. j < Direct => j \in 0..Direct
      BY PlaceFacts
    <3> QED
      BY <3>1, <1>4, <1>7
  <2>3. Blk(sec, dsk, j) # b
    BY <1>1, <1>2, <1>3, <1>6, <1>7 DEF DirOneOwner
  <2> QED
    BY <2>1, <2>2, <2>3 DEF Blk
<1>8. ASSUME NEW j \in DataPlaces, NEW s \in Slots
      PROVE  Ent(sec2, dsk)[<<j, s>>] = IF j = j0 THEN "" ELSE Ent(sec, dsk)[<<j, s>>]
  <2>1. /\ Ent(sec2, dsk)[<<j, s>>] = IF Blk(sec2, dsk, j) = 0 THEN "" ELSE dsk[Blk(sec2, dsk, j)][s]
        /\ Ent(sec, dsk)[<<j, s>>] = IF Blk(sec, dsk, j) = 0 THEN "" ELSE dsk[Blk(sec, dsk, j)][s]
    BY DEF Ent
  <2>2. j # j0 => Blk(sec2, dsk, j) = Blk(sec, dsk, j)
    BY <1>2, <1>7
  <2> QED
    BY <2>1, <2>2, <1>6
<1>9. DirOneOwner(sec2, dsk)
  BY <1>1, <1>6, <1>7 DEF DirOneOwner
<1>10. DirMarkedIfOwned(sec2, dsk, bitmap \ {b})
  <2> SUFFICES ASSUME NEW c \in DirBlocks
               PROVE  c \in bitmap \ {b} <=> \E j \in DirPlaces : Blk(sec2, dsk, j) = c
    BY DEF DirMarkedIfOwned
  <2>1. CASE c = b
    BY <2>1, <1>5, <1>6, <1>7
  <2>2. CASE c # b
    <3>1. (\E j \in DirPlaces : Blk(sec2, dsk, j) = c) <=> \E j \in DirPlaces : Blk(sec, dsk, j) = c
      BY <2>2, <1>5, <1>6, <1>7
    <3> QED
      BY <3>1, <2>2, <1>1 DEF DirMarkedIfOwned
  <2> QED
    BY <2>1, <2>2
<1>11. SectorsOk(sec2, dsk)
  <2> SUFFICES ASSUME NEW j \in DataPlaces, Blk(sec2, dsk, j) # 0
               PROVE  dsk[Blk(sec2, dsk, j)] \in [Slots -> Names \union Dots \union {""}]
    BY DEF SectorsOk
  <2>1. j # j0 /\ Blk(sec2, dsk, j) = Blk(sec, dsk, j)
    BY <1>2, <1>6, <1>7
  <2> QED
    BY <2>1, <1>1 DEF SectorsOk
<1>12. TableOk(sec2, dsk)
  <2>1. sec2[Direct] = sec[Direct]
    BY <1>3, <1>4
  <2>2. \A s \in Slots : Ent(sec2, dsk)[<<Direct, s>>] = Ent(sec, dsk)[<<Direct, s>>]
    BY <1>2, <1>3, <1>8
  <2>3. \A j \in (Direct + 1)..(Total - 1) : j # j0 /\ j \in DirPlaces
    BY PlaceFacts
  <2>4. Blk(sec2, dsk, Direct) = Blk(sec, dsk, Direct)
    BY <1>3, <1>7
  <2>5. \A j \in (Direct + 1)..(Total - 1) : Blk(sec2, dsk, j) = Blk(sec, dsk, j)
    BY <2>3, <1>7
  <2> QED
    BY <2>1, <2>2, <2>4, <2>5, <1>1 DEF TableOk
<1>13. ChangedPlace(sec, dsk, sec2, dsk, j0, NoEntries)
  BY <1>8 DEF ChangedPlace, NoEntries
<1> QED
  BY <1>1, <1>4, <1>9, <1>10, <1>11, <1>12, <1>13 DEF BlocksOk

(* The table is added, with its first block and one entry in that block. *)
LEMMA TableAdded ==
    ASSUME NEW sec, NEW dsk, NEW bitmap, BlocksOk(sec, dsk, bitmap), sec[Direct] = 0,
           NEW t \in DirBlocks, t \notin bitmap, NEW b \in DirBlocks, b \notin bitmap, t # b,
           NEW n \in Names,
           NEW dsk2, OnBlocks(dsk2), dsk2[t] = FreshTable(b), dsk2[b] = FreshBlock(n),
           SameElse(dsk, dsk2, {t, b}),
           NEW sec2, sec2 = SecSet(sec, Direct, t)
    PROVE  /\ BlocksOk(sec2, dsk2, bitmap \union {t, b})
           /\ Changed(sec, dsk, sec2, dsk2, Direct, 0, n)
           /\ Ent(sec, dsk)[<<Direct, 0>>] = ""
<1>0. (\A c \in DirBlocks : c # b /\ c # t => dsk2[c] = dsk[c]) /\ (sec2 = [sec EXCEPT ![Direct] = t])
  BY DEF SameElse, SecSet
<1> USE <1>0
<1>1. /\ DirOneOwner(sec, dsk) /\ DirMarkedIfOwned(sec, dsk, bitmap) /\ SectorsOk(sec, dsk)
      /\ sec \in [0..Direct -> DirBlocks \union {0}] /\ bitmap \in SUBSET DirBlocks
  BY DEF BlocksOk
<1>2. DataPlaces \subseteq DirPlaces /\ Total \in DirPlaces /\ Total \notin DataPlaces /\ Direct \in DataPlaces
  BY AllBlocksPlaces
<1>3. 0 \notin DirBlocks /\ 0 \in Slots
  BY DirBounds
<1>4. t # 0 /\ b # 0
  BY <1>3
<1>5. /\ sec2 \in [0..Direct -> DirBlocks \union {0}] /\ sec2[Direct] = t
      /\ \A j \in 0..Direct : j # Direct => sec2[j] = sec[j]
  <2>1. Direct \in 0..Direct
    BY PlaceFacts
  <2> QED
    BY <2>1, <1>1
<1>6. \A j \in DirPlaces : Blk(sec, dsk, j) # b /\ Blk(sec, dsk, j) # t
  BY <1>1 DEF DirMarkedIfOwned
<1>7. /\ Blk(sec2, dsk2, Total) = t /\ Blk(sec, dsk, Total) = 0
  BY <1>5 DEF Blk
<1>8. Blk(sec2, dsk2, Direct) = b /\ Blk(sec, dsk, Direct) = 0
  <2>1. Direct # Total /\ ~(Direct < Direct)
    BY PlaceFacts
  <2>2. dsk2[t][Direct - Direct] = b
    <3>1. Direct - Direct = 0 /\ 0 \in 0..(Indirect - 1)
      BY PlaceFacts
    <3>2. dsk2[t][0] = b
      BY <3>1 DEF FreshTable
    <3> QED
      BY <3>1, <3>2
  <2>3. Blk(sec2, dsk2, Direct) = dsk2[t][Direct - Direct]
    BY <2>1, <1>4, <1>5 DEF Blk
  <2> QED
    BY <2>1, <2>2, <2>3 DEF Blk
<1>9. ASSUME NEW j \in (Direct + 1)..(Total - 1) PROVE Blk(sec2, dsk2, j) = 0 /\ Blk(sec, dsk, j) = 0
  <2>1. j # Total /\ ~(j < Direct) /\ j - Direct \in 0..(Indirect - 1) /\ j - Direct # 0
    BY PlaceFacts
  <2>2. dsk2[t][j - Direct] = 0
    BY <2>1 DEF FreshTable
  <2>3. Blk(sec2, dsk2, j) = dsk2[t][j - Direct]
    BY <2>1, <1>4, <1>5 DEF Blk
  <2> QED
    BY <2>1, <2>2, <2>3 DEF Blk
<1>10. ASSUME NEW j \in DirPlaces, j # Total, j # Direct PROVE Blk(sec2, dsk2, j) = Blk(sec, dsk, j)
  <2>1. CASE j < Direct
    <3>1. j \in 0..Direct
      BY <2>1, PlaceFacts
    <3>2. sec2[j] = sec[j]
      BY <3>1, <1>5, <1>10
    <3> QED
      BY <3>2, <2>1, <1>10 DEF Blk
  <2>2. CASE ~(j < Direct)
    <3>1. j \in DataPlaces
      BY <1>10, PlaceFacts
    <3>2. j \in (Direct + 1)..(Total - 1)
      BY <3>1, <2>2, <1>10, PlaceFacts
    <3> QED
      BY <3>2, <1>9
  <2> QED
    BY <2>1, <2>2
<1>11. ASSUME NEW j \in DataPlaces, NEW s \in Slots
       PROVE  Ent(sec2, dsk2)[<<j, s>>] = IF j = Direct /\ s = 0 THEN n ELSE Ent(sec, dsk)[<<j, s>>]
  <2>1. /\ Ent(sec2, dsk2)[<<j, s>>] = IF Blk(sec2, dsk2, j) = 0 THEN "" ELSE dsk2[Blk(sec2, dsk2, j)][s]
        /\ Ent(sec, dsk)[<<j, s>>] = IF Blk(sec, dsk, j) = 0 THEN "" ELSE dsk[Blk(sec, dsk, j)][s]
    BY DEF Ent
  <2>2. CASE j = Direct
    <3>1. dsk2[b][s] = IF s = 0 THEN n ELSE ""
      BY DEF FreshBlock
    <3> QED
      BY <3>1, <2>1, <2>2, <1>4, <1>8, Zenon
  <2>3. CASE j # Direct
    <3>1. Blk(sec2, dsk2, j) = Blk(sec, dsk, j)
      BY <2>3, <1>2, <1>10
    <3>2. Blk(sec, dsk, j) # 0 => dsk2[Blk(sec, dsk, j)] = dsk[Blk(sec, dsk, j)]
      BY <1>1, <1>2, <1>6 DEF DirOneOwner
    <3> QED
      BY <3>1, <3>2, <2>1, <2>3
  <2> QED
    BY <2>2, <2>3
<1>12. Ent(sec, dsk)[<<Direct, 0>>] = ""
  <2>1. Ent(sec, dsk)[<<Direct, 0>>] = IF Blk(sec, dsk, Direct) = 0 THEN "" ELSE dsk[Blk(sec, dsk, Direct)][0]
    BY <1>2, <1>3 DEF Ent
  <2> QED
    BY <2>1, <1>8
<1>13. DirOneOwner(sec2, dsk2)
  <2>1. \A j \in DirPlaces : Blk(sec2, dsk2, j) \in DirBlocks \union {0}
    BY <1>1, <1>7, <1>8, <1>10 DEF DirOneOwner
  <2>2. ASSUME NEW j \in DirPlaces, NEW k \in DirPlaces, Blk(sec2, dsk2, j) = Blk(sec2, dsk2, k), Blk(sec2, dsk2, j) # 0
        PROVE  j = k
    <3>1. \A i \in DirPlaces : i # Total /\ i # Direct => Blk(sec2, dsk2, i) = Blk(sec, dsk, i) /\ Blk(sec2, dsk2, i) # b /\ Blk(sec2, dsk2, i) # t
      BY <1>6, <1>10
    <3> QED
      BY <2>2, <3>1, <1>1, <1>7, <1>8 DEF DirOneOwner
  <2> QED
    BY <2>1, <2>2 DEF DirOneOwner
<1>14. DirMarkedIfOwned(sec2, dsk2, bitmap \union {t, b})
  <2> SUFFICES ASSUME NEW c \in DirBlocks
               PROVE  c \in bitmap \union {t, b} <=> \E j \in DirPlaces : Blk(sec2, dsk2, j) = c
    BY DEF DirMarkedIfOwned
  <2>1. CASE c = b
    BY <2>1, <1>2, <1>8
  <2>2. CASE c = t
    BY <2>2, <1>2, <1>7
  <2>3. CASE c # b /\ c # t
    <3>1. (\E j \in DirPlaces : Blk(sec2, dsk2, j) = c) <=> \E j \in DirPlaces : Blk(sec, dsk, j) = c
      BY <2>3, <1>3, <1>7, <1>8, <1>10
    <3> QED
      BY <3>1, <2>3, <1>1 DEF DirMarkedIfOwned
  <2> QED
    BY <2>1, <2>2, <2>3
<1>15. SectorsOk(sec2, dsk2)
  <2> SUFFICES ASSUME NEW j \in DataPlaces, Blk(sec2, dsk2, j) # 0
               PROVE  dsk2[Blk(sec2, dsk2, j)] \in [Slots -> Names \union Dots \union {""}]
    BY DEF SectorsOk
  <2>1. CASE j = Direct
    <3>1. dsk2[b] \in [Slots -> Names \union Dots \union {""}]
      BY DEF FreshBlock
    <3> QED
      BY <3>1, <2>1, <1>8
  <2>2. CASE j # Direct
    <3>1. Blk(sec2, dsk2, j) = Blk(sec, dsk, j) /\ Blk(sec, dsk, j) # b /\ Blk(sec, dsk, j) # t
      BY <2>2, <1>2, <1>6, <1>10
    <3>2. dsk2[Blk(sec, dsk, j)] = dsk[Blk(sec, dsk, j)]
      BY <3>1, <1>1, <1>2 DEF DirOneOwner
    <3> QED
      BY <3>1, <3>2, <1>1 DEF SectorsOk
  <2> QED
    BY <2>1, <2>2
<1>16. TableOk(sec2, dsk2)
  <2>1. Ent(sec2, dsk2)[<<Direct, 0>>] = n /\ n # ""
    BY <1>2, <1>3, <1>11, NameFacts
  <2>2. ASSUME NEW r \in Slots, r # 0 PROVE Ent(sec2, dsk2)[<<Direct, r>>] = ""
    <3>1. Ent(sec, dsk)[<<Direct, r>>] = IF Blk(sec, dsk, Direct) = 0 THEN "" ELSE dsk[Blk(sec, dsk, Direct)][r]
      BY <1>2 DEF Ent
    <3>2. Ent(sec2, dsk2)[<<Direct, r>>] = Ent(sec, dsk)[<<Direct, r>>]
      BY <2>2, <1>2, <1>11
    <3> QED
      BY <3>1, <3>2, <1>8
  <2> QED
    BY <2>1, <2>2, <1>3, <1>4, <1>8, <1>9 DEF TableOk
<1> QED
  BY <1>1, <1>5, <1>11, <1>12, <1>13, <1>14, <1>15, <1>16 DEF BlocksOk, Changed

-----------------------------------------------------------------------------
LEMMA BlocksOkHere == ASSUME DirOk PROVE BlocksOk(i_sectors, disk, used)
BY DEF DirOk, DirTypeOK, BlocksOk, OnBlocks

LEMMA CreateInSlot ==
    ASSUME DirOk, NEW n \in Names, create_in_slot(n)
    PROVE  BlocksOk(i_sectors', disk', used') /\ Added(i_sectors, disk, i_sectors', disk', n)
<1>1. PICK b, s0 : b = SyncBlocks[FirstPlace] /\ s0 = FirstSlot(b)
  OBVIOUS
<1>2. b # 0 /\ disk' = [disk EXCEPT ![b][s0] = n] /\ i_sectors' = i_sectors /\ used' = used
  BY <1>1 DEF create_in_slot
<1>3. /\ FirstPlace \in DataPlaces /\ FirstPlace < Direct /\ b = i_sectors[FirstPlace]
      /\ \E s \in Slots : disk[b][s] = ""
  BY <1>1, <1>2, FirstPlaceFacts
<1>4. s0 \in Slots /\ disk[b][s0] = ""
  <2> DEFINE S == {s \in Slots : disk[b][s] = ""}
  <2>1. S \in SUBSET Nat
    <3>1. SlotsPerSec \in Nat
      BY DirBounds
    <3> QED
      <4>1. Slots \subseteq Nat
        BY <3>1 DEF Slots
      <4> QED
        BY <4>1
  <2>2. S # {}
    BY <1>3
  <2>3. Min(S) \in S
    BY <2>1, <2>2, SmallestIsMin
  <2> QED
    BY <2>3, <1>1 DEF FirstSlot
<1>5. PICK j0, sec, dsk, dsk2, bitmap :
        j0 = FirstPlace /\ sec = i_sectors /\ dsk = disk /\ dsk2 = disk' /\ bitmap = used
  OBVIOUS
<1>6. BlocksOk(sec, dsk, bitmap)
  BY <1>5, BlocksOkHere
<1>7. j0 \in DataPlaces /\ j0 # Direct /\ b = Blk(sec, dsk, j0)
  <2>1. j0 \in DataPlaces /\ j0 < Direct /\ b = sec[j0]
    BY <1>3, <1>5
  <2>2. j0 # Direct /\ j0 # Total
    BY <2>1, PlaceFacts, AllBlocksPlaces
  <2> QED
    BY <2>1, <2>2 DEF Blk
<1>8. OnBlocks(dsk) /\ b \in DirBlocks /\ dsk[b] \in [Slots -> Names \union Dots \union {""}]
  BY <1>2, <1>6, <1>7, AllBlocksPlaces DEF BlocksOk, DirOneOwner, SectorsOk
<1>9. dsk2 = [dsk EXCEPT ![b][s0] = n]
  BY <1>2, <1>5
<1>10. dsk2[b] = SlotSet(dsk[b], s0, n) /\ SameElse(dsk, dsk2, {b}) /\ OnBlocks(dsk2)
  BY <1>4, <1>8, <1>9 DEF OnBlocks, SlotSet, SameElse
<1>11. BlocksOk(sec, dsk2, bitmap) /\ Changed(sec, dsk, sec, dsk2, j0, s0, n)
  <2>1. n \in Names \union {""}
    OBVIOUS
  <2> QED
    BY <2>1, <1>2, <1>4, <1>6, <1>7, <1>10, SlotWritten
<1>12. Ent(sec, dsk)[<<j0, s0>>] = ""
  BY <1>4, <1>5, <1>7 DEF Ent
<1>13. Added(sec, dsk, sec, dsk2, n)
  BY <1>4, <1>7, <1>11, <1>12, EntSame
<1> QED
  BY <1>2, <1>5, <1>11, <1>13

LEMMA CreateInBlock ==
    ASSUME DirOk, NEW n \in Names, create_in_block(n), Cardinality(DirFree) >= 1
    PROVE  BlocksOk(i_sectors', disk', used') /\ Added(i_sectors, disk, i_sectors', disk', n)
<1>1. PICK j0, b, sec, dsk, bitmap, sec2, dsk2 :
        /\ j0 = FirstPlace /\ b = dir_block_alloc(1) /\ sec = i_sectors /\ dsk = disk /\ bitmap = used
        /\ sec2 = i_sectors' /\ dsk2 = disk'
  OBVIOUS
<1>2. b \in DirBlocks /\ b \notin bitmap
  <2>1. 1 \in 1..Cardinality(DirFree)
    BY FreeFinite
  <2> QED
    BY <2>1, <1>1, DirAllocFacts DEF DirFree
<1>3. BlocksOk(sec, dsk, bitmap) /\ OnBlocks(dsk)
  BY <1>1, BlocksOkHere DEF BlocksOk
<1>4. j0 \in 0..(Direct - 1) /\ sec[j0] = 0 /\ j0 \in DataPlaces
  <2>1. FirstPlace \in DataPlaces /\ FirstPlace < Direct /\ i_sectors[FirstPlace] = 0
    BY FirstPlaceFacts DEF create_in_block
  <2>2. FirstPlace \in DirPlaces
    BY <2>1, AllBlocksPlaces
  <2> QED
    BY <2>1, <2>2, <1>1, PlaceFacts
<1>5. /\ used' = bitmap \union {b} /\ sec2 = [sec EXCEPT ![j0] = b]
      /\ dsk2 = [dsk EXCEPT ![b] = [NoEntries EXCEPT ![0] = n]]
  BY <1>1 DEF create_in_block
<1>6. PICK v : v = [NoEntries EXCEPT ![0] = n]
  OBVIOUS
<1>7. 0 \in Slots
  BY DirBounds
<1>8. v = [s \in Slots |-> IF s = 0 THEN n ELSE ""] /\ v \in [Slots -> Names \union Dots \union {""}]
  BY <1>6, <1>7 DEF NoEntries
<1>9. OnBlocks(dsk2) /\ dsk2[b] = v /\ SameElse(dsk, dsk2, {b})
  BY <1>2, <1>3, <1>5, <1>6 DEF OnBlocks, SameElse
<1>10. /\ BlocksOk(sec2, dsk2, bitmap \union {b})
       /\ ChangedPlace(sec, dsk, sec2, dsk2, j0, v)
       /\ \A s \in Slots : Ent(sec, dsk)[<<j0, s>>] = ""
  <2>1. sec2 = SecSet(sec, j0, b) /\ v \in [Slots -> Names \union Dots \union {""}]
    BY <1>5, <1>8 DEF SecSet
  <2> QED
    BY <2>1, <1>2, <1>3, <1>4, <1>9, BlockAdded
<1>11. Changed(sec, dsk, sec2, dsk2, j0, 0, n)
  <2>1. \A s \in Slots : v[s] = IF s = 0 THEN n ELSE ""
    BY <1>8
  <2> QED
    BY <2>1, <1>10 DEF Changed, ChangedPlace
<1>12. Added(sec, dsk, sec2, dsk2, n)
  BY <1>4, <1>7, <1>10, <1>11, EntSame
<1> QED
  BY <1>1, <1>5, <1>10, <1>12

LEMMA CreateInTable ==
    ASSUME IsFiniteSet(Names), Cardinality(Names) < Direct * SlotsPerSec,
           DirOk, NEW n \in Names, n \notin names, create_in_table(n), Cardinality(DirFree) >= 2
    PROVE  BlocksOk(i_sectors', disk', used') /\ Added(i_sectors, disk, i_sectors', disk', n)
<1>1. PICK t, b, sec, dsk, bitmap, sec2, dsk2 :
        /\ t = dir_block_alloc(1) /\ b = dir_block_alloc(2) /\ sec = i_sectors /\ dsk = disk /\ bitmap = used
        /\ sec2 = i_sectors' /\ dsk2 = disk'
  OBVIOUS
<1>2. t \in DirBlocks /\ t \notin bitmap /\ b \in DirBlocks /\ b \notin bitmap /\ t # b
  <2>1. 1 \in 1..Cardinality(DirFree) /\ 2 \in 1..Cardinality(DirFree)
    BY FreeFinite
  <2>2. t \in DirFree /\ Cardinality({c \in DirFree : c < t}) = 1 - 1
    BY <2>1, <1>1, DirAllocFacts
  <2>3. b \in DirFree /\ Cardinality({c \in DirFree : c < b}) = 2 - 1
    BY <2>1, <1>1, DirAllocFacts
  <2> QED
    BY <2>2, <2>3, <1>1 DEF DirFree
<1>3. BlocksOk(sec, dsk, bitmap) /\ OnBlocks(dsk)
  BY <1>1, BlocksOkHere DEF BlocksOk
<1>4. sec[Direct] = 0
  BY <1>1, TableIsNew DEF create_in_table
<1>5. /\ used' = bitmap \union {t, b} /\ sec2 = [sec EXCEPT ![Direct] = t]
      /\ dsk2 = [dsk EXCEPT ![t] = [i \in 0..(Indirect - 1) |-> IF i = 0 THEN b ELSE 0],
                            ![b] = [NoEntries EXCEPT ![0] = n]]
  BY <1>1 DEF create_in_table
<1>6. 0 \in Slots /\ Direct \in DataPlaces
  BY DirBounds, AllBlocksPlaces
<1>7. PICK u, v : u = FreshTable(b) /\ v = FreshBlock(n)
  OBVIOUS
<1>8. [NoEntries EXCEPT ![0] = n] = v /\ [i \in 0..(Indirect - 1) |-> IF i = 0 THEN b ELSE 0] = u
  BY <1>6, <1>7 DEF NoEntries, FreshTable, FreshBlock
<1>9. dsk2 = [dsk EXCEPT ![t] = u, ![b] = v]
  BY <1>5, <1>8
<1>10. /\ OnBlocks(dsk2) /\ dsk2[t] = u /\ dsk2[b] = v
       /\ SameElse(dsk, dsk2, {t, b})
  BY <1>2, <1>3, <1>9 DEF OnBlocks, SameElse
<1>11. /\ BlocksOk(sec2, dsk2, bitmap \union {t, b})
       /\ Changed(sec, dsk, sec2, dsk2, Direct, 0, n)
       /\ Ent(sec, dsk)[<<Direct, 0>>] = ""
  <2>1. sec2 = SecSet(sec, Direct, t)
    BY <1>5 DEF SecSet
  <2> QED
    BY <2>1, <1>2, <1>3, <1>4, <1>7, <1>10, TableAdded
<1>12. Added(sec, dsk, sec2, dsk2, n)
  BY <1>6, <1>11, EntSame
<1> QED
  BY <1>1, <1>5, <1>11, <1>12

-----------------------------------------------------------------------------
(* Where delete_dir_entry finds an entry *)
LEMMA PlaceOfFacts ==
    ASSUME DirOk, NEW n \in Names, Found(n)
    PROVE  /\ PlaceOf(n) \in DataPlaces /\ AllBlocks[PlaceOf(n)] = Blk(i_sectors, disk, PlaceOf(n))
           /\ Blk(i_sectors, disk, PlaceOf(n)) # 0
           /\ \E s \in Slots : /\ disk[Blk(i_sectors, disk, PlaceOf(n))][s] = n
                               /\ Ent(i_sectors, disk)[<<PlaceOf(n), s>>] = n
<1> DEFINE S == {i \in DOMAIN AllBlocks : AllBlocks[i] # 0 /\ n \in Entries(AllBlocks[i])}
<1>1. DOMAIN AllBlocks = DataPlaces /\ DataPlaces \in SUBSET Nat
  BY AllBlocksPlaces
<1>2. S \in SUBSET Nat /\ S # {}
  BY <1>1 DEF Found
<1>3. PlaceOf(n) \in S
  BY <1>2, SmallestIsMin DEF PlaceOf
<1>4. PICK j : j = PlaceOf(n)
  OBVIOUS
<1>5. j \in DataPlaces /\ AllBlocks[j] # 0 /\ n \in Entries(AllBlocks[j])
  BY <1>1, <1>3, <1>4
<1>6. AllBlocks[j] = Blk(i_sectors, disk, j)
  BY <1>5, AllBlocksPlaces
<1>7. PICK s \in Slots : disk[Blk(i_sectors, disk, j)][s] = n
  BY <1>5, <1>6 DEF Entries
<1>8. Ent(i_sectors, disk)[<<j, s>>] = n
  BY <1>5, <1>6, <1>7 DEF Ent
<1> QED
  BY <1>4, <1>5, <1>6, <1>7, <1>8

LEMMA EntInBlock ==
    ASSUME NEW sec, NEW dsk, NEW j \in DataPlaces, Blk(sec, dsk, j) # 0, NEW s \in Slots
    PROVE  Ent(sec, dsk)[<<j, s>>] = dsk[Blk(sec, dsk, j)][s]
BY DEF Ent

LEMMA DeleteSlot ==
    ASSUME DirOk, NEW n \in Names, Found(n), delete_slot(n, AllBlocks[PlaceOf(n)])
    PROVE  BlocksOk(i_sectors', disk', used') /\ Removed(i_sectors, disk, i_sectors', disk', n)
<1>1. PICK j0, b, sec, dsk, bitmap, dsk2 :
        /\ j0 = PlaceOf(n) /\ b = AllBlocks[PlaceOf(n)]
        /\ sec = i_sectors /\ dsk = disk /\ bitmap = used /\ dsk2 = disk'
  OBVIOUS
<1>2. PICK s0 \in Slots : dsk[b][s0] = n /\ Ent(sec, dsk)[<<j0, s0>>] = n
  BY <1>1, PlaceOfFacts
<1>3. j0 \in DataPlaces /\ b = Blk(sec, dsk, j0) /\ b # 0
  BY <1>1, PlaceOfFacts
<1>4. /\ BlocksOk(sec, dsk, bitmap) /\ OnBlocks(dsk) /\ DirOneOwner(sec, dsk) /\ TableOk(sec, dsk)
      /\ EntOk(Ent(sec, dsk), names)
  BY <1>1, BlocksOkHere DEF BlocksOk, DirOk
<1>5. /\ dsk2 = [dsk EXCEPT ![b] = [s \in Slots |-> IF dsk[b][s] = n THEN "" ELSE dsk[b][s]]]
      /\ i_sectors' = sec /\ used' = bitmap /\ {dsk[b][s] : s \in Slots} \ {""} # {n}
  BY <1>1 DEF delete_slot, LastInBlock, Entries
<1>6. n # ""
  BY NameFacts
<1>7. b \in DirBlocks
  BY <1>3, <1>4, AllBlocksPlaces DEF DirOneOwner
<1>8. ASSUME NEW s \in Slots, s # s0 PROVE dsk[b][s] # n
  <2>1. Ent(sec, dsk)[<<j0, s>>] = dsk[b][s]
    BY <1>3, EntInBlock
  <2>2. <<j0, s>> \in DataPlaces \X Slots /\ <<j0, s0>> \in DataPlaces \X Slots /\ <<j0, s>> # <<j0, s0>>
    BY <1>3, <1>8
  <2> QED
    BY <2>1, <2>2, <1>2, <1>4, <1>6 DEF EntOk
<1>9. j0 # Direct
  <2> SUFFICES ASSUME j0 = Direct PROVE FALSE
    OBVIOUS
  <2>1. sec[Direct] # 0
    BY <1>3, PlaceFacts DEF Blk
  <2>2. PICK s1 \in Slots : \A r \in Slots : r # s1 => Ent(sec, dsk)[<<Direct, r>>] = ""
    BY <2>1, <1>4 DEF TableOk
  <2>3. s1 = s0
    BY <2>2, <1>2, <1>6
  <2>4. ASSUME NEW s \in Slots, s # s0 PROVE dsk[b][s] = ""
    <3>1. Ent(sec, dsk)[<<j0, s>>] = dsk[b][s]
      BY <1>3, EntInBlock
    <3> QED
      BY <3>1, <2>2, <2>3, <2>4
  <2> QED
    BY <2>4, <1>2, <1>5, <1>6
<1>10. dsk2[b] = SlotSet(dsk[b], s0, "") /\ SameElse(dsk, dsk2, {b}) /\ OnBlocks(dsk2)
  <2>1. [s \in Slots |-> IF dsk[b][s] = n THEN "" ELSE dsk[b][s]] = SlotSet(dsk[b], s0, "")
    BY <1>2, <1>8 DEF SlotSet
  <2>2. PICK w : w = SlotSet(dsk[b], s0, "")
    OBVIOUS
  <2>3. dsk2 = [dsk EXCEPT ![b] = w]
    BY <2>1, <2>2, <1>5
  <2> QED
    BY <2>2, <2>3, <1>4, <1>7 DEF OnBlocks, SameElse
<1>11. BlocksOk(sec, dsk2, bitmap) /\ Changed(sec, dsk, sec, dsk2, j0, s0, "")
  <2>1. "" \in Names \union {""}
    OBVIOUS
  <2> QED
    BY <2>1, <1>2, <1>3, <1>4, <1>9, <1>10, SlotWritten
<1>12. Removed(sec, dsk, sec, dsk2, n)
  <2>1. Removed(sec, dsk, sec, dsk2, Ent(sec, dsk)[<<j0, s0>>])
    BY <1>3, <1>11, EntSame
  <2> QED
    BY <2>1, <1>2
<1> QED
  BY <1>1, <1>5, <1>11, <1>12

LEMMA DeleteBlock ==
    ASSUME DirOk, NEW n \in Names, Found(n), delete_block(n, AllBlocks[PlaceOf(n)])
    PROVE  BlocksOk(i_sectors', disk', used') /\ Removed(i_sectors, disk, i_sectors', disk', n)
<1>1. PICK j0, b, sec, dsk, bitmap, sec2 :
        /\ j0 = PlaceOf(n) /\ b = AllBlocks[PlaceOf(n)]
        /\ sec = i_sectors /\ dsk = disk /\ bitmap = used /\ sec2 = i_sectors'
  OBVIOUS
<1>2. PICK s0 \in Slots : dsk[b][s0] = n /\ Ent(sec, dsk)[<<j0, s0>>] = n
  BY <1>1, PlaceOfFacts
<1>3. j0 \in DataPlaces /\ b = Blk(sec, dsk, j0) /\ b # 0
  BY <1>1, PlaceOfFacts
<1>4. BlocksOk(sec, dsk, bitmap) /\ EntOk(Ent(sec, dsk), names)
  BY <1>1, BlocksOkHere DEF DirOk
<1>5. /\ sec2 = SecSet(sec, j0, 0) /\ disk' = dsk /\ used' = bitmap \ {b} /\ j0 < Direct
      /\ {dsk[b][s] : s \in Slots} \ {""} = {n}
  BY <1>1 DEF delete_block, LastInBlock, Entries, SecSet
<1>6. j0 \in 0..(Direct - 1) /\ sec[j0] = b
  <2>1. j0 \in 0..(Direct - 1) /\ j0 # Total
    BY <1>3, <1>5, PlaceFacts, AllBlocksPlaces
  <2> QED
    BY <2>1, <1>3, <1>5 DEF Blk
<1>7. n # ""
  BY NameFacts
<1>8. ASSUME NEW s \in Slots, s # s0 PROVE Ent(sec, dsk)[<<j0, s>>] = ""
  <2>1. Ent(sec, dsk)[<<j0, s>>] = dsk[b][s]
    BY <1>3, EntInBlock
  <2>2. <<j0, s>> \in DataPlaces \X Slots /\ <<j0, s0>> \in DataPlaces \X Slots /\ <<j0, s>> # <<j0, s0>>
    BY <1>3, <1>8
  <2>3. dsk[b][s] # n
    BY <2>1, <2>2, <1>2, <1>4, <1>7 DEF EntOk
  <2> QED
    BY <2>1, <2>3, <1>5
<1>9. BlocksOk(sec2, dsk, bitmap \ {b}) /\ ChangedPlace(sec, dsk, sec2, dsk, j0, NoEntries)
  BY <1>3, <1>4, <1>5, <1>6, BlockRemoved
<1>10. Changed(sec, dsk, sec2, dsk, j0, s0, "")
  <2>1. \A s \in Slots : NoEntries[s] = ""
    BY DEF NoEntries
  <2> QED
    BY <2>1, <1>8, <1>9 DEF Changed, ChangedPlace
<1>11. Removed(sec, dsk, sec2, dsk, n)
  <2>1. Removed(sec, dsk, sec2, dsk, Ent(sec, dsk)[<<j0, s0>>])
    BY <1>3, <1>10, EntSame
  <2> QED
    BY <2>1, <1>2
<1> QED
  BY <1>1, <1>5, <1>9, <1>11

-----------------------------------------------------------------------------
(* A directory just made has its two entries in its first block. *)
LEMMA InitDir == ASSUME DirInit PROVE DirOk
<1>1. PICK sec, dsk : sec = i_sectors /\ dsk = disk
  OBVIOUS
<1>2. /\ sec = [i \in 0..Direct |-> IF i = 0 THEN 1 ELSE 0]
      /\ dsk = [b \in DirBlocks |-> IF b = 1 THEN [NoEntries EXCEPT ![0] = ".", ![1] = ".."] ELSE NoEntries]
      /\ used = {1} /\ i_size = 2 /\ names = {}
  BY <1>1 DEF DirInit
<1>3. 0 \in Slots /\ 1 \in Slots /\ 0 \notin DirBlocks /\ 1 \in DirBlocks
  <2>1. 1 \in DirBlocks
    <3>1. NBlocks \in Nat \ {0}
      BY DirBounds
    <3> QED
      BY <3>1 DEF DirBlocks
  <2> QED
    BY <2>1, DirBounds
<1>4. /\ 0 \in DataPlaces /\ 0 \in 0..Direct /\ Direct \in 0..Direct /\ Direct # 0 /\ Total # 0 /\ 0 < Direct
      /\ DataPlaces \subseteq DirPlaces /\ Total \in DirPlaces /\ 0 \in DirPlaces
      /\ \A j \in DirPlaces : j < Direct => j \in 0..Direct
  BY PlaceFacts, AllBlocksPlaces
<1>5. PICK v : v = [s \in Slots |-> IF s = 0 THEN "." ELSE IF s = 1 THEN ".." ELSE ""]
  OBVIOUS
<1>6. v = [NoEntries EXCEPT ![0] = ".", ![1] = ".."]
  BY <1>3, <1>5 DEF NoEntries
<1>7. dsk = [b \in DirBlocks |-> IF b = 1 THEN v ELSE NoEntries]
  BY <1>2, <1>6
<1>8. dsk = [b \in DirBlocks |-> dsk[b]] /\ dsk[1] = v
  BY <1>3, <1>7
<1>9. sec[0] = 1 /\ sec[Direct] = 0 /\ \A j \in 0..Direct : j # 0 => sec[j] = 0
  BY <1>2, <1>4
<1>10. /\ Blk(sec, dsk, 0) = 1
       /\ \A j \in DirPlaces : j # 0 => Blk(sec, dsk, j) = 0
  BY <1>4, <1>9 DEF Blk
<1>11. \A j \in DataPlaces, s \in Slots : Ent(sec, dsk)[<<j, s>>] = IF j = 0 THEN v[s] ELSE ""
  <2> SUFFICES ASSUME NEW j \in DataPlaces, NEW s \in Slots
               PROVE  Ent(sec, dsk)[<<j, s>>] = IF j = 0 THEN v[s] ELSE ""
    OBVIOUS
  <2>1. CASE j = 0
    <3>1. Blk(sec, dsk, j) = 1 /\ Blk(sec, dsk, j) # 0
      BY <2>1, <1>10
    <3>2. Ent(sec, dsk)[<<j, s>>] = dsk[1][s]
      BY <3>1, EntInBlock
    <3> QED
      BY <3>2, <2>1, <1>8
  <2>2. CASE j # 0
    <3>1. Blk(sec, dsk, j) = 0
      BY <2>2, <1>4, <1>10
    <3> QED
      BY <3>1, <2>2 DEF Ent
  <2> QED
    BY <2>1, <2>2
<1>12. /\ v[0] = "." /\ v[1] = ".." /\ \A s \in Slots : s # 0 /\ s # 1 => v[s] = ""
       /\ "." # ".." /\ "." # "" /\ ".." # "" /\ Dots = {".", ".."}
  BY <1>3, <1>5 DEF Dots
<1>13. DirOneOwner(sec, dsk)
  <2>1. \A j \in DirPlaces : Blk(sec, dsk, j) \in DirBlocks \union {0}
    BY <1>3, <1>10
  <2>2. \A j, k \in DirPlaces : Blk(sec, dsk, j) = Blk(sec, dsk, k) /\ Blk(sec, dsk, j) # 0 => j = k
    BY <1>10
  <2> QED
    BY <2>1, <2>2 DEF DirOneOwner
<1>14. DirMarkedIfOwned(sec, dsk, used)
  <2> SUFFICES ASSUME NEW b \in DirBlocks PROVE b \in used <=> \E j \in DirPlaces : Blk(sec, dsk, j) = b
    BY DEF DirMarkedIfOwned
  <2>1. CASE b = 1
    BY <2>1, <1>2, <1>4, <1>10
  <2>2. CASE b # 1
    BY <2>2, <1>2, <1>3, <1>10
  <2> QED
    BY <2>1, <2>2
<1>15. SectorsOk(sec, dsk)
  <2> SUFFICES ASSUME NEW j \in DataPlaces, Blk(sec, dsk, j) # 0
               PROVE  dsk[Blk(sec, dsk, j)] \in [Slots -> Names \union Dots \union {""}]
    BY DEF SectorsOk
  <2>1. Blk(sec, dsk, j) = 1
    BY <1>4, <1>10
  <2>2. v \in [Slots -> Names \union Dots \union {""}]
    BY <1>5, <1>12
  <2> QED
    BY <2>1, <2>2, <1>8
<1>16. EntOk(Ent(sec, dsk), names)
  <2>1. PICK e : e = Ent(sec, dsk)
    OBVIOUS
  <2>2. \A j \in DataPlaces, s \in Slots : e[<<j, s>>] = IF j = 0 THEN v[s] ELSE ""
    BY <2>1, <1>11
  <2>3. ASSUME NEW p \in DataPlaces \X Slots
        PROVE  /\ p = <<0, 0>> => e[p] = "."
               /\ p = <<0, 1>> => e[p] = ".."
               /\ p # <<0, 0>> /\ p # <<0, 1>> => e[p] = ""
    <3>1. PICK j \in DataPlaces, s \in Slots : p = <<j, s>>
      <4>1. p[1] \in DataPlaces /\ p[2] \in Slots /\ p = <<p[1], p[2]>>
        BY PairFacts
      <4> QED
        BY <4>1
    <3>2. e[p] = IF j = 0 THEN v[s] ELSE ""
      BY <3>1, <2>2
    <3>3. /\ p = <<0, 0>> => j = 0 /\ s = 0
          /\ p = <<0, 1>> => j = 0 /\ s = 1
          /\ p # <<0, 0>> /\ p # <<0, 1>> => j # 0 \/ (s # 0 /\ s # 1)
      BY <3>1
    <3> QED
      BY <3>2, <3>3, <1>12
  <2>4. <<0, 0>> \in DataPlaces \X Slots /\ <<0, 1>> \in DataPlaces \X Slots
    BY <1>3, <1>4
  <2>5. \A p \in DataPlaces \X Slots : e[p] \in names \union Dots \union {""}
    BY <2>3, <1>12
  <2>6. \A p, q \in DataPlaces \X Slots : e[p] = e[q] /\ e[p] # "" => p = q
    <3>1. ASSUME NEW p \in DataPlaces \X Slots, e[p] # ""
          PROVE  (e[p] = "." /\ p = <<0, 0>>) \/ (e[p] = ".." /\ p = <<0, 1>>)
      BY <3>1, <2>3
    <3>2. "." # ".."
      OBVIOUS
    <3> QED
      BY <3>1, <3>2, Zenon
  <2>7. \A x \in names \union Dots : \E p \in DataPlaces \X Slots : e[p] = x
    BY <2>3, <2>4, <1>2, <1>12
  <2> QED
    BY <2>1, <2>5, <2>6, <2>7 DEF EntOk
<1>17. TableOk(sec, dsk)
  BY <1>9 DEF TableOk
<1>18. DirTypeOK
  <2>1. i_sectors \in [0..Direct -> DirBlocks \union {0}] /\ used \in SUBSET DirBlocks /\ disk = [b \in DirBlocks |-> disk[b]]
    BY <1>1, <1>2, <1>3, <1>8
  <2>2. IsFiniteSet({}) /\ Cardinality({}) = 0
    BY FS_EmptySet
  <2> QED
    BY <2>1, <2>2, <1>2 DEF DirTypeOK
<1> QED
  BY <1>1, <1>13, <1>14, <1>15, <1>16, <1>17, <1>18 DEF DirOk

-----------------------------------------------------------------------------
LEMMA AfterAdded ==
    ASSUME DirOk, NEW n \in Names, n \notin names,
           BlocksOk(i_sectors', disk', used'), Added(i_sectors, disk, i_sectors', disk', n),
           i_size' = i_size + 1, names' = names \union {n}
    PROVE  DirOk'
<1>1. EntOk(Ent(i_sectors', disk'), names')
  <2>1. PICK e, e2 : e = Ent(i_sectors, disk) /\ e2 = Ent(i_sectors', disk')
    OBVIOUS
  <2>2. PICK p \in DataPlaces \X Slots :
          e[p] = "" /\ e2 = EntSet(e, p, n)
    BY <2>1 DEF Added
  <2>3. EntOk(e, names) /\ names \in SUBSET Names
    BY <2>1 DEF DirOk, DirTypeOK
  <2>4. EntOk(e2, names \union {n})
    BY <2>2, <2>3, EntryAdded
  <2> QED
    BY <2>1, <2>4
<1>2. names' \in SUBSET Names /\ IsFiniteSet(names') /\ i_size' = Cardinality(names') + 2
  <2>1. IsFiniteSet(names) /\ names \in SUBSET Names /\ i_size = Cardinality(names) + 2
    BY DEF DirOk, DirTypeOK
  <2>2. IsFiniteSet(names') /\ Cardinality(names') = Cardinality(names) + 1
    BY <2>1, FS_AddElement
  <2>3. Cardinality(names) \in Nat
    BY <2>1, FS_CardinalityType
  <2> QED
    BY <2>1, <2>2, <2>3
<1> QED
  BY <1>1, <1>2 DEF DirOk, DirTypeOK, BlocksOk, OnBlocks

LEMMA AfterRemoved ==
    ASSUME DirOk, NEW n \in Names,
           BlocksOk(i_sectors', disk', used'), Removed(i_sectors, disk, i_sectors', disk', n),
           i_size' = i_size - 1, names' = names \ {n}
    PROVE  DirOk'
<1>1. EntOk(Ent(i_sectors', disk'), names') /\ n \in names
  <2>1. PICK e, e2 : e = Ent(i_sectors, disk) /\ e2 = Ent(i_sectors', disk')
    OBVIOUS
  <2>2. PICK p \in DataPlaces \X Slots :
          e[p] = n /\ e2 = EntSet(e, p, "")
    BY <2>1 DEF Removed
  <2>3. EntOk(e, names) /\ names \in SUBSET Names
    BY <2>1 DEF DirOk, DirTypeOK
  <2>4. EntOk(e2, names \ {n}) /\ n \in names
    BY <2>2, <2>3, EntryRemoved
  <2> QED
    BY <2>1, <2>4
<1>2. names' \in SUBSET Names /\ IsFiniteSet(names') /\ i_size' = Cardinality(names') + 2
  <2>1. IsFiniteSet(names) /\ names \in SUBSET Names /\ i_size = Cardinality(names) + 2
    BY DEF DirOk, DirTypeOK
  <2>2. IsFiniteSet(names') /\ Cardinality(names') = Cardinality(names) - 1
    BY <2>1, <1>1, FS_RemoveElement
  <2>3. Cardinality(names) \in Nat
    BY <2>1, FS_CardinalityType
  <2> QED
    BY <2>1, <2>2, <2>3
<1> QED
  BY <1>1, <1>2 DEF DirOk, DirTypeOK, BlocksOk, OnBlocks

LEMMA SyncStep ==
    ASSUME IsFiniteSet(Names), Cardinality(Names) < Direct * SlotsPerSec,
           DirOk, NEW n \in Names, sync_dir_entry(n)
    PROVE  DirInv'
<1>1. CASE BlocksNeeded > Cardinality(DirFree)
  BY <1>1 DEF sync_dir_entry, DirFree, DirInv
<1>2. CASE ~(BlocksNeeded > Cardinality(DirFree))
  <2>1. /\ create_in_slot(n) \/ create_in_block(n) \/ create_in_table(n)
        /\ i_size' = i_size + 1 /\ names' = names \union {n} /\ n \notin names
    BY <1>2 DEF sync_dir_entry, DirFree
  <2>2. Cardinality(DirFree) \in Nat
    BY FreeFinite
  <2>3. BlocksOk(i_sectors', disk', used') /\ Added(i_sectors, disk, i_sectors', disk', n)
    <3>1. CASE create_in_slot(n)
      BY <3>1, CreateInSlot
    <3>2. CASE create_in_block(n)
      <4>1. BlocksNeeded = 1
        BY <3>2 DEF create_in_block, BlocksNeeded
      <4>2. Cardinality(DirFree) >= 1
        BY <4>1, <2>2, <1>2
      <4> QED
        BY <4>2, <3>2, CreateInBlock
    <3>3. CASE create_in_table(n)
      <4>1. BlocksNeeded = 2
        <5>1. FirstPlace = Direct
          BY <3>3 DEF create_in_table
        <5>2. SyncBlocks[FirstPlace] = 0
          BY <5>1, PlaceFacts, FirstPlaceFacts
        <5>3. ~(FirstPlace < Direct)
          BY <5>1, PlaceFacts
        <5> QED
          BY <5>2, <5>3 DEF BlocksNeeded
      <4>2. Cardinality(DirFree) >= 2
        BY <4>1, <2>2, <1>2
      <4> QED
        BY <4>2, <3>3, <2>1, CreateInTable
    <3> QED
      BY <2>1, <3>1, <3>2, <3>3
  <2> QED
    BY <2>1, <2>3, AfterAdded DEF DirInv
<1> QED
  BY <1>1, <1>2

LEMMA DeleteStep ==
    ASSUME DirOk, NEW n \in Names, delete_dir_entry(n)
    PROVE  DirInv'
<1>1. Found(n) /\ names' = names \ {n}
  BY DEF delete_dir_entry
<1>2. CASE delete_slot(n, AllBlocks[PlaceOf(n)])
  <2>1. i_size' = i_size - 1
    BY <1>2 DEF delete_slot
  <2>2. BlocksOk(i_sectors', disk', used') /\ Removed(i_sectors, disk, i_sectors', disk', n)
    BY <1>1, <1>2, DeleteSlot
  <2> QED
    BY <2>1, <2>2, <1>1, AfterRemoved DEF DirInv
<1>3. CASE delete_block(n, AllBlocks[PlaceOf(n)])
  <2>1. i_size' = i_size - 1
    BY <1>3 DEF delete_block
  <2>2. BlocksOk(i_sectors', disk', used') /\ Removed(i_sectors, disk, i_sectors', disk', n)
    BY <1>1, <1>3, DeleteBlock
  <2> QED
    BY <2>1, <2>2, <1>1, AfterRemoved DEF DirInv
<1>4. CASE delete_indirect(n, AllBlocks[PlaceOf(n)])
  BY <1>4 DEF delete_indirect, DirInv
<1> QED
  BY <1>2, <1>3, <1>4 DEF delete_dir_entry

LEMMA SameDir ==
    ASSUME DirOk, UNCHANGED <<i_sectors, i_size, used, disk, names>>
    PROVE  DirOk'
<1>1. i_sectors' = i_sectors /\ i_size' = i_size /\ used' = used /\ disk' = disk /\ names' = names
  OBVIOUS
<1> QED
  BY <1>1 DEF DirOk, DirTypeOK

LEMMA DirStep ==
    ASSUME IsFiniteSet(Names), Cardinality(Names) < Direct * SlotsPerSec, DirInv, [DirNext]_dirVars
    PROVE  DirInv'
<1>1. ASSUME NEW n \in Names, sync_dir_entry(n) PROVE DirInv'
  BY <1>1, SyncStep DEF DirInv, sync_dir_entry
<1>2. ASSUME NEW n \in Names, delete_dir_entry(n) PROVE DirInv'
  BY <1>2, DeleteStep DEF DirInv, delete_dir_entry
<1>3. CASE dir_read
  <2>1. DirOk /\ UNCHANGED <<i_sectors, i_size, used, disk, names>>
    BY <1>3 DEF dir_read, DirInv
  <2> QED
    BY <2>1, SameDir DEF DirInv
<1>4. CASE UNCHANGED dirVars
  <2>1. UNCHANGED <<i_sectors, i_size, used, disk, names>> /\ kernel' = kernel
    BY <1>4 DEF dirVars
  <2> QED
    BY <2>1, SameDir DEF DirInv
<1> QED
  BY <1>1, <1>2, <1>3, <1>4 DEF DirNext, dir_stopped

LEMMA DirAlways ==
    ASSUME IsFiniteSet(Names), Cardinality(Names) < Direct * SlotsPerSec
    PROVE  DirSpec => []DirInv
<1>1. DirInit => DirInv
  BY InitDir DEF DirInv
<1>2. DirInv /\ [DirNext]_dirVars => DirInv'
  BY DirStep
<1> QED
  BY <1>1, <1>2, PTL DEF DirSpec

-----------------------------------------------------------------------------
(* search_dir_entry finds exactly the names that were created and not      *)
(* deleted, each in one slot, "." and ".." always, and i_size counts them  *)
(* (sync_dir_entry, dir.c:113, and delete_dir_entry, dir.c:215), as long   *)
(* as there are fewer names than the direct blocks have slots: with more,  *)
(* sync_dir_entry puts a new table over the old one.                       *)
THEOREM LookupsExact ==
    ASSUME IsFiniteSet(Names), Cardinality(Names) < Direct * SlotsPerSec
    PROVE  DirSpec => []EntriesExact
<1>1. DirInv => EntriesExact
  <2> SUFFICES ASSUME DirOk
               PROVE  /\ \A n \in Names \union Dots : Found(n) <=> n \in names \union Dots
                      /\ \A b, c \in InUse, s, r \in Slots :
                            disk[b][s] # "" /\ disk[b][s] = disk[c][r] => b = c /\ s = r
                      /\ i_size = Cardinality(names) + 2
    BY DEF DirInv, EntriesExact
  <2>1. EntOk(Ent(i_sectors, disk), names) /\ names \in SUBSET Names /\ i_size = Cardinality(names) + 2
    BY DEF DirOk, DirTypeOK
  <2>2. ASSUME NEW n \in Names \union Dots PROVE Found(n) <=> n \in names \union Dots
    <3>1. n # ""
      BY NameFacts
    <3>2. Found(n) <=> \E p \in DataPlaces \X Slots : Ent(i_sectors, disk)[p] = n
      BY <3>1, FoundEntry
    <3>3. n \in names \union Dots => \E p \in DataPlaces \X Slots : Ent(i_sectors, disk)[p] = n
      BY <2>1 DEF EntOk
    <3>4. \A p \in DataPlaces \X Slots : Ent(i_sectors, disk)[p] \in names \union Dots \union {""}
      BY <2>1 DEF EntOk
    <3> QED
      BY <3>1, <3>2, <3>3, <3>4
  <2>4. \A b, c \in InUse, s, r \in Slots :
          disk[b][s] # "" /\ disk[b][s] = disk[c][r] => b = c /\ s = r
    <3> TAKE b, c \in InUse, s, r \in Slots
    <3> HAVE disk[b][s] # "" /\ disk[b][s] = disk[c][r]
    <3>1. PICK j \in DataPlaces : b = Blk(i_sectors, disk, j) /\ b # 0
      BY AllBlocksPlaces DEF InUse
    <3>2. PICK k \in DataPlaces : c = Blk(i_sectors, disk, k) /\ c # 0
      BY AllBlocksPlaces DEF InUse
    <3>3. Ent(i_sectors, disk)[<<j, s>>] = disk[b][s]
      BY <3>1, EntInBlock
    <3>4. Ent(i_sectors, disk)[<<k, r>>] = disk[c][r]
      BY <3>2, EntInBlock
    <3>5. <<j, s>> \in DataPlaces \X Slots /\ <<k, r>> \in DataPlaces \X Slots
      OBVIOUS
    <3>6. <<j, s>> = <<k, r>>
      BY <3>3, <3>4, <3>5, <2>1 DEF EntOk
    <3> QED
      BY <3>1, <3>2, <3>6
  <2>5. i_size = Cardinality(names) + 2
    BY <2>1
  <2> QED
    BY <2>2, <2>4, <2>5, Zenon
<1> QED
  BY <1>1, DirAlways, PTL

(* A block is marked in block_bitmap exactly while the directory has it:   *)
(* delete_dir_entry (dir.c:215-336) gives back a block with its last       *)
(* entry, and no block that has entries, under the same bound.             *)
THEOREM DirectoryBlocksExact ==
    ASSUME IsFiniteSet(Names), Cardinality(Names) < Direct * SlotsPerSec
    PROVE  DirSpec => []DirBlocksExact
<1>1. DirInv => DirBlocksExact
  <2> SUFFICES ASSUME DirOk PROVE used = InUse \union ({i_sectors[Direct]} \ {0})
    BY DEF DirInv, DirBlocksExact
  <2>1. /\ used \in SUBSET DirBlocks /\ DirOneOwner(i_sectors, disk) /\ DirMarkedIfOwned(i_sectors, disk, used)
    BY DEF DirOk, DirTypeOK
  <2>2. /\ DOMAIN AllBlocks = DataPlaces /\ \A j \in DataPlaces : AllBlocks[j] = Blk(i_sectors, disk, j)
        /\ DataPlaces \subseteq DirPlaces /\ Total \in DirPlaces /\ \A j \in DirPlaces : j # Total => j \in DataPlaces
    BY AllBlocksPlaces, PlaceFacts
  <2>3. Blk(i_sectors, disk, Total) = i_sectors[Direct] /\ 0 \notin DirBlocks
    BY DirBounds DEF Blk
  <2>4. \A x : x \in InUse <=> x # 0 /\ \E j \in DataPlaces : Blk(i_sectors, disk, j) = x
    BY <2>2 DEF InUse
  <2>5. ASSUME NEW x PROVE x \in used <=> x # 0 /\ \E j \in DirPlaces : Blk(i_sectors, disk, j) = x
    BY <2>1, <2>3 DEF DirOneOwner, DirMarkedIfOwned
  <2>6. ASSUME NEW x PROVE x \in used <=> x \in InUse \union ({i_sectors[Direct]} \ {0})
    BY <2>2, <2>3, <2>4, <2>5
  <2> QED
    BY <2>6
<1> QED
  BY <1>1, DirAlways, PTL
=============================================================================
