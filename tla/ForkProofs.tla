----------------------------- MODULE ForkProofs -----------------------------
(* sys_fork, for any number of processes and of pages: no frame is mapped  *)
(* twice, a child is a copy of its parent, and processes do not share      *)
(* memory.                                                                 *)
EXTENDS Fork, FiniteSetTheorems, WellFoundedInduction, TLAPS

(* In sys_fork, and there inside get_a_page_without_opvaddrbitmap. *)
Copying  == {"page", "lock", "sleep", "map"}
Buffered == {"lock", "sleep", "map"}
Child(t) == fork[t].child

TypeOK ==
    /\ cur \in Tasks /\ cr3 \in Tasks
    /\ pc \in [Tasks -> Copying \union {"none", "start", "stack", "set", "user"}]
    /\ bits \in [Tasks -> SUBSET Pages]
    /\ pt \in [Tasks -> [Pages -> Frames \union {NULL}]]
    /\ mem \in [Frames -> Data]
    /\ user_pool \in SUBSET Frames
    /\ found \in [Tasks -> Frames \union {NULL}]
    /\ fork \in [Tasks -> [child : Tasks \union {NULL}, todo : SUBSET Pages, buf : Data]]

(* A child belongs to one parent, and is no process before sys_fork ends. *)
ChildInv ==
    /\ \A t \in Tasks : pc[t] \in Copying <=> Child(t) # NULL
    /\ \A t \in Tasks : pc[t] \in Copying => pc[Child(t)] = "none"
    /\ \A t, u \in Tasks : Child(t) # NULL /\ Child(t) = Child(u) => t = u

(* The active page directory, while the kernel or a process uses it. *)
ActiveInv ==
    /\ pc[cur] # "none"
    /\ pc[cur] \in {"user", "start", "stack", "set", "page"} => cr3 = cur
    /\ pc[cur] = "lock" => cr3 = Child(cur)
    /\ pc[cur] \in {"sleep", "map"} => cr3 \in {cur, Child(cur)}

(* A process has mapped what its bitmap says; of a child the pages are     *)
(* mapped that have been copied, and a PCB not in use has none.            *)
Mapped == \A t \in Tasks : pc[t] # "none" => \A p \in Pages : pt[t][p] # NULL <=> p \in bits[t]
PartlyMapped ==
    \A t \in Tasks : pc[t] \in Copying =>
          /\ bits[Child(t)] = bits[t] /\ fork[t].todo \subseteq bits[t]
          /\ \A p \in Pages : pt[Child(t)][p] # NULL <=> p \in bits[t] \ fork[t].todo
Unmapped ==
    \A c \in Tasks : pc[c] = "none" /\ (\A t \in Tasks : Child(t) # c) =>
          \A p \in Pages : pt[c][p] = NULL
MapInv == Mapped /\ PartlyMapped /\ Unmapped

(* What has been copied, and what is in the buffer, is what the parent has *)
(* there.                                                                  *)
CopyInv ==
    \A t \in Tasks :
        /\ pc[t] \in Copying => \A p \in bits[t] \ fork[t].todo : mem[pt[Child(t)][p]] = mem[pt[t][p]]
        /\ pc[t] \in Buffered => /\ fork[t].todo # {}
                                 /\ fork[t].buf = mem[pt[t][Min(fork[t].todo)]]

(* The lock of the user pool is with the task in the middle of get_a_page, *)
(* every frame in use is marked, and what a scan has found is still free   *)
(* when the task that scanned comes to mark it.                            *)
LockInv == \A t \in Tasks : pc[t] \in {"stack", "set", "map"} => holder = t
Marked  == \A t \in Tasks, p \in Pages : pt[t][p] # NULL => pt[t][p] \in user_pool
PoolInv ==
    /\ Marked
    /\ \A t \in Tasks : pc[t] = "set" => found[t] \in Frames \ user_pool

ForkInv ==
    TypeOK /\ ChildInv /\ ActiveInv /\ MapInv /\ SpacesDisjoint /\ CopyInv /\ LockInv /\ PoolInv

-----------------------------------------------------------------------------
(* A set of numbers has a smallest one. *)
LEMMA MinFacts ==
    ASSUME NEW S \in SUBSET Nat, S # {}
    PROVE  Min(S) \in S
<1>1. PICK x \in S : \A y \in S : ~ (<<y, x>> \in OpToRel(<, Nat))
  BY NatLessThanWellFounded, WFMin
<1>2. \A y \in S : x <= y
  <2> SUFFICES ASSUME NEW y \in S PROVE x <= y
    OBVIOUS
  <2>1. <<y, x>> \in Nat \X Nat /\ ~ (<<y, x>> \in OpToRel(<, Nat))
    BY <1>1
  <2>2. ~ (y < x)
    BY <2>1 DEF OpToRel
  <2> QED
    BY <2>2
<1> QED
  BY <1>2 DEF Min

(* The scan of the bitmap returns a frame that is not marked. *)
LEMMA ScanFacts ==
    ASSUME Frames \ user_pool # {}
    PROVE  scan \in Frames \ user_pool
<1>1. Frames \ user_pool \in SUBSET Nat
  BY ForkAssumption DEF Frames
<1> QED
  BY <1>1, MinFacts DEF scan

LEMMA TodoFacts ==
    ASSUME NEW S \in SUBSET Pages, S # {}
    PROVE  Min(S) \in S /\ Min(S) \in Pages
<1>1. S \in SUBSET Nat
  BY ForkAssumption
<1> QED
  BY <1>1, MinFacts

LEMMA ForkInvInit == Init => ForkInv
<1> SUFFICES ASSUME Init PROVE ForkInv
  OBVIOUS
<1>1. first \in Tasks /\ NULL \notin Tasks /\ STACK3 \in Pages /\ Pages \subseteq Nat
  BY ForkAssumption DEF Tasks
<1>2. PICK s \in SUBSET Pages : bits = [t \in Tasks |-> IF t = first THEN s \union {STACK3} ELSE {}]
  BY DEF Init
<1>3. \A p \in Pages : p + 1 \in Frames /\ p + 1 # NULL
  BY ForkAssumption DEF Frames
<1>4. TypeOK
  BY <1>1, <1>2, <1>3, ForkAssumption DEF Init, TypeOK, Copying
<1>5. ChildInv /\ ActiveInv /\ CopyInv
  BY <1>1, ForkAssumption DEF Init, ChildInv, ActiveInv, CopyInv, Child, Copying, Buffered
<1>6. MapInv
  BY <1>1, <1>2, <1>3, ForkAssumption DEF Init, MapInv, Mapped, PartlyMapped, Unmapped, Child, Copying
<1>7. SpacesDisjoint
  BY <1>1, <1>2, <1>3, ForkAssumption DEF Init, SpacesDisjoint
<1>8. LockInv
  BY DEF Init, LockInv
<1>9. PoolInv
  BY <1>1, <1>2, <1>3 DEF Init, PoolInv, Marked
<1> QED
  BY <1>4, <1>5, <1>6, <1>7, <1>8, <1>9 DEF ForkInv

-----------------------------------------------------------------------------
(* Steps that leave the memory and the page tables alone. *)
LEMMA SwitchStep ==
    ASSUME ForkInv, NEW t \in Tasks, switch(t)
    PROVE  ForkInv'
<1> USE DEF ForkInv
<1>1. /\ cur' = t /\ cr3' = t /\ UNCHANGED <<pc, bits, pt, mem, user_pool, found, holder, fork>>
      /\ pc[t] \in {"user", "start", "stack", "set", "sleep"}
  BY DEF switch, page_dir_activate
<1>2. TypeOK'
  BY <1>1 DEF TypeOK
<1>3. ChildInv' /\ Unmapped'
  BY <1>1 DEF ChildInv, MapInv, Unmapped, Child
<1>4. Mapped' /\ PartlyMapped'
  BY <1>1 DEF MapInv, Mapped, PartlyMapped, Child
<1>5. SpacesDisjoint'
  BY <1>1 DEF SpacesDisjoint
<1>6. CopyInv'
  BY <1>1 DEF CopyInv, Child
<1>7. ActiveInv'
  BY <1>1 DEF ActiveInv
<1>8. LockInv' /\ PoolInv'
  BY <1>1 DEF LockInv, PoolInv, Marked
<1> QED
  BY <1>2, <1>3, <1>4, <1>5, <1>6, <1>7, <1>8 DEF MapInv

LEMMA LockStep ==
    ASSUME ForkInv, start_lock \/ palloc_scan \/ lock_acquire
    PROVE  ForkInv'
<1> USE DEF ForkInv, TypeOK, Copying, Buffered, Child
<1>0. /\ UNCHANGED <<cur, cr3, bits, pt, mem, user_pool, fork>>
      /\ \/ pc[cur] = "start" /\ holder = NULL /\ holder' = cur /\ pc' = [pc EXCEPT ![cur] = "stack"] /\ UNCHANGED found
         \/ /\ pc[cur] = "stack" /\ UNCHANGED holder /\ pc' = [pc EXCEPT ![cur] = "set"]
            /\ found' = [found EXCEPT ![cur] = scan] /\ scan \in Frames \ user_pool
         \/ /\ pc[cur] \in {"lock", "sleep"} /\ holder = NULL /\ holder' = cur
            /\ pc' = [pc EXCEPT ![cur] = "map"] /\ UNCHANGED found
         \/ pc[cur] = "lock" /\ UNCHANGED holder /\ pc' = [pc EXCEPT ![cur] = "sleep"] /\ UNCHANGED found
  BY ScanFacts DEF start_lock, palloc_scan, lock_acquire, At, Goto
<1>1. /\ UNCHANGED <<cur, cr3, bits, pt, mem, user_pool, fork>>
      /\ \/ pc[cur] = "start" /\ pc' = [pc EXCEPT ![cur] = "stack"]
         \/ pc[cur] = "stack" /\ pc' = [pc EXCEPT ![cur] = "set"]
         \/ pc[cur] \in {"lock", "sleep"} /\ pc' = [pc EXCEPT ![cur] = "map"]
         \/ pc[cur] = "lock" /\ pc' = [pc EXCEPT ![cur] = "sleep"]
  BY <1>0
<1>2. TypeOK'
  BY <1>0
<1>3. ChildInv'
  BY <1>1 DEF ChildInv
<1>4. ActiveInv'
  BY <1>1 DEF ActiveInv
<1>5. /\ \A t \in Tasks : pc'[t] \in Copying <=> pc[t] \in Copying
      /\ \A t \in Tasks : pc'[t] = "none" <=> pc[t] = "none"
  BY <1>1
<1>6. Mapped'
  BY <1>1, <1>5 DEF MapInv, Mapped
<1>7. PartlyMapped'
  BY <1>1, <1>5 DEF MapInv, PartlyMapped
<1>8. Unmapped'
  BY <1>1, <1>5 DEF MapInv, Unmapped
<1>9. CopyInv'
  BY <1>1 DEF CopyInv
<1>10. SpacesDisjoint'
  BY <1>1 DEF SpacesDisjoint
<1>11. LockInv'
  BY <1>0, ForkAssumption DEF LockInv
<1>12. PoolInv'
  BY <1>0 DEF PoolInv, Marked
<1> QED
  BY <1>2, <1>3, <1>4, <1>6, <1>7, <1>8, <1>9, <1>10, <1>11, <1>12 DEF MapInv

LEMMA WriteStep ==
    ASSUME ForkInv, NEW p \in Pages, NEW d \in Data, write(p, d)
    PROVE  /\ ForkInv'
           /\ \A t \in Tasks \ {cur} : \A q \in Pages : pt[t][q] # NULL => mem'[pt[t][q]] = mem[pt[t][q]]
<1> USE DEF ForkInv, TypeOK, Copying, Buffered, Child
<1>1. /\ UNCHANGED <<cur, cr3, pc, bits, pt, user_pool, found, holder, fork>> /\ pc[cur] = "user" /\ cr3 = cur
      /\ pt[cur][p] # NULL /\ mem' = [mem EXCEPT ![pt[cur][p]] = d]
  BY DEF write, At, ActiveInv
<1>2. \A t \in Tasks \ {cur} : \A q \in Pages : pt[t][q] # NULL => mem'[pt[t][q]] = mem[pt[t][q]]
  BY <1>1 DEF SpacesDisjoint
<1>3. TypeOK' /\ ActiveInv'
  BY <1>1 DEF ActiveInv
<1>4. ChildInv' /\ Unmapped'
  BY <1>1 DEF ChildInv, MapInv, Unmapped
<1>5. Mapped' /\ PartlyMapped'
  BY <1>1 DEF MapInv, Mapped, PartlyMapped
<1>6. SpacesDisjoint'
  BY <1>1 DEF SpacesDisjoint
<1>7. CopyInv'
  <2> SUFFICES ASSUME NEW t \in Tasks, pc[t] \in Copying
               PROVE  /\ \A q \in bits[t] \ fork[t].todo : mem'[pt[Child(t)][q]] = mem'[pt[t][q]]
                      /\ pc[t] \in Buffered => /\ fork[t].todo # {}
                                               /\ fork[t].buf = mem'[pt[t][Min(fork[t].todo)]]
    BY <1>1 DEF CopyInv
  <2>1. t # cur /\ Child(t) \in Tasks \ {cur} /\ bits[t] \subseteq Pages /\ fork[t].todo \subseteq bits[t]
    BY <1>1 DEF ChildInv, MapInv, Mapped, PartlyMapped
  <2>2. \A q \in bits[t] \ fork[t].todo : mem'[pt[Child(t)][q]] = mem'[pt[t][q]]
    BY <1>2, <2>1 DEF MapInv, Mapped, PartlyMapped, CopyInv
  <2>3. ASSUME pc[t] \in Buffered PROVE fork[t].todo # {} /\ fork[t].buf = mem'[pt[t][Min(fork[t].todo)]]
    <3>1. fork[t].todo # {} /\ fork[t].buf = mem[pt[t][Min(fork[t].todo)]]
      BY <2>3 DEF CopyInv
    <3>2. Min(fork[t].todo) \in bits[t]
      BY <2>1, <3>1, TodoFacts
    <3>3. pt[t][Min(fork[t].todo)] # NULL
      BY <2>1, <3>2 DEF MapInv, Mapped, PartlyMapped
    <3> QED
      BY <1>2, <2>1, <3>1, <3>2, <3>3
  <2> QED
    BY <2>2, <2>3
<1>8. LockInv' /\ PoolInv'
  BY <1>1 DEF LockInv, PoolInv, Marked
<1> QED
  BY <1>2, <1>3, <1>4, <1>5, <1>6, <1>7, <1>8 DEF MapInv

-----------------------------------------------------------------------------
(* A step that leaves alone what t has in its pages. *)
Kept(t) ==
    /\ bits'[t] = bits[t]
    /\ \A q \in Pages : /\ pt'[t][q] = pt[t][q]
                        /\ pt[t][q] # NULL => mem'[pt[t][q]] = mem[pt[t][q]]

(* A frame that is not marked is nobody's, whatever page it is mapped at. *)
Maps(c, p, f, d) ==
    /\ f \in Frames \ user_pool /\ mark(f) /\ pt[c][p] = NULL
    /\ pt' = [pt EXCEPT ![c][p] = f] /\ mem' = [mem EXCEPT ![f] = d]

LEMMA MapFrame ==
    ASSUME ForkInv, NEW c \in Tasks, NEW p \in Pages, NEW d \in Data, NEW f, Maps(c, p, f, d)
    PROVE  /\ f # NULL
           /\ (/\ pt \in [Tasks -> [Pages -> Frames \union {NULL}]]
               /\ mem \in [Frames -> Data] /\ user_pool \in SUBSET Frames)'
           /\ SpacesDisjoint'
           /\ \A t \in Tasks, q \in Pages : pt'[t][q] = IF t = c /\ q = p THEN f ELSE pt[t][q]
           /\ \A t \in Tasks, q \in Pages : pt[t][q] # NULL => mem'[pt[t][q]] = mem[pt[t][q]]
           /\ mem'[f] = d
           /\ Marked' /\ user_pool' = user_pool \union {f}
<1> USE DEF ForkInv, TypeOK, Maps
<1>1. f # NULL
  BY ForkAssumption
<1>2. \A t \in Tasks, q \in Pages : pt[t][q] # f
  BY <1>1 DEF PoolInv, Marked
<1>3. (/\ pt \in [Tasks -> [Pages -> Frames \union {NULL}]]
       /\ mem \in [Frames -> Data] /\ user_pool \in SUBSET Frames)'
  BY DEF mark
<1>4. \A t \in Tasks, q \in Pages : pt'[t][q] = IF t = c /\ q = p THEN f ELSE pt[t][q]
  OBVIOUS
<1>5. \A t \in Tasks, q \in Pages : pt[t][q] # NULL => mem'[pt[t][q]] = mem[pt[t][q]]
  BY <1>2
<1>6. SpacesDisjoint'
  BY <1>2, <1>4 DEF SpacesDisjoint
<1>7. Marked' /\ user_pool' = user_pool \union {f}
  BY <1>4 DEF PoolInv, Marked, mark
<1>8. mem'[f] = d
  OBVIOUS
<1> QED
  BY <1>1, <1>3, <1>4, <1>5, <1>6, <1>7, <1>8

(* The copy of t is as good as before when nothing of it has been touched. *)
LEMMA CopyKept ==
    ASSUME ForkInv, NEW t \in Tasks, pc[t] \in Copying, pc'[t] = pc[t], fork'[t] = fork[t],
           Kept(t), Kept(Child(t))
    PROVE  /\ \A q \in bits'[t] \ fork'[t].todo : mem'[pt'[Child(t)'][q]] = mem'[pt'[t][q]]
           /\ pc'[t] \in Buffered => /\ fork'[t].todo # {}
                                     /\ fork'[t].buf = mem'[pt'[t][Min(fork'[t].todo)]]
<1> USE DEF ForkInv, TypeOK
<1>1. Child(t)' = Child(t) /\ Child(t) \in Tasks /\ bits[t] \subseteq Pages /\ fork[t].todo \subseteq bits[t]
  BY DEF Child, ChildInv, MapInv, PartlyMapped
<1>2. \A q \in Pages : pt[t][q] # NULL <=> q \in bits[t]
  BY DEF MapInv, Mapped, Copying
<1>3. \A q \in Pages : pt[Child(t)][q] # NULL <=> q \in bits[t] \ fork[t].todo
  BY DEF MapInv, PartlyMapped
<1>4. \A q \in bits[t] : pt'[t][q] = pt[t][q] /\ mem'[pt[t][q]] = mem[pt[t][q]]
  BY <1>1, <1>2 DEF Kept
<1>5. \A q \in bits[t] \ fork[t].todo :
         pt'[Child(t)][q] = pt[Child(t)][q] /\ mem'[pt[Child(t)][q]] = mem[pt[Child(t)][q]]
  BY <1>1, <1>3 DEF Kept
<1>6. bits'[t] = bits[t]
  BY DEF Kept
<1>7. \A q \in bits'[t] \ fork'[t].todo : mem'[pt'[Child(t)'][q]] = mem'[pt'[t][q]]
  BY <1>1, <1>4, <1>5, <1>6 DEF CopyInv
<1>8. ASSUME pc'[t] \in Buffered
      PROVE  fork'[t].todo # {} /\ fork'[t].buf = mem'[pt'[t][Min(fork'[t].todo)]]
  <2>1. fork[t].todo # {} /\ fork[t].buf = mem[pt[t][Min(fork[t].todo)]]
    BY <1>8 DEF CopyInv
  <2>2. Min(fork[t].todo) \in bits[t]
    BY <1>1, <2>1, TodoFacts
  <2> QED
    BY <1>4, <2>1, <2>2
<1> QED
  BY <1>7, <1>8

LEMMA StartMapStep ==
    ASSUME ForkInv, start_map
    PROVE  ForkInv' /\ \A t \in Tasks \ {cur} : Kept(t)
<1> DEFINE f == found[cur]
<1>1. /\ UNCHANGED <<cur, cr3, fork>> /\ pc[cur] = "set" /\ cr3 = cur /\ pt[cur][STACK3] = NULL
      /\ STACK3 \in Pages /\ 0 \in Data /\ f \in Frames \ user_pool /\ mark(f)
      /\ found' = [found EXCEPT ![cur] = NULL]
      /\ bits' = [bits EXCEPT ![cur] = @ \union {STACK3}] /\ pc' = [pc EXCEPT ![cur] = "user"]
      /\ pt' = [pt EXCEPT ![cur][STACK3] = f] /\ mem' = [mem EXCEPT ![f] = 0]
  BY ForkAssumption DEF ForkInv, TypeOK, start_map, At, Goto, ActiveInv, PoolInv
<1> HIDE DEF f
<1>2. /\ f # NULL
      /\ (/\ pt \in [Tasks -> [Pages -> Frames \union {NULL}]]
          /\ mem \in [Frames -> Data] /\ user_pool \in SUBSET Frames)'
      /\ SpacesDisjoint'
      /\ \A t \in Tasks, q \in Pages : pt'[t][q] = IF t = cur /\ q = STACK3 THEN f ELSE pt[t][q]
      /\ Marked' /\ user_pool' = user_pool \union {f}
      /\ \A t \in Tasks, q \in Pages : pt[t][q] # NULL => mem'[pt[t][q]] = mem[pt[t][q]]
  <2>1. cur \in Tasks
    BY DEF ForkInv, TypeOK
  <2>2. Maps(cur, STACK3, f, 0)
    BY <1>1 DEF Maps
  <2> QED
    BY <1>1, <2>1, <2>2, MapFrame
<1> USE DEF ForkInv, TypeOK
<1>3. /\ \A t \in Tasks : pc'[t] \in Copying <=> pc[t] \in Copying
      /\ \A t \in Tasks : pc'[t] = "none" <=> pc[t] = "none"
      /\ pc[cur] \notin Copying
  BY <1>1 DEF Copying
<1>4. \A t \in Tasks \ {cur} : Kept(t)
  BY <1>1, <1>2 DEF Kept
<1>5. TypeOK'
  BY <1>1, <1>2
<1>6. ChildInv'
  BY <1>1, <1>3 DEF ChildInv, Child
<1>7. ActiveInv'
  BY <1>1 DEF ActiveInv
<1>8. Mapped'
  BY <1>1, <1>2, <1>3 DEF MapInv, Mapped
<1>9. \A t \in Tasks : pc[t] \in Copying => t # cur /\ Child(t) \in Tasks \ {cur} /\ Child(t)' = Child(t)
  BY <1>1, <1>3 DEF ChildInv, Child
<1>10. PartlyMapped'
  BY <1>1, <1>2, <1>3, <1>9 DEF MapInv, PartlyMapped
<1>11. Unmapped'
  <2> SUFFICES ASSUME NEW u \in Tasks, pc'[u] = "none", \A t \in Tasks : Child(t)' # u
               PROVE  \A q \in Pages : pt'[u][q] = NULL
    BY DEF Unmapped
  <2>1. pc[u] = "none" /\ \A t \in Tasks : Child(t) # u
    BY <1>1, <1>3 DEF Child
  <2>2. \A q \in Pages : pt[u][q] = NULL
    BY <2>1 DEF MapInv, Unmapped
  <2> QED
    BY <1>1, <1>2, <1>3, <2>1, <2>2
<1>12. CopyInv'
  <2> SUFFICES ASSUME NEW t \in Tasks, pc[t] \in Copying
               PROVE  /\ \A q \in bits'[t] \ fork'[t].todo : mem'[pt'[Child(t)'][q]] = mem'[pt'[t][q]]
                      /\ pc'[t] \in Buffered => /\ fork'[t].todo # {}
                                                /\ fork'[t].buf = mem'[pt'[t][Min(fork'[t].todo)]]
    BY <1>3 DEF CopyInv, Copying, Buffered
  <2>1. t # cur /\ Child(t) \in Tasks \ {cur} /\ pc'[t] = pc[t] /\ fork'[t] = fork[t]
    BY <1>1, <1>9
  <2>2. Kept(t) /\ Kept(Child(t))
    BY <1>4, <2>1
  <2> QED
    BY <2>1, <2>2, CopyKept
<1>13. \A t \in Tasks \ {cur} : pc[t] \notin {"stack", "set", "map"}
  BY <1>1 DEF LockInv
<1>14. LockInv' /\ PoolInv'
  BY <1>1, <1>2, <1>13 DEF LockInv, PoolInv
<1> QED
  BY <1>2, <1>4, <1>5, <1>6, <1>7, <1>8, <1>10, <1>11, <1>12, <1>14 DEF MapInv

-----------------------------------------------------------------------------
(* The steps of sys_fork. *)
LEMMA ForkCallStep ==
    ASSUME ForkInv, NEW c \in Tasks, sys_fork(c)
    PROVE  ForkInv' /\ pc[c] = "none" /\ \A t \in Tasks \ {c} : Kept(t)
<1> USE DEF ForkInv, TypeOK
<1>1. /\ UNCHANGED <<cur, cr3, pt, mem, user_pool, found, holder>> /\ pc[cur] = "user" /\ cr3 = cur
      /\ pc[c] = "none" /\ \A t \in Tasks : Child(t) # c
      /\ bits' = [bits EXCEPT ![c] = bits[cur]] /\ pc' = [pc EXCEPT ![cur] = "page"]
      /\ fork' = [fork EXCEPT ![cur] = [child |-> c, todo |-> bits[cur], buf |-> 0]]
  BY DEF sys_fork, At, Goto, ActiveInv, Child
<1>2. c # cur /\ c # NULL /\ 0 \in Data /\ pc[cur] \notin Copying /\ pc[c] \notin Copying /\ Child(cur) = NULL
  BY <1>1, ForkAssumption DEF Copying, ChildInv
<1>3. /\ pc'[cur] = "page" /\ \A t \in Tasks \ {cur} : pc'[t] = pc[t] /\ fork'[t] = fork[t] /\ Child(t)' = Child(t)
      /\ Child(cur)' = c /\ fork'[cur].todo = bits[cur]
      /\ bits'[c] = bits[cur] /\ \A t \in Tasks \ {c} : bits'[t] = bits[t]
  BY <1>1, <1>2 DEF Child
<1>4. TypeOK'
  BY <1>1, <1>2 DEF Copying
<1>5. \A t \in Tasks : pc[t] \in Copying =>
          t \in Tasks \ {cur, c} /\ Child(t) \in Tasks \ {cur, c} /\ pc[Child(t)] = "none"
  BY <1>1, <1>2 DEF ChildInv, Child
<1>6. ChildInv'
  <2>1. (\A t \in Tasks : pc[t] \in Copying <=> Child(t) # NULL)'
    BY <1>1, <1>2, <1>3 DEF ChildInv, Copying
  <2>2. (\A t \in Tasks : pc[t] \in Copying => pc[Child(t)] = "none")'
    BY <1>1, <1>2, <1>3, <1>5 DEF ChildInv
  <2>3. (\A t, u \in Tasks : Child(t) # NULL /\ Child(t) = Child(u) => t = u)'
    BY <1>1, <1>2, <1>3 DEF ChildInv
  <2> QED
    BY <2>1, <2>2, <2>3 DEF ChildInv
<1>7. ActiveInv'
  BY <1>1, <1>3 DEF ActiveInv
<1>8. Mapped'
  BY <1>1, <1>2, <1>3 DEF MapInv, Mapped
<1>9. PartlyMapped'
  <2> SUFFICES ASSUME NEW t \in Tasks, pc'[t] \in Copying
               PROVE  /\ bits'[Child(t)'] = bits'[t] /\ fork'[t].todo \subseteq bits'[t]
                      /\ \A p \in Pages : pt'[Child(t)'][p] # NULL <=> p \in bits'[t] \ fork'[t].todo
    BY DEF PartlyMapped
  <2>1. CASE t = cur
    BY <1>1, <1>2, <1>3, <2>1 DEF MapInv, Unmapped
  <2>2. CASE t # cur
    BY <1>1, <1>3, <1>5, <2>2 DEF MapInv, PartlyMapped
  <2> QED
    BY <2>1, <2>2
<1>10. Unmapped'
  <2> SUFFICES ASSUME NEW u \in Tasks, pc'[u] = "none", \A t \in Tasks : Child(t)' # u
               PROVE  \A p \in Pages : pt[u][p] = NULL
    BY <1>1 DEF Unmapped
  <2>1. pc[u] = "none" /\ \A t \in Tasks : Child(t) # u
    BY <1>1, <1>2, <1>3, ForkAssumption
  <2> QED
    BY <2>1 DEF MapInv, Unmapped
<1>11. \A t \in Tasks \ {c} : Kept(t)
  BY <1>1, <1>3 DEF Kept
<1>12. CopyInv'
  <2> SUFFICES ASSUME NEW t \in Tasks, pc'[t] \in Copying
               PROVE  /\ \A q \in bits'[t] \ fork'[t].todo : mem'[pt'[Child(t)'][q]] = mem'[pt'[t][q]]
                      /\ pc'[t] \in Buffered => /\ fork'[t].todo # {}
                                                /\ fork'[t].buf = mem'[pt'[t][Min(fork'[t].todo)]]
    BY DEF CopyInv, Copying, Buffered
  <2>1. CASE t = cur
    BY <1>2, <1>3, <2>1 DEF Buffered
  <2>2. CASE t # cur
    <3>1. pc[t] \in Copying /\ pc'[t] = pc[t] /\ fork'[t] = fork[t]
      BY <1>3, <2>2
    <3>2. Kept(t) /\ Kept(Child(t))
      BY <1>5, <1>11, <3>1
    <3> QED
      BY <3>1, <3>2, CopyKept
  <2> QED
    BY <2>1, <2>2
<1>13. SpacesDisjoint'
  BY <1>1 DEF SpacesDisjoint
<1>14. LockInv' /\ PoolInv'
  BY <1>1 DEF LockInv, PoolInv, Marked
<1> QED
  BY <1>1, <1>4, <1>6, <1>7, <1>8, <1>9, <1>10, <1>11, <1>12, <1>13, <1>14 DEF MapInv

LEMMA CopyPageStep ==
    ASSUME ForkInv, copy_page
    PROVE  ForkInv' /\ UNCHANGED <<bits, pt, mem>>
<1> USE DEF ForkInv, TypeOK
<1>1. /\ UNCHANGED <<cur, bits, pt, mem, user_pool, found, holder>> /\ pc[cur] = "page" /\ cr3 = cur /\ fork[cur].todo # {}
      /\ cr3' = Child(cur) /\ pc' = [pc EXCEPT ![cur] = "lock"]
      /\ fork' = [fork EXCEPT ![cur].buf = mem[pt[cur][Min(fork[cur].todo)]]]
  BY DEF copy_page, page_dir_activate, At, Goto, ActiveInv, Child
<1> DEFINE p == Min(fork[cur].todo)
<1>2. pc[cur] \in Copying /\ pc[cur] # "none"
  BY <1>1 DEF Copying
<1>3. p \in bits[cur] /\ p \in Pages /\ pt[cur][p] \in Frames
  <2>1. fork[cur].todo \subseteq bits[cur] /\ fork[cur].todo \in SUBSET Pages
    BY <1>2 DEF MapInv, PartlyMapped
  <2>2. p \in bits[cur] /\ p \in Pages
    BY <1>1, <2>1, TodoFacts
  <2> HIDE DEF p
  <2> QED
    BY <1>2, <2>2 DEF MapInv, Mapped
<1>4. Child(cur) \in Tasks /\ Child(cur) # cur
  BY <1>1, <1>2 DEF ChildInv, Child
<1> HIDE DEF p
<1>5. /\ \A t \in Tasks \ {cur} : pc'[t] = pc[t] /\ fork'[t] = fork[t]
      /\ pc'[cur] = "lock" /\ fork'[cur] = [fork[cur] EXCEPT !.buf = mem[pt[cur][p]]]
      /\ \A t \in Tasks : Child(t)' = Child(t) /\ fork'[t].todo = fork[t].todo
      /\ fork'[cur].buf = mem[pt[cur][p]]
  BY <1>1 DEF Child, p
<1>6. /\ \A t \in Tasks : pc'[t] \in Copying <=> pc[t] \in Copying
      /\ \A t \in Tasks : pc'[t] = "none" <=> pc[t] = "none"
  BY <1>1, <1>5 DEF Copying
<1>7. TypeOK'
  <2>1. fork' \in [Tasks -> [child : Tasks \union {NULL}, todo : SUBSET Pages, buf : Data]]
    BY <1>1, <1>3 DEF p
  <2> QED
    BY <1>1, <1>4, <2>1 DEF Copying
<1>8. ChildInv'
  BY <1>4, <1>5, <1>6 DEF ChildInv, Child
<1>9. ActiveInv'
  BY <1>1, <1>5 DEF ActiveInv
<1>10. Mapped'
  BY <1>1, <1>6 DEF MapInv, Mapped
<1>11. PartlyMapped'
  BY <1>1, <1>5, <1>6 DEF MapInv, PartlyMapped
<1>12. Unmapped'
  <2> SUFFICES ASSUME NEW u \in Tasks, pc'[u] = "none", \A t \in Tasks : Child(t)' # u
               PROVE  \A q \in Pages : pt'[u][q] = NULL
    BY DEF Unmapped
  <2>1. pc[u] = "none" /\ \A t \in Tasks : Child(t) # u
    BY <1>5, <1>6
  <2>2. \A q \in Pages : pt[u][q] = NULL
    BY <2>1 DEF MapInv, Unmapped
  <2> QED
    BY <1>1, <2>2
<1>13. SpacesDisjoint'
  BY <1>1 DEF SpacesDisjoint
<1>14. CopyInv'
  BY <1>1, <1>5, <1>6 DEF CopyInv, Copying, Buffered, p
<1>15. LockInv' /\ PoolInv'
  BY <1>1 DEF LockInv, PoolInv, Marked
<1> QED
  BY <1>1, <1>7, <1>8, <1>9, <1>10, <1>11, <1>12, <1>13, <1>14, <1>15 DEF MapInv

(* The page is installed in the child: in the page directory of the parent *)
(* it would be present, and the ASSERT would have failed.                  *)
LEMMA MapPageStep ==
    ASSUME ForkInv, map_page
    PROVE  ForkInv' /\ \A t \in Tasks \ {Child(cur)} : Kept(t)
<1> DEFINE p == Min(fork[cur].todo)
           d == fork[cur].buf
           c == Child(cur)
           f == scan
<1>1. /\ UNCHANGED <<cur, bits, found>> /\ pc[cur] = "map" /\ pt[cr3][p] = NULL /\ cr3' = cur
      /\ f \in Frames \ user_pool /\ mark(f)
      /\ pt' = [pt EXCEPT ![cr3][p] = f] /\ mem' = [mem EXCEPT ![f] = d]
      /\ fork' = [fork EXCEPT ![cur].todo = @ \ {p}] /\ pc' = [pc EXCEPT ![cur] = "page"]
  BY ScanFacts DEF map_page, page_dir_activate, At, Goto
<1>2. /\ pc[cur] \in Copying /\ pc[cur] \in Buffered /\ pc[cur] # "none"
      /\ cur \in Tasks /\ c \in Tasks /\ c # cur /\ pc[c] = "none" /\ d \in Data
  BY <1>1 DEF ForkInv, TypeOK, ChildInv, Child, Copying, Buffered
<1>3. p \in fork[cur].todo /\ p \in bits[cur] /\ p \in Pages /\ d = mem[pt[cur][p]] /\ pt[cur][p] # NULL
  <2>1. fork[cur].todo \subseteq bits[cur] /\ fork[cur].todo \in SUBSET Pages
    BY <1>2 DEF ForkInv, TypeOK, MapInv, PartlyMapped
  <2>2. fork[cur].todo # {} /\ d = mem[pt[cur][p]]
    BY <1>2 DEF ForkInv, CopyInv
  <2>3. p \in fork[cur].todo /\ p \in bits[cur] /\ p \in Pages
    BY <2>1, <2>2, TodoFacts
  <2> HIDE DEF p
  <2> QED
    BY <1>2, <2>2, <2>3 DEF ForkInv, MapInv, Mapped
<1>4. cr3 = c
  <2>1. cr3 \in {cur, c}
    BY <1>1 DEF ForkInv, ActiveInv
  <2> QED
    BY <1>1, <1>3, <2>1
<1> HIDE DEF p, d, f
<1>5. /\ f # NULL
      /\ (/\ pt \in [Tasks -> [Pages -> Frames \union {NULL}]]
          /\ mem \in [Frames -> Data] /\ user_pool \in SUBSET Frames)'
      /\ SpacesDisjoint'
      /\ Marked' /\ user_pool' = user_pool \union {f}
      /\ \A t \in Tasks, q \in Pages : pt'[t][q] = IF t = c /\ q = p THEN f ELSE pt[t][q]
      /\ \A t \in Tasks, q \in Pages : pt[t][q] # NULL => mem'[pt[t][q]] = mem[pt[t][q]]
      /\ mem'[f] = d
  <2> HIDE DEF c
  <2>1. Maps(c, p, f, d)
    BY <1>1, <1>4 DEF Maps
  <2> QED
    BY <1>2, <1>3, <2>1, MapFrame
<1> USE DEF ForkInv, TypeOK
<1>6. /\ \A t \in Tasks \ {cur} : pc'[t] = pc[t] /\ fork'[t] = fork[t]
      /\ pc'[cur] = "page" /\ fork'[cur].todo = fork[cur].todo \ {p}
      /\ \A t \in Tasks : Child(t)' = Child(t)
  BY <1>1, <1>2 DEF Child
<1>7. /\ \A t \in Tasks : pc'[t] \in Copying <=> pc[t] \in Copying
      /\ \A t \in Tasks : pc'[t] = "none" <=> pc[t] = "none"
  BY <1>1, <1>2, <1>6 DEF Copying
<1>8. \A t \in Tasks \ {c} : Kept(t)
  BY <1>1, <1>5 DEF Kept
<1>9. TypeOK'
  <2>1. fork' \in [Tasks -> [child : Tasks \union {NULL}, todo : SUBSET Pages, buf : Data]]
    BY <1>1, <1>2
  <2>2. pc' \in [Tasks -> Copying \union {"none", "start", "stack", "set", "user"}]
    BY <1>1, <1>2 DEF Copying
  <2> QED
    BY <1>1, <1>2, <1>5, <2>1, <2>2
<1>10. ChildInv'
  BY <1>2, <1>6, <1>7 DEF ChildInv, Child
<1>11. ActiveInv'
  BY <1>1, <1>6 DEF ActiveInv
<1>12. Mapped'
  BY <1>1, <1>2, <1>5, <1>7 DEF MapInv, Mapped
<1>13. \A t \in Tasks \ {cur} : pc[t] \in Copying => t # c /\ Child(t) \in Tasks \ {c}
  BY <1>2 DEF ChildInv, Child, Copying
<1>14. PartlyMapped'
  <2> SUFFICES ASSUME NEW t \in Tasks, pc[t] \in Copying
               PROVE  /\ bits[Child(t)] = bits[t] /\ fork'[t].todo \subseteq bits[t]
                      /\ \A q \in Pages : pt'[Child(t)][q] # NULL <=> q \in bits[t] \ fork'[t].todo
    BY <1>1, <1>6, <1>7 DEF PartlyMapped
  <2>0. /\ bits[Child(t)] = bits[t] /\ fork[t].todo \subseteq bits[t]
        /\ \A q \in Pages : pt[Child(t)][q] # NULL <=> q \in bits[t] \ fork[t].todo
    BY DEF MapInv, PartlyMapped
  <2>1. CASE t = cur
    BY <1>2, <1>3, <1>5, <1>6, <2>0, <2>1
  <2>2. CASE t # cur
    BY <1>5, <1>6, <1>13, <2>0, <2>2
  <2> QED
    BY <2>1, <2>2
<1>15. Unmapped'
  <2> SUFFICES ASSUME NEW u \in Tasks, pc'[u] = "none", \A t \in Tasks : Child(t)' # u
               PROVE  \A q \in Pages : pt'[u][q] = NULL
    BY DEF Unmapped
  <2>1. pc[u] = "none" /\ \A t \in Tasks : Child(t) # u
    BY <1>6, <1>7
  <2>2. \A q \in Pages : pt[u][q] = NULL
    BY <2>1 DEF MapInv, Unmapped
  <2> QED
    BY <1>2, <1>5, <2>1, <2>2
<1>16. CopyInv'
  <2> SUFFICES ASSUME NEW t \in Tasks, pc[t] \in Copying
               PROVE  /\ \A q \in bits'[t] \ fork'[t].todo : mem'[pt'[Child(t)'][q]] = mem'[pt'[t][q]]
                      /\ pc'[t] \in Buffered => /\ fork'[t].todo # {}
                                                /\ fork'[t].buf = mem'[pt'[t][Min(fork'[t].todo)]]
    BY <1>7 DEF CopyInv, Copying, Buffered
  <2>1. CASE t = cur
    <3>1. pc'[t] \notin Buffered
      BY <1>6, <2>1 DEF Buffered
    <3>2. \A q \in bits[cur] : pt'[cur][q] = pt[cur][q] /\ mem'[pt[cur][q]] = mem[pt[cur][q]]
      BY <1>2, <1>5 DEF MapInv, Mapped
    <3>3. \A q \in bits[cur] \ fork[cur].todo :
             /\ pt'[c][q] = pt[c][q] /\ mem'[pt[c][q]] = mem[pt[c][q]] /\ mem[pt[c][q]] = mem[pt[cur][q]]
      BY <1>2, <1>3, <1>5 DEF MapInv, PartlyMapped, CopyInv
    <3>4. mem'[pt'[c][p]] = mem'[pt'[cur][p]]
      BY <1>2, <1>3, <1>5, <3>2
    <3>5. \A q \in bits[cur] \ (fork[cur].todo \ {p}) : mem'[pt'[c][q]] = mem'[pt'[cur][q]]
      BY <3>2, <3>3, <3>4
    <3> QED
      BY <1>1, <1>6, <2>1, <3>1, <3>5
  <2>2. CASE t # cur
    <3>1. pc'[t] = pc[t] /\ fork'[t] = fork[t]
      BY <1>6, <2>2
    <3>2. Kept(t) /\ Kept(Child(t))
      BY <1>8, <1>13, <2>2
    <3> QED
      BY <3>1, <3>2, CopyKept
  <2> QED
    BY <2>1, <2>2
<1>17. \A t \in Tasks \ {cur} : pc[t] \notin {"stack", "set", "map"}
  BY <1>1 DEF LockInv
<1>18. LockInv' /\ PoolInv'
  BY <1>1, <1>5, <1>6, <1>17 DEF LockInv, PoolInv
<1> QED
  BY <1>5, <1>8, <1>9, <1>10, <1>11, <1>12, <1>14, <1>15, <1>16, <1>18 DEF MapInv

(* The child becomes a process, with what its parent has. *)
LEMMA ForkEndStep ==
    ASSUME ForkInv, fork_end
    PROVE  /\ ForkInv' /\ UNCHANGED <<bits, pt, mem>>
           /\ \A t \in Tasks : pc[t] = "none" /\ pc'[t] # "none" => t = Child(cur)
           /\ Child(cur) \in Tasks /\ bits[Child(cur)] = bits[cur]
           /\ \A p \in bits[cur] : /\ pt[cur][p] # NULL /\ pt[Child(cur)][p] # NULL
                                   /\ mem[pt[Child(cur)][p]] = mem[pt[cur][p]]
<1> USE DEF ForkInv, TypeOK
<1> DEFINE c == Child(cur)
<1>1. /\ UNCHANGED <<cur, cr3, bits, pt, mem, user_pool, found, holder>> /\ pc[cur] = "page" /\ cr3 = cur /\ fork[cur].todo = {}
      /\ pc' = [pc EXCEPT ![cur] = "user", ![c] = "user"]
      /\ fork' = [fork EXCEPT ![cur].child = NULL]
  BY DEF fork_end, At, ActiveInv, Child
<1>2. /\ pc[cur] \in Copying /\ pc[cur] # "none" /\ c \in Tasks /\ c # cur /\ pc[c] = "none"
      /\ pc[c] \notin Copying
  BY <1>1 DEF ChildInv, Child, Copying
<1>3. /\ \A t \in Tasks \ {cur} : fork'[t] = fork[t] /\ Child(t)' = Child(t)
      /\ Child(cur)' = NULL
      /\ \A t \in Tasks \ {cur, c} : pc'[t] = pc[t]
      /\ pc'[cur] = "user" /\ pc'[c] = "user"
  BY <1>1, <1>2 DEF Child
<1>4. /\ bits[c] = bits[cur]
      /\ \A p \in Pages : pt[c][p] # NULL <=> p \in bits[cur]
      /\ \A p \in Pages : pt[cur][p] # NULL <=> p \in bits[cur]
      /\ \A p \in bits[cur] : mem[pt[c][p]] = mem[pt[cur][p]]
  BY <1>1, <1>2 DEF MapInv, Mapped, PartlyMapped, CopyInv
<1>5. TypeOK'
  BY <1>1, <1>2 DEF Copying
<1>6. \A t \in Tasks : pc'[t] \in Copying => t # cur /\ t # c /\ pc'[t] = pc[t]
  BY <1>2, <1>3 DEF Copying
<1>7. \A t \in Tasks : pc'[t] \in Copying => Child(t) \in Tasks \ {cur, c}
  BY <1>2, <1>6 DEF ChildInv, Child
<1>8. ChildInv'
  <2>1. (\A t \in Tasks : pc[t] \in Copying <=> Child(t) # NULL)'
    <3> SUFFICES ASSUME NEW t \in Tasks PROVE pc'[t] \in Copying <=> Child(t)' # NULL
      OBVIOUS
    <3>1. pc[t] \in Copying <=> Child(t) # NULL
      BY DEF ChildInv
    <3>2. CASE t = cur
      BY <1>1, <1>3, <1>6, <3>2
    <3>3. CASE t = c
      BY <1>2, <1>3, <1>6, <3>1, <3>3
    <3>4. CASE t # cur /\ t # c
      BY <1>3, <3>1, <3>4
    <3> QED
      BY <3>2, <3>3, <3>4
  <2>2. (\A t \in Tasks : pc[t] \in Copying => pc[Child(t)] = "none")'
    BY <1>3, <1>6, <1>7 DEF ChildInv
  <2>3. (\A t, u \in Tasks : Child(t) # NULL /\ Child(t) = Child(u) => t = u)'
    <3> SUFFICES ASSUME NEW t \in Tasks, NEW u \in Tasks, Child(t)' # NULL, Child(t)' = Child(u)'
                 PROVE  t = u
      OBVIOUS
    <3>1. t # cur /\ u # cur
      BY <1>1, <1>3
    <3> QED
      BY <1>3, <3>1 DEF ChildInv
  <2> QED
    BY <2>1, <2>2, <2>3 DEF ChildInv
<1>9. ActiveInv'
  BY <1>1, <1>3 DEF ActiveInv
<1>10. Mapped'
  BY <1>1, <1>2, <1>3, <1>4 DEF MapInv, Mapped
<1>11. PartlyMapped'
  BY <1>1, <1>3, <1>6 DEF MapInv, PartlyMapped
<1>12. Unmapped'
  <2> SUFFICES ASSUME NEW u \in Tasks, pc'[u] = "none", \A t \in Tasks : Child(t)' # u
               PROVE  \A p \in Pages : pt[u][p] = NULL
    BY <1>1 DEF Unmapped
  <2>1. pc[u] = "none" /\ \A t \in Tasks : Child(t) # u
    BY <1>2, <1>3
  <2> QED
    BY <2>1 DEF MapInv, Unmapped
<1>13. SpacesDisjoint'
  BY <1>1 DEF SpacesDisjoint
<1>14. CopyInv'
  BY <1>1, <1>3, <1>6 DEF CopyInv, Copying, Buffered
<1>15. LockInv' /\ PoolInv'
  BY <1>1, <1>3 DEF LockInv, PoolInv, Marked
<1> QED
  BY <1>1, <1>2, <1>3, <1>4, <1>5, <1>8, <1>9, <1>10, <1>11, <1>12, <1>13, <1>14, <1>15 DEF MapInv

-----------------------------------------------------------------------------
(* What a step does to the other processes, and to a new one. *)
LEMMA HoldsKept ==
    ASSUME TypeOK, NEW t \in Tasks, Kept(t)
    PROVE  Holds(t)' = Holds(t)
<1>1. bits'[t] = bits[t] /\ bits[t] \subseteq Pages
  BY DEF Kept, TypeOK
<1>2. \A p \in bits[t] : (IF pt'[t][p] = NULL THEN NULL ELSE mem'[pt'[t][p]])
                        = (IF pt[t][p] = NULL THEN NULL ELSE mem[pt[t][p]])
  BY <1>1 DEF Kept
<1> QED
  BY <1>1, <1>2 DEF Holds

LEMMA ForkInvStep ==
    ASSUME ForkInv, [Next]_vars
    PROVE  /\ ForkInv'
           /\ vars' # vars => \A t \in Tasks \ {cur} : pc[t] # "none" => Kept(t)
           /\ \A t \in Tasks : pc[t] = "none" /\ pc'[t] = "user" => fork_end
<1>0. cur \in Tasks /\ pc[cur] # "none"
  BY DEF ForkInv, TypeOK, ActiveInv
<1>1. ASSUME NEW t \in Tasks, switch(t)
      PROVE  ForkInv' /\ UNCHANGED <<bits, pt, mem, pc>>
  BY <1>1, SwitchStep DEF switch
<1>2. ASSUME NEW c \in Tasks, sys_fork(c)
      PROVE  /\ ForkInv' /\ \A t \in Tasks \ {cur} : pc[t] # "none" => Kept(t)
             /\ \A t \in Tasks : pc[t] = "none" => pc'[t] = pc[t]
  BY <1>0, <1>2, ForkCallStep DEF sys_fork, Goto, ForkInv, TypeOK
<1>3. ASSUME NEW p \in Pages, NEW d \in Data, write(p, d)
      PROVE  ForkInv' /\ (\A t \in Tasks \ {cur} : Kept(t)) /\ pc' = pc
  <2>1. /\ ForkInv' /\ \A t \in Tasks \ {cur} : \A q \in Pages : pt[t][q] # NULL => mem'[pt[t][q]] = mem[pt[t][q]]
    BY <1>3, WriteStep
  <2> QED
    BY <1>3, <2>1 DEF write, Kept
<1>4. CASE start_lock \/ palloc_scan \/ lock_acquire
  <2>1. ForkInv' /\ UNCHANGED <<bits, pt, mem>>
    BY <1>4, LockStep DEF start_lock, palloc_scan, lock_acquire
  <2>2. \A t \in Tasks : pc[t] = "none" => pc'[t] = pc[t]
    BY <1>0, <1>4 DEF start_lock, palloc_scan, lock_acquire, Goto, ForkInv, TypeOK
  <2> QED
    BY <2>1, <2>2 DEF Kept
<1>5. CASE start_map
  <2>1. \A t \in Tasks : pc[t] = "none" => pc'[t] = pc[t]
    BY <1>0, <1>5 DEF start_map, Goto, ForkInv, TypeOK
  <2> QED
    BY <1>5, <2>1, StartMapStep
<1>6. CASE copy_page
  <2>1. \A t \in Tasks : pc[t] = "none" => pc'[t] = pc[t]
    BY <1>0, <1>6 DEF copy_page, Goto, ForkInv, TypeOK
  <2> QED
    BY <1>6, <2>1, CopyPageStep DEF Kept
<1>7. CASE map_page
  <2>1. \A t \in Tasks : pc[t] = "none" => pc'[t] = pc[t]
    BY <1>0, <1>7 DEF map_page, Goto, ForkInv, TypeOK
  <2>2. pc[Child(cur)] = "none"
    BY <1>0, <1>7 DEF map_page, At, ForkInv, ChildInv, Copying
  <2> QED
    BY <1>7, <2>1, <2>2, MapPageStep
<1>8. CASE fork_end
  BY <1>8, ForkEndStep DEF Kept
<1>9. CASE map_page_present \/ pool_full \/ panic_spin \/ vars' = vars
  <2>1. UNCHANGED <<cur, cr3, pc, bits, pt, mem, found, holder, fork>>
    BY <1>9 DEF map_page_present, pool_full, panic_spin, vars
  <2>2. \/ user_pool' = user_pool
        \/ pc[cur] = "map" /\ user_pool' = user_pool \union {scan} /\ scan \in Frames
    BY <1>9, ScanFacts DEF map_page_present, pool_full, panic_spin, vars, mark, At
  <2>3. TypeOK' /\ ActiveInv' /\ SpacesDisjoint' /\ LockInv'
    BY <2>1, <2>2 DEF ForkInv, TypeOK, ActiveInv, SpacesDisjoint, LockInv, Child
  <2>4. ChildInv' /\ Unmapped'
    BY <2>1 DEF ForkInv, ChildInv, MapInv, Unmapped, Child
  <2>5. Mapped' /\ PartlyMapped'
    BY <2>1 DEF ForkInv, MapInv, Mapped, PartlyMapped, Child
  <2>6. CopyInv'
    BY <2>1 DEF ForkInv, CopyInv, Child
  <2>7. PoolInv'
    <3>1. pc[cur] = "map" => \A t \in Tasks : pc[t] # "set"
      BY <1>0 DEF ForkInv, LockInv
    <3> QED
      BY <2>1, <2>2, <3>1 DEF ForkInv, PoolInv, Marked
  <2> QED
    BY <2>1, <2>3, <2>4, <2>5, <2>6, <2>7 DEF ForkInv, MapInv, Kept
<1>10. CASE \E t \in Tasks : switch(t) \/ sys_fork(t)
  BY <1>1, <1>2, <1>10 DEF Kept
<1>11. CASE \E p \in Pages, d \in Data : write(p, d)
  BY <1>3, <1>11
<1> QED
  BY <1>4, <1>5, <1>6, <1>7, <1>8, <1>9, <1>10, <1>11 DEF Next

(* ForkInv is inductive. *)
LEMMA ForkInvariant == Spec => []ForkInv
<1>1. ForkInv /\ [Next]_vars => ForkInv'
  BY ForkInvStep
<1> QED
  BY <1>1, ForkInvInit, PTL DEF Spec

(* A fork, also one that sleeps on the lock of the user pool and goes on   *)
(* in the wrong page directory, never maps a frame a second time.          *)
THEOREM SpacesStayDisjoint == Spec => []SpacesDisjoint
<1>1. ForkInv => SpacesDisjoint
  BY DEF ForkInv
<1> QED
  BY <1>1, ForkInvariant, PTL

(* When sys_fork returns, the child has the pages of its parent and their  *)
(* contents, however many switches and writes of others came in between.   *)
THEOREM ForksAreCopies == Spec => ForkCopies
<1>1. ASSUME ForkInv, [Next]_vars
      PROVE  [\A c \in Tasks : pc[c] = "none" /\ pc'[c] = "user" => Holds(c)' = Holds(cur)]_vars
  <2> SUFFICES ASSUME NEW c \in Tasks, pc[c] = "none", pc'[c] = "user" PROVE Holds(c)' = Holds(cur)
    OBVIOUS
  <2>1. fork_end
    BY <1>1, ForkInvStep
  <2>2. /\ UNCHANGED <<bits, pt, mem>> /\ c = Child(cur) /\ bits[c] = bits[cur]
        /\ \A p \in bits[cur] : pt[cur][p] # NULL /\ pt[c][p] # NULL /\ mem[pt[c][p]] = mem[pt[cur][p]]
    BY <1>1, <2>1, ForkEndStep
  <2>3. Holds(c)' = Holds(c)
    BY <2>2 DEF Holds
  <2>4. Holds(c) = Holds(cur)
    BY <2>2 DEF Holds
  <2> QED
    BY <2>3, <2>4
<1> QED
  BY <1>1, ForkInvariant, PTL DEF Spec, ForkCopies

(* No step of a process, in whatever page directory, changes what another  *)
(* process has in its pages.                                               *)
THEOREM ProcessesAreIsolated == Spec => Isolation
<1>1. ASSUME ForkInv, [Next]_vars
      PROVE  [\A t \in Tasks \ {cur} : Alive(t) /\ Alive(t)' => Holds(t)' = Holds(t)]_vars
  <2> SUFFICES ASSUME NEW t \in Tasks \ {cur}, vars' # vars, Alive(t) PROVE Holds(t)' = Holds(t)
    OBVIOUS
  <2>1. Kept(t)
    BY <1>1, ForkInvStep DEF Alive
  <2> QED
    BY <1>1, <2>1, HoldsKept DEF ForkInv
<1> QED
  BY <1>1, ForkInvariant, PTL DEF Spec, Isolation
=============================================================================
