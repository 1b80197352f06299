---------------------------- MODULE MemoryProofs ----------------------------
(* The page allocator, for any number of threads, processes, pages and     *)
(* frames: no frame has two uses and none is lost until two calls without  *)
(* a common lock overlap, which memory.c does not prevent.                 *)
EXTENDS Memory, BitmapProofs

(* A task in Outer is in no call, or waits for a pool's lock. *)
Outer   == {"home", "lock"}
Allocs  == {"sys_malloc", "get_kernel_pages"}
Frees   == {"sys_free", "mfree_page"}
Filling == {"pscan", "pset", "map", "tset"}
Freeing == {"pfree", "unmap", "vremove"}
PCs     == Outer \union Filling \union Freeing \union {"vscan", "vset", "setbit", "unlock", "fail"}
Rows    == 0..(STACK3 \div TablePages)

(* The pages that a call for an address space can be about. *)
Room(s)  == IF s = "kernel" THEN Behind + 1 ELSE Behind
Limit(s) == 0..(Room(s) - 1)

Calls == [op : AllOps \union {"none"}, pool : Pools, space : Spaces, addr : Nat, cnt : Nat,
          k : Nat, bit : Int, frame : (Pools \X Nat) \union {NULL}]

TypeOK ==
    /\ used \in [Pools -> SUBSET Nat]
    /\ vused \in [Spaces -> SUBSET Nat]
    /\ pt \in [Spaces -> [AllPages -> (Pools \X Nat) \union {NULL}]]
    /\ tables \in [Procs -> [Rows -> (Pools \X Nat) \union {NULL}]]
    /\ holder \in [Pools -> Tasks \union {NULL}]
    /\ started \subseteq Procs
    /\ pc \in [Tasks -> PCs]
    /\ call \in [Tasks -> Calls]
    /\ own \in [Tasks -> SUBSET [addr : Nat, cnt : Nat, heap : BOOLEAN]]

(* One task at a time is past the lock. *)
LockInv ==
    /\ \A t \in Tasks : pc[t] \notin Outer /\ LocksPool(call[t].op) => holder[call[t].pool] = t
    /\ \A t, u \in Tasks : pc[t] \notin Outer /\ pc[u] \notin Outer => t = u

(* The pages of a call, and those it has done. *)
Base(c)  == c.addr \div PG_SIZE
Span(c) == Base(c)..(Base(c) + c.cnt - 1)
Done(c)  == Base(c)..(Base(c) + c.k - 1)

(* What the arguments and locals of a task in a call are. *)
ArgsOK(t, c) ==
    /\ c.op \in AllOps /\ c.cnt > 0
    /\ \/ c.space = "kernel" /\ c.pool = "kernel"
       \/ t \in Procs /\ c.space = t /\ c.pool = "user"
    /\ IF c.op = "get_a_page"
       THEN t \in Procs \ started /\ c.space = t /\ c.addr = STACK3 * PG_SIZE /\ c.cnt = 1
       ELSE t \in KThreads \union started
    /\ c.op \in {"sys_malloc", "sys_free"} => c.space = SpaceOf(t)
    /\ c.op \in {"get_kernel_pages", "mfree_page"} => c.space = "kernel"
    /\ c.op \in Frees => Span(c) \subseteq Limit(c.space) /\ (c.space # "kernel" => STACK3 \notin Span(c))

PlaceOK(t, c) ==
    /\ pc[t] = "lock" => LocksPool(c.op) /\ c.op # "get_kernel_pages"
    /\ pc[t] \in {"lock", "vscan", "vset", "setbit", "fail"} => c.k = 0
    /\ pc[t] \in {"vscan", "vset", "fail"} => c.op \in Allocs
    /\ pc[t] = "setbit" => c.op = "get_a_page"
    /\ pc[t] \in Filling => c.op \in Allocs \union {"get_a_page"} /\ c.k < c.cnt
    /\ pc[t] \in Freeing => c.op \in Frees /\ c.k <= c.cnt
    /\ pc[t] \in {"pfree", "unmap"} => c.k < c.cnt
    /\ pc[t] \in {"vremove", "unlock"} => c.k = c.cnt
    /\ pc[t] \in Filling \union {"unlock"} =>
          /\ Span(c) \subseteq Limit(c.space)
          /\ c.space # "kernel" /\ c.op # "get_a_page" => STACK3 \notin Done(c)

CallInv == \A t \in Tasks : pc[t] # "home" => ArgsOK(t, call[t]) /\ PlaceOK(t, call[t])

OwnInv ==
    \A t \in Tasks : \A x \in own[t] :
        /\ t \in KThreads \union started
        /\ x.cnt > 0 /\ Span(x) \subseteq AllPages
        /\ x.heap /\ t \in Procs => Span(x) \subseteq Pages /\ STACK3 \notin Span(x)

(* A process that has started has its stack. *)
StackInv ==
    \A t \in Procs :
        /\ t \in started \/ (call[t].op = "get_a_page" /\ pc[t] \in Filling \union {"unlock"}) => STACK3 \in vused[t]
        /\ t \in started \/ (call[t].op = "get_a_page" /\ pc[t] = "unlock") => pt[t][STACK3] # NULL

(* What a search has found is still free when it is marked. *)
FoundInv ==
    \A t \in Tasks :
        LET c == call[t]
        IN  /\ pc[t] = "vset" => /\ c.bit \in Nat /\ c.bit + c.cnt <= Room(c.space)
                                 /\ \A q \in c.bit..(c.bit + c.cnt - 1) : q \notin vused[c.space]
            /\ pc[t] = "pset" => c.bit \in Nat \ used[c.pool]
            /\ pc[t] = "tset" => /\ c.bit \in Nat \ used["kernel"]
                                 /\ c.space # "kernel" /\ ~HasTable(c)
            /\ pc[t] \in {"map", "tset"} => c.frame # NULL /\ c.frame[1] = c.pool

(* The uses of frames. *)
InUse(f) == (\E s \in Spaces, v \in AllPages : pt[s][v] = f) \/ (\E p \in Procs, r \in Rows : tables[p][r] = f)

Exclusive ==
    /\ \A s, z \in Spaces : \A v, w \in AllPages : pt[s][v] # NULL /\ pt[s][v] = pt[z][w] => s = z /\ v = w
    /\ \A p, q \in Procs : \A r, o \in Rows : tables[p][r] # NULL /\ tables[p][r] = tables[q][o] => p = q /\ r = o
    /\ \A s \in Spaces, v \in AllPages, p \in Procs, r \in Rows : pt[s][v] # NULL => pt[s][v] # tables[p][r]

Going(f)  == \E t \in Tasks : pc[t] = "unmap" /\ Mapped(call[t]) = f
Coming(f) == \E t \in Tasks : pc[t] \in {"map", "tset"} /\ call[t].frame = f

(* A frame is marked from the moment it is taken until it is freed. *)
FrameInv ==
    /\ \A p \in Pools, n \in Nat : n \in used[p] <=> (InUse(<<p, n>>) /\ ~Going(<<p, n>>)) \/ Coming(<<p, n>>)
    /\ \A f : f # NULL /\ Coming(f) => ~InUse(f)

(* The pages of the kernel that are marked and not mapped. *)
Pending(t) ==
    LET c == call[t]
    IN  IF pc[t] \in Filling THEN Span(c) \ Done(c) ELSE IF pc[t] \in Freeing THEN Done(c) ELSE {}

(* A page is marked if b holds of it, and only then; nothing is known of   *)
(* the bit behind the bitmap as long as b does not hold.                   *)
Marked(bits, v, b) == (b => v \in bits) /\ (v \in bits => b \/ v = Behind)
USE DEF Marked

PageInv ==
    /\ \A v \in AllPages :
           Marked(vused["kernel"], v,
                  pt["kernel"][v] # NULL \/ \E t \in Tasks : call[t].space = "kernel" /\ v \in Pending(t))
    /\ \A t \in Tasks : pc[t] \in Freeing => \A v \in Done(call[t]) : pt[call[t].space][v] = NULL
    /\ \A t \in Tasks : pc[t] = "unmap" => Mapped(call[t]) # NULL

Running == TypeOK /\ LockInv /\ CallInv /\ OwnInv /\ StackInv /\ FoundInv /\ FrameInv /\ PageInv

(* The inductive invariant.  An ASSERT may stop the kernel in the middle   *)
(* of a call: a process's address is computed wrongly (memory.c:74) and    *)
(* page_table_add finds a page there.  No frame has two uses even then;    *)
(* the rest holds until then.                                              *)
MemInv ==
    /\ Exclusive
    /\ kernel = "up" => Running
    /\ kernel # "up" => ~Quiet

-----------------------------------------------------------------------------
(* Constants and addresses *)
LEMMA ConstantFacts ==
    /\ PG_SIZE \in Nat \ {0} /\ TablePages \in Nat \ {0} /\ VBytes \in Nat
    /\ Behind \in Nat \ {0} /\ Pages = 0..(Behind - 1) /\ AllPages = 0..Behind /\ AllPages = Pages \union {Behind}
    /\ STACK3 = Behind - 1 /\ STACK3 \in Pages /\ AllPages \subseteq Nat /\ Pages \subseteq AllPages /\ Behind \notin Pages
    /\ "kernel" \in Spaces /\ Procs \subseteq Spaces /\ Procs \subseteq Tasks /\ KThreads \subseteq Tasks
    /\ KThreads \intersect Procs = {}
    /\ "kernel" \notin Tasks /\ "user" \notin Tasks /\ "kernel" \notin Procs
    /\ NULL \notin Tasks /\ NULL \notin Pools \X Nat
    /\ KCnts \subseteq Nat \ {0} /\ UCnts \subseteq Nat \ {0}
    /\ KBytes \in Nat /\ UBytes \in Nat
    /\ \A s : Room(s) \in Nat /\ Pages \subseteq Limit(s) /\ Limit(s) \subseteq AllPages /\ (s # "kernel" => Limit(s) = Pages)
    /\ Limit("kernel") = AllPages
<1>1. /\ PG_SIZE \in Nat \ {0} /\ TablePages \in Nat \ {0} /\ VBytes \in Nat \ {0} /\ ByteBits \in Nat \ {0}
      /\ KCnts \subseteq Nat \ {0} /\ UCnts \subseteq Nat \ {0} /\ KBytes \in Nat /\ UBytes \in Nat
  BY MemoryAssumption, BitmapScanAssumption
<1>2. Behind \in Nat \ {0}
  BY <1>1 DEF Behind
<1>3. Pages = 0..(Behind - 1) /\ AllPages = 0..Behind /\ STACK3 = Behind - 1
  BY DEF Pages, AllPages, STACK3
<1>4. /\ AllPages = Pages \union {Behind} /\ STACK3 \in Pages /\ AllPages \subseteq Nat
      /\ Pages \subseteq AllPages /\ Behind \notin Pages
  BY <1>2, <1>3
<1>5. /\ \A s : Room(s) \in Nat /\ Pages \subseteq Limit(s) /\ Limit(s) \subseteq AllPages /\ (s # "kernel" => Limit(s) = Pages)
      /\ Limit("kernel") = AllPages
  BY <1>2, <1>3 DEF Room, Limit
<1> QED
  BY <1>1, <1>2, <1>3, <1>4, <1>5, MemoryAssumption DEF Tasks, Spaces, Pools

LEMMA PageIs ==
    ASSUME NEW c, c.addr \in Nat, c.k \in Nat
    PROVE  Page(c) = Base(c) + c.k /\ Base(c) \in Nat
<1> DEFINE a == c.addr
           k == c.k
           m == a \div PG_SIZE
           e == a % PG_SIZE
<1>1. PG_SIZE \in Nat \ {0} /\ a \in Nat /\ k \in Nat
  BY ConstantFacts
<1>2. m \in Nat /\ e \in 0..(PG_SIZE - 1) /\ a = m * PG_SIZE + e
  BY <1>1, DivisionFacts
<1>3. Page(c) = (a + k * PG_SIZE) \div PG_SIZE /\ Base(c) = m
  BY DEF Page, Base
<1> HIDE DEF a, k, m, e
<1>4. a + k * PG_SIZE = (m + k) * PG_SIZE + e
  BY <1>1, <1>2
<1>5. ((m + k) * PG_SIZE + e) \div PG_SIZE = m + k
  BY <1>1, <1>2, DivisionUnique
<1> QED
  BY <1>2, <1>3, <1>4, <1>5 DEF k

(* The page that a call is at is one of its own. *)
LEMMA PageInSpan ==
    ASSUME NEW c, c.addr \in Nat, c.k \in Nat, c.cnt \in Nat, c.k < c.cnt, Span(c) \subseteq Limit(c.space)
    PROVE  /\ Page(c) \in Span(c) /\ Page(c) \in AllPages /\ Page(c) \notin Done(c)
           /\ c.space # "kernel" => Table(c) \in Rows
<1>1. Page(c) = Base(c) + c.k /\ Base(c) \in Nat
  BY PageIs
<1> DEFINE v == Page(c)
<1> HIDE DEF v
<1>2. v = Base(c) + c.k /\ v \in Nat
  BY <1>1 DEF v
<1>3. v \in Span(c) /\ v \notin Done(c)
  BY <1>1, <1>2 DEF Span, Done
<1>4. v \in AllPages
  BY <1>3, ConstantFacts
<1>5. ASSUME c.space # "kernel" PROVE v \div TablePages \in 0..(STACK3 \div TablePages)
  <2>0. v \in 0..STACK3 /\ STACK3 \in Nat /\ TablePages \in Nat \ {0}
    BY <1>3, <1>5, ConstantFacts
  <2> DEFINE a == v \div TablePages
             b == STACK3 \div TablePages
             x == v % TablePages
             y == STACK3 % TablePages
  <2>1. a \in Nat /\ x \in 0..(TablePages - 1) /\ v = a * TablePages + x
    BY <1>2, <2>0, DivisionFacts
  <2>2. b \in Nat /\ y \in 0..(TablePages - 1) /\ STACK3 = b * TablePages + y
    BY <2>0, DivisionFacts
  <2> HIDE DEF a, b, x, y
  <2>3. ASSUME b < a PROVE FALSE
    <3>1. (b + 1) * TablePages <= a * TablePages /\ a * TablePages \in Nat
      BY <2>0, <2>1, <2>2, <2>3, TimesMonotonic
    <3>2. (b + 1) * TablePages = b * TablePages + TablePages /\ b * TablePages \in Nat
      BY <2>0, <2>2
    <3> QED
      BY <2>0, <2>1, <2>2, <3>1, <3>2
  <2>4. a \in 0..b
    BY <2>1, <2>2, <2>3
  <2> QED
    BY <2>4 DEF a, b
<1> QED
  BY <1>3, <1>4, <1>5 DEF v, Table, Rows

(* What the search for one clear bit finds. *)
LEMMA ScanOne ==
    ASSUME NEW bits, NEW bytes \in Nat, NEW i, i = bitmap_scan(bits, bytes, 1), i # PANIC
    PROVE  i \in Nat \ bits
<1>1. idx_byte(bits, bytes) # bytes /\ i = bit_idx_start(bits, bytes)
  BY DEF bitmap_scan
<1> QED
  BY <1>1, StartFacts

-----------------------------------------------------------------------------
(* One task at a time *)
LEMMA OneInside ==
    ASSUME Running, NEW t \in Tasks, pc[t] \notin Outer
    PROVE  \A u \in Tasks : u # t => pc[u] \in Outer
BY DEF Running, LockInv

(* A step of the task that is past the lock changes nothing about the      *)
(* others.                                                                 *)
LEMMA InsideStep ==
    ASSUME Running, NEW t \in Tasks, pc[t] \notin Outer,
           NEW p \in PCs \ Outer, pc' = [pc EXCEPT ![t] = p],
           call' \in [Tasks -> Calls], \A u \in Tasks : u # t => call'[u] = call[u],
           call'[t].op = call[t].op, call'[t].pool = call[t].pool,
           UNCHANGED <<holder, started, own>>,
           ArgsOK(t, call[t])', PlaceOK(t, call[t])'
    PROVE  /\ pc' \in [Tasks -> PCs] /\ pc'[t] = p
           /\ \A u \in Tasks : u # t => pc[u] \in Outer /\ pc'[u] = pc[u]
           /\ LockInv' /\ CallInv' /\ OwnInv'
<1> USE DEF Running
<1>1. pc' \in [Tasks -> PCs] /\ pc'[t] = p /\ \A u \in Tasks : u # t => pc[u] \in Outer /\ pc'[u] = pc[u]
  BY OneInside DEF TypeOK
<1>3. LockInv'
  <2>1. \A u \in Tasks : (pc'[u] \notin Outer) = (pc[u] \notin Outer)
    BY <1>1 DEF Outer
  <2>3. ASSUME NEW u \in Tasks, pc'[u] \notin Outer, LocksPool(call'[u].op)
        PROVE  holder'[call'[u].pool] = u
    BY <2>1, <2>3 DEF LockInv
  <2>4. ASSUME NEW u \in Tasks, NEW z \in Tasks, pc'[u] \notin Outer, pc'[z] \notin Outer PROVE u = z
    BY <2>1, <2>4 DEF LockInv
  <2> QED
    BY <2>3, <2>4 DEF LockInv
<1>4. CallInv'
  <2> SUFFICES ASSUME NEW u \in Tasks, pc'[u] # "home"
               PROVE  ArgsOK(u, call[u])' /\ PlaceOK(u, call[u])'
    BY DEF CallInv
  <2>1. CASE u = t
    BY <2>1
  <2>2. CASE u # t
    <3>1. call'[u] = call[u] /\ pc'[u] = pc[u] /\ pc[u] # "home" /\ ArgsOK(u, call[u]) /\ PlaceOK(u, call[u])
      BY <1>1, <2>2 DEF CallInv
    <3> QED
      BY <3>1 DEF ArgsOK, PlaceOK
  <2> QED
    BY <2>1, <2>2
<1>5. OwnInv'
  BY DEF OwnInv
<1> QED
  BY <1>1, <1>3, <1>4, <1>5

(* The frame that is on its way is the one of the task past the lock. *)
LEMMA FlightIs ==
    ASSUME NEW t \in Tasks, \A u \in Tasks : u # t => pc[u] \in Outer
    PROVE  \A f : /\ Going(f) <=> pc[t] = "unmap" /\ Mapped(call[t]) = f
                  /\ Coming(f) <=> pc[t] \in {"map", "tset"} /\ call[t].frame = f
BY DEF Going, Coming, Outer

LEMMA FlightWillBe ==
    ASSUME NEW t \in Tasks, \A u \in Tasks : u # t => pc'[u] \in Outer
    PROVE  \A f : /\ Going(f)' <=> pc'[t] = "unmap" /\ Mapped(call[t])' = f
                  /\ Coming(f)' <=> pc'[t] \in {"map", "tset"} /\ call'[t].frame = f
BY DEF Going, Coming, Outer

LEMMA FramesKept ==
    ASSUME FrameInv, UNCHANGED <<used, pt, tables>>,
           \A f : (Going(f)' <=> Going(f)) /\ (Coming(f)' <=> Coming(f))
    PROVE  FrameInv'
<1>1. \A f : InUse(f)' <=> InUse(f)
  BY DEF InUse
<1> QED
  BY <1>1 DEF FrameInv

(* A step before or after the pages are touched. *)
LEMMA DataKept ==
    ASSUME Running, NEW t \in Tasks, NEW p \in PCs, UNCHANGED <<used, vused, pt, tables>>,
           pc' = [pc EXCEPT ![t] = p], \A u \in Tasks : u # t => call'[u] = call[u],
           pc[t] \notin Filling \union Freeing, p \notin Filling \union {"unmap", "vremove"},
           p = "pfree" => call'[t].k = 0 /\ call'[t].addr \in Nat
    PROVE  FrameInv' /\ PageInv' /\ (p # "vset" => FoundInv')
<1> USE DEF Running
<1>1. pc'[t] = p /\ \A u \in Tasks : u # t => pc'[u] = pc[u]
  BY DEF TypeOK
<1>2. FrameInv'
  <2>1. \A u \in Tasks : pc'[u] = "unmap" <=> pc[u] = "unmap"
    BY <1>1 DEF Filling, Freeing
  <2>2. \A u \in Tasks : pc'[u] \in {"map", "tset"} <=> pc[u] \in {"map", "tset"}
    BY <1>1 DEF Filling, Freeing
  <2>3. \A u \in Tasks : pc[u] \in {"unmap", "map", "tset"} => call'[u] = call[u]
    BY DEF Filling, Freeing
  <2>4. \A u \in Tasks : pc[u] = "unmap" => Mapped(call[u])' = Mapped(call[u])
    BY <2>3 DEF Mapped, Page
  <2>5. \A f : Going(f)' <=> Going(f)
    BY <2>1, <2>4 DEF Going
  <2>6. \A f : Coming(f)' <=> Coming(f)
    BY <2>2, <2>3 DEF Coming
  <2> QED
    BY <2>5, <2>6, FramesKept
<1>3. Pending(t) = {} /\ Pending(t)' = {}
  <2>1. Pending(t) = {}
    BY DEF Pending
  <2>2. CASE p = "pfree"
    <3>1. Base(call[t])' \in Nat
      BY <2>2, ConstantFacts, DivisionFacts DEF Base
    <3>2. Done(call[t])' = {}
      BY <2>2, <3>1 DEF Done
    <3> QED
      BY <1>1, <2>1, <2>2, <3>2 DEF Pending, Filling
  <2>3. CASE p # "pfree"
    BY <1>1, <2>1, <2>3 DEF Pending, Filling, Freeing
  <2> QED
    BY <2>2, <2>3
<1>4. \A u \in Tasks : u # t => Pending(u)' = Pending(u)
  BY <1>1 DEF Pending, Span, Done, Base
<1>5. PageInv'
  <2>1. ASSUME NEW v \in AllPages
        PROVE  Marked(vused'["kernel"], v,
                      pt'["kernel"][v] # NULL \/ \E u \in Tasks : call'[u].space = "kernel" /\ v \in Pending(u)')
    <3>1. (\E u \in Tasks : call'[u].space = "kernel" /\ v \in Pending(u)')
            <=> \E u \in Tasks : call[u].space = "kernel" /\ v \in Pending(u)
      BY <1>3, <1>4
    <3> QED
      BY <3>1 DEF PageInv
  <2>2. ASSUME NEW u \in Tasks, pc'[u] \in Freeing, NEW v \in Done(call[u])'
        PROVE  pt'[call'[u].space][v] = NULL
    <3>1. CASE u = t
      <4>1. Done(call[t])' = {}
        BY <1>1, <1>3, <2>2, <3>1 DEF Pending, Filling, Freeing
      <4> QED
        BY <2>2, <3>1, <4>1
    <3>2. CASE u # t
      <4>1. call'[u] = call[u] /\ pc[u] \in Freeing /\ v \in Done(call[u])
        BY <1>1, <2>2, <3>2 DEF Done, Base
      <4> QED
        BY <4>1 DEF PageInv
    <3> QED
      BY <3>1, <3>2
  <2>3. ASSUME NEW u \in Tasks, pc'[u] = "unmap" PROVE Mapped(call[u])' # NULL
    <3>1. call'[u] = call[u] /\ pc[u] = "unmap"
      BY <1>1, <2>3
    <3> QED
      BY <3>1 DEF PageInv, Mapped, Page
  <2> QED
    BY <2>1, <2>2, <2>3 DEF PageInv
<1>6. ASSUME p # "vset" PROVE FoundInv'
  <2> SUFFICES ASSUME NEW u \in Tasks, pc'[u] \in {"vset", "pset", "tset", "map"}
               PROVE  LET c == call'[u]
                      IN  /\ pc'[u] = "vset" => /\ c.bit \in Nat /\ c.bit + c.cnt <= Room(c.space)
                                                /\ \A q \in c.bit..(c.bit + c.cnt - 1) : q \notin vused'[c.space]
                          /\ pc'[u] = "pset" => c.bit \in Nat \ used'[c.pool]
                          /\ pc'[u] = "tset" => /\ c.bit \in Nat \ used'["kernel"]
                                                /\ c.space # "kernel" /\ ~HasTable(call[u])'
                          /\ pc'[u] \in {"map", "tset"} => c.frame # NULL /\ c.frame[1] = c.pool
    BY DEF FoundInv
  <2>1. u # t
    BY <1>1, <1>6 DEF Filling
  <2>2. pc'[u] = pc[u] /\ call'[u] = call[u]
    BY <1>1, <2>1
  <2> QED
    BY <2>2 DEF FoundInv, HasTable, Table, Page
<1> QED
  BY <1>2, <1>5, <1>6

-----------------------------------------------------------------------------
(* The calls and the locks *)

LEMMA MapsKept ==
    ASSUME Exclusive, UNCHANGED <<vused, pt, tables>>
    PROVE  Exclusive'
BY DEF Exclusive

LEMMA LockOfFacts ==
    ASSUME NEW u, NEW c \in Calls
    PROVE  IF LocksPool(c.op) THEN LockOf(u, c) = c.pool /\ c.pool \in Pools ELSE LockOf(u, c) = u
BY DEF LockOf, Calls

(* A call that comes inside alone: whoever is inside has the same lock, and *)
(* so nobody is.                                                           *)
LEMMA AloneInside ==
    ASSUME Running, NEW t \in Tasks, NEW c \in Calls, enter(t, c), ~raced',
           LocksPool(c.op) => holder[c.pool] = NULL, ~Inside(t)
    PROVE  \A u \in Tasks : pc[u] \in Outer
<1> SUFFICES ASSUME NEW u \in Tasks, pc[u] \notin Outer PROVE FALSE
  OBVIOUS
<1> USE DEF Running
<1>1. u # t /\ Inside(u)
  BY DEF Inside, Outer
<1>2. LockOf(u, call[u]) = LockOf(t, c)
  BY <1>1 DEF enter
<1>3. call[u] \in Calls
  BY DEF TypeOK
<1>4. CASE LocksPool(c.op)
  <2>1. LockOf(u, call[u]) = c.pool /\ c.pool \in Pools
    BY <1>2, <1>4, LockOfFacts
  <2>2. LocksPool(call[u].op) /\ call[u].pool = c.pool
    BY <1>3, <2>1, LockOfFacts, ConstantFacts DEF Pools
  <2>3. holder[c.pool] = u
    BY <2>2 DEF LockInv
  <2> QED
    BY <1>4, <2>3, ConstantFacts
<1>5. CASE ~LocksPool(c.op)
  <2>1. LockOf(u, call[u]) = t
    BY <1>2, <1>5, LockOfFacts
  <2> QED
    BY <1>1, <1>3, <2>1, LockOfFacts, ConstantFacts DEF Pools
<1> QED
  BY <1>4, <1>5

LEMMA BeginStep ==
    ASSUME ~raced', Running, NEW t \in Tasks, NEW c \in Calls, NEW p, Begin(t, c, p),
           c.k = 0, ArgsOK(t, c),
           ~LocksPool(c.op) => p = (IF c.op = "get_kernel_pages" THEN "vscan" ELSE "pfree"),
           own' \in [Tasks -> SUBSET [addr : Nat, cnt : Nat, heap : BOOLEAN]],
           \A u \in Tasks : own'[u] \subseteq own[u]
    PROVE  Running' /\ UNCHANGED <<vused, pt, tables, kernel>>
<1> USE DEF Running
<1> DEFINE q == IF LocksPool(c.op) THEN "lock" ELSE p
<1>1. /\ pc[t] = "home" /\ call' = [call EXCEPT ![t] = c] /\ pc' = [pc EXCEPT ![t] = q]
      /\ ~LocksPool(c.op) => enter(t, c)
      /\ UNCHANGED <<used, vused, pt, tables, holder, started, kernel>>
  BY DEF Begin, At, Goto
<1>2. q \in {"lock", "vscan", "pfree"} /\ (q = "lock" <=> LocksPool(c.op))
  OBVIOUS
<1>3. LocksPool(c.op) <=> c.op \notin {"get_kernel_pages", "mfree_page"}
  BY DEF LocksPool
<1>4. q \in PCs
  BY <1>2 DEF PCs, Outer, Freeing
<1> HIDE DEF q
<1>5. TypeOK' /\ call'[t] = c /\ pc'[t] = q
      /\ \A u \in Tasks : u # t => call'[u] = call[u] /\ pc'[u] = pc[u]
  BY <1>1, <1>4 DEF TypeOK
<1>6. LockInv'
  <2>4. ASSUME NEW u \in Tasks, pc'[u] \notin Outer, LocksPool(call'[u].op)
        PROVE  holder'[call'[u].pool] = u
    <3>1. u # t
      BY <1>2, <1>5, <2>4 DEF Outer
    <3> QED
      BY <1>1, <1>5, <2>4, <3>1 DEF LockInv
  <2>5. ASSUME q # "lock" PROVE \A u \in Tasks : pc[u] \in Outer
    <3>1. enter(t, c) /\ ~LocksPool(c.op) /\ ~Inside(t)
      BY <1>1, <1>2, <2>5 DEF Inside
    <3> QED
      BY <3>1, AloneInside
  <2>6. ASSUME NEW u \in Tasks, NEW z \in Tasks, pc'[u] \notin Outer, pc'[z] \notin Outer PROVE u = z
    <3>1. CASE q = "lock"
      BY <1>5, <2>6, <3>1 DEF LockInv, Outer
    <3>2. CASE q # "lock"
      <4>1. u = t /\ z = t
        BY <1>5, <2>5, <2>6, <3>2
      <4> QED
        BY <4>1
    <3> QED
      BY <3>1, <3>2
  <2> QED
    BY <2>4, <2>6 DEF LockInv
<1>7. CallInv'
  <2> SUFFICES ASSUME NEW u \in Tasks, pc'[u] # "home"
               PROVE  ArgsOK(u, call[u])' /\ PlaceOK(u, call[u])'
    BY DEF CallInv
  <2>1. CASE u = t
    <3>1. ArgsOK(t, call[t])'
      BY <1>1, <1>5 DEF ArgsOK
    <3>2. c.op \in AllOps /\ c.cnt > 0
      BY DEF ArgsOK
    <3>3. PlaceOK(t, call[t])'
      <4>1. CASE q = "lock"
        BY <1>2, <1>3, <1>5, <4>1 DEF PlaceOK, Filling, Freeing
      <4>2. CASE q = "vscan"
        BY <1>2, <1>3, <1>5, <3>2, <4>2 DEF PlaceOK, Filling, Freeing, Allocs, q
      <4>3. CASE q = "pfree"
        <5>1. c.op = "mfree_page"
          BY <1>2, <1>3, <4>3 DEF q
        <5> QED
          BY <1>5, <3>2, <4>3, <5>1 DEF PlaceOK, Filling, Freeing, Frees, Calls
      <4> QED
        BY <1>2, <4>1, <4>2, <4>3
    <3> QED
      BY <2>1, <3>1, <3>3
  <2>2. CASE u # t
    <3>1. call'[u] = call[u] /\ pc'[u] = pc[u] /\ ArgsOK(u, call[u]) /\ PlaceOK(u, call[u])
      BY <1>5, <2>2 DEF CallInv
    <3> QED
      BY <1>1, <3>1 DEF ArgsOK, PlaceOK
  <2> QED
    BY <2>1, <2>2
<1>8. OwnInv'
  BY <1>1 DEF OwnInv
<1>9. StackInv'
  <2> SUFFICES ASSUME NEW u \in Procs
               PROVE  /\ u \in started' \/ (call'[u].op = "get_a_page" /\ pc'[u] \in Filling \union {"unlock"})
                            => STACK3 \in vused'[u]
                      /\ u \in started' \/ (call'[u].op = "get_a_page" /\ pc'[u] = "unlock") => pt'[u][STACK3] # NULL
    BY DEF StackInv
  <2>1. u \in Tasks
    BY ConstantFacts
  <2>2. CASE u = t
    BY <1>1, <1>2, <1>5, <2>2 DEF StackInv, Filling
  <2>3. CASE u # t
    BY <1>1, <1>5, <2>1, <2>3 DEF StackInv
  <2> QED
    BY <2>2, <2>3
<1>10. FrameInv' /\ PageInv' /\ FoundInv'
  <2>1. pc[t] \notin Filling \union Freeing /\ q \notin Filling \union {"unmap", "vremove"} /\ q # "vset"
    BY <1>1, <1>2 DEF Filling, Freeing
  <2>2. call'[t].k = 0 /\ call'[t].addr \in Nat
    BY <1>5 DEF Calls
  <2> QED
    BY <1>1, <1>4, <1>5, <2>1, <2>2, DataKept
<1> QED
  BY <1>1, <1>5, <1>6, <1>7, <1>8, <1>9, <1>10

LEMMA NoCallFacts ==
    NoCall \in Calls /\ NoCall.pool = "kernel" /\ NoCall.space = "kernel" /\ NoCall.k = 0
<1>1. "none" \in AllOps \union {"none"} /\ "kernel" \in Pools /\ "kernel" \in Spaces
  BY DEF Pools, Spaces
<1> QED
  BY <1>1 DEF NoCall, Calls

LEMMA CallSteps ==
    ASSUME ~raced', MemInv, kernel = "up", NEW t \in Tasks,
           get_kernel_pages(t) \/ mfree_page(t) \/ sys_malloc(t) \/ sys_free(t) \/ get_a_page(t)
    PROVE  MemInv'
<1> USE DEF MemInv, Running
<1> SUFFICES Running' /\ UNCHANGED <<vused, pt, tables, kernel>>
  BY MapsKept
<1>1. CASE get_kernel_pages(t)
  <2> DEFINE c == [NoCall EXCEPT !.op = "get_kernel_pages", !.cnt = 1]
  <2>1. Begin(t, c, "vscan") /\ own' = own /\ t \in KThreads \union started
    BY <1>1 DEF get_kernel_pages
  <2>2. c \in Calls /\ c.op = "get_kernel_pages" /\ c.cnt = 1 /\ c.k = 0 /\ c.space = "kernel" /\ c.pool = "kernel"
    <3>1. "get_kernel_pages" \in AllOps /\ "kernel" \in Pools
      BY DEF AllOps, Pools
    <3> QED
      BY <3>1, NoCallFacts DEF Calls
  <2> HIDE DEF c
  <2>3. ArgsOK(t, c)
    BY <2>1, <2>2 DEF ArgsOK, AllOps, Allocs, Frees
  <2> QED
    BY <2>1, <2>2, <2>3, BeginStep DEF TypeOK
<1>2. CASE sys_malloc(t)
  <2>1. PICK n \in (IF t \in Procs THEN UCnts ELSE KCnts) :
            Begin(t, [NoCall EXCEPT !.op = "sys_malloc", !.cnt = n,
                                    !.pool = PoolOf(t), !.space = SpaceOf(t)], "vscan")
    BY <1>2 DEF sys_malloc
  <2> DEFINE c == [NoCall EXCEPT !.op = "sys_malloc", !.cnt = n, !.pool = PoolOf(t), !.space = SpaceOf(t)]
  <2>2. own' = own /\ t \in KThreads \union started
    BY <1>2 DEF sys_malloc
  <2>3. n \in Nat \ {0}
    BY ConstantFacts
  <2>4. PoolOf(t) \in Pools /\ SpaceOf(t) \in Spaces
    BY ConstantFacts DEF PoolOf, SpaceOf, Pools
  <2>5. c \in Calls /\ c.op = "sys_malloc" /\ c.cnt = n /\ c.k = 0 /\ c.space = SpaceOf(t) /\ c.pool = PoolOf(t)
    <3>1. "sys_malloc" \in AllOps /\ "kernel" \in Pools
      BY DEF AllOps, Pools
    <3> QED
      BY <2>3, <2>4, <3>1, NoCallFacts DEF Calls
  <2>6. Begin(t, c, "vscan")
    BY <2>1
  <2> HIDE DEF c
  <2>7. ArgsOK(t, c)
    <3>1. \/ c.space = "kernel" /\ c.pool = "kernel"
          \/ t \in Procs /\ c.space = t /\ c.pool = "user"
      BY <2>5 DEF PoolOf, SpaceOf
    <3> QED
      BY <2>2, <2>3, <2>5, <3>1 DEF ArgsOK, AllOps, Allocs, Frees
  <2>8. LocksPool(c.op)
    BY <2>5 DEF LocksPool
  <2> QED
    BY <2>2, <2>5, <2>6, <2>7, <2>8, BeginStep DEF TypeOK
<1>3. CASE mfree_page(t)
  <2>1. PICK x \in own[t] :
            /\ ~x.heap
            /\ Begin(t, [NoCall EXCEPT !.op = "mfree_page", !.addr = x.addr, !.cnt = x.cnt], "pfree")
            /\ own' = [own EXCEPT ![t] = @ \ {x}]
    BY <1>3 DEF mfree_page
  <2> DEFINE c == [NoCall EXCEPT !.op = "mfree_page", !.addr = x.addr, !.cnt = x.cnt]
  <2>2. x \in [addr : Nat, cnt : Nat, heap : BOOLEAN] /\ x.addr \in Nat /\ x.cnt \in Nat
    BY DEF TypeOK
  <2>3. t \in KThreads \union started /\ x.cnt > 0 /\ Span(x) \subseteq AllPages
    BY DEF OwnInv
  <2>4. c \in Calls /\ c.op = "mfree_page" /\ c.cnt = x.cnt /\ c.addr = x.addr /\ c.k = 0
        /\ c.space = "kernel" /\ c.pool = "kernel"
    <3>1. "mfree_page" \in AllOps /\ "kernel" \in Pools
      BY DEF AllOps, Pools
    <3> QED
      BY <2>2, <3>1, NoCallFacts DEF Calls
  <2>5. Begin(t, c, "pfree")
    BY <2>1
  <2> HIDE DEF c
  <2>6. Span(c) = Span(x)
    BY <2>4 DEF Span, Base
  <2>7. ArgsOK(t, c)
    BY <2>3, <2>4, <2>6, ConstantFacts DEF ArgsOK, AllOps, Allocs, Frees
  <2>8. own' \in [Tasks -> SUBSET [addr : Nat, cnt : Nat, heap : BOOLEAN]] /\ \A u \in Tasks : own'[u] \subseteq own[u]
    BY <2>1 DEF TypeOK
  <2> QED
    BY <2>4, <2>5, <2>7, <2>8, BeginStep
<1>4. CASE sys_free(t)
  <2>1. PICK x \in own[t] :
            /\ x.heap
            /\ Begin(t, [NoCall EXCEPT !.op = "sys_free", !.addr = block2arena(x.addr), !.cnt = x.cnt,
                                       !.pool = PoolOf(t), !.space = SpaceOf(t)], "pfree")
            /\ own' = [own EXCEPT ![t] = @ \ {x}]
    BY <1>4 DEF sys_free
  <2> DEFINE c == [NoCall EXCEPT !.op = "sys_free", !.addr = block2arena(x.addr), !.cnt = x.cnt,
                                 !.pool = PoolOf(t), !.space = SpaceOf(t)]
  <2>2. x \in [addr : Nat, cnt : Nat, heap : BOOLEAN] /\ x.addr \in Nat /\ x.cnt \in Nat
    BY DEF TypeOK
  <2>3. /\ t \in KThreads \union started /\ x.cnt > 0 /\ Span(x) \subseteq Limit(SpaceOf(t))
        /\ t \in Procs => STACK3 \notin Span(x)
    BY <2>1, ConstantFacts DEF OwnInv, SpaceOf
  <2>4. block2arena(x.addr) \in Nat /\ block2arena(x.addr) \div PG_SIZE = x.addr \div PG_SIZE
    <3> DEFINE a == x.addr
               m == a \div PG_SIZE
               e == a % PG_SIZE
    <3>1. PG_SIZE \in Nat \ {0} /\ m \in Nat /\ e \in 0..(PG_SIZE - 1) /\ a = m * PG_SIZE + e
      BY <2>2, ConstantFacts, DivisionFacts
    <3>2. block2arena(x.addr) = a - e
      BY DEF block2arena
    <3> HIDE DEF a, m, e
    <3>3. m * PG_SIZE \in Nat
      BY <3>1
    <3>4. block2arena(x.addr) = m * PG_SIZE + 0 /\ block2arena(x.addr) \in Nat
      BY <3>1, <3>2, <3>3
    <3>5. 0 \in 0..(PG_SIZE - 1)
      BY <3>1
    <3>6. (m * PG_SIZE + 0) \div PG_SIZE = m
      BY <3>1, <3>5, DivisionUnique
    <3> QED
      BY <3>4, <3>6 DEF m, a
  <2>5. PoolOf(t) \in Pools /\ SpaceOf(t) \in Spaces
    BY ConstantFacts DEF PoolOf, SpaceOf, Pools
  <2>6. c \in Calls /\ c.op = "sys_free" /\ c.cnt = x.cnt /\ c.addr = block2arena(x.addr) /\ c.k = 0
        /\ c.space = SpaceOf(t) /\ c.pool = PoolOf(t)
    <3>1. "sys_free" \in AllOps /\ "kernel" \in Pools
      BY DEF AllOps, Pools
    <3> QED
      BY <2>2, <2>4, <2>5, <3>1, NoCallFacts DEF Calls
  <2>7. Begin(t, c, "pfree")
    BY <2>1
  <2> HIDE DEF c
  <2>8. Span(c) = Span(x)
    BY <2>4, <2>6 DEF Span, Base
  <2>9. ArgsOK(t, c)
    <3>1. \/ c.space = "kernel" /\ c.pool = "kernel"
          \/ t \in Procs /\ c.space = t /\ c.pool = "user"
      BY <2>6 DEF PoolOf, SpaceOf
    <3>2. c.space # "kernel" => STACK3 \notin Span(c)
      BY <2>3, <2>6, <2>8 DEF SpaceOf
    <3> QED
      BY <2>3, <2>6, <2>8, <3>1, <3>2 DEF ArgsOK, AllOps, Allocs, Frees
  <2>10. own' \in [Tasks -> SUBSET [addr : Nat, cnt : Nat, heap : BOOLEAN]] /\ \A u \in Tasks : own'[u] \subseteq own[u]
    BY <2>1 DEF TypeOK
  <2>11. LocksPool(c.op)
    BY <2>6 DEF LocksPool
  <2> QED
    BY <2>6, <2>7, <2>9, <2>10, <2>11, BeginStep
<1>5. CASE get_a_page(t)
  <2> DEFINE c == [NoCall EXCEPT !.op = "get_a_page", !.addr = STACK3 * PG_SIZE, !.cnt = 1,
                                 !.pool = "user", !.space = t]
  <2>1. Begin(t, c, "setbit") /\ own' = own /\ t \in Procs \ started
    BY <1>5 DEF get_a_page
  <2>2. STACK3 * PG_SIZE \in Nat /\ t \in Spaces /\ "user" \in Pools
    BY <2>1, ConstantFacts DEF Pools
  <2>3. c \in Calls /\ c.op = "get_a_page" /\ c.cnt = 1 /\ c.k = 0 /\ c.space = t /\ c.pool = "user"
        /\ c.addr = STACK3 * PG_SIZE
    <3>1. "get_a_page" \in AllOps /\ "kernel" \in Pools
      BY DEF AllOps, Pools
    <3> QED
      BY <2>2, <3>1, NoCallFacts DEF Calls
  <2> HIDE DEF c
  <2>4. ArgsOK(t, c)
    BY <2>1, <2>3 DEF ArgsOK, AllOps, Allocs, Frees
  <2>5. LocksPool(c.op)
    BY <2>3 DEF LocksPool
  <2> QED
    BY <2>1, <2>3, <2>4, <2>5, BeginStep DEF TypeOK
<1> QED
  BY <1>1, <1>2, <1>3, <1>4, <1>5

LEMMA AcquireStep ==
    ASSUME ~raced', MemInv, kernel = "up", NEW t \in Tasks, lock_acquire(t)
    PROVE  MemInv'
<1> USE DEF MemInv, Running
<1>1. pc[t] = "lock" /\ UNCHANGED <<used, vused, pt, tables, started, call, own, kernel>>
  BY DEF lock_acquire, At
<1>2. Exclusive'
  BY <1>1, MapsKept
<1>3. CASE UNCHANGED <<holder, pc>>
  <2>1. TypeOK' /\ LockInv' /\ CallInv' /\ OwnInv'
    BY <1>1, <1>3 DEF TypeOK, LockInv, LockOf, CallInv, ArgsOK, PlaceOK, OwnInv
  <2>2. StackInv'
    BY <1>1, <1>3 DEF StackInv
  <2>3. FoundInv'
    BY <1>1, <1>3 DEF FoundInv, HasTable
  <2>4. FrameInv'
    BY <1>1, <1>3 DEF FrameInv, InUse, Going, Coming, Mapped
  <2>5. PageInv'
    BY <1>1, <1>3 DEF PageInv, Pending, Mapped
  <2> QED
    BY <1>1, <1>2, <2>1, <2>2, <2>3, <2>4, <2>5
<1>4. CASE holder[call[t].pool] = NULL /\ ~UNCHANGED <<holder, pc>>
  <2> DEFINE c == call[t]
             p == CASE c.op = "sys_malloc" -> "vscan" [] c.op = "sys_free" -> "pfree" [] c.op = "get_a_page" -> "setbit"
  <2>1. holder' = [holder EXCEPT ![c.pool] = t] /\ pc' = [pc EXCEPT ![t] = p]
    BY <1>4 DEF lock_acquire, Goto
  <2>2. ArgsOK(t, c) /\ PlaceOK(t, c) /\ c \in Calls
    BY <1>1 DEF CallInv, TypeOK
  <2>3. c.op \in {"sys_malloc", "sys_free", "get_a_page"} /\ c.k = 0 /\ c.pool \in Pools /\ LocksPool(c.op)
        /\ c.cnt \in Nat /\ c.cnt > 0 /\ c.addr \in Nat
    BY <1>1, <2>2 DEF ArgsOK, PlaceOK, Calls, AllOps, LocksPool
  <2> HIDE DEF c
  <2>4. p \in {"vscan", "pfree", "setbit"}
    BY <2>3
  <2>5. /\ p = "vscan" => c.op = "sys_malloc"
        /\ p = "pfree" => c.op = "sys_free"
        /\ p = "setbit" => c.op = "get_a_page"
    BY <2>3
  <2> PICK z : z = p
    OBVIOUS
  <2> HIDE DEF p
  <2>6. z \in PCs \ Outer
    BY <2>4 DEF PCs, Outer, Freeing
  <2>7. TypeOK' /\ pc'[t] = z /\ \A u \in Tasks : u # t => pc'[u] = pc[u]
    BY <1>1, <2>1, <2>3, <2>6 DEF TypeOK
  <2>8. \A u \in Tasks : pc[u] \in Outer
    <3>1. enter(t, c) /\ ~Inside(t)
      BY <1>1, <1>4 DEF lock_acquire, Inside, c
    <3> QED
      BY <1>4, <2>2, <3>1, AloneInside DEF c
  <2>9. LockInv'
    <3>3. \A u \in Tasks : pc'[u] \notin Outer => u = t
      BY <2>7, <2>8
    <3>4. holder'[call'[t].pool] = t
      BY <1>1, <2>1, <2>3 DEF TypeOK, c
    <3> QED
      BY <3>3, <3>4 DEF LockInv
  <2>10. CallInv'
    <3> SUFFICES ASSUME NEW u \in Tasks, pc'[u] # "home"
                 PROVE  ArgsOK(u, call[u])' /\ PlaceOK(u, call[u])'
      BY DEF CallInv
    <3>1. pc[u] # "home" /\ ArgsOK(u, call[u]) /\ PlaceOK(u, call[u])
      BY <1>1, <2>7 DEF CallInv
    <3>2. ArgsOK(u, call[u])'
      BY <1>1, <3>1 DEF ArgsOK
    <3>3. CASE u = t
      <4>1. PlaceOK(t, call[t])'
        BY <1>1, <2>3, <2>4, <2>5, <2>7 DEF PlaceOK, Filling, Freeing, Allocs, Frees, c
      <4> QED
        BY <3>2, <3>3, <4>1
    <3>4. CASE u # t
      BY <1>1, <2>7, <3>1, <3>2, <3>4 DEF PlaceOK
    <3> QED
      BY <3>3, <3>4
  <2>11. OwnInv'
    BY <1>1 DEF OwnInv
  <2>12. StackInv'
    <3> SUFFICES ASSUME NEW u \in Procs
                 PROVE  /\ u \in started' \/ (call'[u].op = "get_a_page" /\ pc'[u] \in Filling \union {"unlock"})
                              => STACK3 \in vused'[u]
                        /\ u \in started' \/ (call'[u].op = "get_a_page" /\ pc'[u] = "unlock") => pt'[u][STACK3] # NULL
      BY DEF StackInv
    <3>1. u \in Tasks
      BY ConstantFacts
    <3>2. CASE u = t
      BY <1>1, <2>4, <2>7, <3>2 DEF StackInv, Filling
    <3>3. CASE u # t
      BY <1>1, <2>7, <3>1, <3>3 DEF StackInv
    <3> QED
      BY <3>2, <3>3
  <2>13. FrameInv' /\ PageInv' /\ FoundInv'
    <3>1. pc[t] \notin Filling \union Freeing /\ z \notin Filling \union {"unmap", "vremove"} /\ z # "vset"
      BY <1>1, <2>4 DEF Filling, Freeing
    <3>2. call'[t].k = 0 /\ call'[t].addr \in Nat /\ pc' = [pc EXCEPT ![t] = z]
      BY <1>1, <2>1, <2>3 DEF c
    <3> QED
      BY <1>1, <2>6, <3>1, <3>2, DataKept
  <2> QED
    BY <1>1, <1>2, <2>7, <2>9, <2>10, <2>11, <2>12, <2>13
<1> QED
  BY <1>3, <1>4 DEF lock_acquire

LEMMA ReleaseStep ==
    ASSUME MemInv, kernel = "up", NEW t \in Tasks, lock_release(t)
    PROVE  MemInv'
<1> USE DEF MemInv, Running
<1> DEFINE c == call[t]
           x == [addr |-> c.addr, cnt |-> c.cnt, heap |-> LocksPool(c.op)]
<1>1. /\ pc[t] \in {"unlock", "fail"} /\ pc' = [pc EXCEPT ![t] = "home"] /\ call' = [call EXCEPT ![t] = NoCall]
      /\ holder' = IF LocksPool(c.op) THEN [holder EXCEPT ![c.pool] = NULL] ELSE holder
      /\ own' = IF pc[t] = "unlock" /\ c.op \in {"sys_malloc", "get_kernel_pages"}
                THEN [own EXCEPT ![t] = @ \union {x}] ELSE own
      /\ started' = IF c.op = "get_a_page" THEN started \union {t} ELSE started
      /\ UNCHANGED <<used, vused, pt, tables, kernel>>
  BY DEF lock_release, At, Goto
<1>2. Exclusive'
  BY <1>1, MapsKept
<1>3. pc[t] \notin Outer /\ \A u \in Tasks : u # t => pc[u] \in Outer
  BY <1>1, OneInside DEF Outer
<1>4. ArgsOK(t, c) /\ PlaceOK(t, c) /\ c \in Calls
  BY <1>1 DEF CallInv, TypeOK
<1>5. c.op = "get_a_page" => t \in Procs \ started /\ pc[t] = "unlock"
  BY <1>1, <1>4 DEF ArgsOK, PlaceOK, Allocs
<1>6. x \in [addr : Nat, cnt : Nat, heap : BOOLEAN] /\ x.addr = c.addr /\ x.cnt = c.cnt /\ x.heap = LocksPool(c.op)
  BY <1>4 DEF Calls, LocksPool
<1>7. NoCall \in Calls /\ "home" \in PCs
  BY NoCallFacts DEF PCs, Outer
<1>8. /\ pc'[t] = "home" /\ call'[t] = NoCall
      /\ \A u \in Tasks : u # t => pc'[u] = pc[u] /\ call'[u] = call[u]
  BY <1>1 DEF TypeOK
<1>9. TypeOK'
  <2>1. holder' \in [Pools -> Tasks \union {NULL}]
    BY <1>1 DEF TypeOK
  <2>2. started' \subseteq Procs
    BY <1>1, <1>5 DEF TypeOK
  <2>3. own' \in [Tasks -> SUBSET [addr : Nat, cnt : Nat, heap : BOOLEAN]]
    <3> HIDE DEF x
    <3> QED
      BY <1>1, <1>6 DEF TypeOK
  <2>4. pc' \in [Tasks -> PCs] /\ call' \in [Tasks -> Calls]
    BY <1>1, <1>7 DEF TypeOK
  <2> QED
    BY <1>1, <2>1, <2>2, <2>3, <2>4 DEF TypeOK
<1>10. LockInv'
  <2>1. \A u \in Tasks : pc'[u] \in Outer
    BY <1>3, <1>8 DEF Outer
  <2> QED
    BY <2>1 DEF LockInv
<1>11. CallInv'
  <2> SUFFICES ASSUME NEW u \in Tasks, pc'[u] # "home"
               PROVE  ArgsOK(u, call[u])' /\ PlaceOK(u, call[u])'
    BY DEF CallInv
  <2>1. u # t /\ pc[u] # "home" /\ call'[u] = call[u] /\ pc'[u] = pc[u] /\ ArgsOK(u, call[u]) /\ PlaceOK(u, call[u])
    BY <1>8 DEF CallInv
  <2>2. (u \in started') <=> (u \in started)
    BY <1>1, <2>1
  <2> QED
    BY <2>1, <2>2 DEF ArgsOK, PlaceOK
<1>12. OwnInv'
  <2> SUFFICES ASSUME NEW u \in Tasks, NEW y \in own'[u]
               PROVE  /\ u \in KThreads \union started'
                      /\ y.cnt > 0 /\ Span(y) \subseteq AllPages
                      /\ y.heap /\ u \in Procs => Span(y) \subseteq Pages /\ STACK3 \notin Span(y)
    BY DEF OwnInv
  <2>1. CASE y \in own[u]
    BY <1>1, <2>1 DEF OwnInv
  <2>2. CASE y \notin own[u]
    <3>1. u = t /\ y = x /\ pc[t] = "unlock" /\ c.op \in {"sys_malloc", "get_kernel_pages"}
      <4> HIDE DEF x
      <4> QED
        BY <1>1, <2>2 DEF TypeOK
    <3>2. t \in KThreads \union started /\ c.cnt > 0
      BY <1>4, <3>1 DEF ArgsOK
    <3>3. Span(c) \subseteq Limit(c.space) /\ Span(c) \subseteq AllPages /\ c.k = c.cnt
      BY <1>4, <3>1, ConstantFacts DEF PlaceOK
    <3>4. Span(x) = Span(c) /\ Done(c) = Span(c)
      BY <1>6, <3>3 DEF Span, Done, Base
    <3>5. ASSUME x.heap, t \in Procs PROVE Span(x) \subseteq Pages /\ STACK3 \notin Span(x)
      <4>1. c.op = "sys_malloc"
        BY <1>6, <3>1, <3>5 DEF LocksPool
      <4>2. c.space = t /\ c.space # "kernel"
        BY <1>4, <3>5, <4>1, ConstantFacts DEF ArgsOK, SpaceOf
      <4> QED
        BY <1>4, <3>1, <3>3, <3>4, <4>1, <4>2, ConstantFacts DEF PlaceOK
    <3> QED
      BY <1>1, <1>6, <3>1, <3>2, <3>3, <3>4, <3>5
  <2> QED
    BY <2>1, <2>2
<1>13. StackInv'
  <2> SUFFICES ASSUME NEW u \in Procs
               PROVE  /\ u \in started' \/ (call'[u].op = "get_a_page" /\ pc'[u] \in Filling \union {"unlock"})
                            => STACK3 \in vused'[u]
                      /\ u \in started' \/ (call'[u].op = "get_a_page" /\ pc'[u] = "unlock") => pt'[u][STACK3] # NULL
    BY DEF StackInv
  <2>1. u \in Tasks
    BY ConstantFacts
  <2>2. CASE u = t
    BY <1>1, <1>5, <1>8, <2>2 DEF StackInv, Filling
  <2>3. CASE u # t
    BY <1>1, <1>8, <2>1, <2>3 DEF StackInv
  <2> QED
    BY <2>2, <2>3
<1>14. FrameInv' /\ PageInv' /\ FoundInv'
  <2>1. pc[t] \notin Filling \union Freeing /\ "home" \notin Filling \union {"unmap", "vremove"}
    BY <1>1 DEF Filling, Freeing
  <2> QED
    BY <1>1, <1>7, <1>8, <2>1, DataKept
<1> QED
  BY <1>1, <1>2, <1>9, <1>10, <1>11, <1>12, <1>13, <1>14

-----------------------------------------------------------------------------
(* A task's locals after an assignment to one of them. *)
LEMMA CallFacts ==
    ASSUME NEW c \in Calls
    PROVE  /\ c.op \in AllOps \union {"none"} /\ c.pool \in Pools /\ c.space \in Spaces /\ c.addr \in Nat
           /\ c.cnt \in Nat /\ c.k \in Nat /\ c.bit \in Int /\ c.frame \in (Pools \X Nat) \union {NULL}
BY DEF Calls

LEMMA SetBit ==
    ASSUME call \in [Tasks -> Calls], NEW t \in Tasks, NEW i \in Int, call' = [call EXCEPT ![t].bit = i]
    PROVE  /\ call' \in [Tasks -> Calls] /\ \A u \in Tasks : u # t => call'[u] = call[u]
           /\ call'[t].op = call[t].op /\ call'[t].pool = call[t].pool /\ call'[t].space = call[t].space
           /\ call'[t].addr = call[t].addr /\ call'[t].cnt = call[t].cnt /\ call'[t].k = call[t].k
           /\ call'[t].bit = i /\ call'[t].frame = call[t].frame
<1> PICK c \in Calls : c = call[t]
  OBVIOUS
<1>1. [c EXCEPT !.bit = i] \in Calls
  BY DEF Calls
<1>2. call'[t] = [c EXCEPT !.bit = i] /\ \A u \in Tasks : u # t => call'[u] = call[u]
  OBVIOUS
<1>3. call' = [call EXCEPT ![t] = [c EXCEPT !.bit = i]]
  OBVIOUS
<1>4. call' \in [Tasks -> Calls]
  BY <1>1, <1>3
<1> QED
  BY <1>2, <1>4 DEF Calls

LEMMA SetAddr ==
    ASSUME call \in [Tasks -> Calls], NEW t \in Tasks, NEW i \in Nat, call' = [call EXCEPT ![t].addr = i]
    PROVE  /\ call' \in [Tasks -> Calls] /\ \A u \in Tasks : u # t => call'[u] = call[u]
           /\ call'[t].op = call[t].op /\ call'[t].pool = call[t].pool /\ call'[t].space = call[t].space
           /\ call'[t].addr = i /\ call'[t].cnt = call[t].cnt /\ call'[t].k = call[t].k
           /\ call'[t].bit = call[t].bit /\ call'[t].frame = call[t].frame
<1> PICK c \in Calls : c = call[t]
  OBVIOUS
<1>1. [c EXCEPT !.addr = i] \in Calls
  BY DEF Calls
<1>2. call'[t] = [c EXCEPT !.addr = i] /\ \A u \in Tasks : u # t => call'[u] = call[u]
  OBVIOUS
<1>3. call' = [call EXCEPT ![t] = [c EXCEPT !.addr = i]]
  OBVIOUS
<1>4. call' \in [Tasks -> Calls]
  BY <1>1, <1>3
<1> QED
  BY <1>2, <1>4 DEF Calls

LEMMA SetFrame ==
    ASSUME call \in [Tasks -> Calls], NEW t \in Tasks, NEW i \in Pools \X Nat, call' = [call EXCEPT ![t].frame = i]
    PROVE  /\ call' \in [Tasks -> Calls] /\ \A u \in Tasks : u # t => call'[u] = call[u]
           /\ call'[t].op = call[t].op /\ call'[t].pool = call[t].pool /\ call'[t].space = call[t].space
           /\ call'[t].addr = call[t].addr /\ call'[t].cnt = call[t].cnt /\ call'[t].k = call[t].k
           /\ call'[t].bit = call[t].bit /\ call'[t].frame = i
<1> PICK c \in Calls : c = call[t]
  OBVIOUS
<1>1. [c EXCEPT !.frame = i] \in Calls
  BY DEF Calls
<1>2. call'[t] = [c EXCEPT !.frame = i] /\ \A u \in Tasks : u # t => call'[u] = call[u]
  OBVIOUS
<1>3. call' = [call EXCEPT ![t] = [c EXCEPT !.frame = i]]
  OBVIOUS
<1>4. call' \in [Tasks -> Calls]
  BY <1>1, <1>3
<1> QED
  BY <1>2, <1>4 DEF Calls

LEMMA NextPage ==
    ASSUME call \in [Tasks -> Calls], NEW t \in Tasks, call' = [call EXCEPT ![t].k = @ + 1]
    PROVE  /\ call' \in [Tasks -> Calls] /\ \A u \in Tasks : u # t => call'[u] = call[u]
           /\ call'[t].op = call[t].op /\ call'[t].pool = call[t].pool /\ call'[t].space = call[t].space
           /\ call'[t].addr = call[t].addr /\ call'[t].cnt = call[t].cnt /\ call'[t].k = call[t].k + 1
           /\ call'[t].bit = call[t].bit /\ call'[t].frame = call[t].frame
<1> PICK c \in Calls : c = call[t]
  OBVIOUS
<1>0. c.k + 1 \in Nat
  BY DEF Calls
<1>1. [c EXCEPT !.k = c.k + 1] \in Calls
  BY <1>0 DEF Calls
<1>2. call'[t] = [c EXCEPT !.k = c.k + 1] /\ \A u \in Tasks : u # t => call'[u] = call[u]
  OBVIOUS
<1>3. call' = [call EXCEPT ![t] = [c EXCEPT !.k = c.k + 1]]
  OBVIOUS
<1>4. call' \in [Tasks -> Calls]
  BY <1>1, <1>3
<1> QED
  BY <1>2, <1>4 DEF Calls

LEMMA VaddrScanStep ==
    ASSUME MemInv, kernel = "up", NEW t \in Tasks, vaddr_get_scan(t)
    PROVE  MemInv'
<1> USE DEF MemInv, Running
<1> DEFINE c == call[t]
<1> PICK i : i = bitmap_scan(vused[c.space], VBytes, c.cnt)
  OBVIOUS
<1>1. /\ pc[t] = "vscan" /\ UNCHANGED <<used, vused, pt, tables, holder, off, started, own>>
      /\ kernel' = IF i # PANIC THEN "up" ELSE "panic"
      /\ \/ i = NOT_FOUND /\ pc' = [pc EXCEPT ![t] = "fail"] /\ call' = call
         \/ i # NOT_FOUND /\ pc' = [pc EXCEPT ![t] = "vset"] /\ call' = [call EXCEPT ![t].bit = i]
  BY DEF vaddr_get_scan, At, ASSERT, Goto
<1>2. Exclusive'
  BY <1>1, MapsKept
<1>3. ~Quiet'
  BY <1>1 DEF Quiet, TypeOK
<1>4. SUFFICES ASSUME i # PANIC PROVE Running'
  BY <1>1, <1>2, <1>3
<1>5. pc[t] \notin Outer
  BY <1>1 DEF Outer
<1>6. ArgsOK(t, c) /\ PlaceOK(t, c) /\ c \in Calls /\ c.op \in Allocs /\ c.k = 0 /\ c.cnt \in Nat \ {0}
  BY <1>1 DEF CallInv, TypeOK, PlaceOK, ArgsOK, Calls
<1>7. CASE i = NOT_FOUND
  <2>1. pc' = [pc EXCEPT ![t] = "fail"] /\ call' = call
    BY <1>1, <1>7
  <2>2. "fail" \in PCs \ Outer
    BY DEF PCs, Outer
  <2>3. ArgsOK(t, call[t])'
    BY <1>1, <1>6, <2>1 DEF ArgsOK
  <2>4. PlaceOK(t, call[t])'
    BY <1>6, <2>1 DEF PlaceOK, Filling, Freeing, TypeOK
  <2>5. call' \in [Tasks -> Calls]
    BY <2>1 DEF TypeOK
  <2>6. /\ pc' \in [Tasks -> PCs] /\ pc'[t] = "fail"
        /\ \A u \in Tasks : u # t => pc[u] \in Outer /\ pc'[u] = pc[u]
        /\ LockInv' /\ CallInv' /\ OwnInv'
    BY <1>1, <1>5, <2>1, <2>2, <2>3, <2>4, <2>5, InsideStep
  <2>7. FrameInv' /\ PageInv' /\ FoundInv'
    BY <1>1, <2>1, <2>2, DataKept DEF Filling, Freeing
  <2>8. StackInv'
    BY <1>1, <2>1, <2>6, ConstantFacts DEF StackInv, Filling
  <2> QED
    BY <1>1, <2>5, <2>6, <2>7, <2>8 DEF TypeOK
<1>8. CASE i # NOT_FOUND
  <2>1. pc' = [pc EXCEPT ![t] = "vset"] /\ call' = [call EXCEPT ![t].bit = i]
    BY <1>1, <1>8
  <2>2. "vset" \in PCs \ Outer
    BY DEF PCs, Outer
  <2>3. i \in Nat /\ i + c.cnt <= Room(c.space) /\ \A q \in i..(i + c.cnt - 1) : q \notin vused[c.space]
    <3>1. c.space # "kernel" => Behind - 1 \in vused[c.space]
      <4> SUFFICES ASSUME c.space # "kernel" PROVE Behind - 1 \in vused[c.space]
        OBVIOUS
      <4>1. t \in Procs /\ c.space = t /\ t \in started
        BY <1>6, ConstantFacts DEF ArgsOK, Allocs
      <4> QED
        BY <4>1, ConstantFacts DEF StackInv
    <3>2. VBytes \in Nat
      BY ConstantFacts
    <3> DEFINE n == c.cnt
               b == vused[c.space]
    <3>3. n \in Nat \ {0} /\ (c.space # "kernel" => VBytes * ByteBits - 1 \in b)
      BY <1>6, <3>1 DEF Behind
    <3>4. i = bitmap_scan(b, VBytes, n)
      OBVIOUS
    <3> HIDE DEF n, b
    <3>5. /\ i \in Nat /\ i + n <= VBytes * ByteBits + 1 /\ \A q \in i..(i + n - 1) : q \notin b
          /\ VBytes * ByteBits - 1 \in b => i + n <= VBytes * ByteBits
      BY <1>4, <1>8, <3>2, <3>3, <3>4, ScanRun
    <3>6. i + n <= Room(c.space)
      BY <3>3, <3>5 DEF Room, Behind
    <3> QED
      BY <3>5, <3>6 DEF n, b
  <2>4. /\ call' \in [Tasks -> Calls] /\ \A u \in Tasks : u # t => call'[u] = call[u]
        /\ call'[t].op = c.op /\ call'[t].pool = c.pool /\ call'[t].space = c.space /\ call'[t].cnt = c.cnt
        /\ call'[t].addr = c.addr /\ call'[t].k = c.k /\ call'[t].bit = i
    <3>1. i \in Int /\ call \in [Tasks -> Calls]
      BY <2>3 DEF TypeOK
    <3> QED
      BY <2>1, <3>1, SetBit
  <2>5. ArgsOK(t, call[t])'
    BY <1>1, <1>6, <2>4 DEF ArgsOK, Span, Base
  <2>6. PlaceOK(t, call[t])'
    BY <1>6, <2>1, <2>4 DEF PlaceOK, Filling, Freeing, TypeOK
  <2>7. /\ pc' \in [Tasks -> PCs] /\ pc'[t] = "vset"
        /\ \A u \in Tasks : u # t => pc[u] \in Outer /\ pc'[u] = pc[u]
        /\ LockInv' /\ CallInv' /\ OwnInv'
    BY <1>1, <1>5, <2>1, <2>2, <2>4, <2>5, <2>6, InsideStep
  <2>8. FrameInv' /\ PageInv'
    BY <1>1, <2>1, <2>2, <2>4, DataKept DEF Filling, Freeing
  <2>9. StackInv'
    <3>1. \A u \in Procs : pc'[u] \in Filling \union {"unlock"} => pc'[u] = pc[u] /\ call'[u] = call[u]
      BY <2>4, <2>7, ConstantFacts DEF Filling
    <3> QED
      BY <1>1, <3>1 DEF StackInv
  <2>10. FoundInv'
    <3> SUFFICES ASSUME NEW u \in Tasks, pc'[u] \in {"vset", "pset", "tset", "map"}
                 PROVE  LET e == call'[u]
                        IN  /\ pc'[u] = "vset" => /\ e.bit \in Nat /\ e.bit + e.cnt <= Room(e.space)
                                                  /\ \A q \in e.bit..(e.bit + e.cnt - 1) : q \notin vused'[e.space]
                            /\ pc'[u] = "pset" => e.bit \in Nat \ used'[e.pool]
                            /\ pc'[u] = "tset" => /\ e.bit \in Nat \ used'["kernel"]
                                                  /\ e.space # "kernel" /\ ~HasTable(call[u])'
                            /\ pc'[u] \in {"map", "tset"} => e.frame # NULL /\ e.frame[1] = e.pool
      BY DEF FoundInv
    <3>1. u = t
      BY <2>7 DEF Outer
    <3> QED
      BY <1>1, <2>3, <2>4, <2>7, <3>1
  <2> QED
    BY <1>1, <2>4, <2>7, <2>8, <2>9, <2>10 DEF TypeOK
<1> QED
  BY <1>7, <1>8
-----------------------------------------------------------------------------
(* While a task is past the lock, what FoundInv, FrameInv and PageInv say  *)
(* of it is all they say.                                                  *)
FoundAt(t) ==
    LET c == call[t]
    IN  /\ pc[t] = "vset" => /\ c.bit \in Nat /\ c.bit + c.cnt <= Room(c.space)
                             /\ \A q \in c.bit..(c.bit + c.cnt - 1) : q \notin vused[c.space]
        /\ pc[t] = "pset" => c.bit \in Nat \ used[c.pool]
        /\ pc[t] = "tset" => /\ c.bit \in Nat \ used["kernel"]
                             /\ c.space # "kernel" /\ ~HasTable(c)
        /\ pc[t] \in {"map", "tset"} => c.frame # NULL /\ c.frame[1] = c.pool

FramesAt(t) ==
    /\ \A p \in Pools, n \in Nat :
           n \in used[p] <=>
               \/ InUse(<<p, n>>) /\ ~(pc[t] = "unmap" /\ Mapped(call[t]) = <<p, n>>)
               \/ pc[t] \in {"map", "tset"} /\ call[t].frame = <<p, n>>
    /\ pc[t] \in {"map", "tset"} /\ call[t].frame # NULL => ~InUse(call[t].frame)

PagesAt(t) ==
    /\ \A v \in AllPages :
           Marked(vused["kernel"], v, pt["kernel"][v] # NULL \/ (call[t].space = "kernel" /\ v \in Pending(t)))
    /\ pc[t] \in Freeing => \A v \in Done(call[t]) : pt[call[t].space][v] = NULL
    /\ pc[t] = "unmap" => Mapped(call[t]) # NULL

LEMMA InsideIs ==
    ASSUME NEW t \in Tasks, \A u \in Tasks : u # t => pc[u] \in Outer
    PROVE  (FoundInv <=> FoundAt(t)) /\ (FrameInv <=> FramesAt(t)) /\ (PageInv <=> PagesAt(t))
<1>1. FoundInv <=> FoundAt(t)
  BY DEF FoundInv, FoundAt, Outer
<1>2. FrameInv <=> FramesAt(t)
  BY FlightIs DEF FrameInv, FramesAt
<1>3. \A u \in Tasks : u # t => Pending(u) = {} /\ pc[u] \notin Freeing
  BY DEF Pending, Outer, Filling, Freeing
<1>4. PageInv <=> PagesAt(t)
  BY <1>3 DEF PageInv, PagesAt, Freeing
<1> QED
  BY <1>1, <1>2, <1>4

LEMMA InsideWillBe ==
    ASSUME NEW t \in Tasks, \A u \in Tasks : u # t => pc'[u] \in Outer
    PROVE  (FoundInv' <=> FoundAt(t)') /\ (FrameInv' <=> FramesAt(t)') /\ (PageInv' <=> PagesAt(t)')
<1>1. FoundInv' <=> FoundAt(t)'
  BY DEF FoundInv, FoundAt, Outer
<1>2. FrameInv' <=> FramesAt(t)'
  BY FlightWillBe DEF FrameInv, FramesAt
<1>3. \A u \in Tasks : u # t => Pending(u)' = {} /\ pc'[u] \notin Freeing
  BY DEF Pending, Outer, Filling, Freeing
<1>4. PageInv' <=> PagesAt(t)'
  BY <1>3 DEF PageInv, PagesAt, Freeing
<1> QED
  BY <1>1, <1>2, <1>4

(* What a step of the task past the lock has to keep. *)
LEMMA InsideInv ==
    ASSUME Running, NEW t \in Tasks, pc[t] \notin Outer,
           NEW p \in PCs \ Outer, pc' = [pc EXCEPT ![t] = p],
           call' \in [Tasks -> Calls], \A u \in Tasks : u # t => call'[u] = call[u],
           call'[t].op = call[t].op, call'[t].pool = call[t].pool,
           UNCHANGED <<holder, started, own>>,
           ArgsOK(t, call[t])', PlaceOK(t, call[t])',
           used' \in [Pools -> SUBSET Nat], vused' \in [Spaces -> SUBSET Nat],
           pt' \in [Spaces -> [AllPages -> (Pools \X Nat) \union {NULL}]],
           tables' \in [Procs -> [Rows -> (Pools \X Nat) \union {NULL}]],
           \A u \in Procs : /\ STACK3 \in vused[u] => STACK3 \in vused'[u]
                            /\ pt[u][STACK3] # NULL => pt'[u][STACK3] # NULL,
           t \in Procs /\ call[t].op = "get_a_page" /\ p \in Filling \union {"unlock"} => STACK3 \in vused'[t],
           t \in Procs /\ call[t].op = "get_a_page" /\ p = "unlock" => pt'[t][STACK3] # NULL,
           FoundAt(t)', FramesAt(t)', PagesAt(t)'
    PROVE  Running'
<1>1. /\ pc' \in [Tasks -> PCs] /\ pc'[t] = p
      /\ \A u \in Tasks : u # t => pc[u] \in Outer /\ pc'[u] = pc[u]
      /\ LockInv' /\ CallInv' /\ OwnInv'
  BY InsideStep
<1>2. TypeOK'
  BY <1>1 DEF Running, TypeOK
<1>3. FoundInv' /\ FrameInv' /\ PageInv'
  BY <1>1, InsideWillBe
<1>4. StackInv'
  <2> SUFFICES ASSUME NEW u \in Procs
               PROVE  /\ u \in started' \/ (call'[u].op = "get_a_page" /\ pc'[u] \in Filling \union {"unlock"})
                            => STACK3 \in vused'[u]
                      /\ u \in started' \/ (call'[u].op = "get_a_page" /\ pc'[u] = "unlock") => pt'[u][STACK3] # NULL
    BY DEF StackInv
  <2>1. u \in Tasks
    BY ConstantFacts
  <2>2. u \in started' => STACK3 \in vused'[u] /\ pt'[u][STACK3] # NULL
    BY DEF Running, StackInv
  <2>3. CASE u = t
    BY <1>1, <2>2, <2>3
  <2>4. CASE u # t
    BY <1>1, <2>1, <2>2, <2>4 DEF Outer, Filling
  <2> QED
    BY <2>3, <2>4
<1> QED
  BY <1>1, <1>2, <1>3, <1>4 DEF Running

(* What is known of the task past the lock. *)
LEMMA InsideFacts ==
    ASSUME Running, NEW t \in Tasks, pc[t] \notin Outer
    PROVE  /\ call \in [Tasks -> Calls] /\ call[t] \in Calls
           /\ ArgsOK(t, call[t]) /\ PlaceOK(t, call[t])
           /\ FoundAt(t) /\ FramesAt(t) /\ PagesAt(t)
<1>1. \A u \in Tasks : u # t => pc[u] \in Outer
  BY OneInside
<1>2. FoundAt(t) /\ FramesAt(t) /\ PagesAt(t)
  BY <1>1, InsideIs DEF Running
<1> QED
  BY <1>2 DEF Running, CallInv, TypeOK, Outer

(* Frames are not touched. *)
LEMMA SameFrames ==
    ASSUME NEW t \in Tasks, FramesAt(t), UNCHANGED <<used, pt, tables>>,
           pc[t] \notin {"unmap", "map", "tset"}, pc'[t] \notin {"unmap", "map", "tset"}
    PROVE  FramesAt(t)'
<1>1. \A f : InUse(f)' <=> InUse(f)
  BY DEF InUse
<1> QED
  BY <1>1 DEF FramesAt

LEMMA VaddrSetStep ==
    ASSUME MemInv, kernel = "up", NEW t \in Tasks, vaddr_get_set(t)
    PROVE  MemInv'
<1> USE DEF MemInv
<1>1. pc[t] = "vset" /\ pc' = [pc EXCEPT ![t] = "pscan"] /\ pc'[t] = "pscan"
  BY DEF vaddr_get_set, At, Goto, Running, TypeOK
<1>2. pc[t] \notin Outer /\ "pscan" \in PCs \ Outer
  BY <1>1 DEF Outer, PCs, Filling
<1>3. /\ call \in [Tasks -> Calls] /\ call[t] \in Calls /\ ArgsOK(t, call[t]) /\ PlaceOK(t, call[t])
      /\ FoundAt(t) /\ FramesAt(t) /\ PagesAt(t)
  BY <1>2, InsideFacts
<1> PICK c \in Calls : c = call[t]
  BY <1>3
<1> DEFINE run == c.bit..(c.bit + c.cnt - 1)
           a == IF c.space = "kernel" THEN c.bit * PG_SIZE ELSE c.bit + PG_SIZE
<1>4. /\ vused' = [vused EXCEPT ![c.space] = @ \union run]
      /\ call' = [call EXCEPT ![t].addr = a]
      /\ UNCHANGED <<used, pt, tables, holder, off, started, own, kernel>>
  BY DEF vaddr_get_set, bitmap_set
<1>5. c.op \in Allocs /\ c.op \in AllOps /\ c.k = 0 /\ c.cnt \in Nat /\ c.cnt > 0 /\ c.space \in Spaces
  BY <1>1, <1>3, CallFacts DEF PlaceOK, ArgsOK
<1>6. c.bit \in Nat /\ c.bit + c.cnt <= Room(c.space) /\ \A q \in run : q \notin vused[c.space]
  BY <1>1, <1>3 DEF FoundAt
<1>7. a \in Nat
  <2>1. PG_SIZE \in Nat
    BY ConstantFacts
  <2> QED
    BY <1>6, <2>1
<1> HIDE DEF a
<1>8. /\ call' \in [Tasks -> Calls] /\ \A u \in Tasks : u # t => call'[u] = call[u]
      /\ call'[t].op = c.op /\ call'[t].pool = c.pool /\ call'[t].space = c.space
      /\ call'[t].addr = a /\ call'[t].cnt = c.cnt /\ call'[t].k = 0
  BY <1>3, <1>4, <1>5, <1>7, SetAddr
<1>9. run \subseteq Limit(c.space) /\ run \subseteq AllPages
  <2>1. Room(c.space) \in Nat
    BY ConstantFacts
  <2>2. run \subseteq Limit(c.space)
    BY <1>5, <1>6, <2>1 DEF Limit
  <2> QED
    BY <2>2, ConstantFacts
<1> DEFINE b == a \div PG_SIZE
<1>10. Base(call[t])' = b /\ Span(call[t])' = b..(b + c.cnt - 1)
  BY <1>8 DEF Base, Span
<1>11. b \in Nat /\ (c.space = "kernel" => b = c.bit) /\ b <= c.bit + 1
  <2>1. CASE c.space = "kernel"
    <3>1. PG_SIZE \in Nat \ {0} /\ 0 \in 0..(PG_SIZE - 1)
      BY ConstantFacts
    <3>2. a = c.bit * PG_SIZE + 0
      BY <1>6, <2>1, <3>1 DEF a
    <3>3. (c.bit * PG_SIZE + 0) \div PG_SIZE = c.bit
      BY <1>6, <3>1, DivisionUnique
    <3> QED
      BY <1>6, <2>1, <3>2, <3>3
  <2>2. CASE c.space # "kernel"
    <3> DEFINE m == c.bit \div PG_SIZE
               e == c.bit % PG_SIZE
    <3>1. PG_SIZE \in Nat \ {0} /\ m \in Nat /\ e \in 0..(PG_SIZE - 1) /\ c.bit = m * PG_SIZE + e
      BY <1>6, ConstantFacts, DivisionFacts
    <3> HIDE DEF m, e
    <3>2. a = (m + 1) * PG_SIZE + e
      BY <1>6, <2>2, <3>1 DEF a
    <3>3. ((m + 1) * PG_SIZE + e) \div PG_SIZE = m + 1
      <4>1. m + 1 \in Nat
        BY <3>1
      <4> QED
        BY <3>1, <4>1, DivisionUnique
    <3>4. m * 1 <= m * PG_SIZE /\ m * PG_SIZE \in Nat
      BY <3>1
    <3>5. m <= c.bit
      BY <3>1, <3>4
    <3> QED
      BY <1>6, <2>2, <3>1, <3>2, <3>3, <3>5
  <2> QED
    BY <2>1, <2>2
<1> HIDE DEF b
<1>12. Span(call[t])' \subseteq Limit(c.space) /\ Span(call[t])' \subseteq AllPages
  <2>1. CASE c.space = "kernel"
    BY <1>9, <1>10, <1>11, <2>1
  <2>2. CASE c.space # "kernel"
    <3>0. Room(c.space) = Behind /\ Limit(c.space) = Pages
      BY <2>2, ConstantFacts DEF Room
    <3>1. t \in Procs /\ c.space = t /\ t \in started
      BY <1>3, <1>5, <2>2, ConstantFacts DEF ArgsOK, Allocs
    <3>2. STACK3 \in vused[t]
      BY <3>1 DEF Running, StackInv
    <3>3. STACK3 \notin run
      BY <1>6, <3>1, <3>2
    <3>4. Behind \in Nat /\ STACK3 = Behind - 1 /\ Pages = 0..(Behind - 1) /\ c.bit + c.cnt <= Behind
      BY <1>6, <3>0, ConstantFacts
    <3>5. c.bit + c.cnt - 1 # Behind - 1
      BY <1>5, <1>6, <3>3, <3>4
    <3>6. b + c.cnt - 1 <= Behind - 1
      BY <1>5, <1>6, <1>11, <3>4, <3>5
    <3>7. Span(call[t])' \subseteq Pages
      BY <1>5, <1>10, <1>11, <3>4, <3>6
    <3> QED
      BY <3>0, <3>7, ConstantFacts
  <2> QED
    BY <2>1, <2>2
<1>13. Done(call[t])' = {}
  BY <1>8, <1>10, <1>11 DEF Done
<1>14. ArgsOK(t, call[t])'
  <2>1. c.op # "get_a_page" /\ c.op \notin Frees
    BY <1>5 DEF Allocs, Frees
  <2> QED
    BY <1>3, <1>4, <1>8, <2>1 DEF ArgsOK
<1>15. PlaceOK(t, call[t])'
  BY <1>1, <1>5, <1>8, <1>12, <1>13 DEF PlaceOK, Filling, Freeing
<1>16. vused' \in [Spaces -> SUBSET Nat] /\ \A s \in Spaces : vused[s] \subseteq vused'[s]
  <2>1. run \subseteq Nat
    BY <1>6
  <2> HIDE DEF run
  <2> QED
    BY <1>4, <1>5, <2>1 DEF Running, TypeOK
<1>17. FoundAt(t)'
  BY <1>1 DEF FoundAt
<1>18. FramesAt(t)'
  BY <1>1, <1>3, <1>4, SameFrames
<1>19. PagesAt(t)'
  <2>1. Pending(t) = {}
    BY <1>1 DEF Pending, Filling, Freeing
  <2>2. Pending(t)' = Span(call[t])'
    BY <1>1, <1>13 DEF Pending, Filling
  <2>3. ASSUME NEW v \in AllPages
        PROVE  Marked(vused'["kernel"], v, pt'["kernel"][v] # NULL \/ (call'[t].space = "kernel" /\ v \in Pending(t)'))
    <3>1. Marked(vused["kernel"], v, pt["kernel"][v] # NULL)
      BY <1>3, <2>1 DEF PagesAt
    <3>2. CASE c.space = "kernel"
      <4>1. Pending(t)' = run
        BY <1>10, <1>11, <2>2, <3>2
      <4>2. vused'["kernel"] = vused["kernel"] \union run
        BY <1>4, <3>2, ConstantFacts DEF Running, TypeOK
      <4> QED
        BY <1>4, <1>8, <3>1, <3>2, <4>1, <4>2
    <3>3. CASE c.space # "kernel"
      <4>1. vused'["kernel"] = vused["kernel"]
        BY <1>4, <3>3, ConstantFacts DEF Running, TypeOK
      <4> QED
        BY <1>4, <1>8, <3>1, <3>3, <4>1
    <3> QED
      BY <3>2, <3>3
  <2> QED
    BY <1>1, <2>3 DEF PagesAt, Freeing
<1>20. Running'
  <2>1. UNCHANGED <<holder, started, own, pt, tables, used>>
    BY <1>4
  <2>2. used' \in [Pools -> SUBSET Nat] /\ pt' \in [Spaces -> [AllPages -> (Pools \X Nat) \union {NULL}]]
        /\ tables' \in [Procs -> [Rows -> (Pools \X Nat) \union {NULL}]]
    BY <2>1 DEF Running, TypeOK
  <2>3. \A u \in Procs : (STACK3 \in vused[u] => STACK3 \in vused'[u]) /\ (pt[u][STACK3] # NULL => pt'[u][STACK3] # NULL)
    BY <1>16, <2>1, ConstantFacts
  <2>4. call[t].op # "get_a_page" /\ call'[t].op = call[t].op /\ call'[t].pool = call[t].pool
    BY <1>5, <1>8 DEF Allocs
  <2> QED
    BY <1>1, <1>2, <1>8, <1>14, <1>15, <1>16, <1>17, <1>18, <1>19, <2>1, <2>2, <2>3, <2>4, InsideInv
<1>21. Exclusive'
  BY <1>4, <1>16, ConstantFacts DEF Exclusive
<1> QED
  BY <1>4, <1>20, <1>21

LEMMA GetAPageSetStep ==
    ASSUME MemInv, kernel = "up", NEW t \in Tasks, get_a_page_set(t)
    PROVE  MemInv'
<1> USE DEF MemInv
<1>1. pc[t] = "setbit" /\ pc' = [pc EXCEPT ![t] = "pscan"] /\ pc'[t] = "pscan"
  BY DEF get_a_page_set, At, Goto, Running, TypeOK
<1>2. pc[t] \notin Outer /\ "pscan" \in PCs \ Outer
  BY <1>1 DEF Outer, PCs, Filling
<1>3. /\ call \in [Tasks -> Calls] /\ call[t] \in Calls /\ ArgsOK(t, call[t]) /\ PlaceOK(t, call[t])
      /\ FoundAt(t) /\ FramesAt(t) /\ PagesAt(t)
  BY <1>2, InsideFacts
<1> DEFINE b == Base(call[t])
<1>4. /\ vused' = [vused EXCEPT ![t] = @ \union b..(b + 1 - 1)]
      /\ UNCHANGED <<used, pt, tables, holder, off, started, call, own, kernel>>
  BY DEF get_a_page_set, bitmap_set, Base
<1>5. /\ call[t].op = "get_a_page" /\ call[t].k = 0 /\ call[t].cnt = 1 /\ call[t].addr = STACK3 * PG_SIZE
      /\ t \in Procs /\ call[t].space = t /\ t \in Spaces
  BY <1>1, <1>3, ConstantFacts DEF PlaceOK, ArgsOK
<1>6. b = STACK3 /\ STACK3 \in Nat
  <2>1. PG_SIZE \in Nat \ {0} /\ 0 \in 0..(PG_SIZE - 1) /\ STACK3 \in Nat
    BY ConstantFacts
  <2>2. (STACK3 * PG_SIZE + 0) \div PG_SIZE = STACK3
    BY <2>1, DivisionUnique
  <2>3. STACK3 * PG_SIZE + 0 = STACK3 * PG_SIZE
    BY <2>1
  <2> QED
    BY <1>5, <2>1, <2>2, <2>3 DEF Base
<1>7. Span(call[t]) = {STACK3} /\ Done(call[t]) = {}
  BY <1>5, <1>6 DEF Span, Done
<1>8. vused' = [vused EXCEPT ![t] = @ \union {STACK3}]
  BY <1>4, <1>6
<1>9. /\ vused' \in [Spaces -> SUBSET Nat] /\ \A s \in Spaces : vused[s] \subseteq vused'[s]
      /\ STACK3 \in vused'[t] /\ vused'["kernel"] = vused["kernel"]
  BY <1>5, <1>6, <1>8, ConstantFacts DEF Running, TypeOK
<1>10. ArgsOK(t, call[t])'
  BY <1>3, <1>4 DEF ArgsOK
<1>11. PlaceOK(t, call[t])'
  <2>1. Span(call[t])' = {STACK3}
    BY <1>4, <1>7 DEF Span, Base
  <2> QED
    BY <1>1, <1>4, <1>5, <2>1, ConstantFacts DEF PlaceOK, Filling, Freeing
<1>12. FoundAt(t)'
  BY <1>1 DEF FoundAt
<1>13. FramesAt(t)'
  BY <1>1, <1>3, <1>4, SameFrames
<1>14. PagesAt(t)'
  <2>1. call[t].space # "kernel"
    BY <1>5, ConstantFacts
  <2> QED
    BY <1>1, <1>3, <1>4, <1>9, <2>1 DEF PagesAt, Freeing
<1>15. Running'
  <2>1. UNCHANGED <<holder, started, own, pt, tables, used, call>>
    BY <1>4
  <2>2. used' \in [Pools -> SUBSET Nat] /\ pt' \in [Spaces -> [AllPages -> (Pools \X Nat) \union {NULL}]]
        /\ tables' \in [Procs -> [Rows -> (Pools \X Nat) \union {NULL}]]
    BY <2>1 DEF Running, TypeOK
  <2>3. \A u \in Procs : (STACK3 \in vused[u] => STACK3 \in vused'[u]) /\ (pt[u][STACK3] # NULL => pt'[u][STACK3] # NULL)
    BY <1>9, <2>1, ConstantFacts
  <2> QED
    BY <1>1, <1>2, <1>3, <1>9, <1>10, <1>11, <1>12, <1>13, <1>14, <2>1, <2>2, <2>3, InsideInv
<1>16. Exclusive'
  BY <1>4, <1>9, ConstantFacts DEF Exclusive
<1> QED
  BY <1>4, <1>15, <1>16

(* From one step of filling a page to the next. *)
LEMMA StillFilling ==
    ASSUME NEW t \in Tasks, pc[t] \in Filling, pc'[t] \in Filling, started' = started,
           call'[t].op = call[t].op, call'[t].pool = call[t].pool, call'[t].space = call[t].space,
           call'[t].addr = call[t].addr, call'[t].cnt = call[t].cnt, call'[t].k = call[t].k,
           ArgsOK(t, call[t]), PlaceOK(t, call[t]), PagesAt(t), UNCHANGED <<vused, pt>>
    PROVE  ArgsOK(t, call[t])' /\ PlaceOK(t, call[t])' /\ PagesAt(t)'
<1>1. Span(call[t])' = Span(call[t]) /\ Done(call[t])' = Done(call[t])
  BY DEF Span, Done, Base
<1>2. ArgsOK(t, call[t])'
  BY <1>1 DEF ArgsOK
<1>3. PlaceOK(t, call[t])'
  BY <1>1 DEF PlaceOK, Filling, Freeing
<1>4. Pending(t)' = Pending(t)
  BY <1>1 DEF Pending
<1>5. PagesAt(t)'
  BY <1>4 DEF PagesAt, Filling, Freeing
<1> QED
  BY <1>2, <1>3, <1>5

LEMMA PallocScanStep ==
    ASSUME MemInv, kernel = "up", NEW t \in Tasks, NEW pool \in Pools, NEW p, palloc_scan(t, pool, p),
           \/ pc[t] = "pscan" /\ p = "pset" /\ pool = call[t].pool
           \/ pc[t] = "map" /\ p = "tset" /\ pool = "kernel" /\ ~HasTable(call[t])
    PROVE  MemInv'
<1> USE DEF MemInv
<1> PICK i : i = bitmap_scan(used[pool], Bytes(pool), 1)
  OBVIOUS
<1>1. /\ pc' = [pc EXCEPT ![t] = p] /\ call' = [call EXCEPT ![t].bit = i]
      /\ kernel' = IF i # PANIC THEN "up" ELSE "panic"
      /\ UNCHANGED <<used, vused, pt, tables, holder, off, started, own>>
  BY DEF palloc_scan, Goto, ASSERT
<1>2. pc'[t] = p /\ p \in {"pset", "tset"}
  BY <1>1 DEF Running, TypeOK
<1>3. Exclusive'
  BY <1>1, MapsKept
<1>4. ~Quiet'
  BY <1>2 DEF Quiet
<1>5. SUFFICES ASSUME i # PANIC PROVE Running'
  BY <1>1, <1>3, <1>4
<1>6. i \in Nat \ used[pool]
  <2>1. Bytes(pool) \in Nat
    BY ConstantFacts DEF Bytes
  <2> QED
    BY <1>5, <2>1, ScanOne
<1>7. pc[t] \in Filling /\ pc'[t] \in Filling /\ pc[t] \notin Outer /\ p \in PCs \ Outer /\ p # "unlock"
  BY <1>2 DEF Filling, Outer, PCs
<1>8. /\ call \in [Tasks -> Calls] /\ call[t] \in Calls /\ ArgsOK(t, call[t]) /\ PlaceOK(t, call[t])
      /\ FoundAt(t) /\ FramesAt(t) /\ PagesAt(t)
  BY <1>7, InsideFacts
<1>9. /\ call' \in [Tasks -> Calls] /\ \A u \in Tasks : u # t => call'[u] = call[u]
      /\ call'[t].op = call[t].op /\ call'[t].pool = call[t].pool /\ call'[t].space = call[t].space
      /\ call'[t].addr = call[t].addr /\ call'[t].cnt = call[t].cnt /\ call'[t].k = call[t].k
      /\ call'[t].bit = i /\ call'[t].frame = call[t].frame
  <2>1. i \in Int
    BY <1>6
  <2> QED
    BY <1>1, <1>8, <2>1, SetBit
<1>10. ArgsOK(t, call[t])' /\ PlaceOK(t, call[t])' /\ PagesAt(t)'
  BY <1>1, <1>7, <1>8, <1>9, StillFilling
<1>11. \A f : InUse(f)' <=> InUse(f)
  BY <1>1 DEF InUse
<1>12. FramesAt(t)'
  <2>1. pc[t] # "unmap" /\ pc'[t] # "unmap" /\ (pc'[t] \in {"map", "tset"} <=> pc[t] \in {"map", "tset"})
    BY <1>2
  <2> QED
    BY <1>1, <1>8, <1>9, <1>11, <2>1 DEF FramesAt
<1>13. FoundAt(t)'
  <2>1. CASE p = "pset"
    BY <1>1, <1>2, <1>6, <1>9, <2>1 DEF FoundAt
  <2>2. CASE p = "tset"
    <3>1. pc[t] = "map" /\ pool = "kernel" /\ ~HasTable(call[t]) /\ call[t].frame # NULL /\ call[t].frame[1] = call[t].pool
      BY <1>8, <2>2 DEF FoundAt
    <3>2. call[t].space # "kernel" /\ ~HasTable(call[t])'
      BY <1>1, <1>9, <3>1 DEF HasTable, Table, Page
    <3> QED
      BY <1>1, <1>2, <1>6, <1>9, <2>2, <3>1, <3>2 DEF FoundAt
  <2> QED
    BY <1>2, <2>1, <2>2
<1>14. UNCHANGED <<holder, started, own, pt, tables, used, vused>>
  BY <1>1
<1>15. /\ used' \in [Pools -> SUBSET Nat] /\ pt' \in [Spaces -> [AllPages -> (Pools \X Nat) \union {NULL}]]
       /\ tables' \in [Procs -> [Rows -> (Pools \X Nat) \union {NULL}]] /\ vused' \in [Spaces -> SUBSET Nat]
  BY <1>14 DEF Running, TypeOK
<1>16. \A u \in Procs : (STACK3 \in vused[u] => STACK3 \in vused'[u]) /\ (pt[u][STACK3] # NULL => pt'[u][STACK3] # NULL)
  BY <1>14
<1>17. t \in Procs /\ call[t].op = "get_a_page" => STACK3 \in vused'[t]
  BY <1>7, <1>14 DEF Running, StackInv
<1> QED
  BY <1>1, <1>7, <1>9, <1>10, <1>12, <1>13, <1>14, <1>15, <1>16, <1>17, InsideInv

LEMMA PallocSetStep ==
    ASSUME MemInv, kernel = "up", NEW t \in Tasks, palloc_set(t)
    PROVE  MemInv'
<1> USE DEF MemInv
<1>0. PICK n, pool, f : n = call[t].bit /\ pool = call[t].pool /\ f = <<pool, n>>
  OBVIOUS
<1>1. /\ pc[t] = "pset" /\ pc' = [pc EXCEPT ![t] = "map"] /\ pc'[t] = "map"
      /\ used' = [used EXCEPT ![pool] = bitmap_set(@, n, 1, 1)]
      /\ call' = [call EXCEPT ![t].frame = f]
      /\ UNCHANGED <<vused, pt, tables, holder, off, started, own, kernel>>
  BY <1>0 DEF palloc_set, At, Goto, Running, TypeOK
<1>2. pc[t] \in Filling /\ pc'[t] \in Filling /\ pc[t] \notin Outer /\ "map" \in PCs \ Outer
  BY <1>1 DEF Filling, Outer, PCs
<1>3. /\ call \in [Tasks -> Calls] /\ call[t] \in Calls /\ ArgsOK(t, call[t]) /\ PlaceOK(t, call[t])
      /\ FoundAt(t) /\ FramesAt(t) /\ PagesAt(t)
  BY <1>2, InsideFacts
<1>4. n \in Nat \ used[pool] /\ pool \in Pools /\ f \in Pools \X Nat /\ f # NULL /\ f[1] = pool /\ f[2] = n
  BY <1>0, <1>1, <1>3, CallFacts, ConstantFacts DEF FoundAt
<1>5. bitmap_set(used[pool], n, 1, 1) = used[pool] \union {n}
  BY <1>4 DEF bitmap_set
<1>6. /\ used' \in [Pools -> SUBSET Nat] /\ used'[pool] = used[pool] \union {n}
      /\ \A q \in Pools : q # pool => used'[q] = used[q]
  BY <1>1, <1>4, <1>5 DEF Running, TypeOK
<1>7. /\ call' \in [Tasks -> Calls] /\ \A u \in Tasks : u # t => call'[u] = call[u]
      /\ call'[t].op = call[t].op /\ call'[t].pool = call[t].pool /\ call'[t].space = call[t].space
      /\ call'[t].addr = call[t].addr /\ call'[t].cnt = call[t].cnt /\ call'[t].k = call[t].k
      /\ call'[t].frame = f
  BY <1>1, <1>3, <1>4, SetFrame
<1>8. ArgsOK(t, call[t])' /\ PlaceOK(t, call[t])' /\ PagesAt(t)'
  BY <1>1, <1>2, <1>3, <1>7, StillFilling
<1>9. \A g : InUse(g)' <=> InUse(g)
  BY <1>1 DEF InUse
<1>10. \A q \in Pools, m \in Nat : m \in used[q] <=> InUse(<<q, m>>)
  BY <1>1, <1>3 DEF FramesAt
<1>11. ~InUse(f)
  BY <1>0, <1>4, <1>10
<1>12. FramesAt(t)'
  <2>1. ASSUME NEW q \in Pools, NEW m \in Nat PROVE m \in used'[q] <=> InUse(<<q, m>>)' \/ f = <<q, m>>
    <3>1. f = <<q, m>> <=> q = pool /\ m = n
      BY <1>0
    <3> QED
      BY <1>6, <1>9, <1>10, <3>1
  <2>2. ~InUse(f)'
    BY <1>9, <1>11
  <2> QED
    BY <1>1, <1>7, <2>1, <2>2 DEF FramesAt
<1>13. FoundAt(t)'
  BY <1>0, <1>1, <1>4, <1>7 DEF FoundAt
<1>14. UNCHANGED <<holder, started, own, pt, tables, vused>>
  BY <1>1
<1>15. /\ pt' \in [Spaces -> [AllPages -> (Pools \X Nat) \union {NULL}]]
       /\ tables' \in [Procs -> [Rows -> (Pools \X Nat) \union {NULL}]] /\ vused' \in [Spaces -> SUBSET Nat]
  BY <1>14 DEF Running, TypeOK
<1>16. \A u \in Procs : (STACK3 \in vused[u] => STACK3 \in vused'[u]) /\ (pt[u][STACK3] # NULL => pt'[u][STACK3] # NULL)
  BY <1>14
<1>17. t \in Procs /\ call[t].op = "get_a_page" => STACK3 \in vused'[t]
  BY <1>2, <1>14 DEF Running, StackInv
<1>18. Running'
  BY <1>1, <1>2, <1>6, <1>7, <1>8, <1>12, <1>13, <1>14, <1>15, <1>16, <1>17, InsideInv
<1> QED
  BY <1>1, <1>14, <1>18, MapsKept

-----------------------------------------------------------------------------
(* Page tables *)
LEMMA SetEntry ==
    ASSUME pt \in [Spaces -> [AllPages -> (Pools \X Nat) \union {NULL}]],
           NEW s \in Spaces, NEW v \in AllPages, NEW x \in (Pools \X Nat) \union {NULL},
           pt' = [pt EXCEPT ![s][v] = x]
    PROVE  /\ pt' \in [Spaces -> [AllPages -> (Pools \X Nat) \union {NULL}]]
           /\ pt'[s][v] = x
           /\ \A z \in Spaces, w \in AllPages : z # s \/ w # v => pt'[z][w] = pt[z][w]
OBVIOUS

LEMMA SetTable ==
    ASSUME tables \in [Procs -> [Rows -> (Pools \X Nat) \union {NULL}]],
           NEW s \in Procs, NEW v \in Rows, NEW x \in (Pools \X Nat) \union {NULL},
           tables' = [tables EXCEPT ![s][v] = x]
    PROVE  /\ tables' \in [Procs -> [Rows -> (Pools \X Nat) \union {NULL}]]
           /\ tables'[s][v] = x
           /\ \A z \in Procs, w \in Rows : z # s \/ w # v => tables'[z][w] = tables[z][w]
OBVIOUS

(* A frame with no use may get one, and two may get one each. *)
LEMMA NewUse ==
    ASSUME Exclusive, NEW s \in Spaces, NEW v \in AllPages, NEW f, f # NULL, ~InUse(f), pt'[s][v] = f,
           \A z \in Spaces, w \in AllPages : z # s \/ w # v => pt'[z][w] = pt[z][w],
           tables' = tables
    PROVE  Exclusive' /\ \A h : h # NULL /\ pt[s][v] = NULL => (InUse(h)' <=> InUse(h) \/ h = f)
<1>1. \A z \in Spaces, w \in AllPages : pt[z][w] # f
  BY DEF InUse
<1>2. \A p \in Procs, r \in Rows : tables'[p][r] # f /\ tables'[p][r] = tables[p][r]
  BY DEF InUse
<1>3. \A z, y \in Spaces : \A w, x \in AllPages : pt'[z][w] # NULL /\ pt'[z][w] = pt'[y][x] => z = y /\ w = x
  BY <1>1 DEF Exclusive
<1>4. \A z \in Spaces, w \in AllPages, p \in Procs, r \in Rows : pt'[z][w] # NULL => pt'[z][w] # tables'[p][r]
  BY <1>2 DEF Exclusive
<1>5. Exclusive'
  BY <1>3, <1>4 DEF Exclusive
<1>6. ASSUME NEW h, h # NULL, pt[s][v] = NULL PROVE InUse(h)' <=> InUse(h) \/ h = f
  <2>1. (\E z \in Spaces, w \in AllPages : pt'[z][w] = h) <=> (\E z \in Spaces, w \in AllPages : pt[z][w] = h) \/ h = f
    BY <1>6
  <2> QED
    BY <2>1 DEF InUse
<1> QED
  BY <1>5, <1>6

LEMMA NewTable ==
    ASSUME Exclusive, NEW s \in Spaces, NEW v \in AllPages, NEW f, f # NULL, ~InUse(f), pt'[s][v] = f,
           \A z \in Spaces, w \in AllPages : z # s \/ w # v => pt'[z][w] = pt[z][w],
           NEW q \in Procs, NEW o \in Rows, NEW g, g # NULL, ~InUse(g), g # f, tables'[q][o] = g,
           \A p \in Procs, r \in Rows : p # q \/ r # o => tables'[p][r] = tables[p][r]
    PROVE  /\ Exclusive'
           /\ \A h : h # NULL /\ pt[s][v] = NULL /\ tables[q][o] = NULL => (InUse(h)' <=> InUse(h) \/ h \in {f, g})
<1>1. \A z \in Spaces, w \in AllPages : pt[z][w] # f /\ pt[z][w] # g
  BY DEF InUse
<1>2. \A p \in Procs, r \in Rows : tables[p][r] # f /\ tables[p][r] # g
  BY DEF InUse
<1>3. \A z, y \in Spaces : \A w, x \in AllPages : pt'[z][w] # NULL /\ pt'[z][w] = pt'[y][x] => z = y /\ w = x
  BY <1>1 DEF Exclusive
<1>4. \A z, y \in Procs : \A w, x \in Rows : tables'[z][w] # NULL /\ tables'[z][w] = tables'[y][x] => z = y /\ w = x
  BY <1>2 DEF Exclusive
<1>5. \A z \in Spaces, w \in AllPages, p \in Procs, r \in Rows : pt'[z][w] # NULL => pt'[z][w] # tables'[p][r]
  <2> SUFFICES ASSUME NEW z \in Spaces, NEW w \in AllPages, NEW p \in Procs, NEW r \in Rows, pt'[z][w] # NULL
               PROVE  pt'[z][w] # tables'[p][r]
    OBVIOUS
  <2>1. CASE z = s /\ w = v
    BY <1>2, <2>1
  <2>2. CASE ~(z = s /\ w = v)
    <3>1. pt'[z][w] = pt[z][w]
      BY <2>2
    <3> QED
      BY <1>1, <3>1 DEF Exclusive
  <2> QED
    BY <2>1, <2>2
<1>6. ASSUME NEW h, h # NULL, pt[s][v] = NULL, tables[q][o] = NULL PROVE InUse(h)' <=> InUse(h) \/ h \in {f, g}
  <2>1. (\E z \in Spaces, w \in AllPages : pt'[z][w] = h) <=> (\E z \in Spaces, w \in AllPages : pt[z][w] = h) \/ h = f
    BY <1>6
  <2>2. (\E z \in Procs, w \in Rows : tables'[z][w] = h) <=> (\E z \in Procs, w \in Rows : tables[z][w] = h) \/ h = g
    BY <1>6
  <2> QED
    BY <2>1, <2>2 DEF InUse
<1> QED
  BY <1>3, <1>4, <1>5, <1>6 DEF Exclusive

(* The page at which a call is leaves the pages that are still to be done. *)
LEMMA NextSpan ==
    ASSUME NEW t \in Tasks, call[t] \in Calls, call[t].k < call[t].cnt,
           call'[t].addr = call[t].addr, call'[t].cnt = call[t].cnt, call'[t].k = call[t].k + 1
    PROVE  /\ Span(call[t])' = Span(call[t])
           /\ Done(call[t])' = Done(call[t]) \union {Page(call[t])}
           /\ call[t].k + 1 = call[t].cnt => Done(call[t])' = Span(call[t])
<1> PICK a \in Nat, k \in Nat, n \in Nat : a = call[t].addr /\ k = call[t].k /\ n = call[t].cnt
  BY CallFacts
<1> PICK b \in Nat : b = a \div PG_SIZE
  BY ConstantFacts, DivisionFacts
<1>1. Page(call[t]) = b + k
  BY PageIs DEF Base
<1>2. Done(call[t]) = b..(b + k - 1) /\ Span(call[t]) = b..(b + n - 1)
  BY DEF Done, Span, Base
<1>3. Done(call[t])' = b..(b + (k + 1) - 1) /\ Span(call[t])' = b..(b + n - 1)
  BY DEF Done, Span, Base
<1>4. b..(b + (k + 1) - 1) = b..(b + k - 1) \union {b + k}
  OBVIOUS
<1> QED
  BY <1>1, <1>2, <1>3, <1>4

LEMMA InstallStep ==
    ASSUME MemInv, kernel = "up", NEW t \in Tasks, install(t, call[t]),
           UNCHANGED <<vused, holder, off, started, own>>,
           \/ pc[t] = "map" /\ UNCHANGED <<used, tables>>
           \/ /\ pc[t] = "tset"
              /\ used' = [used EXCEPT !["kernel"] = bitmap_set(@, call[t].bit, 1, 1)]
              /\ tables' = [tables EXCEPT ![call[t].space][Table(call[t])] = <<"kernel", call[t].bit>>]
    PROVE  MemInv'
<1> USE DEF MemInv
<1>0. PICK c, s, v, f, p, n : /\ c = call[t] /\ s = c.space /\ v = Page(c) /\ f = c.frame /\ n = c.bit
                              /\ p = IF c.k + 1 < c.cnt THEN "pscan" ELSE "unlock"
  OBVIOUS
<1>1. /\ pt' = [pt EXCEPT ![s][v] = f] /\ call' = [call EXCEPT ![t].k = @ + 1] /\ pc' = [pc EXCEPT ![t] = p]
      /\ kernel' = IF pt[s][v] = NULL THEN "up" ELSE "panic"
  BY <1>0 DEF install, ASSERT, Goto
<1>2. pc[t] \in Filling /\ pc[t] \notin Outer /\ pc[t] \in {"map", "tset"} /\ pc[t] # "unmap"
  BY DEF Filling, Outer
<1>3. /\ call \in [Tasks -> Calls] /\ call[t] \in Calls /\ ArgsOK(t, call[t]) /\ PlaceOK(t, call[t])
      /\ FoundAt(t) /\ FramesAt(t) /\ PagesAt(t)
  BY <1>2, InsideFacts
<1>4. /\ s \in Spaces /\ c.addr \in Nat /\ c.k \in Nat /\ c.cnt \in Nat /\ c.pool \in Pools
      /\ c.frame \in (Pools \X Nat) \union {NULL}
  BY <1>0, <1>3, CallFacts
<1>5. c.k < c.cnt /\ Span(c) \subseteq Limit(s) /\ c.op \in Allocs \union {"get_a_page"}
  BY <1>0, <1>2, <1>3 DEF PlaceOK
<1>6. v \in Span(c) /\ v \in AllPages /\ v \notin Done(c) /\ (s # "kernel" => Table(c) \in Rows)
  BY <1>0, <1>4, <1>5, PageInSpan
<1>7. f \in Pools \X Nat /\ f # NULL
  BY <1>0, <1>2, <1>3, <1>4, ConstantFacts DEF FoundAt
<1>8. ~InUse(f)
  BY <1>0, <1>2, <1>3, <1>7 DEF FramesAt
<1>9. \A q \in Pools, m \in Nat : m \in used[q] <=> InUse(<<q, m>>) \/ f = <<q, m>>
  BY <1>0, <1>2, <1>3 DEF FramesAt
<1>10. /\ pt \in [Spaces -> [AllPages -> (Pools \X Nat) \union {NULL}]]
       /\ tables \in [Procs -> [Rows -> (Pools \X Nat) \union {NULL}]]
       /\ used \in [Pools -> SUBSET Nat] /\ vused' \in [Spaces -> SUBSET Nat] /\ pc \in [Tasks -> PCs]
  BY DEF Running, TypeOK
<1>11. /\ pt' \in [Spaces -> [AllPages -> (Pools \X Nat) \union {NULL}]] /\ pt'[s][v] = f
       /\ \A z \in Spaces, w \in AllPages : z # s \/ w # v => pt'[z][w] = pt[z][w]
  BY <1>1, <1>4, <1>6, <1>7, <1>10, SetEntry
<1>12. /\ Exclusive'
       /\ used' \in [Pools -> SUBSET Nat] /\ tables' \in [Procs -> [Rows -> (Pools \X Nat) \union {NULL}]]
       /\ pt[s][v] = NULL => \A q \in Pools, m \in Nat : m \in used'[q] <=> InUse(<<q, m>>)'
  <2>1. CASE UNCHANGED <<used, tables>>
    <3>1. Exclusive' /\ \A h : h # NULL /\ pt[s][v] = NULL => (InUse(h)' <=> InUse(h) \/ h = f)
      BY <1>4, <1>6, <1>7, <1>8, <1>11, <2>1, NewUse
    <3>2. \A q \in Pools, m \in Nat : <<q, m>> # NULL
      BY ConstantFacts
    <3> QED
      BY <1>9, <1>10, <2>1, <3>1, <3>2
  <2>2. CASE pc[t] = "tset" /\ ~UNCHANGED <<used, tables>>
    <3>1. PICK r, g : r = Table(c) /\ g = <<"kernel", n>>
      OBVIOUS
    <3>2. /\ used' = [used EXCEPT !["kernel"] = bitmap_set(@, n, 1, 1)]
          /\ tables' = [tables EXCEPT ![s][r] = g]
      BY <1>0, <2>2, <3>1
    <3>3. n \in Nat \ used["kernel"] /\ s # "kernel" /\ ~HasTable(c)
      BY <1>0, <1>3, <2>2 DEF FoundAt
    <3>4. s \in Procs /\ r \in Rows /\ tables[s][r] = NULL
      BY <1>0, <1>4, <1>6, <3>1, <3>3 DEF HasTable, Spaces
    <3>5. g \in Pools \X Nat /\ g # NULL /\ "kernel" \in Pools
      BY <3>1, <3>3, ConstantFacts DEF Pools
    <3>6. ~InUse(g) /\ g # f
      BY <1>9, <3>1, <3>3, <3>5
    <3>7. /\ tables' \in [Procs -> [Rows -> (Pools \X Nat) \union {NULL}]] /\ tables'[s][r] = g
          /\ \A z \in Procs, w \in Rows : z # s \/ w # r => tables'[z][w] = tables[z][w]
      BY <1>10, <3>2, <3>4, <3>5, SetTable
    <3>8. /\ Exclusive'
          /\ \A h : h # NULL /\ pt[s][v] = NULL => (InUse(h)' <=> InUse(h) \/ h \in {f, g})
      <4>1. /\ Exclusive'
            /\ \A h : h # NULL /\ pt[s][v] = NULL /\ tables[s][r] = NULL => (InUse(h)' <=> InUse(h) \/ h \in {f, g})
        <5>1. Exclusive /\ s \in Spaces /\ v \in AllPages /\ f # NULL /\ ~InUse(f) /\ s \in Procs /\ r \in Rows
              /\ g # NULL /\ ~InUse(g) /\ g # f
          BY <1>4, <1>6, <1>7, <1>8, <3>4, <3>5, <3>6
        <5>2. pt'[s][v] = f /\ \A z \in Spaces, w \in AllPages : z # s \/ w # v => pt'[z][w] = pt[z][w]
          BY <1>11
        <5>3. tables'[s][r] = g /\ \A z \in Procs, w \in Rows : z # s \/ w # r => tables'[z][w] = tables[z][w]
          BY <3>7
        <5> HIDE DEF MemInv
        <5> QED
          BY <5>1, <5>2, <5>3, NewTable
      <4> QED
        BY <3>4, <4>1
    <3>9. bitmap_set(used["kernel"], n, 1, 1) = used["kernel"] \union {n}
      BY <3>3 DEF bitmap_set
    <3>10. /\ used' \in [Pools -> SUBSET Nat] /\ used'["kernel"] = used["kernel"] \union {n}
           /\ \A q \in Pools : q # "kernel" => used'[q] = used[q]
      BY <1>10, <3>2, <3>3, <3>5, <3>9
    <3>11. ASSUME pt[s][v] = NULL, NEW q \in Pools, NEW m \in Nat PROVE m \in used'[q] <=> InUse(<<q, m>>)'
      <4>1. <<q, m>> # NULL
        BY ConstantFacts
      <4>2. InUse(<<q, m>>)' <=> InUse(<<q, m>>) \/ <<q, m>> = f \/ <<q, m>> = g
        BY <3>8, <3>11, <4>1
      <4>3. <<q, m>> = g <=> q = "kernel" /\ m = n
        BY <3>1
      <4>4. m \in used'[q] <=> m \in used[q] \/ (q = "kernel" /\ m = n)
        BY <3>10
      <4> QED
        BY <1>9, <4>2, <4>3, <4>4
    <3> QED
      BY <3>7, <3>8, <3>10, <3>11
  <2> QED
    BY <2>1, <2>2
<1>13. p \in {"pscan", "unlock"} /\ pc'[t] = p /\ p \in PCs \ Outer
  <2>1. p \in {"pscan", "unlock"}
    BY <1>0
  <2>2. p \in PCs \ Outer
    BY <2>1 DEF PCs, Outer, Filling
  <2> QED
    BY <1>1, <1>10, <2>1, <2>2
<1>14. ~Quiet'
  BY <1>13 DEF Quiet
<1>16. SUFFICES ASSUME pt[s][v] = NULL PROVE Running'
  BY <1>1, <1>12, <1>14
<1>17. /\ call' \in [Tasks -> Calls] /\ \A u \in Tasks : u # t => call'[u] = call[u]
       /\ call'[t].op = c.op /\ call'[t].pool = c.pool /\ call'[t].space = s
       /\ call'[t].addr = c.addr /\ call'[t].cnt = c.cnt /\ call'[t].k = c.k + 1
  BY <1>0, <1>1, <1>3, NextPage
<1>18. Span(call[t])' = Span(c) /\ Done(call[t])' = Done(c) \union {v} /\ (c.k + 1 = c.cnt => Done(call[t])' = Span(c))
  BY <1>0, <1>3, <1>5, <1>17, NextSpan
<1>19. ArgsOK(t, call[t])'
  BY <1>0, <1>3, <1>17, <1>18 DEF ArgsOK
<1>20. t \in Procs /\ c.op = "get_a_page" => STACK3 \in vused'[t]
  BY <1>0, <1>2 DEF Running, StackInv
<1>21. c.op = "get_a_page" => s = t /\ v = STACK3
  <2> SUFFICES ASSUME c.op = "get_a_page" PROVE s = t /\ v = STACK3
    OBVIOUS
  <2>1. c.space = t /\ c.addr = STACK3 * PG_SIZE /\ c.cnt = 1 /\ c.k = 0
    BY <1>0, <1>3, <1>4, <1>5 DEF ArgsOK
  <2>2. PG_SIZE \in Nat \ {0} /\ 0 \in 0..(PG_SIZE - 1) /\ STACK3 \in Nat
    BY ConstantFacts
  <2>3. (STACK3 * PG_SIZE + 0) \div PG_SIZE = STACK3 /\ STACK3 * PG_SIZE + 0 = STACK3 * PG_SIZE
    BY <2>2, DivisionUnique
  <2>4. v = Base(c) + 0 /\ Base(c) = STACK3
    BY <1>0, <1>4, <2>1, <2>3, PageIs DEF Base
  <2> QED
    BY <1>0, <2>1, <2>2, <2>4
<1>22. s # "kernel" /\ c.op # "get_a_page" => v # STACK3
  <2> SUFFICES ASSUME s # "kernel", c.op # "get_a_page" PROVE v # STACK3
    OBVIOUS
  <2>1. s = t /\ t \in Procs /\ t \in started
    BY <1>0, <1>3, ConstantFacts DEF ArgsOK
  <2>2. pt[t][STACK3] # NULL
    BY <2>1 DEF Running, StackInv
  <2> QED
    BY <1>16, <2>1, <2>2
<1>23. PlaceOK(t, call[t])'
  <2>1. c.space # "kernel" /\ c.op # "get_a_page" => STACK3 \notin Done(call[t])'
    BY <1>0, <1>2, <1>3, <1>18, <1>22 DEF PlaceOK
  <2>2. CASE p = "pscan"
    <3>1. c.k + 1 < c.cnt
      BY <1>0, <2>2
    <3> QED
      BY <1>0, <1>5, <1>13, <1>17, <1>18, <2>1, <2>2, <3>1 DEF PlaceOK, Filling, Freeing
  <2>3. CASE p = "unlock"
    <3>1. c.k + 1 = c.cnt
      BY <1>0, <1>4, <1>5, <2>3
    <3> QED
      BY <1>0, <1>5, <1>13, <1>17, <1>18, <2>1, <2>3, <3>1 DEF PlaceOK, Filling, Freeing
  <2> QED
    BY <1>13, <2>2, <2>3
<1>24. FoundAt(t)'
  BY <1>13 DEF FoundAt
<1>25. FramesAt(t)'
  BY <1>12, <1>13, <1>16 DEF FramesAt
<1>26. PagesAt(t)'
  <2>1. Pending(t) = Span(c) \ Done(c)
    BY <1>0, <1>2 DEF Pending
  <2>2. Pending(t)' = Pending(t) \ {v}
    <3>1. CASE p = "pscan"
      BY <1>13, <1>18, <2>1, <3>1 DEF Pending, Filling
    <3>2. CASE p = "unlock"
      <4>1. Done(call[t])' = Span(c)
        BY <1>0, <1>4, <1>5, <1>18, <3>2
      <4> QED
        BY <1>13, <1>18, <2>1, <3>2, <4>1 DEF Pending, Filling, Freeing
    <3> QED
      BY <1>13, <3>1, <3>2
  <2>3. v \in Pending(t)
    BY <1>6, <2>1
  <2>4. ASSUME NEW w \in AllPages
        PROVE  Marked(vused'["kernel"], w, pt'["kernel"][w] # NULL \/ (call'[t].space = "kernel" /\ w \in Pending(t)'))
    <3>1. Marked(vused["kernel"], w, pt["kernel"][w] # NULL \/ (s = "kernel" /\ w \in Pending(t)))
      BY <1>0, <1>3 DEF PagesAt
    <3>2. CASE s = "kernel" /\ w = v
      BY <1>7, <1>11, <2>3, <3>1, <3>2
    <3>3. CASE ~(s = "kernel" /\ w = v)
      <4>1. pt'["kernel"][w] = pt["kernel"][w]
        BY <1>11, <3>3, ConstantFacts
      <4> QED
        BY <1>17, <2>2, <3>1, <3>3, <4>1
    <3> QED
      BY <3>2, <3>3
  <2> QED
    BY <1>13, <2>4 DEF PagesAt, Freeing
<1>27. \A u \in Procs : (STACK3 \in vused[u] => STACK3 \in vused'[u]) /\ (pt[u][STACK3] # NULL => pt'[u][STACK3] # NULL)
  BY <1>7, <1>11, ConstantFacts
<1>28. t \in Procs /\ c.op = "get_a_page" => pt'[t][STACK3] # NULL
  BY <1>7, <1>11, <1>21
<1> QED
  BY <1>0, <1>1, <1>2, <1>10, <1>11, <1>12, <1>13, <1>17, <1>19, <1>20, <1>23, <1>24, <1>25, <1>26, <1>27, <1>28, InsideInv

LEMMA MapSteps ==
    ASSUME MemInv, kernel = "up", NEW t \in Tasks, palloc(t) \/ page_table_add(t) \/ page_table_new(t)
    PROVE  MemInv'
<1> USE DEF MemInv
<1>1. CASE palloc(t)
  <2>1. call[t].pool \in Pools
    BY CallFacts DEF Running, TypeOK
  <2> QED
    BY <1>1, <2>1, PallocScanStep DEF palloc, At
<1>2. CASE page_table_add(t)
  <2>1. CASE HasTable(call[t])
    BY <1>2, <2>1, InstallStep DEF page_table_add, At
  <2>2. CASE ~HasTable(call[t])
    <3>1. "kernel" \in Pools
      BY DEF Pools
    <3> QED
      BY <1>2, <2>2, <3>1, PallocScanStep DEF page_table_add, At
  <2> QED
    BY <2>1, <2>2
<1>3. CASE page_table_new(t)
  BY <1>3, InstallStep DEF page_table_new, At
<1> QED
  BY <1>1, <1>2, <1>3

-----------------------------------------------------------------------------
(* Giving pages back *)
LEMMA PfreeStep ==
    ASSUME MemInv, kernel = "up", NEW t \in Tasks, pfree(t)
    PROVE  MemInv'
<1> USE DEF MemInv
<1>0. PICK f : f = Mapped(call[t])
  OBVIOUS
<1>1. /\ pc[t] = "pfree" /\ pc' = [pc EXCEPT ![t] = "unmap"] /\ pc'[t] = "unmap"
      /\ used' = IF f = NULL THEN used ELSE [used EXCEPT ![f[1]] = bitmap_set(@, f[2], 1, 0)]
      /\ kernel' = IF call[t].addr % PG_SIZE = 0 /\ f # NULL /\ f[1] = call[t].pool THEN "up" ELSE "panic"
      /\ UNCHANGED <<vused, pt, tables, holder, off, started, call, own>>
  BY <1>0 DEF pfree, At, Goto, ASSERT, Running, TypeOK
<1>2. ~Quiet' /\ Exclusive'
  BY <1>1, MapsKept DEF Quiet
<1>3. SUFFICES ASSUME f # NULL PROVE Running'
  BY <1>1, <1>2
<1>4. pc[t] \notin Outer /\ "unmap" \in PCs \ Outer /\ pc[t] \in Freeing
  BY <1>1 DEF Outer, PCs, Freeing
<1>5. /\ call \in [Tasks -> Calls] /\ call[t] \in Calls /\ ArgsOK(t, call[t]) /\ PlaceOK(t, call[t])
      /\ FoundAt(t) /\ FramesAt(t) /\ PagesAt(t)
  BY <1>4, InsideFacts
<1>6. /\ call[t].op \in Frees /\ call[t].k < call[t].cnt /\ Span(call[t]) \subseteq Limit(call[t].space)
      /\ call[t].space \in Spaces /\ call[t].addr \in Nat /\ call[t].k \in Nat /\ call[t].cnt \in Nat
  BY <1>1, <1>4, <1>5, CallFacts DEF PlaceOK, ArgsOK
<1>7. Page(call[t]) \in AllPages
  BY <1>6, PageInSpan
<1>8. f \in Pools \X Nat
  BY <1>0, <1>3, <1>6, <1>7 DEF Mapped, Running, TypeOK
<1>9. PICK q \in Pools, n \in Nat : f = <<q, n>>
  BY <1>8
<1>10. used' = [used EXCEPT ![q] = bitmap_set(@, n, 1, 0)]
  BY <1>1, <1>3, <1>9
<1>11. bitmap_set(used[q], n, 1, 0) = used[q] \ {n}
  BY DEF bitmap_set
<1>12. /\ used' \in [Pools -> SUBSET Nat] /\ used'[q] = used[q] \ {n}
       /\ \A p \in Pools : p # q => used'[p] = used[p]
  BY <1>10, <1>11 DEF Running, TypeOK
<1>13. FramesAt(t)'
  <2>1. \A g : InUse(g)' <=> InUse(g)
    BY <1>1 DEF InUse
  <2>2. Mapped(call[t])' = f
    BY <1>0, <1>1 DEF Mapped, Page
  <2>3. ASSUME NEW p \in Pools, NEW m \in Nat PROVE m \in used'[p] <=> InUse(<<p, m>>)' /\ f # <<p, m>>
    <3>1. m \in used[p] <=> InUse(<<p, m>>)
      BY <1>1, <1>5 DEF FramesAt
    <3>2. f = <<p, m>> <=> p = q /\ m = n
      BY <1>9
    <3> QED
      BY <1>12, <2>1, <3>1, <3>2
  <2> QED
    BY <1>1, <2>2, <2>3 DEF FramesAt
<1>14. ArgsOK(t, call[t])' /\ PlaceOK(t, call[t])'
  BY <1>1, <1>5, <1>6 DEF ArgsOK, PlaceOK, Filling, Freeing
<1>15. FoundAt(t)'
  BY <1>1 DEF FoundAt
<1>16. PagesAt(t)'
  <2>1. Pending(t)' = Pending(t)
    BY <1>1 DEF Pending, Filling, Freeing
  <2>2. Mapped(call[t])' # NULL
    BY <1>0, <1>1, <1>3 DEF Mapped
  <2> QED
    BY <1>1, <1>4, <1>5, <2>1, <2>2 DEF PagesAt, Done
<1>17. UNCHANGED <<holder, started, own, pt, tables, vused, call>>
  BY <1>1
<1>18. /\ pt' \in [Spaces -> [AllPages -> (Pools \X Nat) \union {NULL}]]
       /\ tables' \in [Procs -> [Rows -> (Pools \X Nat) \union {NULL}]] /\ vused' \in [Spaces -> SUBSET Nat]
  BY <1>17 DEF Running, TypeOK
<1>19. \A u \in Procs : (STACK3 \in vused[u] => STACK3 \in vused'[u]) /\ (pt[u][STACK3] # NULL => pt'[u][STACK3] # NULL)
  BY <1>17
<1>20. call[t].op # "get_a_page"
  BY <1>6 DEF Frees
<1> QED
  BY <1>1, <1>4, <1>5, <1>12, <1>13, <1>14, <1>15, <1>16, <1>17, <1>18, <1>19, <1>20, InsideInv

(* An entry that is cleared takes its frame's only use away. *)
LEMMA EndUse ==
    ASSUME Exclusive, NEW s \in Spaces, NEW v \in AllPages, pt'[s][v] = NULL,
           \A z \in Spaces, w \in AllPages : z # s \/ w # v => pt'[z][w] = pt[z][w],
           tables' = tables
    PROVE  Exclusive' /\ \A h : h # NULL => (InUse(h)' <=> InUse(h) /\ h # pt[s][v])
<1>1. \A z, y \in Spaces : \A w, x \in AllPages : pt'[z][w] # NULL /\ pt'[z][w] = pt'[y][x] => z = y /\ w = x
  BY DEF Exclusive
<1>2. \A z \in Spaces, w \in AllPages, p \in Procs, r \in Rows : pt'[z][w] # NULL => pt'[z][w] # tables'[p][r]
  BY DEF Exclusive
<1>3. Exclusive'
  BY <1>1, <1>2 DEF Exclusive
<1>4. ASSUME NEW h, h # NULL PROVE InUse(h)' <=> InUse(h) /\ h # pt[s][v]
  <2>1. (\E z \in Spaces, w \in AllPages : pt'[z][w] = h) <=> (\E z \in Spaces, w \in AllPages : pt[z][w] = h) /\ h # pt[s][v]
    <3>1. ASSUME NEW z \in Spaces, NEW w \in AllPages, pt'[z][w] = h PROVE pt[z][w] = h /\ h # pt[s][v]
      BY <1>4, <3>1 DEF Exclusive
    <3>2. ASSUME NEW z \in Spaces, NEW w \in AllPages, pt[z][w] = h, h # pt[s][v] PROVE pt'[z][w] = h
      BY <3>2
    <3> QED
      BY <3>1, <3>2
  <2>2. h = pt[s][v] => \A p \in Procs, r \in Rows : tables[p][r] # h
    BY <1>4 DEF Exclusive
  <2> QED
    BY <2>1, <2>2 DEF InUse
<1> QED
  BY <1>3, <1>4

LEMMA UnmapStep ==
    ASSUME MemInv, kernel = "up", NEW t \in Tasks, page_table_pte_remove(t)
    PROVE  MemInv'
<1> USE DEF MemInv
<1>0. PICK c, s, v, p : /\ c = call[t] /\ s = c.space /\ v = Page(c)
                        /\ p = IF c.k + 1 < c.cnt THEN "pfree" ELSE "vremove"
  OBVIOUS
<1>1. /\ pc[t] = "unmap" /\ pc' = [pc EXCEPT ![t] = p]
      /\ pt' = [pt EXCEPT ![s][v] = NULL] /\ call' = [call EXCEPT ![t].k = @ + 1]
      /\ UNCHANGED <<used, vused, tables, holder, off, started, own, kernel>>
  BY <1>0 DEF page_table_pte_remove, At, Goto
<1>2. p \in {"pfree", "vremove"}
  BY <1>0
<1>3. pc[t] \notin Outer /\ p \in PCs \ Outer /\ p \in Freeing /\ pc[t] \in Freeing /\ pc'[t] = p /\ p # "unmap"
  BY <1>1, <1>2 DEF Outer, PCs, Freeing, Running, TypeOK
<1>4. /\ call \in [Tasks -> Calls] /\ call[t] \in Calls /\ ArgsOK(t, call[t]) /\ PlaceOK(t, call[t])
      /\ FoundAt(t) /\ FramesAt(t) /\ PagesAt(t)
  BY <1>3, InsideFacts
<1>5. /\ c.op \in Frees /\ c.k < c.cnt /\ Span(c) \subseteq Limit(c.space) /\ (s # "kernel" => STACK3 \notin Span(c))
      /\ s \in Spaces /\ c.addr \in Nat /\ c.k \in Nat /\ c.cnt \in Nat
  BY <1>0, <1>1, <1>3, <1>4, CallFacts DEF PlaceOK, ArgsOK
<1>6. v \in Span(c) /\ v \in AllPages /\ v \notin Done(c)
  BY <1>0, <1>5, PageInSpan
<1>7. /\ pt' \in [Spaces -> [AllPages -> (Pools \X Nat) \union {NULL}]] /\ pt'[s][v] = NULL
      /\ \A z \in Spaces, w \in AllPages : z # s \/ w # v => pt'[z][w] = pt[z][w]
  <2>1. pt \in [Spaces -> [AllPages -> (Pools \X Nat) \union {NULL}]] /\ NULL \in (Pools \X Nat) \union {NULL}
    BY DEF Running, TypeOK
  <2> QED
    BY <1>1, <1>5, <1>6, <2>1, SetEntry
<1>8. Exclusive' /\ \A h : h # NULL => (InUse(h)' <=> InUse(h) /\ h # pt[s][v])
  BY <1>1, <1>5, <1>6, <1>7, EndUse
<1>10. pt[s][v] # NULL
  BY <1>0, <1>1, <1>4 DEF PagesAt, Mapped
<1>11. /\ call' \in [Tasks -> Calls] /\ \A u \in Tasks : u # t => call'[u] = call[u]
       /\ call'[t].op = c.op /\ call'[t].pool = c.pool /\ call'[t].space = s
       /\ call'[t].addr = c.addr /\ call'[t].cnt = c.cnt /\ call'[t].k = c.k + 1
  BY <1>0, <1>1, <1>4, NextPage
<1>12. Span(call[t])' = Span(c) /\ Done(call[t])' = Done(c) \union {v}
  BY <1>0, <1>4, <1>5, <1>11, NextSpan
<1>13. ArgsOK(t, call[t])'
  BY <1>0, <1>1, <1>4, <1>11, <1>12 DEF ArgsOK
<1>14. PlaceOK(t, call[t])'
  <2>1. p = "pfree" => c.k + 1 < c.cnt
    BY <1>0
  <2>2. p = "vremove" => c.k + 1 = c.cnt
    BY <1>0, <1>5
  <2>3. c.k + 1 <= c.cnt
    BY <1>5
  <2> QED
    BY <1>2, <1>3, <1>5, <1>11, <2>1, <2>2, <2>3 DEF PlaceOK, Filling
<1>15. FoundAt(t)'
  BY <1>2, <1>3 DEF FoundAt
<1>16. FramesAt(t)'
  <2>1. ASSUME NEW q \in Pools, NEW m \in Nat PROVE m \in used'[q] <=> InUse(<<q, m>>)'
    <3>1. m \in used[q] <=> InUse(<<q, m>>) /\ pt[s][v] # <<q, m>>
      BY <1>0, <1>1, <1>4 DEF FramesAt, Mapped
    <3>2. <<q, m>> # NULL
      BY ConstantFacts
    <3> QED
      BY <1>1, <1>8, <3>1, <3>2
  <2> QED
    BY <1>2, <1>3, <2>1 DEF FramesAt
<1>17. PagesAt(t)'
  <2>1. Pending(t) = Done(c) /\ Pending(t)' = Done(c) \union {v}
    BY <1>0, <1>1, <1>2, <1>3, <1>12 DEF Pending, Filling
  <2>2. ASSUME NEW w \in AllPages
        PROVE  Marked(vused'["kernel"], w, pt'["kernel"][w] # NULL \/ (call'[t].space = "kernel" /\ w \in Pending(t)'))
    <3>1. Marked(vused["kernel"], w, pt["kernel"][w] # NULL \/ (s = "kernel" /\ w \in Done(c)))
      BY <1>0, <1>4, <2>1 DEF PagesAt
    <3>2. CASE s = "kernel" /\ w = v
      BY <1>1, <1>10, <1>11, <2>1, <3>1, <3>2
    <3>3. CASE ~(s = "kernel" /\ w = v)
      <4>1. pt'["kernel"][w] = pt["kernel"][w]
        BY <1>7, <3>3, ConstantFacts
      <4> QED
        BY <1>1, <1>11, <2>1, <3>1, <3>3, <4>1
    <3> QED
      BY <3>2, <3>3
  <2>3. ASSUME NEW w \in Done(call[t])' PROVE pt'[s][w] = NULL
    <3>1. CASE w = v
      BY <1>7, <3>1
    <3>2. CASE w # v
      <4>1. w \in Done(c) /\ pt[s][w] = NULL
        BY <1>0, <1>3, <1>4, <1>12, <2>3, <3>2 DEF PagesAt
      <4>2. w \in AllPages
        <5>1. Done(c) \subseteq Span(c)
          <6>1. Base(c) \in Nat
            BY <1>5, PageIs
          <6> QED
            BY <1>5, <6>1 DEF Done, Span
        <5> QED
          BY <1>5, <4>1, <5>1, ConstantFacts
      <4> QED
        BY <1>5, <1>7, <3>2, <4>1, <4>2
    <3> QED
      BY <3>1, <3>2
  <2> QED
    BY <1>3, <1>11, <2>2, <2>3 DEF PagesAt
<1>18. UNCHANGED <<holder, started, own, used, tables, vused, kernel>>
  BY <1>1
<1>19. /\ used' \in [Pools -> SUBSET Nat]
       /\ tables' \in [Procs -> [Rows -> (Pools \X Nat) \union {NULL}]] /\ vused' \in [Spaces -> SUBSET Nat]
  BY <1>18 DEF Running, TypeOK
<1>20. \A u \in Procs : (STACK3 \in vused[u] => STACK3 \in vused'[u]) /\ (pt[u][STACK3] # NULL => pt'[u][STACK3] # NULL)
  <2>1. ASSUME NEW u \in Procs, u = s PROVE v # STACK3
    BY <1>5, <1>6, <2>1, ConstantFacts
  <2> QED
    BY <1>7, <1>18, <2>1, ConstantFacts
<1>21. call[t].op # "get_a_page" /\ call'[t].op = call[t].op /\ call'[t].pool = call[t].pool
  BY <1>0, <1>5, <1>11 DEF Frees
<1>22. Running'
  BY <1>1, <1>3, <1>7, <1>11, <1>13, <1>14, <1>15, <1>16, <1>17, <1>18, <1>19, <1>20, <1>21, InsideInv
<1> QED
  BY <1>8, <1>18, <1>22

LEMMA VaddrRemoveStep ==
    ASSUME MemInv, kernel = "up", NEW t \in Tasks, vaddr_remove(t)
    PROVE  MemInv'
<1> USE DEF MemInv
<1>0. PICK c, s, d : c = call[t] /\ s = c.space /\ d = Span(c)
  OBVIOUS
<1>1. /\ pc[t] = "vremove" /\ pc' = [pc EXCEPT ![t] = "unlock"] /\ pc'[t] = "unlock"
      /\ vused' = [vused EXCEPT ![s] = @ \ d]
      /\ UNCHANGED <<used, pt, tables, holder, off, started, call, own, kernel>>
  BY <1>0 DEF vaddr_remove, At, Goto, bitmap_set, Span, Base, Running, TypeOK
<1>2. pc[t] \notin Outer /\ "unlock" \in PCs \ Outer /\ pc[t] \in Freeing
  BY <1>1 DEF Outer, PCs, Freeing
<1>3. /\ call \in [Tasks -> Calls] /\ call[t] \in Calls /\ ArgsOK(t, call[t]) /\ PlaceOK(t, call[t])
      /\ FoundAt(t) /\ FramesAt(t) /\ PagesAt(t)
  BY <1>2, InsideFacts
<1>4. /\ c.op \in Frees /\ c.k = c.cnt /\ (s # "kernel" => STACK3 \notin d) /\ s \in Spaces
  BY <1>0, <1>1, <1>2, <1>3, CallFacts DEF PlaceOK, ArgsOK
<1>5. Done(c) = d
  BY <1>0, <1>4 DEF Done, Span
<1>6. vused' \in [Spaces -> SUBSET Nat] /\ vused'[s] = vused[s] \ d /\ \A z \in Spaces : z # s => vused'[z] = vused[z]
  BY <1>1, <1>4 DEF Running, TypeOK
<1>7. Exclusive'
  BY <1>1 DEF Exclusive
<1>8. ArgsOK(t, call[t])'
  BY <1>1, <1>3 DEF ArgsOK
<1>9. PlaceOK(t, call[t])'
  <2>1. Span(call[t])' = d /\ Done(call[t])' = d
    BY <1>0, <1>1, <1>5 DEF Span, Done, Base
  <2>2. d \subseteq Limit(s)
    BY <1>0, <1>3, <1>4 DEF ArgsOK
  <2>3. /\ call'[t].op \in Frees /\ call'[t].k = call'[t].cnt /\ call'[t].space = s /\ pc'[t] = "unlock"
        /\ s # "kernel" => STACK3 \notin Done(call[t])'
    BY <1>0, <1>1, <1>4, <2>1
  <2> QED
    BY <2>1, <2>2, <2>3 DEF PlaceOK, Filling, Freeing
<1>10. FoundAt(t)'
  BY <1>1 DEF FoundAt
<1>11. FramesAt(t)'
  BY <1>1, <1>3, SameFrames
<1>12. PagesAt(t)'
  <2>1. Pending(t) = d /\ Pending(t)' = {}
    BY <1>0, <1>1, <1>5 DEF Pending, Filling, Freeing
  <2>2. ASSUME NEW w \in AllPages PROVE Marked(vused'["kernel"], w, pt'["kernel"][w] # NULL)
    <3>1. Marked(vused["kernel"], w, pt["kernel"][w] # NULL \/ (s = "kernel" /\ w \in d))
      BY <1>0, <1>3, <2>1 DEF PagesAt
    <3>2. \A x \in d : pt[s][x] = NULL
      BY <1>0, <1>2, <1>3, <1>5 DEF PagesAt
    <3>3. CASE s = "kernel"
      BY <1>1, <1>6, <3>1, <3>2, <3>3
    <3>4. CASE s # "kernel"
      BY <1>1, <1>6, <3>1, <3>4, ConstantFacts
    <3> QED
      BY <3>3, <3>4
  <2> QED
    BY <1>1, <2>1, <2>2 DEF PagesAt, Freeing
<1>13. UNCHANGED <<holder, started, own, used, tables, pt, call, kernel>>
  BY <1>1
<1>14. /\ used' \in [Pools -> SUBSET Nat] /\ pt' \in [Spaces -> [AllPages -> (Pools \X Nat) \union {NULL}]]
       /\ tables' \in [Procs -> [Rows -> (Pools \X Nat) \union {NULL}]]
  BY <1>13 DEF Running, TypeOK
<1>15. \A u \in Procs : (STACK3 \in vused[u] => STACK3 \in vused'[u]) /\ (pt[u][STACK3] # NULL => pt'[u][STACK3] # NULL)
  BY <1>4, <1>6, <1>13, ConstantFacts
<1>16. call[t].op # "get_a_page"
  BY <1>0, <1>4 DEF Frees
<1>17. Running'
  BY <1>1, <1>2, <1>3, <1>6, <1>8, <1>9, <1>10, <1>11, <1>12, <1>13, <1>14, <1>15, <1>16, InsideInv
<1> QED
  BY <1>7, <1>13, <1>17

-----------------------------------------------------------------------------
LEMMA MemInit ==
    ASSUME Init
    PROVE  MemInv
<1> USE DEF Init
<1>1. TypeOK
  <2>1. "home" \in PCs
    BY DEF PCs, Outer
  <2>2. NoCall \in Calls
    BY NoCallFacts
  <2>3. vused \in [Spaces -> SUBSET Nat]
    <3>1. {{}, {Behind}} \subseteq SUBSET Nat
      BY ConstantFacts
    <3> QED
      BY <3>1
  <2>4. tables \in [Procs -> [Rows -> (Pools \X Nat) \union {NULL}]]
    BY DEF Rows
  <2>5. started \subseteq Procs /\ pc \in [Tasks -> PCs] /\ call \in [Tasks -> Calls]
    BY <2>1, <2>2
  <2> QED
    BY <2>3, <2>4, <2>5 DEF TypeOK
<1>2. \A t \in Tasks : pc[t] = "home" /\ own[t] = {}
  OBVIOUS
<1>3. \A s \in Spaces, v \in AllPages : pt[s][v] = NULL
  OBVIOUS
<1>4. \A p \in Procs, r \in Rows : tables[p][r] = NULL
  BY DEF Rows
<1>5. LockInv /\ CallInv /\ OwnInv /\ FoundInv
  BY <1>2 DEF LockInv, CallInv, OwnInv, FoundInv, Outer
<1>6. StackInv
  BY <1>2, ConstantFacts DEF StackInv, Filling
<1>7. FrameInv
  <2>1. \A f : f # NULL => ~InUse(f)
    BY <1>3, <1>4 DEF InUse
  <2>2. \A f : ~Going(f) /\ ~Coming(f)
    BY <1>2 DEF Going, Coming
  <2>3. \A p \in Pools, n \in Nat : <<p, n>> # NULL /\ used[p] = {}
    BY ConstantFacts
  <2> QED
    BY <2>1, <2>2, <2>3 DEF FrameInv
<1>8. PageInv
  <2>1. \A t \in Tasks : Pending(t) = {} /\ pc[t] \notin Freeing
    BY <1>2 DEF Pending, Filling, Freeing
  <2>2. vused["kernel"] \subseteq {Behind}
    BY ConstantFacts
  <2> QED
    BY <1>2, <1>3, <2>1, <2>2, ConstantFacts DEF PageInv
<1>9. Exclusive
  BY <1>3, <1>4 DEF Exclusive
<1> QED
  BY <1>1, <1>5, <1>6, <1>7, <1>8, <1>9 DEF MemInv, Running

LEMMA MemStep ==
    ASSUME ~raced', MemInv, [Next]_vars
    PROVE  MemInv'
<1>1. CASE UNCHANGED vars
  <2>1. UNCHANGED <<used, vused, pt, tables, holder, off, started, pc, call, own, kernel>>
    BY <1>1 DEF vars
  <2>2. Exclusive' /\ (Quiet' <=> Quiet)
    BY <2>1, MapsKept DEF MemInv, Quiet
  <2>3. ASSUME Running PROVE Running'
    <3>1. TypeOK' /\ LockInv' /\ CallInv' /\ OwnInv'
      BY <2>1, <2>3 DEF Running, TypeOK, LockInv, LockOf, CallInv, ArgsOK, PlaceOK, OwnInv
    <3>2. StackInv'
      BY <2>1, <2>3 DEF Running, StackInv
    <3>3. FoundInv'
      BY <2>1, <2>3 DEF Running, FoundInv, HasTable
    <3>4. FrameInv'
      <4>1. \A f : (Going(f)' <=> Going(f)) /\ (Coming(f)' <=> Coming(f))
        BY <2>1 DEF Going, Coming, Mapped
      <4> QED
        BY <2>1, <2>3, <4>1, FramesKept DEF Running
    <3>5. PageInv'
      BY <2>1, <2>3 DEF Running, PageInv, Pending, Mapped
    <3> QED
      BY <3>1, <3>2, <3>3, <3>4, <3>5 DEF Running
  <2> QED
    BY <2>1, <2>2, <2>3 DEF MemInv
<1>2. ASSUME NEW t \in Tasks, Step(t) PROVE MemInv'
  <2>1. kernel = "up"
    BY <1>2 DEF Step, get_kernel_pages, mfree_page, sys_malloc, sys_free, get_a_page, Begin, lock_acquire, lock_release,
                vaddr_get_scan, vaddr_get_set, get_a_page_set, palloc, palloc_set, page_table_add, page_table_new,
                pfree, page_table_pte_remove, vaddr_remove, At
  <2> QED
    BY <1>2, <2>1, CallSteps, AcquireStep, ReleaseStep, VaddrScanStep, VaddrSetStep, GetAPageSetStep, MapSteps,
       PallocSetStep, PfreeStep, UnmapStep, VaddrRemoveStep DEF Step
<1> QED
  BY <1>1, <1>2 DEF Next

(* Once two calls without a common lock have overlapped, that stays so. *)
LEMMA RacedStays ==
    ASSUME [Next]_vars, raced
    PROVE  raced'
<1>1. CASE UNCHANGED vars
  BY <1>1 DEF vars
<1>2. ASSUME NEW t \in Tasks, Step(t) PROVE raced'
  <2>1. CASE UNCHANGED raced
    BY <2>1
  <2>2. CASE \E c : enter(t, c)
    BY <2>2 DEF enter
  <2>3. UNCHANGED raced \/ \E c : enter(t, c)
    BY <1>2 DEF Step, get_kernel_pages, mfree_page, sys_malloc, sys_free, get_a_page, Begin, lock_acquire, lock_release,
                vaddr_get_scan, vaddr_get_set, get_a_page_set, palloc, palloc_scan, palloc_set, page_table_add,
                page_table_new, pfree, page_table_pte_remove, vaddr_remove
  <2> QED
    BY <2>1, <2>2, <2>3
<1> QED
  BY <1>1, <1>2 DEF Next

(* The invariant holds until then. *)
MemAlone == raced \/ MemInv

LEMMA MemInvariant == Spec => []MemAlone
<1>1. Init => MemAlone
  BY MemInit DEF MemAlone
<1>2. MemAlone /\ [Next]_vars => MemAlone'
  BY MemStep, RacedStays DEF MemAlone
<1> QED
  BY <1>1, <1>2, PTL DEF Spec

(* No page frame is ever used for two things, also after an ASSERT has     *)
(* stopped the kernel, as long as only calls with the same lock meet:      *)
(* palloc takes frames that nobody has, and nobody has the frame it takes  *)
(* for a page table in the middle of another call.                         *)
THEOREM FramesStayExclusive == Spec => []FramesExclusiveAlone
<1>1. MemInv => FramesExclusive
  <2> SUFFICES ASSUME Exclusive, NEW x \in Uses, NEW y \in Uses, x[3] # NULL, y[3] # NULL, x[3] = y[3]
               PROVE  x = y
    BY DEF MemInv, FramesExclusive
  <2>1. /\ \/ \E s \in Spaces, v \in AllPages : x = <<s, v, pt[s][v]>>
           \/ \E p \in Procs, r \in Rows : x = <<p, -1 - r, tables[p][r]>>
        /\ \/ \E s \in Spaces, v \in AllPages : y = <<s, v, pt[s][v]>>
           \/ \E p \in Procs, r \in Rows : y = <<p, -1 - r, tables[p][r]>>
    BY DEF Uses, Rows
  <2>2. CASE (\E s \in Spaces, v \in AllPages : x = <<s, v, pt[s][v]>>) /\ (\E s \in Spaces, v \in AllPages : y = <<s, v, pt[s][v]>>)
    <3>1. PICK s \in Spaces, v \in AllPages : x = <<s, v, pt[s][v]>>
      BY <2>2
    <3>2. PICK z \in Spaces, w \in AllPages : y = <<z, w, pt[z][w]>>
      BY <2>2
    <3>3. s = z /\ v = w
      BY <3>1, <3>2 DEF Exclusive
    <3> QED
      BY <3>1, <3>2, <3>3
  <2>3. CASE (\E p \in Procs, r \in Rows : x = <<p, -1 - r, tables[p][r]>>) /\ (\E p \in Procs, r \in Rows : y = <<p, -1 - r, tables[p][r]>>)
    <3>1. PICK p \in Procs, r \in Rows : x = <<p, -1 - r, tables[p][r]>>
      BY <2>3
    <3>2. PICK q \in Procs, o \in Rows : y = <<q, -1 - o, tables[q][o]>>
      BY <2>3
    <3>3. p = q /\ r = o
      BY <3>1, <3>2 DEF Exclusive
    <3> QED
      BY <3>1, <3>2, <3>3
  <2>4. ASSUME NEW a \in Uses, NEW b \in Uses, a[3] # NULL, a[3] = b[3],
               NEW s \in Spaces, NEW v \in AllPages, a = <<s, v, pt[s][v]>>,
               NEW p \in Procs, NEW r \in Rows, b = <<p, -1 - r, tables[p][r]>>
        PROVE  FALSE
    BY <2>4 DEF Exclusive
  <2>5. CASE (\E s \in Spaces, v \in AllPages : x = <<s, v, pt[s][v]>>) /\ (\E p \in Procs, r \in Rows : y = <<p, -1 - r, tables[p][r]>>)
    BY <2>4, <2>5
  <2>6. CASE (\E p \in Procs, r \in Rows : x = <<p, -1 - r, tables[p][r]>>) /\ (\E s \in Spaces, v \in AllPages : y = <<s, v, pt[s][v]>>)
    BY <2>4, <2>6
  <2> QED
    BY <2>1, <2>2, <2>3, <2>5, <2>6
<1>2. MemAlone => FramesExclusiveAlone
  BY <1>1 DEF MemAlone, FramesExclusiveAlone
<1> QED
  BY <1>2, MemInvariant, PTL

(* Between calls a frame is marked exactly if it is mapped or a page       *)
(* table: malloc_page, mfree_page and get_a_page neither lose frames nor   *)
(* free what is mapped.                                                    *)
THEOREM FramesAreAccounted == Spec => []FramesAccounted
<1>1. MemAlone => FramesAccounted
  <2> SUFFICES ASSUME MemInv, Quiet, NEW p \in Pools
               PROVE  used[p] = {u[3][2] : u \in {w \in Uses : w[3] # NULL /\ w[3][1] = p}}
    BY DEF FramesAccounted, MemAlone
  <2>1. Running
    BY DEF MemInv
  <2>2. \A f : ~Going(f) /\ ~Coming(f)
    BY DEF Quiet, Going, Coming
  <2>3. used[p] \subseteq Nat /\ \A n \in Nat : n \in used[p] <=> InUse(<<p, n>>)
    BY <2>1, <2>2 DEF Running, FrameInv, TypeOK
  <2>4. ASSUME NEW n \in used[p] PROVE \E u \in Uses : u[3] = <<p, n>>
    <3>1. n \in Nat /\ InUse(<<p, n>>)
      BY <2>3
    <3>2. CASE \E s \in Spaces, v \in AllPages : pt[s][v] = <<p, n>>
      <4>1. PICK s \in Spaces, v \in AllPages : pt[s][v] = <<p, n>>
        BY <3>2
      <4>2. <<s, v, pt[s][v]>> \in Uses /\ <<s, v, pt[s][v]>>[3] = <<p, n>>
        BY <4>1 DEF Uses
      <4> QED
        BY <4>2
    <3>3. CASE \E q \in Procs, r \in Rows : tables[q][r] = <<p, n>>
      <4>1. PICK q \in Procs, r \in Rows : tables[q][r] = <<p, n>>
        BY <3>3
      <4>2. <<q, -1 - r, tables[q][r]>> \in Uses /\ <<q, -1 - r, tables[q][r]>>[3] = <<p, n>>
        BY <4>1 DEF Uses, Rows
      <4> QED
        BY <4>2
    <3> QED
      BY <3>1, <3>2, <3>3 DEF InUse
  <2>5. \A n \in Nat : <<p, n>> # NULL
    BY ConstantFacts
  <2>6. ASSUME NEW u \in Uses, u[3] # NULL, u[3][1] = p PROVE u[3][2] \in used[p]
    <3>1. u[3] \in Pools \X Nat /\ InUse(u[3])
      <4>1. CASE \E s \in Spaces, v \in AllPages : u = <<s, v, pt[s][v]>>
        BY <2>1, <2>6, <4>1 DEF Running, TypeOK, InUse
      <4>2. CASE \E q \in Procs, r \in Rows : u = <<q, -1 - r, tables[q][r]>>
        BY <2>1, <2>6, <4>2 DEF Running, TypeOK, InUse
      <4> QED
        BY <4>1, <4>2 DEF Uses, Rows
    <3>2. u[3][2] \in Nat /\ u[3] = <<p, u[3][2]>>
      BY <2>6, <3>1
    <3> QED
      BY <2>3, <3>1, <3>2
  <2> DEFINE W == {w \in Uses : w[3] # NULL /\ w[3][1] = p}
  <2>7. ASSUME NEW n \in used[p] PROVE \E u \in W : u[3][2] = n
    <3>1. n \in Nat /\ <<p, n>> # NULL
      BY <2>3, <2>5
    <3>2. PICK u \in Uses : u[3] = <<p, n>>
      BY <2>4
    <3>3. u[3] # NULL /\ u[3][1] = p /\ u[3][2] = n
      BY <3>1, <3>2
    <3>4. u \in W
      BY <3>3
    <3> QED
      BY <3>3, <3>4
  <2>8. \A u \in W : u[3][2] \in used[p]
    BY <2>6
  <2> HIDE DEF W
  <2>9. used[p] = {u[3][2] : u \in W}
    BY <2>7, <2>8
  <2> QED
    BY <2>9 DEF W
<1> QED
  BY <1>1, MemInvariant, PTL

(* Between calls the kernel's virtual address bitmap marks exactly the     *)
(* pages that are mapped: what vaddr_get reserves is what page_table_add   *)
(* maps, and what vaddr_remove gives back.                                 *)
THEOREM PagesAreAccounted == Spec => []PagesAccounted
<1>1. MemAlone => PagesAccounted
  <2> SUFFICES ASSUME MemInv, Quiet
               PROVE  /\ \A v \in Pages : v \in vused["kernel"] <=> pt["kernel"][v] # NULL
                      /\ pt["kernel"][Behind] # NULL => Behind \in vused["kernel"]
    BY DEF PagesAccounted, MemAlone
  <2>1. PageInv
    BY DEF MemInv, Running
  <2>2. \A t \in Tasks : Pending(t) = {}
    BY DEF Quiet, Pending, Filling, Freeing
  <2>3. \A v \in AllPages : Marked(vused["kernel"], v, pt["kernel"][v] # NULL)
    BY <2>1, <2>2 DEF PageInv
  <2> QED
    BY <2>3, ConstantFacts
<1> QED
  BY <1>1, MemInvariant, PTL

(* bitmap_scan is first fit for every content of the bitmaps, whatever the *)
(* calls and their races have left in them and behind them.                *)
THEOREM ScansAreFirstFit == Spec => []ScanIsFirstFit
<1>1. ASSUME NEW s \in Spaces, NEW cnt \in KCnts \union UCnts PROVE IsFirstFit(vused[s], VBytes, cnt)
  BY ConstantFacts, ScanFindsFirstFit
<1>2. ASSUME NEW p \in Pools PROVE IsFirstFit(used[p], Bytes(p), 1)
  <2>1. Bytes(p) \in Nat
    BY ConstantFacts DEF Bytes
  <2> PICK one \in Nat \ {0} : one = 1
    OBVIOUS
  <2>2. IsFirstFit(used[p], Bytes(p), one)
    BY <2>1, ScanFindsFirstFit
  <2> QED
    BY <2>2
<1>3. ScanIsFirstFit
  BY <1>1, <1>2 DEF ScanIsFirstFit
<1> QED
  BY <1>3, PTL

=============================================================================
