----------------------------- MODULE HeapProofs -----------------------------
(* The heap of sys_malloc and sys_free, for pages, headers, block sizes    *)
(* and requests of any size: no two callers ever share a byte, the free    *)
(* lists hold what nobody has, and the headers of the arenas are right.    *)
EXTENDS Heap, BitmapProofs, FiniteSetTheorems

(* The inductive invariant.  BlocksApart speaks of what the callers have;  *)
(* to keep it one has to know that the arenas have pages of their own,     *)
(* that everything in use is a block of an arena, or the large arena, that *)
(* it was cut from, and that the lists and counts say which blocks are     *)
(* free: free_block gives a page back on the word of a count alone.        *)
TypeOK ==
    /\ used \subseteq Nat
    /\ arena \in [PageRange -> Arena \union {NULL}]
    /\ free_list \in [Descs -> SUBSET Nat]
    /\ live \subseteq [ptr : Nat, size : Nat \ {0}]

HeadersOK ==
    \A p \in Arenas :
        IF arena[p].large
        THEN arena[p].desc = NULL /\ arena[p].cnt > 0 /\ p + arena[p].cnt - 1 <= Behind
        ELSE arena[p].desc \in Descs

PagesApart == \A p, q \in Arenas : p # q => PagesOf(p) \intersect PagesOf(q) = {}

(* The block x was cut from arena p. *)
From(x, p) ==
    IF arena[p].large
    THEN x.ptr = p * PG_SIZE + Header /\ x.size + Header <= arena[p].cnt * PG_SIZE
    ELSE x.ptr \in Blocks(p, arena[p].desc) /\ x.size <= BlockSize[arena[p].desc]

LiveInv == \A x \in live : \E p \in Arenas : From(x, p)

OneCaller == \A x, y \in live : x.ptr = y.ptr => x = y

HeapInv ==
    /\ TypeOK /\ HeadersOK /\ PagesApart /\ PagesAccounted
    /\ LiveInv /\ OneCaller /\ FreeListExact /\ ArenaCounts

-----------------------------------------------------------------------------
(* Addresses *)
LEMMA SizeFacts ==
    /\ PG_SIZE \in Nat /\ Header \in Nat /\ Header > 0 /\ Header < PG_SIZE
    /\ Bytes \in Nat /\ Behind \in Nat /\ PageRange = 0..(Behind - 1) /\ PageRange \subseteq Nat
    /\ \A d \in Descs : BlockSize[d] \in Nat /\ BlockSize[d] > 0 /\ BlockSize[d] <= PG_SIZE - Header
<1>1. /\ PG_SIZE \in Nat \ {0} /\ Header \in Nat \ {0} /\ Bytes \in Nat \ {0}
      /\ Descs # {} /\ \A d \in Descs : BlockSize[d] \in 1..(PG_SIZE - Header)
  BY HeapAssumption
<1>2. Bytes * ByteBits \in Nat
  BY <1>1, BitmapScanAssumption
<1>3. PICK d \in Descs : BlockSize[d] \in 1..(PG_SIZE - Header)
  BY <1>1
<1>4. Header < PG_SIZE
  BY <1>1, <1>3
<1> QED
  BY <1>1, <1>2, <1>4 DEF PageRange, Behind

(* The page of an address. *)
LEMMA PageOf ==
    ASSUME NEW p \in Nat, NEW c \in Nat, p * PG_SIZE <= c, c < p * PG_SIZE + PG_SIZE
    PROVE  c \div PG_SIZE = p
<1>1. PG_SIZE \in Nat \ {0} /\ p * PG_SIZE \in Nat
  BY SizeFacts
<1>2. c - p * PG_SIZE \in 0..(PG_SIZE - 1) /\ p * PG_SIZE + (c - p * PG_SIZE) = c
  BY <1>1
<1> QED
  BY <1>1, <1>2, DivisionUnique

LEMMA BlocksFit ==
    ASSUME NEW d \in Descs
    PROVE  /\ blocks_per_arena(d) \in Nat /\ blocks_per_arena(d) > 0
           /\ blocks_per_arena(d) * BlockSize[d] <= PG_SIZE - Header
<1> DEFINE a == PG_SIZE - Header
           s == BlockSize[d]
           n == blocks_per_arena(d)
<1>1. a \in Nat /\ s \in Nat \ {0} /\ s <= a
  BY SizeFacts
<1>2. n \in Nat /\ a % s \in 0..(s - 1) /\ a = n * s + (a % s)
  BY <1>1, DivisionFacts DEF blocks_per_arena
<1>3. n # 0
  <2> SUFFICES ASSUME n = 0 PROVE FALSE
    OBVIOUS
  <2>1. n * s = 0
    BY <1>1
  <2> HIDE DEF a, s, n
  <2> QED
    BY <1>1, <1>2, <2>1
<1>4. n * s \in Nat
  BY <1>1, <1>2
<1> HIDE DEF a, s, n
<1>5. n > 0 /\ n * s <= a
  BY <1>1, <1>2, <1>3, <1>4
<1> QED
  BY <1>2, <1>5 DEF a, s, n

LEMMA TimesPlus ==
    ASSUME NEW i \in Nat, NEW s \in Nat
    PROVE  (i + 1) * s = i * s + s /\ i * s \in Nat
OBVIOUS

(* A block of an arena lies in the arena's page, behind its header, and    *)
(* block2arena finds the page.                                             *)
LEMMA BlockPlace ==
    ASSUME NEW p \in Nat, NEW d \in Descs, NEW i \in 0..(blocks_per_arena(d) - 1)
    PROVE  /\ arena2block(p, d, i) \in Nat /\ p * PG_SIZE \in Nat
           /\ p * PG_SIZE + Header <= arena2block(p, d, i)
           /\ arena2block(p, d, i) + BlockSize[d] <= p * PG_SIZE + PG_SIZE
           /\ block2arena(arena2block(p, d, i)) = p
<1> DEFINE s == BlockSize[d]
           n == blocks_per_arena(d)
           b == arena2block(p, d, i)
<1>1. n \in Nat /\ n > 0 /\ n * s <= PG_SIZE - Header
  BY BlocksFit
<1>2. s \in Nat /\ s > 0 /\ PG_SIZE \in Nat /\ Header \in Nat /\ Header < PG_SIZE /\ p * PG_SIZE \in Nat
  BY SizeFacts
<1>3. i \in Nat /\ i + 1 <= n
  BY <1>1
<1>4. (i + 1) * s <= n * s /\ (i + 1) * s \in Nat /\ n * s \in Nat
  BY <1>1, <1>2, <1>3, TimesMonotonic
<1>5. (i + 1) * s = i * s + s /\ i * s \in Nat
  BY <1>2, <1>3, TimesPlus
<1>6. b = p * PG_SIZE + Header + i * s
  BY DEF arena2block
<1> HIDE DEF s, n, b
<1>7. b \in Nat /\ p * PG_SIZE + Header <= b /\ b + s <= p * PG_SIZE + PG_SIZE
  BY <1>1, <1>2, <1>4, <1>5, <1>6
<1>8. b \div PG_SIZE = p
  BY <1>2, <1>7, PageOf
<1> QED
  BY <1>2, <1>7, <1>8 DEF s, b, block2arena

(* Two blocks of an arena do not overlap. *)
LEMMA BlocksOrdered ==
    ASSUME NEW p \in Nat, NEW d \in Descs, NEW i \in Nat, NEW k \in Nat, i < k
    PROVE  arena2block(p, d, i) + BlockSize[d] <= arena2block(p, d, k)
<1> DEFINE s == BlockSize[d]
<1>1. s \in Nat /\ Header \in Nat /\ p * PG_SIZE \in Nat
  BY SizeFacts
<1>2. (i + 1) * s <= k * s
  BY <1>1, TimesMonotonic
<1>3. (i + 1) * s = i * s + s /\ i * s \in Nat /\ k * s \in Nat
  BY <1>1, TimesPlus
<1> HIDE DEF s
<1>4. p * PG_SIZE + Header + i * s + s <= p * PG_SIZE + Header + k * s
  BY <1>1, <1>2, <1>3
<1> QED
  BY <1>4 DEF s, arena2block

LEMMA BlocksOf ==
    ASSUME NEW p \in Nat, NEW d \in Descs, NEW b \in Blocks(p, d)
    PROVE  /\ b \in Nat /\ p * PG_SIZE \in Nat /\ p * PG_SIZE + Header <= b
           /\ b + BlockSize[d] <= p * PG_SIZE + PG_SIZE
           /\ block2arena(b) = p
<1>1. PICK i \in 0..(blocks_per_arena(d) - 1) : b = arena2block(p, d, i)
  BY DEF Blocks
<1> QED
  BY <1>1, BlockPlace

LEMMA BlocksDoNotOverlap ==
    ASSUME NEW p \in Nat, NEW d \in Descs, NEW b \in Blocks(p, d), NEW c \in Blocks(p, d), b # c
    PROVE  b + BlockSize[d] <= c \/ c + BlockSize[d] <= b
<1>1. PICK i \in 0..(blocks_per_arena(d) - 1) : b = arena2block(p, d, i)
  BY DEF Blocks
<1>2. PICK k \in 0..(blocks_per_arena(d) - 1) : c = arena2block(p, d, k)
  BY DEF Blocks
<1>3. i \in Nat /\ k \in Nat /\ i # k
  BY <1>1, <1>2
<1>4. CASE i < k
  BY <1>1, <1>2, <1>3, <1>4, BlocksOrdered
<1>5. CASE k < i
  BY <1>1, <1>2, <1>3, <1>5, BlocksOrdered
<1> QED
  BY <1>3, <1>4, <1>5

(* An arena has as many blocks as its descriptor says. *)
LEMMA BlocksCount ==
    ASSUME NEW p \in Nat, NEW d \in Descs
    PROVE  IsFiniteSet(Blocks(p, d)) /\ Cardinality(Blocks(p, d)) = blocks_per_arena(d)
<1> DEFINE n == blocks_per_arena(d)
           S == 0..(n - 1)
           f == [i \in S |-> arena2block(p, d, i)]
<1>1. n \in Nat /\ n > 0
  BY BlocksFit
<1>2. IsFiniteSet(S) /\ Cardinality(S) = n
  <2> HIDE DEF n
  <2>1. IsFiniteSet(0..(n - 1)) /\ Cardinality(0..(n - 1)) = IF 0 > n - 1 THEN 0 ELSE (n - 1) - 0 + 1
    BY <1>1, FS_Interval
  <2> QED
    BY <1>1, <2>1
<1>3. f \in Bijection(S, Blocks(p, d))
  <2>1. f \in [S -> Blocks(p, d)]
    BY DEF Blocks
  <2>2. ASSUME NEW i \in S, NEW k \in S, f[i] = f[k] PROVE i = k
    <3>1. i \in Nat /\ k \in Nat
      BY <1>1
    <3>2. BlockSize[d] \in Nat /\ BlockSize[d] > 0
      BY SizeFacts
    <3>3. arena2block(p, d, i) \in Nat /\ arena2block(p, d, i) = arena2block(p, d, k)
      BY <2>2, BlockPlace
    <3>4. ~ (i < k) /\ ~ (k < i)
      <4>1. ASSUME i < k PROVE FALSE
        <5>1. arena2block(p, d, i) + BlockSize[d] <= arena2block(p, d, k)
          BY <3>1, <4>1, BlocksOrdered
        <5> QED
          BY <3>2, <3>3, <5>1
      <4>2. ASSUME k < i PROVE FALSE
        <5>1. arena2block(p, d, k) + BlockSize[d] <= arena2block(p, d, i)
          BY <3>1, <4>2, BlocksOrdered
        <5> QED
          BY <3>2, <3>3, <5>1
      <4> QED
        BY <4>1, <4>2
    <3> QED
      BY <3>1, <3>4
  <2>3. \A b \in Blocks(p, d) : \E i \in S : f[i] = b
    BY DEF Blocks
  <2> HIDE DEF f, S
  <2> QED
    BY <2>1, <2>2, <2>3, Zenon DEF Bijection, Injection, Surjection, IsInjective
<1> HIDE DEF f, S
<1> QED
  BY <1>2, <1>3, FS_Bijection DEF ExistsBijection, n

(* The descriptor that sys_malloc chooses has blocks that are large enough. *)
LEMMA DescForFits ==
    ASSUME NEW size \in Nat \ {0}, size <= MaxBlock
    PROVE  DescFor(size) \in Descs /\ size <= BlockSize[DescFor(size)]
<1> DEFINE N == {BlockSize[d] : d \in Descs}
           a == PG_SIZE - Header
           R == {a - n : n \in N}
           S == {n \in N : size <= n}
<1>1. a \in Nat /\ N \subseteq Nat /\ N # {} /\ \A n \in N : n <= a
  <2>1. Descs # {}
    BY HeapAssumption
  <2> QED
    BY <2>1, SizeFacts
<1>2. \E n \in N : \A d \in Descs : BlockSize[d] <= n
  <2>1. R \in SUBSET Nat /\ R # {}
    <3>1. ASSUME NEW n \in N PROVE a - n \in Nat
      <4> HIDE DEF a, N
      <4> QED
        BY <1>1, <3>1
    <3> HIDE DEF a, N
    <3> QED
      BY <1>1, <3>1
  <2>2. Min(R) \in R /\ \A y \in R : Min(R) <= y
    <3> HIDE DEF R
    <3> QED
      BY <2>1, LeastElement
  <2>3. PICK n \in N : Min(R) = a - n
    <3> HIDE DEF a, N
    <3> QED
      BY <2>2
  <2>4. ASSUME NEW d \in Descs PROVE BlockSize[d] <= n
    <3>1. BlockSize[d] \in N
      OBVIOUS
    <3>2. a - n <= a - BlockSize[d]
      <4> HIDE DEF a, N
      <4> QED
        BY <2>2, <2>3, <3>1
    <3>3. BlockSize[d] \in Nat /\ n \in Nat
      <4> HIDE DEF a, N
      <4> QED
        BY <1>1, <3>1
    <3> HIDE DEF a, N
    <3> QED
      BY <1>1, <3>2, <3>3
  <2> QED
    BY <2>4
<1>3. MaxBlock \in N
  <2>1. MaxBlock = CHOOSE n \in N : \A d \in Descs : BlockSize[d] <= n
    BY DEF MaxBlock
  <2> HIDE DEF N
  <2> QED
    BY <1>2, <2>1
<1>4. S \in SUBSET Nat /\ S # {}
  <2> HIDE DEF N
  <2> QED
    BY <1>1, <1>3
<1>5. Min(S) \in S /\ \A y \in S : Min(S) <= y
  <2> HIDE DEF S
  <2> QED
    BY <1>4, LeastElement
<1>6. PICK d \in Descs : Min(S) = BlockSize[d] /\ size <= BlockSize[d]
  BY <1>5
<1>7. \A e \in Descs : size <= BlockSize[e] => BlockSize[d] <= BlockSize[e]
  BY <1>5, <1>6
<1> HIDE DEF N, S, R, a
<1> QED
  BY <1>6, <1>7 DEF DescFor

(* Whole pages hold the request and the header. *)
LEMMA PagesHold ==
    ASSUME NEW size \in Nat \ {0}
    PROVE  page_cnt(size) \in Nat \ {0} /\ size + Header <= page_cnt(size) * PG_SIZE
<1> DEFINE a == size + Header + PG_SIZE - 1
           n == page_cnt(size)
<1>1. a \in Nat /\ PG_SIZE \in Nat \ {0} /\ Header \in Nat
  BY SizeFacts
<1>2. n \in Nat /\ a % PG_SIZE \in 0..(PG_SIZE - 1) /\ a = n * PG_SIZE + (a % PG_SIZE)
  BY <1>1, DivisionFacts DEF page_cnt
<1>3. n * PG_SIZE \in Nat
  BY <1>1, <1>2
<1>4. size + Header <= n * PG_SIZE
  <2> DEFINE r == a % PG_SIZE
             m == n * PG_SIZE
  <2>1. r \in 0..(PG_SIZE - 1) /\ m \in Nat /\ size + Header + PG_SIZE - 1 = m + r
    BY <1>2, <1>3
  <2> HIDE DEF r, m
  <2>2. size + Header <= m
    BY <1>1, <2>1
  <2> QED
    BY <2>2 DEF m
<1>5. n # 0
  <2> SUFFICES ASSUME n = 0 PROVE FALSE
    OBVIOUS
  <2>1. n * PG_SIZE = 0
    BY <1>1
  <2> HIDE DEF n
  <2> QED
    BY <1>1, <1>4, <2>1
<1> QED
  BY <1>2, <1>4, <1>5

LEMMA DivisionBounds ==
    ASSUME NEW a \in Nat, NEW b \in Nat, NEW c \in Nat, NEW k \in Nat \ {0}, a * k <= c, c < b * k
    PROVE  c \div k \in Nat /\ a <= c \div k /\ c \div k < b
<1> DEFINE m == c \div k
           e == c % k
<1>1. m \in Nat /\ e \in 0..(k - 1) /\ c = m * k + e
  BY DivisionFacts
<1> HIDE DEF m, e
<1>2. ASSUME m < a PROVE FALSE
  <2>1. (m + 1) * k <= a * k /\ a * k \in Nat
    BY <1>1, <1>2, TimesMonotonic
  <2>2. (m + 1) * k = m * k + k /\ m * k \in Nat
    BY <1>1, TimesPlus
  <2> QED
    BY <1>1, <2>1, <2>2
<1>3. ASSUME b <= m PROVE FALSE
  <2>1. b * k <= m * k /\ b * k \in Nat /\ m * k \in Nat
    BY <1>1, <1>3, TimesMonotonic
  <2> QED
    BY <1>1, <2>1
<1> QED
  BY <1>1, <1>2, <1>3 DEF m

-----------------------------------------------------------------------------
(* What the invariant says of a block in use and of its arena. *)
LEMMA ArenaFacts ==
    ASSUME TypeOK, HeadersOK, NEW p \in Arenas
    PROVE  /\ p \in PageRange /\ p \in Nat /\ arena[p] \in Arena /\ p \in PagesOf(p)
           /\ arena[p].cnt \in Nat /\ arena[p].large \in BOOLEAN
           /\ arena[p].large => arena[p].desc \notin Descs
           /\ ~arena[p].large => arena[p].desc \in Descs
<1>1. p \in PageRange /\ p \in Nat /\ arena[p] \in Arena
  BY SizeFacts DEF TypeOK, Arenas
<1>2. arena[p].cnt \in Nat /\ arena[p].large \in BOOLEAN
  BY <1>1 DEF Arena
<1>3. /\ arena[p].large => arena[p].desc \notin Descs /\ arena[p].cnt > 0
      /\ ~arena[p].large => arena[p].desc \in Descs
  BY HeapAssumption DEF HeadersOK
<1>4. p \in PagesOf(p)
  BY <1>1, <1>2, <1>3 DEF PagesOf
<1> QED
  BY <1>1, <1>2, <1>3, <1>4

LEMMA FromFacts ==
    ASSUME TypeOK, HeadersOK, NEW x \in live, NEW p \in Arenas, From(x, p)
    PROVE  /\ x.ptr \in Nat /\ x.size \in Nat \ {0} /\ p * PG_SIZE \in Nat
           /\ block2arena(x.ptr) = p
           /\ p * PG_SIZE + Header <= x.ptr
           /\ x.ptr + x.size <= (IF arena[p].large THEN (p + arena[p].cnt) * PG_SIZE ELSE p * PG_SIZE + PG_SIZE)
<1>1. x.ptr \in Nat /\ x.size \in Nat \ {0}
  BY DEF TypeOK
<1>2. p \in Nat /\ arena[p].cnt \in Nat /\ (~arena[p].large => arena[p].desc \in Descs)
  BY ArenaFacts
<1>3. PG_SIZE \in Nat /\ Header \in Nat /\ Header < PG_SIZE /\ p * PG_SIZE \in Nat
  BY <1>2, SizeFacts
<1>4. CASE arena[p].large
  <2>1. x.ptr = p * PG_SIZE + Header /\ x.size + Header <= arena[p].cnt * PG_SIZE
    BY <1>4 DEF From
  <2>2. block2arena(x.ptr) = p
    BY <1>1, <1>2, <1>3, <2>1, PageOf DEF block2arena
  <2>3. (p + arena[p].cnt) * PG_SIZE = p * PG_SIZE + arena[p].cnt * PG_SIZE /\ arena[p].cnt * PG_SIZE \in Nat
    <3> DEFINE n == arena[p].cnt
    <3>1. n \in Nat
      BY <1>2
    <3> HIDE DEF n
    <3>2. (p + n) * PG_SIZE = p * PG_SIZE + n * PG_SIZE /\ n * PG_SIZE \in Nat
      BY <1>2, <1>3, <3>1
    <3> QED
      BY <3>2 DEF n
  <2>4. x.ptr + x.size <= p * PG_SIZE + arena[p].cnt * PG_SIZE
    BY <1>1, <1>3, <2>1, <2>3
  <2> QED
    BY <1>1, <1>3, <1>4, <2>1, <2>2, <2>3, <2>4
<1>5. CASE ~arena[p].large
  <2>1. x.ptr \in Blocks(p, arena[p].desc) /\ x.size <= BlockSize[arena[p].desc] /\ arena[p].desc \in Descs
    BY <1>2, <1>5 DEF From
  <2>2. /\ p * PG_SIZE + Header <= x.ptr /\ block2arena(x.ptr) = p
        /\ x.ptr + BlockSize[arena[p].desc] <= p * PG_SIZE + PG_SIZE
    BY <1>2, <2>1, BlocksOf
  <2>3. BlockSize[arena[p].desc] \in Nat
    BY <2>1, SizeFacts
  <2>4. x.ptr + x.size <= p * PG_SIZE + PG_SIZE
    BY <1>1, <1>3, <2>1, <2>2, <2>3
  <2> QED
    BY <1>1, <1>3, <1>5, <2>2, <2>4
<1> QED
  BY <1>4, <1>5

(* Every cell of a block in use lies in a page of its arena, behind the    *)
(* header.                                                                 *)
LEMMA CellsInArena ==
    ASSUME TypeOK, HeadersOK, NEW x \in live, NEW p \in Arenas, From(x, p), NEW c \in Cells(x)
    PROVE  c \in Nat /\ c \div PG_SIZE \in PagesOf(p) /\ p * PG_SIZE + Header <= c
<1>1. p \in Nat /\ arena[p].cnt \in Nat /\ arena[p].large \in BOOLEAN
  BY ArenaFacts
<1>2. PG_SIZE \in Nat \ {0} /\ Header \in Nat /\ Header < PG_SIZE
  BY SizeFacts
<1>3. /\ x.ptr \in Nat /\ x.size \in Nat \ {0} /\ p * PG_SIZE \in Nat
      /\ p * PG_SIZE + Header <= x.ptr
      /\ x.ptr + x.size <= (IF arena[p].large THEN (p + arena[p].cnt) * PG_SIZE ELSE p * PG_SIZE + PG_SIZE)
  BY FromFacts
<1>4. c \in Nat /\ x.ptr <= c /\ c < x.ptr + x.size
  BY <1>3 DEF Cells
<1>5. p * PG_SIZE + Header <= c /\ p * PG_SIZE <= c
  BY <1>2, <1>3, <1>4
<1>6. CASE arena[p].large
  <2>1. (p + arena[p].cnt) * PG_SIZE \in Nat /\ p + arena[p].cnt \in Nat
    BY <1>1, <1>2, TimesMonotonic
  <2>2. c < (p + arena[p].cnt) * PG_SIZE
    BY <1>3, <1>4, <1>6, <2>1
  <2>3. c \div PG_SIZE \in Nat /\ p <= c \div PG_SIZE /\ c \div PG_SIZE < p + arena[p].cnt
    BY <1>1, <1>2, <1>4, <1>5, <2>1, <2>2, DivisionBounds
  <2>4. c \div PG_SIZE \in p..(p + arena[p].cnt - 1)
    <3> DEFINE m == c \div PG_SIZE
    <3> HIDE DEF m
    <3> SUFFICES m \in p..(p + arena[p].cnt - 1)
      BY DEF m
    <3>1. m \in Nat /\ p <= m /\ m < p + arena[p].cnt
      BY <2>3 DEF m
    <3> QED
      BY <1>1, <3>1
  <2> QED
    BY <1>4, <1>5, <1>6, <2>4 DEF PagesOf
<1>7. CASE ~arena[p].large
  <2>1. c < p * PG_SIZE + PG_SIZE
    BY <1>2, <1>3, <1>4, <1>7
  <2>2. c \div PG_SIZE = p
    BY <1>1, <1>4, <1>5, <2>1, PageOf
  <2> QED
    BY <1>4, <1>5, <1>7, <2>2 DEF PagesOf
<1> QED
  BY <1>1, <1>6, <1>7

LEMMA ApartFromInv == HeapInv => BlocksApart
<1> SUFFICES ASSUME HeapInv PROVE BlocksApart
  OBVIOUS
<1> USE DEF HeapInv
<1>1. ASSUME NEW x \in live, NEW y \in live, x # y PROVE Cells(x) \intersect Cells(y) = {}
  <2> SUFFICES ASSUME NEW c \in Cells(x), c \in Cells(y) PROVE FALSE
    OBVIOUS
  <2>1. PICK p \in Arenas : From(x, p)
    BY DEF LiveInv
  <2>2. PICK q \in Arenas : From(y, q)
    BY DEF LiveInv
  <2>3. c \div PG_SIZE \in PagesOf(p) /\ c \div PG_SIZE \in PagesOf(q)
    BY <2>1, <2>2, CellsInArena
  <2>4. p = q
    BY <2>3 DEF PagesApart
  <2>5. x.ptr # y.ptr
    BY <1>1 DEF OneCaller
  <2>6. ~arena[p].large
    BY <2>1, <2>2, <2>4, <2>5 DEF From
  <2> DEFINE d == arena[p].desc
  <2>7. d \in Descs /\ p \in Nat
    BY <2>6, ArenaFacts
  <2>8. x.ptr \in Blocks(p, d) /\ y.ptr \in Blocks(p, d) /\ x.size <= BlockSize[d] /\ y.size <= BlockSize[d]
    BY <2>1, <2>2, <2>4, <2>6 DEF From
  <2>9. x.ptr + BlockSize[d] <= y.ptr \/ y.ptr + BlockSize[d] <= x.ptr
    BY <2>5, <2>7, <2>8, BlocksDoNotOverlap
  <2>10. {x.ptr, x.size, y.ptr, y.size, BlockSize[d]} \subseteq Nat
    BY <2>7, SizeFacts DEF TypeOK
  <2>11. x.ptr <= c /\ c < x.ptr + x.size /\ y.ptr <= c /\ c < y.ptr + y.size /\ c \in Nat
    BY <2>10 DEF Cells
  <2> HIDE DEF d
  <2> QED
    BY <2>8, <2>9, <2>10, <2>11
<1>2. ASSUME NEW x \in live, NEW p \in Arenas PROVE Cells(x) \intersect Head(p) = {}
  <2> SUFFICES ASSUME NEW c \in Cells(x), c \in Head(p) PROVE FALSE
    OBVIOUS
  <2>1. PICK q \in Arenas : From(x, q)
    BY DEF LiveInv
  <2>2. c \in Nat /\ c \div PG_SIZE \in PagesOf(q) /\ q * PG_SIZE + Header <= c
    BY <2>1, CellsInArena
  <2>3. p \in Nat /\ p \in PagesOf(p)
    BY ArenaFacts
  <2>4. PG_SIZE \in Nat /\ Header \in Nat /\ Header < PG_SIZE /\ p * PG_SIZE \in Nat
    BY <2>3, SizeFacts
  <2>5. p * PG_SIZE <= c /\ c < p * PG_SIZE + Header
    BY <2>2, <2>4 DEF Head
  <2>6. c < p * PG_SIZE + PG_SIZE
    BY <2>2, <2>4, <2>5
  <2>7. c \div PG_SIZE = p
    BY <2>2, <2>3, <2>5, <2>6, PageOf
  <2>8. p = q
    BY <2>2, <2>3, <2>7 DEF PagesApart
  <2> QED
    BY <2>2, <2>4, <2>5, <2>8
<1>3. ASSUME NEW x \in live, NEW c \in Cells(x) PROVE c \div PG_SIZE \in used
  <2>1. PICK q \in Arenas : From(x, q)
    BY DEF LiveInv
  <2>2. c \div PG_SIZE \in PagesOf(q)
    BY <2>1, CellsInArena
  <2> QED
    BY <2>2 DEF PagesAccounted
<1> QED
  BY <1>1, <1>2, <1>3 DEF BlocksApart

(* The arena of a block in use is the one that block2arena finds. *)
LEMMA LiveArena ==
    ASSUME TypeOK, HeadersOK, LiveInv, NEW x \in live
    PROVE  block2arena(x.ptr) \in Arenas /\ From(x, block2arena(x.ptr))
<1>1. PICK p \in Arenas : From(x, p)
  BY DEF LiveInv
<1>2. block2arena(x.ptr) = p
  BY <1>1, FromFacts
<1> QED
  BY <1>1, <1>2

(* Which blocks are in the free list of d. *)
IsFree(d, b) ==
    /\ \E p \in Arenas : arena[p].desc = d /\ b \in Blocks(p, d)
    /\ \A x \in live : x.ptr # b

LEMMA FreeMembers ==
    ASSUME FreeListExact, NEW d \in Descs
    PROVE  \A b : b \in free_list[d] <=> IsFree(d, b)
<1> DEFINE U == UNION {Blocks(p, d) : p \in {q \in Arenas : arena[q].desc = d}}
           L == {x.ptr : x \in live}
<1>1. free_list[d] = U \ L
  BY DEF FreeListExact
<1> SUFFICES ASSUME NEW b PROVE b \in free_list[d] <=> IsFree(d, b)
  OBVIOUS
<1>2. b \in L <=> \E x \in live : x.ptr = b
  OBVIOUS
<1>3. b \in U <=> \E p \in Arenas : arena[p].desc = d /\ b \in Blocks(p, d)
  OBVIOUS
<1> HIDE DEF U, L
<1> QED
  BY <1>1, <1>2, <1>3 DEF IsFree

LEMMA ExactFromMembers ==
    ASSUME \A d \in Descs : \A b : b \in free_list'[d] <=> IsFree(d, b)'
    PROVE  FreeListExact'
<1> SUFFICES ASSUME NEW d \in Descs
             PROVE  free_list'[d] = (UNION {Blocks(p, d) : p \in {q \in Arenas' : arena'[q].desc = d}})
                                    \ {x.ptr : x \in live'}
  BY DEF FreeListExact
<1> DEFINE U == UNION {Blocks(p, d) : p \in {q \in Arenas' : arena'[q].desc = d}}
           L == {x.ptr : x \in live'}
<1> SUFFICES ASSUME NEW b PROVE b \in free_list'[d] <=> b \in U /\ b \notin L
  OBVIOUS
<1>1. b \in L <=> \E x \in live' : x.ptr = b
  OBVIOUS
<1>2. b \in U <=> \E p \in Arenas' : arena'[p].desc = d /\ b \in Blocks(p, d)
  OBVIOUS
<1> HIDE DEF U, L
<1> QED
  BY <1>1, <1>2 DEF IsFree

LEMMA FreeBlockFacts ==
    ASSUME TypeOK, HeadersOK, FreeListExact, NEW d \in Descs, NEW b \in free_list[d]
    PROVE  /\ block2arena(b) \in Arenas /\ arena[block2arena(b)].desc = d
           /\ ~arena[block2arena(b)].large
           /\ b \in Nat /\ b \in Blocks(block2arena(b), d)
           /\ \A x \in live : x.ptr # b
<1>1. IsFree(d, b)
  BY FreeMembers
<1>2. PICK p \in Arenas : arena[p].desc = d /\ b \in Blocks(p, d)
  BY <1>1 DEF IsFree
<1>3. p \in Nat /\ ~arena[p].large
  BY <1>2, ArenaFacts
<1>4. b \in Nat /\ block2arena(b) = p
  BY <1>2, <1>3, BlocksOf
<1> QED
  BY <1>1, <1>2, <1>3, <1>4 DEF IsFree

-----------------------------------------------------------------------------
(* What happens to the pages when an arena comes, goes or is counted       *)
(* again.                                                                  *)
LEMMA NewArena ==
    ASSUME HeapInv, NEW n \in Nat \ {0}, NEW p \in Nat, p < Behind, p + n <= Behind + 1,
           \A q \in p..(p + n - 1) : q \notin used,
           NEW h \in Arena,
           IF h.large THEN h.desc = NULL /\ h.cnt = n ELSE h.desc \in Descs /\ n = 1,
           used' = bitmap_set(used, p, n, 1), arena' = [arena EXCEPT ![p] = h]
    PROVE  /\ p \in PageRange /\ p \notin Arenas /\ Arenas' = Arenas \union {p}
           /\ arena'[p] = h /\ \A q \in Arenas : arena'[q] = arena[q]
           /\ used' \subseteq Nat /\ arena' \in [PageRange -> Arena \union {NULL}]
           /\ HeadersOK' /\ PagesApart' /\ PagesAccounted'
<1> USE DEF HeapInv
<1>0. Behind \in Nat /\ PageRange = 0..(Behind - 1)
  BY SizeFacts
<1>1. p \in PageRange
  BY <1>0
<1>2. p \notin Arenas
  <2>1. p \in p..(p + n - 1)
    OBVIOUS
  <2>2. p \notin used
    BY <2>1
  <2>3. ASSUME p \in Arenas PROVE p \in used
    <3>1. p \in PagesOf(p)
      BY <2>3, ArenaFacts
    <3> QED
      BY <2>3, <3>1 DEF PagesAccounted
  <2> QED
    BY <2>2, <2>3
<1>3. h # NULL /\ \A q \in PageRange : arena'[q] = IF q = p THEN h ELSE arena[q]
  BY <1>1, HeapAssumption DEF TypeOK
<1>4. Arenas' = Arenas \union {p}
  BY <1>1, <1>3 DEF Arenas
<1>5. arena'[p] = h /\ \A q \in Arenas : arena'[q] = arena[q]
  BY <1>1, <1>2, <1>3 DEF Arenas
<1>6. used' \subseteq Nat /\ arena' \in [PageRange -> Arena \union {NULL}]
  BY <1>1 DEF TypeOK, bitmap_set
<1>7. used' = used \union p..(p + n - 1)
  BY DEF bitmap_set
<1>8. \A q \in Arenas : PagesOf(q)' = PagesOf(q)
  BY <1>5 DEF PagesOf
<1>9. PagesOf(p)' = p..(p + n - 1)
  <2>1. CASE h.large
    BY <1>5, <2>1 DEF PagesOf
  <2>2. CASE ~h.large
    <3>1. n = 1
      BY <2>2
    <3>2. p..(p + n - 1) = {p}
      BY <3>1
    <3> QED
      BY <1>5, <2>2, <3>2 DEF PagesOf
  <2> QED
    BY <2>1, <2>2
<1>11. \A q \in Arenas : PagesOf(q) \subseteq used
  BY DEF PagesAccounted
<1>13. HeadersOK'
  <2> SUFFICES ASSUME NEW q \in Arenas'
               PROVE  IF arena'[q].large
                      THEN arena'[q].desc = NULL /\ arena'[q].cnt > 0 /\ q + arena'[q].cnt - 1 <= Behind
                      ELSE arena'[q].desc \in Descs
    BY DEF HeadersOK
  <2>1. CASE q \in Arenas
    BY <1>5, <2>1 DEF HeadersOK
  <2>2. CASE q = p
    BY <1>0, <1>5, <2>2
  <2> QED
    BY <1>4, <2>1, <2>2
<1>14. PagesApart'
  <2> SUFFICES ASSUME NEW q \in Arenas', NEW s \in Arenas', q # s
               PROVE  PagesOf(q)' \intersect PagesOf(s)' = {}
    BY DEF PagesApart
  <2>1. CASE q \in Arenas /\ s \in Arenas
    BY <1>8, <2>1 DEF PagesApart
  <2>2. CASE q = p /\ s \in Arenas
    BY <1>8, <1>9, <1>11, <2>2
  <2>3. CASE s = p /\ q \in Arenas
    BY <1>8, <1>9, <1>11, <2>3
  <2> QED
    BY <1>4, <2>1, <2>2, <2>3
<1>15. PagesAccounted'
  <2> DEFINE held(v) == \E q \in Arenas : v \in PagesOf(q)
  <2> SUFFICES ASSUME NEW v
               PROVE  LET h2 == \E q \in Arenas' : v \in PagesOf(q)'
                      IN  (v \in used' /\ v \in PageRange => h2) /\ (h2 => v \in used')
    BY DEF PagesAccounted
  <2>1. (v \in used /\ v \in PageRange => held(v)) /\ (held(v) => v \in used)
    BY DEF PagesAccounted
  <2>2. (\E q \in Arenas' : v \in PagesOf(q)') <=> (\E q \in Arenas : v \in PagesOf(q)) \/ v \in p..(p + n - 1)
    BY <1>4, <1>8, <1>9
  <2> QED
    BY <1>7, <2>1, <2>2
<1> QED
  BY <1>1, <1>2, <1>4, <1>5, <1>6, <1>13, <1>14, <1>15

LEMMA ArenaGone ==
    ASSUME HeapInv, NEW p \in Arenas, used' = used \ PagesOf(p), arena' = [arena EXCEPT ![p] = NULL]
    PROVE  /\ Arenas' = Arenas \ {p} /\ \A q \in Arenas' : arena'[q] = arena[q]
           /\ used' \subseteq Nat /\ arena' \in [PageRange -> Arena \union {NULL}]
           /\ HeadersOK' /\ PagesApart' /\ PagesAccounted'
<1> USE DEF HeapInv
<1>1. p \in PageRange
  BY DEF Arenas
<1>2. \A q \in PageRange : arena'[q] = IF q = p THEN NULL ELSE arena[q]
  BY <1>1 DEF TypeOK
<1>3. Arenas' = Arenas \ {p} /\ \A q \in Arenas' : arena'[q] = arena[q]
  BY <1>2 DEF Arenas
<1>4. used' \subseteq Nat /\ arena' \in [PageRange -> Arena \union {NULL}]
  BY DEF TypeOK
<1>5. \A q \in Arenas' : PagesOf(q)' = PagesOf(q)
  BY <1>3 DEF PagesOf
<1>7. HeadersOK'
  BY <1>3 DEF HeadersOK
<1>8. PagesApart'
  BY <1>3, <1>5 DEF PagesApart
<1>9. PagesAccounted'
  <2> DEFINE held(v) == \E q \in Arenas : v \in PagesOf(q)
  <2> SUFFICES ASSUME NEW v
               PROVE  LET h2 == \E q \in Arenas' : v \in PagesOf(q)'
                      IN  (v \in used' /\ v \in PageRange => h2) /\ (h2 => v \in used')
    BY DEF PagesAccounted
  <2>1. (v \in used /\ v \in PageRange => held(v)) /\ (held(v) => v \in used)
    BY DEF PagesAccounted
  <2>2. (\E q \in Arenas' : v \in PagesOf(q)') <=> (\E q \in Arenas : v \in PagesOf(q)) /\ v \notin PagesOf(p)
    BY <1>3, <1>5 DEF PagesApart
  <2> QED
    BY <2>1, <2>2
<1> QED
  BY <1>3, <1>4, <1>7, <1>8, <1>9

LEMMA CountChanges ==
    ASSUME HeapInv, NEW p \in Arenas, ~arena[p].large, NEW k \in Nat, used' = used,
           arena' = [arena EXCEPT ![p].cnt = k]
    PROVE  /\ Arenas' = Arenas
           /\ \A q \in Arenas : /\ arena'[q].desc = arena[q].desc /\ arena'[q].large = arena[q].large
                                /\ arena'[q].cnt = IF q = p THEN k ELSE arena[q].cnt
           /\ used' \subseteq Nat /\ arena' \in [PageRange -> Arena \union {NULL}]
           /\ HeadersOK' /\ PagesApart' /\ PagesAccounted'
<1> USE DEF HeapInv
<1>1. p \in PageRange /\ arena[p] \in Arena
  BY ArenaFacts
<1>2. /\ arena'[p].desc = arena[p].desc /\ arena'[p].large = arena[p].large /\ arena'[p].cnt = k
      /\ arena'[p] \in Arena
  BY <1>1 DEF TypeOK, Arena
<1>3. \A q \in PageRange : q # p => arena'[q] = arena[q]
  BY DEF TypeOK
<1>4. arena'[p] # NULL
  BY <1>2, HeapAssumption
<1>5. Arenas' = Arenas
  BY <1>1, <1>3, <1>4 DEF Arenas
<1>6. \A q \in Arenas : /\ arena'[q].desc = arena[q].desc /\ arena'[q].large = arena[q].large
                        /\ arena'[q].cnt = IF q = p THEN k ELSE arena[q].cnt
  BY <1>2, <1>3 DEF Arenas
<1>7. used' \subseteq Nat /\ arena' \in [PageRange -> Arena \union {NULL}]
  BY <1>1, <1>2 DEF TypeOK
<1>8. \A q \in Arenas : PagesOf(q)' = PagesOf(q)
  BY <1>6 DEF PagesOf
<1>9. PagesApart' /\ PagesAccounted'
  BY <1>5, <1>8 DEF PagesApart, PagesAccounted
<1>10. HeadersOK'
  BY <1>5, <1>6 DEF HeadersOK
<1> QED
  BY <1>5, <1>6, <1>7, <1>9, <1>10

(* A search that succeeds has found clear bits, all but the last of them   *)
(* inside the bitmap.                                                      *)
LEMMA ScanPages ==
    ASSUME NEW n \in Nat \ {0}, NEW p, p = bitmap_scan(used, Bytes, n), ~ (p < 0)
    PROVE  p \in Nat /\ p < Behind /\ p + n <= Behind + 1 /\ \A q \in p..(p + n - 1) : q \notin used
<1>1. p # PANIC /\ p # NOT_FOUND
  BY DEF PANIC, NOT_FOUND
<1>2. Bytes \in Nat
  BY SizeFacts
<1> QED
  BY <1>1, <1>2, ScanRun DEF Behind

LEMMA NothingChanges ==
    ASSUME HeapInv, UNCHANGED <<used, arena, free_list, live>>
    PROVE  HeapInv'
BY DEF HeapInv, TypeOK, HeadersOK, PagesApart, PagesAccounted, PagesOf, LiveInv, From,
       OneCaller, FreeListExact, ArenaCounts, Arenas

-----------------------------------------------------------------------------
(* The actions *)
LEMMA LargeStep ==
    ASSUME HeapInv, NEW size \in Sizes, malloc_large(size)
    PROVE  HeapInv'
<1> DEFINE n == page_cnt(size)
<1> PICK p : p = bitmap_scan(used, Bytes, n)
  OBVIOUS
<1> DEFINE h == [desc |-> NULL, cnt |-> n, large |-> TRUE]
           x == [ptr |-> p * PG_SIZE + Header, size |-> size]
<1> USE DEF HeapInv
<1>0. size \in Nat \ {0} /\ n \in Nat \ {0} /\ size + Header <= n * PG_SIZE
  BY HeapAssumption, PagesHold
<1>1. free_list' = free_list
  BY DEF malloc_large
<1>2. CASE p < 0
  BY <1>1, <1>2, NothingChanges DEF malloc_large
<1>3. CASE ~ (p < 0)
  <2>1. /\ used' = bitmap_set(used, p, n, 1) /\ arena' = [arena EXCEPT ![p] = h]
        /\ live' = live \union {x}
    BY <1>3 DEF malloc_large
  <2>2. p \in Nat /\ p < Behind /\ p + n <= Behind + 1 /\ \A q \in p..(p + n - 1) : q \notin used
    BY <1>0, <1>3, ScanPages
  <2>3. h \in Arena /\ h.large /\ h.desc = NULL /\ h.cnt = n
    BY <1>0 DEF Arena
  <2> HIDE DEF n, h
  <2>4. /\ p \in PageRange /\ p \notin Arenas /\ Arenas' = Arenas \union {p}
        /\ arena'[p] = h /\ \A q \in Arenas : arena'[q] = arena[q]
        /\ used' \subseteq Nat /\ arena' \in [PageRange -> Arena \union {NULL}]
        /\ HeadersOK' /\ PagesApart' /\ PagesAccounted'
    BY <1>0, <2>1, <2>2, <2>3, NewArena
  <2>5. x.ptr = p * PG_SIZE + Header /\ x.size = size /\ x \in [ptr : Nat, size : Nat \ {0}]
    BY <1>0, <2>2, SizeFacts
  <2>6. block2arena(x.ptr) = p
    <3>1. p * PG_SIZE \in Nat /\ Header \in Nat /\ Header < PG_SIZE /\ PG_SIZE \in Nat
      BY <2>2, SizeFacts
    <3> DEFINE c == p * PG_SIZE + Header
    <3>2. p \in Nat /\ c \in Nat /\ p * PG_SIZE <= c /\ c < p * PG_SIZE + PG_SIZE
      BY <2>2, <3>1
    <3> HIDE DEF c
    <3>3. c \div PG_SIZE = p
      BY <3>2, PageOf
    <3> QED
      BY <3>3 DEF block2arena, x, c
  <2> HIDE DEF x
  <2>7. TypeOK'
    BY <1>1, <2>1, <2>4, <2>5 DEF TypeOK
  <2>8. LiveInv'
    <3> SUFFICES ASSUME NEW y \in live' PROVE \E q \in Arenas' : From(y, q)'
      BY DEF LiveInv
    <3>1. CASE y \in live
      <4>1. PICK q \in Arenas : From(y, q)
        BY <3>1 DEF LiveInv
      <4>2. q \in Arenas' /\ From(y, q)'
        BY <2>4, <4>1 DEF From
      <4> QED
        BY <4>2
    <3>2. CASE y = x
      <4>1. From(x, p)'
        BY <1>0, <2>3, <2>4, <2>5 DEF From
      <4> QED
        BY <2>4, <3>2, <4>1
    <3> QED
      BY <2>1, <3>1, <3>2
  <2>9. \A y \in live : y.ptr # x.ptr
    BY <2>4, <2>6, LiveArena
  <2>10. OneCaller'
    BY <2>1, <2>9 DEF OneCaller
  <2>11. ASSUME NEW e \in Descs, NEW b PROVE IsFree(e, b)' <=> IsFree(e, b)
    <3>1. NULL # e
      BY HeapAssumption
    <3>2. ASSUME NEW q \in Arenas, arena[q].desc = e, b \in Blocks(q, e) PROVE x.ptr # b
      <4>1. q \in Nat
        BY ArenaFacts
      <4>2. block2arena(b) = q
        BY <3>2, <4>1, BlocksOf
      <4> QED
        BY <2>4, <2>6, <4>2
    <3>3. (\E q \in Arenas' : arena'[q].desc = e /\ b \in Blocks(q, e))
            <=> (\E q \in Arenas : arena[q].desc = e /\ b \in Blocks(q, e))
      BY <2>3, <2>4, <3>1
    <3>4. (\A y \in live' : y.ptr # b) <=> (\A y \in live : y.ptr # b) /\ x.ptr # b
      BY <2>1
    <3> QED
      BY <3>2, <3>3, <3>4 DEF IsFree
  <2>12. FreeListExact'
    BY <1>1, <2>11, FreeMembers, ExactFromMembers
  <2>13. ArenaCounts'
    <3> SUFFICES ASSUME NEW q \in Arenas', ~arena'[q].large
                 PROVE  /\ arena'[q].cnt = Cardinality(Blocks(q, arena'[q].desc) \intersect free_list'[arena'[q].desc])
                        /\ arena'[q].cnt < blocks_per_arena(arena'[q].desc)
      BY DEF ArenaCounts
    <3>1. q \in Arenas /\ arena'[q] = arena[q]
      BY <2>3, <2>4
    <3> QED
      BY <1>1, <3>1 DEF ArenaCounts
  <2> QED
    BY <2>4, <2>7, <2>8, <2>10, <2>12, <2>13
<1> QED
  BY <1>2, <1>3

(* Blocks of different pages are different. *)
LEMMA BlocksElsewhere ==
    ASSUME NEW p \in Nat, NEW q \in Nat, p # q, NEW d \in Descs, NEW e \in Descs
    PROVE  Blocks(p, d) \intersect Blocks(q, e) = {}
BY BlocksOf

LEMMA FreeCount ==
    ASSUME HeapInv, NEW p \in Arenas, ~arena[p].large, NEW d, d = arena[p].desc
    PROVE  /\ d \in Descs /\ p \in Nat /\ IsFiniteSet(Blocks(p, d) \intersect free_list[d])
           /\ arena[p].cnt \in Nat
           /\ arena[p].cnt = Cardinality(Blocks(p, d) \intersect free_list[d])
           /\ arena[p].cnt < blocks_per_arena(d) /\ blocks_per_arena(d) \in Nat
<1> USE DEF HeapInv
<1>1. d \in Descs /\ p \in Nat /\ arena[p].cnt \in Nat
  BY ArenaFacts
<1>2. IsFiniteSet(Blocks(p, d))
  BY <1>1, BlocksCount
<1>3. IsFiniteSet(Blocks(p, d) \intersect free_list[d])
  BY <1>2, FS_Subset
<1>4. arena[p].cnt = Cardinality(Blocks(p, d) \intersect free_list[d]) /\ arena[p].cnt < blocks_per_arena(d)
  BY DEF ArenaCounts
<1>5. blocks_per_arena(d) \in Nat
  BY <1>1, BlocksFit
<1> QED
  BY <1>1, <1>3, <1>4, <1>5

LEMMA BlockStep ==
    ASSUME HeapInv, NEW size \in Sizes, malloc_block(size)
    PROVE  HeapInv'
<1> DEFINE d == DescFor(size)
<1> USE DEF HeapInv
<1>0. size \in Nat \ {0} /\ d \in Descs /\ size <= BlockSize[d]
  BY HeapAssumption, DescForFits DEF malloc_block
<1>1. PICK b \in free_list[d] :
          /\ free_list' = [free_list EXCEPT ![d] = @ \ {b}]
          /\ arena' = [arena EXCEPT ![block2arena(b)].cnt = @ - 1]
          /\ live' = live \union {[ptr |-> b, size |-> size]}
  BY DEF malloc_block
<1>2. used' = used
  BY DEF malloc_block
<1> DEFINE p == block2arena(b)
           x == [ptr |-> b, size |-> size]
<1> HIDE DEF d
<1>3. /\ p \in Arenas /\ arena[p].desc = d /\ ~arena[p].large
      /\ b \in Nat /\ b \in Blocks(p, d) /\ \A y \in live : y.ptr # b
  BY <1>0, <1>1, FreeBlockFacts
<1> HIDE DEF p
<1> PICK k : k = arena[p].cnt - 1
  OBVIOUS
<1> DEFINE F == Blocks(p, d) \intersect free_list[d]
<1>4. /\ p \in Nat /\ IsFiniteSet(F) /\ arena[p].cnt \in Nat
      /\ arena[p].cnt = Cardinality(F) /\ arena[p].cnt < blocks_per_arena(d) /\ blocks_per_arena(d) \in Nat
  BY <1>3, FreeCount
<1>5. b \in F /\ Cardinality(F \ {b}) = Cardinality(F) - 1 /\ Cardinality(F \ {b}) \in Nat
  <2>1. b \in F
    BY <1>1, <1>3
  <2> HIDE DEF F
  <2> QED
    BY <1>4, <2>1, FS_RemoveElement, FS_CardinalityType
<1>6. k \in Nat /\ k = Cardinality(F \ {b}) /\ k < blocks_per_arena(d)
  <2> HIDE DEF F
  <2> QED
    BY <1>4, <1>5
<1>7. /\ Arenas' = Arenas
      /\ \A q \in Arenas : /\ arena'[q].desc = arena[q].desc /\ arena'[q].large = arena[q].large
                           /\ arena'[q].cnt = IF q = p THEN k ELSE arena[q].cnt
      /\ used' \subseteq Nat /\ arena' \in [PageRange -> Arena \union {NULL}]
      /\ HeadersOK' /\ PagesApart' /\ PagesAccounted'
  <2>1. arena' = [arena EXCEPT ![p].cnt = k]
    BY <1>1 DEF p
  <2> QED
    BY <1>2, <1>3, <1>6, <2>1, CountChanges
<1>8. free_list' \in [Descs -> SUBSET Nat]
      /\ \A e \in Descs : free_list'[e] = IF e = d THEN free_list[d] \ {b} ELSE free_list[e]
  BY <1>0, <1>1 DEF TypeOK
<1>9. x \in [ptr : Nat, size : Nat \ {0}] /\ x.ptr = b /\ x.size = size /\ live' = live \union {x}
  BY <1>0, <1>1, <1>3
<1> HIDE DEF x
<1>10. TypeOK'
  BY <1>7, <1>8, <1>9 DEF TypeOK
<1>11. LiveInv'
  <2> SUFFICES ASSUME NEW y \in live' PROVE \E q \in Arenas' : From(y, q)'
    BY DEF LiveInv
  <2>1. CASE y \in live
    <3>1. PICK q \in Arenas : From(y, q)
      BY <2>1 DEF LiveInv
    <3>2. q \in Arenas' /\ From(y, q)'
      BY <1>3, <1>7, <3>1 DEF From
    <3> QED
      BY <3>2
  <2>2. CASE y = x
    <3>1. From(y, p)'
      BY <1>0, <1>3, <1>7, <1>9, <2>2 DEF From
    <3> QED
      BY <1>3, <1>7, <3>1
  <2> QED
    BY <1>9, <2>1, <2>2
<1>12. OneCaller'
  BY <1>3, <1>9 DEF OneCaller
<1>13. FreeListExact'
  <2> SUFFICES ASSUME NEW e \in Descs, NEW c PROVE c \in free_list'[e] <=> IsFree(e, c)'
    BY ExactFromMembers
  <2>1. c \in free_list[e] <=> IsFree(e, c)
    BY FreeMembers
  <2>2. (\E q \in Arenas' : arena'[q].desc = e /\ c \in Blocks(q, e))
          <=> (\E q \in Arenas : arena[q].desc = e /\ c \in Blocks(q, e))
    BY <1>7
  <2>3. (\A y \in live' : y.ptr # c) <=> (\A y \in live : y.ptr # c) /\ b # c
    BY <1>9
  <2>4. c \in free_list'[e] <=> c \in free_list[e] /\ c # b
    <3>1. ASSUME b \in free_list[e] PROVE e = d
      <4>1. arena[block2arena(b)].desc = e
        BY <3>1, FreeBlockFacts
      <4> QED
        BY <1>3, <4>1 DEF p
    <3> QED
      BY <1>8, <3>1
  <2> QED
    BY <2>1, <2>2, <2>3, <2>4 DEF IsFree
<1>14. ArenaCounts'
  <2> SUFFICES ASSUME NEW q \in Arenas', ~arena'[q].large
               PROVE  /\ arena'[q].cnt = Cardinality(Blocks(q, arena'[q].desc) \intersect free_list'[arena'[q].desc])
                      /\ arena'[q].cnt < blocks_per_arena(arena'[q].desc)
    BY DEF ArenaCounts
  <2>1. q \in Arenas /\ ~arena[q].large /\ arena'[q].desc = arena[q].desc
    BY <1>7
  <2>2. CASE q = p
    <3>1. Blocks(p, d) \intersect free_list'[d] = F \ {b}
      BY <1>0, <1>8
    <3> QED
      BY <1>3, <1>6, <1>7, <2>1, <2>2, <3>1
  <2>3. CASE q # p
    <3> DEFINE e == arena[q].desc
    <3>1. /\ e \in Descs /\ q \in Nat
          /\ arena[q].cnt = Cardinality(Blocks(q, e) \intersect free_list[e])
          /\ arena[q].cnt < blocks_per_arena(e)
      BY <2>1, FreeCount
    <3>2. b \notin Blocks(q, e)
      BY <1>0, <1>3, <1>4, <2>3, <3>1, BlocksElsewhere
    <3>3. Blocks(q, e) \intersect free_list'[e] = Blocks(q, e) \intersect free_list[e]
      BY <1>8, <3>1, <3>2
    <3>4. arena'[q].cnt = arena[q].cnt
      BY <1>7, <2>1, <2>3
    <3> QED
      BY <2>1, <3>1, <3>3, <3>4
  <2> QED
    BY <2>2, <2>3
<1> QED
  BY <1>7, <1>10, <1>11, <1>12, <1>13, <1>14

LEMMA ArenaStep ==
    ASSUME HeapInv, NEW size \in Sizes, malloc_arena(size)
    PROVE  HeapInv'
<1> DEFINE d == DescFor(size)
           n == blocks_per_arena(d)
<1> PICK p : p = bitmap_scan(used, Bytes, 1)
  OBVIOUS
<1> DEFINE b == arena2block(p, d, 0)
           h == [desc |-> d, large |-> FALSE, cnt |-> n - 1]
           x == [ptr |-> b, size |-> size]
<1> USE DEF HeapInv
<1>0. size \in Nat \ {0} /\ d \in Descs /\ size <= BlockSize[d] /\ free_list[d] = {}
  BY HeapAssumption, DescForFits DEF malloc_arena
<1>1. CASE p < 0
  BY <1>1, NothingChanges DEF malloc_arena
<1>2. CASE ~ (p < 0)
  <2>1. /\ used' = bitmap_set(used, p, 1, 1) /\ arena' = [arena EXCEPT ![p] = h]
        /\ free_list' = [free_list EXCEPT ![d] = Blocks(p, d) \ {b}]
        /\ live' = live \union {x}
    BY <1>2 DEF malloc_arena
  <2>2. p \in Nat /\ p < Behind /\ p + 1 <= Behind + 1 /\ \A q \in p..(p + 1 - 1) : q \notin used
    BY <1>2, ScanPages
  <2> HIDE DEF d
  <2>3. n \in Nat /\ n > 0
    BY <1>0, BlocksFit
  <2> HIDE DEF n
  <2>4. h \in Arena /\ ~h.large /\ h.desc = d /\ h.cnt = n - 1
    BY <1>0, <2>3 DEF Arena
  <2> HIDE DEF h
  <2>5. /\ p \in PageRange /\ p \notin Arenas /\ Arenas' = Arenas \union {p}
        /\ arena'[p] = h /\ \A q \in Arenas : arena'[q] = arena[q]
        /\ used' \subseteq Nat /\ arena' \in [PageRange -> Arena \union {NULL}]
        /\ HeadersOK' /\ PagesApart' /\ PagesAccounted'
    <3>1. IF h.large THEN h.desc = NULL /\ h.cnt = 1 ELSE h.desc \in Descs /\ 1 = 1
      BY <1>0, <2>4
    <3>2. 1 \in Nat \ {0}
      OBVIOUS
    <3> QED
      BY <2>1, <2>2, <2>4, <3>1, <3>2, NewArena
  <2>6. b \in Blocks(p, d)
    BY <2>3 DEF Blocks, n
  <2> HIDE DEF b
  <2>7. Blocks(p, d) \subseteq Nat /\ \A c \in Blocks(p, d) : block2arena(c) = p
    BY <1>0, <2>2, BlocksOf
  <2>8. \A y \in live : y.ptr \notin Blocks(p, d)
    BY <2>5, <2>7, LiveArena
  <2>9. free_list' \in [Descs -> SUBSET Nat]
        /\ \A e \in Descs : free_list'[e] = IF e = d THEN Blocks(p, d) \ {b} ELSE free_list[e]
    BY <1>0, <2>1, <2>7 DEF TypeOK
  <2>10. x \in [ptr : Nat, size : Nat \ {0}] /\ x.ptr = b /\ x.size = size
    BY <1>0, <2>6, <2>7
  <2> HIDE DEF x
  <2>11. TypeOK'
    BY <2>1, <2>5, <2>9, <2>10 DEF TypeOK
  <2>12. LiveInv'
    <3> SUFFICES ASSUME NEW y \in live' PROVE \E q \in Arenas' : From(y, q)'
      BY DEF LiveInv
    <3>1. CASE y \in live
      <4>1. PICK q \in Arenas : From(y, q)
        BY <3>1 DEF LiveInv
      <4>2. q \in Arenas' /\ From(y, q)'
        BY <2>5, <4>1 DEF From
      <4> QED
        BY <4>2
    <3>2. CASE y = x
      <4>1. From(y, p)'
        BY <1>0, <2>4, <2>5, <2>6, <2>10, <3>2 DEF From
      <4> QED
        BY <2>5, <4>1
    <3> QED
      BY <2>1, <3>1, <3>2
  <2>13. OneCaller'
    BY <2>1, <2>6, <2>8, <2>10 DEF OneCaller
  <2>14. FreeListExact'
    <3> SUFFICES ASSUME NEW e \in Descs, NEW c PROVE c \in free_list'[e] <=> IsFree(e, c)'
      BY ExactFromMembers
    <3>1. c \in free_list[e] <=> IsFree(e, c)
      BY FreeMembers
    <3>2. (\E q \in Arenas' : arena'[q].desc = e /\ c \in Blocks(q, e))
            <=> \/ \E q \in Arenas : arena[q].desc = e /\ c \in Blocks(q, e)
                \/ e = d /\ c \in Blocks(p, d)
      BY <2>4, <2>5
    <3>3. (\A y \in live' : y.ptr # c) <=> (\A y \in live : y.ptr # c) /\ b # c
      BY <2>1, <2>10
    <3>4. ASSUME NEW q \in Arenas, arena[q].desc = e, c \in Blocks(q, e) PROVE c \notin Blocks(p, d)
      <4>1. q \in Nat /\ q # p
        BY <2>5, ArenaFacts
      <4> QED
        BY <1>0, <2>2, <3>4, <4>1, BlocksElsewhere
    <3>5. CASE e = d
      <4>1. ~ IsFree(d, c)
        BY <1>0, <3>1, <3>5
      <4> QED
        BY <2>8, <2>9, <3>2, <3>3, <3>4, <3>5, <4>1 DEF IsFree
    <3>6. CASE e # d
      <4>1. IsFree(e, c) => b # c
        BY <2>6, <3>4 DEF IsFree
      <4> QED
        BY <2>9, <3>1, <3>2, <3>3, <3>6, <4>1 DEF IsFree
    <3> QED
      BY <3>5, <3>6
  <2>15. ArenaCounts'
    <3> SUFFICES ASSUME NEW q \in Arenas', ~arena'[q].large
                 PROVE  /\ arena'[q].cnt = Cardinality(Blocks(q, arena'[q].desc) \intersect free_list'[arena'[q].desc])
                        /\ arena'[q].cnt < blocks_per_arena(arena'[q].desc)
      BY DEF ArenaCounts
    <3>1. CASE q = p
      <4>1. IsFiniteSet(Blocks(p, d)) /\ Cardinality(Blocks(p, d)) = n
        BY <1>0, <2>2, BlocksCount DEF n
      <4>2. Cardinality(Blocks(p, d) \ {b}) = n - 1
        BY <2>6, <4>1, FS_RemoveElement
      <4>3. Blocks(p, d) \intersect free_list'[d] = Blocks(p, d) \ {b}
        BY <1>0, <2>9
      <4>4. n - 1 < blocks_per_arena(d)
        BY <2>3 DEF n
      <4> QED
        BY <2>4, <2>5, <3>1, <4>2, <4>3, <4>4
    <3>2. CASE q \in Arenas
      <4> DEFINE e == arena[q].desc
      <4>1. arena'[q] = arena[q] /\ q # p
        BY <2>5, <3>2
      <4>2. /\ e \in Descs /\ q \in Nat
            /\ arena[q].cnt = Cardinality(Blocks(q, e) \intersect free_list[e])
            /\ arena[q].cnt < blocks_per_arena(e)
        BY <3>2, <4>1, FreeCount
      <4>3. Blocks(q, e) \intersect Blocks(p, d) = {}
        BY <1>0, <2>2, <4>1, <4>2, BlocksElsewhere
      <4>4. Blocks(q, e) \intersect free_list'[e] = Blocks(q, e) \intersect free_list[e]
        BY <1>0, <2>9, <4>2, <4>3
      <4> QED
        BY <4>1, <4>2, <4>4
    <3> QED
      BY <2>5, <3>1, <3>2
  <2> QED
    BY <2>5, <2>11, <2>12, <2>13, <2>14, <2>15
<1> QED
  BY <1>1, <1>2

LEMMA FreeLargeStep ==
    ASSUME HeapInv, NEW x \in live, free_large(x)
    PROVE  HeapInv'
<1> DEFINE p == block2arena(x.ptr)
<1> USE DEF HeapInv
<1>1. /\ arena[p].large /\ used' = bitmap_set(used, p, arena[p].cnt, 0)
      /\ arena' = [arena EXCEPT ![p] = NULL] /\ live' = live \ {x} /\ free_list' = free_list
  BY DEF free_large, mfree_page
<1>2. p \in Arenas /\ From(x, p)
  BY LiveArena
<1>3. used' = used \ PagesOf(p)
  BY <1>1 DEF PagesOf, bitmap_set
<1>4. /\ Arenas' = Arenas \ {p} /\ \A q \in Arenas' : arena'[q] = arena[q]
      /\ used' \subseteq Nat /\ arena' \in [PageRange -> Arena \union {NULL}]
      /\ HeadersOK' /\ PagesApart' /\ PagesAccounted'
  BY <1>1, <1>2, <1>3, ArenaGone
<1>5. TypeOK'
  BY <1>1, <1>4 DEF TypeOK
<1>6. LiveInv'
  <2> SUFFICES ASSUME NEW y \in live' PROVE \E q \in Arenas' : From(y, q)'
    BY DEF LiveInv
  <2>1. y \in live /\ y # x
    BY <1>1
  <2>2. PICK q \in Arenas : From(y, q)
    BY <2>1 DEF LiveInv
  <2>3. q # p
    BY <1>1, <1>2, <2>1, <2>2 DEF From, OneCaller
  <2>4. q \in Arenas' /\ From(y, q)'
    BY <1>4, <2>2, <2>3 DEF From
  <2> QED
    BY <2>4
<1>7. OneCaller'
  BY <1>1 DEF OneCaller
<1>8. FreeListExact'
  <2> SUFFICES ASSUME NEW e \in Descs, NEW c PROVE c \in free_list'[e] <=> IsFree(e, c)'
    BY ExactFromMembers
  <2>1. c \in free_list[e] <=> IsFree(e, c)
    BY FreeMembers
  <2>2. arena[p].desc # e
    BY <1>1, <1>2, ArenaFacts
  <2>3. (\E q \in Arenas' : arena'[q].desc = e /\ c \in Blocks(q, e))
          <=> (\E q \in Arenas : arena[q].desc = e /\ c \in Blocks(q, e))
    BY <1>4, <2>2
  <2>4. ASSUME NEW q \in Arenas, arena[q].desc = e, c \in Blocks(q, e) PROVE x.ptr # c
    <3>1. q \in Nat /\ q # p
      BY <2>2, <2>4, ArenaFacts
    <3>2. block2arena(c) = q
      BY <2>4, <3>1, BlocksOf
    <3> QED
      BY <3>1, <3>2
  <2>5. (\A y \in live : y.ptr # c) <=> (\A y \in live' : y.ptr # c) /\ x.ptr # c
    BY <1>1
  <2> QED
    BY <1>1, <2>1, <2>3, <2>4, <2>5 DEF IsFree
<1>9. ArenaCounts'
  BY <1>1, <1>4 DEF ArenaCounts
<1> QED
  BY <1>4, <1>5, <1>6, <1>7, <1>8, <1>9

LEMMA FreeBlockStep ==
    ASSUME HeapInv, NEW x \in live, free_block(x)
    PROVE  HeapInv'
<1> DEFINE p == block2arena(x.ptr)
<1> PICK d : d = arena[p].desc
  OBVIOUS
<1> PICK k : k = arena[p].cnt + 1
  OBVIOUS
<1> DEFINE free == free_list[d] \union {x.ptr}
           n == blocks_per_arena(d)
           F == Blocks(p, d) \intersect free_list[d]
<1> USE DEF HeapInv
<1>1. ~arena[p].large /\ live' = live \ {x}
  BY DEF free_block
<1>2. p \in Arenas /\ From(x, p)
  BY LiveArena
<1>3. x.ptr \in Blocks(p, d) /\ x.ptr \in Nat
  BY <1>1, <1>2 DEF From, TypeOK
<1>4. /\ d \in Descs /\ p \in Nat /\ IsFiniteSet(F) /\ arena[p].cnt \in Nat
      /\ arena[p].cnt = Cardinality(F) /\ arena[p].cnt < n /\ n \in Nat
  BY <1>1, <1>2, FreeCount
<1> HIDE DEF n
<1>5. x.ptr \notin free_list[d]
  BY <1>4, FreeBlockFacts
<1>6. IsFiniteSet(F \union {x.ptr}) /\ Cardinality(F \union {x.ptr}) = k
  <2>1. x.ptr \notin F
    BY <1>5
  <2> HIDE DEF F
  <2> QED
    BY <1>4, <2>1, FS_AddElement
<1>7. ASSUME NEW q \in Arenas, q # p, ~arena[q].large, NEW e, e = arena[q].desc
      PROVE  /\ e \in Descs /\ q \in Nat /\ Blocks(q, e) \intersect Blocks(p, d) = {}
             /\ arena[q].cnt = Cardinality(Blocks(q, e) \intersect free_list[e])
             /\ arena[q].cnt < blocks_per_arena(e)
  <2>1. /\ e \in Descs /\ q \in Nat
        /\ arena[q].cnt = Cardinality(Blocks(q, e) \intersect free_list[e])
        /\ arena[q].cnt < blocks_per_arena(e)
    BY <1>7, FreeCount
  <2> QED
    BY <1>4, <1>7, <2>1, BlocksElsewhere
<1>8. OneCaller'
  BY <1>1 DEF OneCaller
(* The last block in use of the arena: its page is given back. *)
<1>9. CASE k = n
  <2>1. /\ free_list' = [free_list EXCEPT ![d] = free \ Blocks(p, d)]
        /\ used' = bitmap_set(used, p, 1, 0) /\ arena' = [arena EXCEPT ![p] = NULL]
    BY <1>9 DEF free_block, mfree_page, n
  <2>2. Blocks(p, d) = F \union {x.ptr}
    <3>1. IsFiniteSet(Blocks(p, d)) /\ Cardinality(Blocks(p, d)) = n
      BY <1>4, BlocksCount DEF n
    <3>2. F \union {x.ptr} \in SUBSET Blocks(p, d)
      BY <1>3
    <3> HIDE DEF F
    <3> QED
      BY <1>6, <1>9, <3>1, <3>2, FS_Subset
  <2>3. used' = used \ PagesOf(p)
    <3>1. p..(p + 1 - 1) = {p}
      BY <1>4
    <3> QED
      BY <1>1, <2>1, <3>1 DEF bitmap_set, PagesOf
  <2>4. /\ Arenas' = Arenas \ {p} /\ \A q \in Arenas' : arena'[q] = arena[q]
        /\ used' \subseteq Nat /\ arena' \in [PageRange -> Arena \union {NULL}]
        /\ HeadersOK' /\ PagesApart' /\ PagesAccounted'
    BY <1>2, <2>1, <2>3, ArenaGone
  <2>5. free_list' \in [Descs -> SUBSET Nat]
        /\ \A e \in Descs : free_list'[e] = IF e = d THEN free_list[d] \ Blocks(p, d) ELSE free_list[e]
    <3>1. free \ Blocks(p, d) = free_list[d] \ Blocks(p, d)
      BY <1>3
    <3> QED
      BY <1>4, <2>1, <3>1 DEF TypeOK
  <2>6. TypeOK'
    BY <1>1, <2>4, <2>5 DEF TypeOK
  <2>7. LiveInv'
    <3> SUFFICES ASSUME NEW y \in live' PROVE \E q \in Arenas' : From(y, q)'
      BY DEF LiveInv
    <3>1. y \in live /\ y # x
      BY <1>1
    <3>2. PICK q \in Arenas : From(y, q)
      BY <3>1 DEF LiveInv
    <3>3. q # p
      <4> SUFFICES ASSUME q = p PROVE FALSE
        OBVIOUS
      <4>1. y.ptr \in Blocks(p, d)
        BY <1>1, <3>2 DEF From
      <4>2. y.ptr \notin free_list[d]
        BY <1>4, <3>1, FreeBlockFacts
      <4>3. y.ptr = x.ptr
        BY <2>2, <4>1, <4>2
      <4> QED
        BY <3>1, <4>3 DEF OneCaller
    <3>4. q \in Arenas' /\ From(y, q)'
      BY <2>4, <3>2, <3>3 DEF From
    <3> QED
      BY <3>4
  <2>8. FreeListExact'
    <3> SUFFICES ASSUME NEW e \in Descs, NEW c PROVE c \in free_list'[e] <=> IsFree(e, c)'
      BY ExactFromMembers
    <3>1. c \in free_list[e] <=> IsFree(e, c)
      BY FreeMembers
    <3>2. ASSUME NEW q \in Arenas, q # p, arena[q].desc = e, c \in Blocks(q, e) PROVE c \notin Blocks(p, d)
      BY <1>4, <3>2, ArenaFacts, BlocksElsewhere
    <3>3. c \in free_list'[e] <=> c \in free_list[e] /\ c \notin Blocks(p, d)
      <4>1. CASE e = d
        BY <2>5, <4>1
      <4>2. CASE e # d
        BY <2>5, <3>1, <3>2, <4>2 DEF IsFree
      <4> QED
        BY <4>1, <4>2
    <3>4. (\A y \in live : y.ptr # c) <=> (\A y \in live' : y.ptr # c) /\ x.ptr # c
      BY <1>1
    <3>5. IsFree(e, c)' <=> IsFree(e, c) /\ c \notin Blocks(p, d)
      <4>1. (\E q \in Arenas' : arena'[q].desc = e /\ c \in Blocks(q, e))
              <=> (\E q \in Arenas : q # p /\ arena[q].desc = e /\ c \in Blocks(q, e))
        BY <2>4
      <4>2. (\E q \in Arenas : q # p /\ arena[q].desc = e /\ c \in Blocks(q, e))
              <=> (\E q \in Arenas : arena[q].desc = e /\ c \in Blocks(q, e)) /\ c \notin Blocks(p, d)
        BY <3>2
      <4>3. c \notin Blocks(p, d) => x.ptr # c
        BY <1>3
      <4> QED
        BY <3>4, <4>1, <4>2, <4>3 DEF IsFree
    <3> QED
      BY <3>1, <3>3, <3>5
  <2>9. ArenaCounts'
    <3> SUFFICES ASSUME NEW q \in Arenas', ~arena'[q].large
                 PROVE  /\ arena'[q].cnt = Cardinality(Blocks(q, arena'[q].desc) \intersect free_list'[arena'[q].desc])
                        /\ arena'[q].cnt < blocks_per_arena(arena'[q].desc)
      BY DEF ArenaCounts
    <3> DEFINE e == arena[q].desc
    <3>1. q \in Arenas /\ q # p /\ arena'[q] = arena[q]
      BY <2>4
    <3>2. /\ e \in Descs /\ q \in Nat /\ Blocks(q, e) \intersect Blocks(p, d) = {}
          /\ arena[q].cnt = Cardinality(Blocks(q, e) \intersect free_list[e])
          /\ arena[q].cnt < blocks_per_arena(e)
      BY <1>7, <3>1
    <3>3. Blocks(q, e) \intersect free_list'[e] = Blocks(q, e) \intersect free_list[e]
      BY <2>5, <3>2
    <3> QED
      BY <3>1, <3>2, <3>3
  <2> QED
    BY <1>8, <2>4, <2>6, <2>7, <2>8, <2>9
(* Other blocks of the arena are in use. *)
<1>10. CASE k # n
  <2>1. /\ free_list' = [free_list EXCEPT ![d] = free] /\ used' = used
        /\ arena' = [arena EXCEPT ![p].cnt = k]
    BY <1>10 DEF free_block, n
  <2>2. k \in Nat /\ k < n
    BY <1>4, <1>10
  <2>3. /\ Arenas' = Arenas
        /\ \A q \in Arenas : /\ arena'[q].desc = arena[q].desc /\ arena'[q].large = arena[q].large
                             /\ arena'[q].cnt = IF q = p THEN k ELSE arena[q].cnt
        /\ used' \subseteq Nat /\ arena' \in [PageRange -> Arena \union {NULL}]
        /\ HeadersOK' /\ PagesApart' /\ PagesAccounted'
    BY <1>1, <1>2, <2>1, <2>2, CountChanges
  <2>4. free_list' \in [Descs -> SUBSET Nat]
        /\ \A e \in Descs : free_list'[e] = IF e = d THEN free ELSE free_list[e]
    BY <1>3, <1>4, <2>1 DEF TypeOK
  <2>5. TypeOK'
    BY <1>1, <2>3, <2>4 DEF TypeOK
  <2>6. LiveInv'
    <3> SUFFICES ASSUME NEW y \in live' PROVE \E q \in Arenas' : From(y, q)'
      BY DEF LiveInv
    <3>1. PICK q \in Arenas : From(y, q)
      BY <1>1 DEF LiveInv
    <3>2. q \in Arenas' /\ From(y, q)'
      BY <1>1, <2>3, <3>1 DEF From
    <3> QED
      BY <3>2
  <2>7. FreeListExact'
    <3> SUFFICES ASSUME NEW e \in Descs, NEW c PROVE c \in free_list'[e] <=> IsFree(e, c)'
      BY ExactFromMembers
    <3>1. c \in free_list[e] <=> IsFree(e, c)
      BY FreeMembers
    <3>2. (\E q \in Arenas' : arena'[q].desc = e /\ c \in Blocks(q, e))
            <=> (\E q \in Arenas : arena[q].desc = e /\ c \in Blocks(q, e))
      BY <2>3
    <3>3. CASE c # x.ptr
      <4>1. (\A y \in live : y.ptr # c) <=> (\A y \in live' : y.ptr # c)
        BY <1>1, <3>3
      <4>2. c \in free_list'[e] <=> c \in free_list[e]
        BY <2>4, <3>3
      <4> QED
        BY <3>1, <3>2, <4>1, <4>2 DEF IsFree
    <3>4. CASE c = x.ptr
      <4>1. \A y \in live' : y.ptr # c
        BY <1>1, <3>4 DEF OneCaller
      <4>2. (\E q \in Arenas : arena[q].desc = e /\ c \in Blocks(q, e)) <=> e = d
        <5>1. ASSUME NEW q \in Arenas, arena[q].desc = e, c \in Blocks(q, e) PROVE e = d
          <6>1. q \in Nat
            BY ArenaFacts
          <6>2. block2arena(c) = q
            BY <5>1, <6>1, BlocksOf
          <6> QED
            BY <3>4, <5>1, <6>2
        <5> QED
          BY <1>2, <1>3, <3>4, <5>1
      <4>3. c \in free_list'[e] <=> e = d
        <5>1. e # d => c \notin free_list[e]
          BY <3>1, <4>2 DEF IsFree
        <5> QED
          BY <2>4, <3>4, <5>1
      <4> QED
        BY <3>2, <4>1, <4>2, <4>3 DEF IsFree
    <3> QED
      BY <3>3, <3>4
  <2>8. ArenaCounts'
    <3> SUFFICES ASSUME NEW q \in Arenas', ~arena'[q].large
                 PROVE  /\ arena'[q].cnt = Cardinality(Blocks(q, arena'[q].desc) \intersect free_list'[arena'[q].desc])
                        /\ arena'[q].cnt < blocks_per_arena(arena'[q].desc)
      BY DEF ArenaCounts
    <3>1. q \in Arenas /\ ~arena[q].large /\ arena'[q].desc = arena[q].desc
      BY <2>3
    <3>2. CASE q = p
      <4>1. Blocks(p, d) \intersect free_list'[d] = F \union {x.ptr}
        BY <1>3, <1>4, <2>4
      <4>2. arena'[p].desc = d /\ arena'[p].cnt = k
        BY <1>2, <2>3
      <4> QED
        BY <1>6, <2>2, <3>2, <4>1, <4>2 DEF n
    <3>3. CASE q # p
      <4> DEFINE e == arena[q].desc
      <4>1. /\ e \in Descs /\ q \in Nat /\ Blocks(q, e) \intersect Blocks(p, d) = {}
            /\ arena[q].cnt = Cardinality(Blocks(q, e) \intersect free_list[e])
            /\ arena[q].cnt < blocks_per_arena(e)
        BY <1>7, <3>1, <3>3
      <4>2. Blocks(q, e) \intersect free_list'[e] = Blocks(q, e) \intersect free_list[e]
        BY <1>3, <2>4, <4>1
      <4>3. arena'[q].cnt = arena[q].cnt
        BY <2>3, <3>1, <3>3
      <4> QED
        BY <3>1, <4>1, <4>2, <4>3
    <3> QED
      BY <3>2, <3>3
  <2> QED
    BY <1>8, <2>3, <2>5, <2>6, <2>7, <2>8
<1> QED
  BY <1>9, <1>10

LEMMA HeapInvariant == Spec => []HeapInv
<1>1. Init => HeapInv
  <2> SUFFICES ASSUME Init PROVE HeapInv
    OBVIOUS
  <2> USE DEF Init
  <2>1. Arenas = {}
    BY DEF Arenas
  <2>2. TypeOK
    BY SizeFacts DEF TypeOK
  <2>3. PagesAccounted
    BY <2>1, SizeFacts DEF PagesAccounted
  <2>4. FreeListExact
    BY <2>1 DEF FreeListExact
  <2>5. HeadersOK /\ PagesApart /\ LiveInv /\ OneCaller /\ ArenaCounts
    BY <2>1 DEF HeadersOK, PagesApart, LiveInv, OneCaller, ArenaCounts
  <2> QED
    BY <2>2, <2>3, <2>4, <2>5 DEF HeapInv
<1>2. HeapInv /\ [Next]_vars => HeapInv'
  <2> SUFFICES ASSUME HeapInv, [Next]_vars PROVE HeapInv'
    OBVIOUS
  <2>1. CASE UNCHANGED vars
    BY <2>1, NothingChanges DEF vars
  <2>2. ASSUME NEW size \in Sizes, malloc_large(size) PROVE HeapInv'
    BY <2>2, LargeStep
  <2>3. ASSUME NEW size \in Sizes, malloc_block(size) PROVE HeapInv'
    BY <2>3, BlockStep
  <2>4. ASSUME NEW size \in Sizes, malloc_arena(size) PROVE HeapInv'
    BY <2>4, ArenaStep
  <2>5. ASSUME NEW x \in live, free_large(x) PROVE HeapInv'
    BY <2>5, FreeLargeStep
  <2>6. ASSUME NEW x \in live, free_block(x) PROVE HeapInv'
    BY <2>6, FreeBlockStep
  <2> QED
    BY <2>1, <2>2, <2>3, <2>4, <2>5, <2>6 DEF Next
<1> QED
  BY <1>1, <1>2, PTL DEF Spec

-----------------------------------------------------------------------------
(* Whatever sizes are asked for and in whatever order blocks are freed, no *)
(* two callers of sys_malloc share a byte, none has a byte of an arena's   *)
(* header, and all they have lies in pages that are allocated.             *)
THEOREM BlocksStayApart == Spec => []BlocksApart
BY HeapInvariant, ApartFromInv, PTL

(* The free lists hold exactly the blocks that nobody has: sys_free takes  *)
(* all the blocks of a page it gives back out of the list.                 *)
THEOREM FreeListsAreExact == Spec => []FreeListExact
<1>1. HeapInv => FreeListExact
  BY DEF HeapInv
<1> QED
  BY <1>1, HeapInvariant, PTL

(* The count in the header of an arena is the number of its free blocks,   *)
(* and a page is marked exactly if it belongs to an arena.                 *)
THEOREM ArenasAreExact == Spec => []ArenasExact
<1>1. HeapInv => ArenasExact
  BY DEF HeapInv, ArenasExact
<1> QED
  BY <1>1, HeapInvariant, PTL
=============================================================================
