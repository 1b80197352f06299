-------------------------------- MODULE Heap --------------------------------
(***************************************************************************)
(* The heap of kernel/memory.c: sys_malloc cuts pages (arenas) into blocks *)
(* of a few sizes and keeps the free blocks of each size in one list;      *)
(* sys_free finds the arena of a block by masking its address.  Both run   *)
(* under the lock of their pool from the first access to the last, so that *)
(* each is one step (module Memory has the page allocator below them).     *)
(*                                                                         *)
(* A free list is a set: list_pop takes its first element here any one.    *)
(***************************************************************************)
EXTENDS Integers, FiniteSets, BitmapScan, Debug

CONSTANTS
    PG_SIZE,        \* 4096
    Header,         \* sizeof(struct arena), 12
    BlockSize,      \* block_size of each descriptor: 16, 32, ... 1024
    Bytes,          \* length of the bitmap of virtual addresses
    Sizes,          \* the sizes that are asked for
    MaxLive,        \* bound on the blocks in use
    NULL

Descs == DOMAIN BlockSize

(* struct arena; desc is NULL for whole pages *)
Arena == [desc : Descs \union {NULL}, cnt : Nat, large : BOOLEAN]

ASSUME HeapAssumption ==
    /\ {PG_SIZE, Header, Bytes, MaxLive} \subseteq Nat \ {0} /\ Sizes \subseteq Nat \ {0}
    /\ Descs # {} /\ \A d \in Descs : BlockSize[d] \in 1..(PG_SIZE - Header)
    /\ NULL \notin Descs \union Arena

VARIABLES
    used,       \* the bitmap of virtual addresses: the pages in use
    arena,      \* the header at the start of a page
    free_list,  \* the addresses of the free blocks of each descriptor
    live        \* what the callers have: [ptr, size]

vars == <<used, arena, free_list, live, kernel>>

PageRange == 0..(Bytes * ByteBits - 1)
Behind    == Bytes * ByteBits       \* the bit, and the page, after the last
MaxBlock  == CHOOSE n \in {BlockSize[d] : d \in Descs} : \A d \in Descs : BlockSize[d] <= n

(* block_desc_init *)
blocks_per_arena(d) == (PG_SIZE - Header) \div BlockSize[d]

(* mem_pool_init clears the bitmap; the bit behind it is not written. *)
Init ==
    /\ used \in {{}, {Behind}}
    /\ arena = [p \in PageRange |-> NULL]
    /\ free_list = [d \in Descs |-> {}]
    /\ live = {}
    /\ kernel = "up"

arena2block(p, d, idx) == p * PG_SIZE + Header + idx * BlockSize[d]
block2arena(ptr)       == ptr \div PG_SIZE
Blocks(p, d) == {arena2block(p, d, i) : i \in 0..(blocks_per_arena(d) - 1)}

(* Mutant: the header is left out of the size that is rounded up. *)
page_cnt_bare(size) == (size + PG_SIZE - 1) \div PG_SIZE

(* DIV_ROUND_UP(size + sizeof(struct arena), PG_SIZE) *)
page_cnt(size) == (size + Header + PG_SIZE - 1) \div PG_SIZE


-----------------------------------------------------------------------------
(* sys_malloc of more than the largest block: whole pages *)
malloc_large(size) ==
    /\ kernel = "up" /\ Cardinality(live) < MaxLive
    /\ size > MaxBlock
    /\ LET n == page_cnt(size)
           p == bitmap_scan(used, Bytes, n)
       IN  /\ ASSERT(p # PANIC)
           /\ IF p < 0 THEN UNCHANGED <<used, arena, live>>
              ELSE /\ used' = bitmap_set(used, p, n, 1)
                   /\ arena' = [arena EXCEPT ![p] = [desc |-> NULL, cnt |-> n, large |-> TRUE]]
                   /\ live' = live \union {[ptr |-> p * PG_SIZE + Header, size |-> size]}
    /\ UNCHANGED free_list

DescFor(size) ==
    CHOOSE d \in Descs : /\ size <= BlockSize[d]
                         /\ \A e \in Descs : size <= BlockSize[e] => BlockSize[d] <= BlockSize[e]

(* Mutant: the arena still counts the block as free. *)
malloc_block_uncounted(size) ==
    /\ kernel = "up" /\ Cardinality(live) < MaxLive
    /\ size <= MaxBlock
    /\ LET d == DescFor(size)
       IN  \E b \in free_list[d] :
              /\ free_list' = [free_list EXCEPT ![d] = @ \ {b}]
              /\ live' = live \union {[ptr |-> b, size |-> size]}
    /\ UNCHANGED <<used, arena, kernel>>

(* sys_malloc of a block that is in a free list *)
malloc_block(size) ==
    /\ kernel = "up" /\ Cardinality(live) < MaxLive
    /\ size <= MaxBlock
    /\ LET d == DescFor(size)
       IN  \E b \in free_list[d] :
              /\ free_list' = [free_list EXCEPT ![d] = @ \ {b}]
              /\ arena' = [arena EXCEPT ![block2arena(b)].cnt = @ - 1]
              /\ live' = live \union {[ptr |-> b, size |-> size]}
    /\ UNCHANGED <<used, kernel>>

(* sys_malloc when the free list is empty: a new arena, all its blocks into *)
(* the list, and its first block out again                                  *)
malloc_arena(size) ==
    /\ kernel = "up" /\ Cardinality(live) < MaxLive
    /\ size <= MaxBlock
    /\ free_list[DescFor(size)] = {}
    /\ LET d == DescFor(size)
           p == bitmap_scan(used, Bytes, 1)
           b == arena2block(p, d, 0)
       IN  /\ ASSERT(p # PANIC)
           /\ IF p < 0 THEN UNCHANGED <<used, arena, free_list, live>>
              ELSE /\ used' = bitmap_set(used, p, 1, 1)
                   /\ arena' = [arena EXCEPT ![p] = [desc |-> d, large |-> FALSE,
                                                     cnt |-> blocks_per_arena(d) - 1]]
                   /\ free_list' = [free_list EXCEPT ![d] = Blocks(p, d) \ {b}]
                   /\ live' = live \union {[ptr |-> b, size |-> size]}

-----------------------------------------------------------------------------
(* mfree_page *)
mfree_page(p, n) ==
    /\ used' = bitmap_set(used, p, n, 0)
    /\ arena' = [arena EXCEPT ![p] = NULL]

(* Mutant: the blocks of an arena that is given back stay in the free      *)
(* list.                                                                   *)
free_block_keeps(x) ==
    /\ kernel = "up"
    /\ LET p == block2arena(x.ptr)
           d == arena[p].desc
       IN  /\ ~arena[p].large
           /\ free_list' = [free_list EXCEPT ![d] = @ \union {x.ptr}]
           /\ IF arena[p].cnt + 1 = blocks_per_arena(d) THEN mfree_page(p, 1)
              ELSE arena' = [arena EXCEPT ![p].cnt = @ + 1] /\ UNCHANGED used
    /\ live' = live \ {x}
    /\ UNCHANGED kernel

(* sys_free of whole pages *)
free_large(x) ==
    /\ kernel = "up"
    /\ LET p == block2arena(x.ptr)
       IN  arena[p].large /\ mfree_page(p, arena[p].cnt)
    /\ live' = live \ {x}
    /\ UNCHANGED <<free_list, kernel>>

(* sys_free of a block: into the free list, and when the arena has no block *)
(* in use any more, all its blocks out of the list and its page given back  *)
free_block(x) ==
    /\ kernel = "up"
    /\ LET p == block2arena(x.ptr)
           d == arena[p].desc
           free == free_list[d] \union {x.ptr}
       IN  /\ ~arena[p].large
           /\ IF arena[p].cnt + 1 = blocks_per_arena(d)
              THEN /\ ASSERT(Blocks(p, d) \subseteq free)
                   /\ free_list' = [free_list EXCEPT ![d] = free \ Blocks(p, d)]
                   /\ mfree_page(p, 1)
              ELSE /\ free_list' = [free_list EXCEPT ![d] = free]
                   /\ arena' = [arena EXCEPT ![p].cnt = @ + 1]
                   /\ UNCHANGED <<used, kernel>>
    /\ live' = live \ {x}

Next ==
    \/ \E size \in Sizes : malloc_large(size) \/ malloc_block(size) \/ malloc_arena(size)
    \/ \E x \in live : free_large(x) \/ free_block(x)

Spec == Init /\ [][Next]_vars

-----------------------------------------------------------------------------
Cells(x)  == x.ptr..(x.ptr + x.size - 1)
Arenas    == {p \in PageRange : arena[p] # NULL}
Head(p)   == (p * PG_SIZE)..(p * PG_SIZE + Header - 1)
PagesOf(p) == IF arena[p].large THEN p..(p + arena[p].cnt - 1) ELSE {p}

(* What sys_malloc returns belongs to its caller alone: no two blocks in   *)
(* use overlap, none overlaps the header of an arena, and all lie in pages *)
(* that are allocated (memory.c:351-453).                                  *)
BlocksApart ==
    /\ \A x, y \in live : x # y => Cells(x) \intersect Cells(y) = {}
    /\ \A x \in live :
          /\ \A p \in Arenas : Cells(x) \intersect Head(p) = {}
          /\ \A c \in Cells(x) : c \div PG_SIZE \in used

(* The free lists hold exactly the blocks of the arenas that nobody has:   *)
(* none of a page that was given back, none that is in use.                *)
FreeListExact ==
    \A d \in Descs :
        free_list[d] = (UNION {Blocks(p, d) : p \in {q \in Arenas : arena[q].desc = d}})
                       \ {x.ptr : x \in live}

(* a->cnt counts the free blocks of its arena, and an arena with no block  *)
(* in use does not exist (memory.c:583-590).                               *)
ArenaCounts ==
    \A p \in {q \in Arenas : ~arena[q].large} :
        LET d == arena[p].desc
        IN  /\ arena[p].cnt = Cardinality(Blocks(p, d) \intersect free_list[d])
            /\ arena[p].cnt < blocks_per_arena(d)

(* A page is in use exactly if it belongs to an arena: sys_free returns    *)
(* every page of a large allocation.  The last page of one may be the one  *)
(* behind the bitmap, whose bit is then set.                               *)
PagesAccounted ==
    LET pages == UNION {PagesOf(p) : p \in Arenas}
    IN  used \intersect PageRange \subseteq pages /\ pages \subseteq used

(* The headers of the arenas say what is allocated: the counts of free     *)
(* blocks and the pages are right.                                         *)
ArenasExact == ArenaCounts /\ PagesAccounted
=============================================================================
