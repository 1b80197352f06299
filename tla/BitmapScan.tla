----------------------------- MODULE BitmapScan -----------------------------
(***************************************************************************)
(* lib/kernel/bitmap.c: the search that every allocator of zhuOS uses, for *)
(* page frames, for virtual pages, for inodes and for disk blocks.         *)
(*                                                                         *)
(* A bitmap is the set of the indices of the bits that are 1.  The set may *)
(* hold an index past the end: it is what follows the bitmap in memory.    *)
(***************************************************************************)
EXTENDS Integers, FiniteSetsExt

CONSTANT ByteBits   \* 8

ASSUME BitmapScanAssumption == ByteBits \in Nat \ {0}

NOT_FOUND == -1
PANIC     == -2     \* an ASSERT fails inside bitmap_scan

bitmap_scan_test(bits, idx) == idx \in bits

(* Mutant: clear bits are counted across the set bits between them. *)
bitmap_scan_gaps(bits, bytes, cnt) ==
    LET free == 0..(bytes * ByteBits - 1) \ bits
    IN  CASE free = {} -> PANIC
          [] Cardinality(free) < cnt -> NOT_FOUND
          [] OTHER -> Min(free)

(* The first byte that is not 0xff, and its first clear bit *)
full(bits, b) == \A i \in 0..(ByteBits - 1) : bitmap_scan_test(bits, b * ByteBits + i)

idx_byte(bits, bytes) == Min({b \in 0..bytes : b = bytes \/ ~full(bits, b)})

bit_idx_start(bits, bytes) ==
    Min({i \in (idx_byte(bits, bytes) * ByteBits)..(bytes * ByteBits - 1) : ~bitmap_scan_test(bits, i)})

(* The value of count after each round of the loop over next_bit *)
counts(bits, start, end) ==
    LET count[i \in start..end] ==
            IF i = start THEN 1 ELSE IF bitmap_scan_test(bits, i) THEN 0 ELSE count[i - 1] + 1
    IN  count

(* bitmap_scan: the first clear bit, and from there a count of consecutive *)
(* clear bits.  The loop makes bit_left = end - start rounds and tests     *)
(* start + 1 in the first one, so that the last one tests the bit after    *)
(* the end.                                                                *)
bitmap_scan(bits, bytes, cnt) ==
    LET start == bit_idx_start(bits, bytes)
        end   == bytes * ByteBits
        count == counts(bits, start, end)
        hits  == {i \in (start + 1)..end : count[i] = cnt}
    IN  IF idx_byte(bits, bytes) = bytes THEN PANIC
        ELSE IF cnt = 1 THEN start
        ELSE IF hits = {} THEN NOT_FOUND
        ELSE Min(hits) - cnt + 1

(* bitmap_set, for the bits from i to i + cnt - 1 *)
bitmap_set(bits, i, cnt, value) ==
    IF value = 1 THEN bits \union i..(i + cnt - 1) ELSE bits \ (i..(i + cnt - 1))

(* What the search amounts to: the first run of cnt clear bits among those *)
(* of the bitmap and the one behind it.                                    *)
FirstFit(bits, bytes, cnt) ==
    LET s == {i \in 0..(bytes * ByteBits + 1 - cnt) : \A k \in 0..(cnt - 1) : i + k \notin bits}
    IN  IF s = {} THEN NOT_FOUND ELSE Min(s)

IsFirstFit(bits, bytes, cnt) ==
    LET i == bitmap_scan(bits, bytes, cnt) IN i # PANIC => i = FirstFit(bits, bytes, cnt)
=============================================================================
