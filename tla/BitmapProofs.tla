---------------------------- MODULE BitmapProofs ----------------------------
(* bitmap_scan for bitmaps of any length: what it finds is the first run   *)
(* that fits, as long as a set bit is at its end.                          *)
EXTENDS BitmapScan, WellFoundedInduction, TLAPS

(* A set of numbers has a smallest one. *)
LEMMA LeastElement ==
    ASSUME NEW S \in SUBSET Nat, S # {}
    PROVE  Min(S) \in S /\ \A y \in S : Min(S) <= y
<1>1. PICK x \in S : \A y \in S : ~ (<<y, x>> \in OpToRel(<, Nat))
  BY NatLessThanWellFounded, WFMin
<1>2. \A y \in S : x <= y
  <2> SUFFICES ASSUME NEW y \in S PROVE x <= y
    OBVIOUS
  <2>1. <<y, x>> \in Nat \X Nat /\ ~ (<<y, x>> \in OpToRel(<, Nat))
    BY <1>1
  <2>2. ~ (y < x)
    BY <2>1 DEF OpToRel
  <2> QED
    BY <2>2
<1> QED
  BY <1>2 DEF Min

(* Multiplication and division by a number that is not 0. *)
LEMMA TimesMonotonic ==
    ASSUME NEW a \in Nat, NEW b \in Nat, NEW c \in Nat, a <= b
    PROVE  a * c <= b * c /\ a * c \in Nat /\ b * c \in Nat
OBVIOUS

LEMMA DivisionFacts ==
    ASSUME NEW a \in Nat, NEW c \in Nat \ {0}
    PROVE  /\ a \div c \in Nat /\ a % c \in 0..(c - 1)
           /\ a = (a \div c) * c + (a % c)
OBVIOUS

LEMMA DivisionUnique ==
    ASSUME NEW a \in Nat, NEW c \in Nat \ {0}, NEW r \in 0..(c - 1)
    PROVE  (a * c + r) \div c = a
OBVIOUS

LEMMA ByteFacts ==
    ASSUME NEW bits, NEW bytes \in Nat
    PROVE  /\ idx_byte(bits, bytes) \in 0..bytes
           /\ idx_byte(bits, bytes) # bytes => ~full(bits, idx_byte(bits, bytes))
           /\ \A b \in 0..(idx_byte(bits, bytes) - 1) : full(bits, b)
<1> DEFINE S == {b \in 0..bytes : b = bytes \/ ~full(bits, b)}
<1>1. S \in SUBSET Nat /\ S # {}
  OBVIOUS
<1>2. idx_byte(bits, bytes) = Min(S)
  BY DEF idx_byte
<1>3. Min(S) \in S /\ \A y \in S : Min(S) <= y
  BY <1>1, LeastElement
<1>4. ASSUME NEW b \in 0..(Min(S) - 1) PROVE b \notin S
  <2> HIDE DEF S
  <2>1. Min(S) \in Nat
    BY <1>1, <1>3
  <2>2. b \in Nat /\ ~(Min(S) <= b)
    BY <2>1
  <2> QED
    BY <1>3, <2>2
<1> QED
  BY <1>2, <1>3, <1>4

(* The bit where the search begins is the first clear one. *)
LEMMA StartFacts ==
    ASSUME NEW bits, NEW bytes \in Nat, idx_byte(bits, bytes) # bytes
    PROVE  /\ bit_idx_start(bits, bytes) \in 0..(bytes * ByteBits - 1)
           /\ bit_idx_start(bits, bytes) \notin bits
           /\ \A i \in 0..(bit_idx_start(bits, bytes) - 1) : i \in bits
<1> DEFINE b == idx_byte(bits, bytes)
           end == bytes * ByteBits
           S == {i \in (b * ByteBits)..(end - 1) : i \notin bits}
<1> USE BitmapScanAssumption
<1>1. b \in Nat /\ b + 1 <= bytes /\ ~full(bits, b) /\ \A c \in 0..(b - 1) : full(bits, c)
  BY ByteFacts
<1>2. bit_idx_start(bits, bytes) = Min(S)
  BY DEF bit_idx_start, bitmap_scan_test
<1> HIDE DEF b
<1>3. b * ByteBits \in Nat /\ end \in Nat /\ b * ByteBits + ByteBits <= end
  <2>1. (b + 1) * ByteBits <= bytes * ByteBits
    BY <1>1, TimesMonotonic
  <2> QED
    BY <1>1, <2>1
<1>4. S # {}
  <2>1. PICK i \in 0..(ByteBits - 1) : b * ByteBits + i \notin bits
    BY <1>1 DEF full, bitmap_scan_test
  <2>2. b * ByteBits + i \in (b * ByteBits)..(end - 1)
    BY <1>3, <2>1
  <2> QED
    BY <2>1, <2>2
<1>5. S \in SUBSET Nat
  BY <1>3
<1>6. Min(S) \in S /\ \A y \in S : Min(S) <= y
  BY <1>4, <1>5, LeastElement
<1>7. ASSUME NEW i \in 0..(Min(S) - 1) PROVE i \in bits
  <2>1. CASE i >= b * ByteBits
    BY <1>3, <1>6, <1>7, <2>1
  <2>2. CASE i < b * ByteBits
    <3>0. i \in Nat
      OBVIOUS
    <3>1. /\ i \div ByteBits \in Nat /\ i % ByteBits \in 0..(ByteBits - 1)
          /\ i = (i \div ByteBits) * ByteBits + (i % ByteBits)
      BY <3>0, DivisionFacts
    <3>2. i \div ByteBits < b
      <4> SUFFICES ASSUME b <= i \div ByteBits PROVE FALSE
        BY <1>1, <3>0, <3>1
      <4>1. b * ByteBits <= (i \div ByteBits) * ByteBits
        BY <1>1, <3>1, TimesMonotonic
      <4> QED
        BY <1>3, <2>2, <3>1, <4>1
    <3>3. full(bits, i \div ByteBits)
      BY <1>1, <3>1, <3>2
    <3> QED
      BY <3>1, <3>3 DEF full, bitmap_scan_test
  <2> QED
    BY <1>3, <1>5, <1>6, <1>7, <2>1, <2>2
<1> QED
  BY <1>2, <1>3, <1>6, <1>7

-----------------------------------------------------------------------------
(* The loop over next_bit, without recursion: count is the distance to the *)
(* last set bit, or to where the search began.                             *)
IsLast(bits, start, i, j) ==
    /\ j = start - 1 \/ j \in bits
    /\ \A m \in (j + 1)..i : m \notin bits

LEMMA LastExists ==
    ASSUME NEW bits, NEW start \in Nat, NEW i \in Nat, start <= i
    PROVE  \E j \in (start - 1)..i : IsLast(bits, start, i, j)
<1> DEFINE S == {k \in 0..(i - start + 1) : i - k = start - 1 \/ i - k \in bits}
<1>1. i - start + 1 \in S
  OBVIOUS
<1>2. S \in SUBSET Nat
  OBVIOUS
<1>3. PICK k \in S : \A y \in S : k <= y
  <2> HIDE DEF S
  <2> QED
    BY <1>1, <1>2, LeastElement
<1>4. k \in Nat /\ i - k \in (start - 1)..i
  BY <1>3
<1>5. ASSUME NEW m \in (i - k + 1)..i PROVE m \notin bits
  <2>1. m \in Nat /\ i - m \in 0..(i - start + 1) /\ i - (i - m) = m /\ i - m < k
    BY <1>4
  <2> QED
    BY <1>3, <2>1
<1> QED
  BY <1>3, <1>4, <1>5 DEF IsLast

LEMMA LastUnique ==
    ASSUME NEW bits, NEW start \in Nat, NEW i \in Nat,
           NEW j \in (start - 1)..i, IsLast(bits, start, i, j),
           NEW k \in (start - 1)..i, IsLast(bits, start, i, k)
    PROVE  j = k
BY DEF IsLast

LEMMA CountEquation ==
    ASSUME NEW bits, NEW start \in Nat, NEW end \in Nat, start \notin bits
    PROVE  counts(bits, start, end) =
               [i \in start..end |->
                   IF i = start THEN 1 ELSE IF i \in bits THEN 0 ELSE counts(bits, start, end)[i - 1] + 1]
<1> DEFINE last(i) == CHOOSE j \in (start - 1)..i : IsLast(bits, start, i, j)
           f == [i \in start..end |-> i - last(i)]
           Body(g) == [i \in start..end |->
                          IF i = start THEN 1 ELSE IF i \in bits THEN 0 ELSE g[i - 1] + 1]
<1>1. \A i \in start..end : last(i) \in (start - 1)..i /\ IsLast(bits, start, i, last(i))
  <2> SUFFICES ASSUME NEW i \in start..end
               PROVE  last(i) \in (start - 1)..i /\ IsLast(bits, start, i, last(i))
    OBVIOUS
  <2>0. i \in Nat /\ start <= i
    OBVIOUS
  <2>1. \E j \in (start - 1)..i : IsLast(bits, start, i, j)
    BY <2>0, LastExists
  <2> QED
    BY <2>1, Zenon
<1> HIDE DEF last
<1>2. ASSUME NEW i \in start..end
      PROVE  f[i] = IF i = start THEN 1 ELSE IF i \in bits THEN 0 ELSE f[i - 1] + 1
  <2>0. i \in Nat /\ last(i) \in (start - 1)..i /\ IsLast(bits, start, i, last(i)) /\ f[i] = i - last(i)
    BY <1>1
  <2>1. CASE i = start
    <3>1. IsLast(bits, start, i, start - 1) /\ start - 1 \in (start - 1)..i
      BY <2>1 DEF IsLast
    <3>2. last(i) = start - 1
      BY <2>0, <3>1, LastUnique
    <3> QED
      BY <2>0, <2>1, <3>2
  <2>2. CASE i # start /\ i \in bits
    <3>1. IsLast(bits, start, i, i) /\ i \in (start - 1)..i
      BY <2>0, <2>2 DEF IsLast
    <3>2. last(i) = i
      BY <2>0, <3>1, LastUnique
    <3> QED
      BY <2>0, <2>2, <3>2
  <2>3. CASE i # start /\ i \notin bits
    <3>1. i - 1 \in start..end /\ i - 1 \in Nat
      BY <2>3
    <3>2. last(i - 1) \in (start - 1)..(i - 1) /\ IsLast(bits, start, i - 1, last(i - 1)) /\ f[i - 1] = (i - 1) - last(i - 1)
      BY <1>1, <3>1
    <3>3. IsLast(bits, start, i, last(i - 1)) /\ last(i - 1) \in (start - 1)..i
      BY <2>3, <3>1, <3>2 DEF IsLast
    <3>4. last(i) = last(i - 1)
      BY <2>0, <3>3, LastUnique
    <3> QED
      BY <2>0, <2>3, <3>1, <3>2, <3>4
  <2> QED
    BY <2>1, <2>2, <2>3
<1>3. f = Body(f)
  BY <1>2
<1> HIDE DEF f
<1>4. counts(bits, start, end) = CHOOSE g : g = Body(g)
  BY DEF counts, bitmap_scan_test
<1>5. (CHOOSE g : g = Body(g)) = Body(CHOOSE g : g = Body(g))
  BY <1>3, Zenon
<1> QED
  BY <1>4, <1>5

LEMMA CountFacts ==
    ASSUME NEW bits, NEW start \in Nat, NEW end \in Nat, start \notin bits,
           NEW i \in start..end, NEW j \in (start - 1)..i, IsLast(bits, start, i, j)
    PROVE  counts(bits, start, end)[i] = i - j
<1> DEFINE c == counts(bits, start, end)
           Bad == {n \in start..end : \E k \in (start - 1)..n : IsLast(bits, start, n, k) /\ c[n] # n - k}
<1>0. \A n \in start..end : c[n] = IF n = start THEN 1 ELSE IF n \in bits THEN 0 ELSE c[n - 1] + 1
  <2>1. c = [n \in start..end |-> IF n = start THEN 1 ELSE IF n \in bits THEN 0 ELSE c[n - 1] + 1]
    BY CountEquation
  <2> HIDE DEF c
  <2> QED
    BY <2>1
<1> HIDE DEF c
<1>1. SUFFICES ASSUME Bad # {} PROVE FALSE
  <2>1. ASSUME c[i] # i - j PROVE i \in Bad
    BY <2>1
  <2> QED
    BY <2>1 DEF c
<1>2. Bad \in SUBSET Nat
  OBVIOUS
<1>3. PICK n \in Bad : \A m \in Bad : n <= m
  <2> HIDE DEF Bad
  <2> QED
    BY <1>1, <1>2, LeastElement
<1>4. n \in start..end /\ n \in Nat
  BY <1>3
<1>5. PICK k \in (start - 1)..n : IsLast(bits, start, n, k) /\ c[n] # n - k
  BY <1>3
<1>6. CASE n = start
  BY <1>0, <1>4, <1>5, <1>6 DEF IsLast
<1>7. CASE n # start /\ n \in bits
  <2>1. k = n
    BY <1>4, <1>5, <1>7 DEF IsLast
  <2> QED
    BY <1>0, <1>4, <1>5, <1>7, <2>1
<1>8. CASE n # start /\ n \notin bits
  <2>1. n - 1 \in start..end /\ n - 1 \notin Bad
    BY <1>2, <1>3, <1>4, <1>8
  <2>2. k \in (start - 1)..(n - 1) /\ IsLast(bits, start, n - 1, k)
    BY <1>4, <1>5, <1>8 DEF IsLast
  <2>3. c[n - 1] = (n - 1) - k
    BY <2>1, <2>2
  <2> QED
    BY <1>0, <1>4, <1>5, <1>8, <2>2, <2>3
<1> QED
  BY <1>6, <1>7, <1>8

-----------------------------------------------------------------------------
(* What a run that fits is. *)
Fits(bits, end, cnt) == {i \in 0..(end + 1 - cnt) : \A k \in 0..(cnt - 1) : i + k \notin bits}

Hits(bits, start, end, cnt) == {i \in (start + 1)..end : counts(bits, start, end)[i] = cnt}

(* A round in which count reaches cnt ends a run that fits, and no run     *)
(* that fits is passed before there has been such a round.                 *)
LEMMA HitsAreFits ==
    ASSUME NEW bits, NEW start \in Nat, NEW end \in Nat, start < end, NEW cnt \in Nat, cnt > 1,
           start \notin bits, \A i \in 0..(start - 1) : i \in bits
    PROVE  /\ \A h \in Hits(bits, start, end, cnt) : h - cnt + 1 \in Fits(bits, end, cnt)
           /\ \A x \in Fits(bits, end, cnt) : \E h \in Hits(bits, start, end, cnt) : h <= x + cnt - 1
<1>1. ASSUME NEW h \in Hits(bits, start, end, cnt) PROVE h - cnt + 1 \in Fits(bits, end, cnt)
  <2>1. h \in Nat /\ h \in start..end /\ start <= h /\ counts(bits, start, end)[h] = cnt
    BY DEF Hits
  <2>2. PICK j \in (start - 1)..h : IsLast(bits, start, h, j)
    BY <2>1, LastExists
  <2>3. cnt = h - j
    BY <2>1, <2>2, CountFacts
  <2>4. \A m \in (j + 1)..h : m \notin bits
    BY <2>2 DEF IsLast
  <2>6. h - cnt + 1 \in 0..(end + 1 - cnt)
    BY <2>1, <2>2, <2>3
  <2>7. ASSUME NEW k \in 0..(cnt - 1) PROVE (h - cnt + 1) + k \notin bits
    <3>1. (h - cnt + 1) + k \in (j + 1)..h
      BY <2>1, <2>2, <2>3
    <3> QED
      BY <2>4, <3>1
  <2> QED
    BY <2>6, <2>7 DEF Fits
<1>2. ASSUME NEW x \in Fits(bits, end, cnt)
      PROVE  \E h \in Hits(bits, start, end, cnt) : h <= x + cnt - 1
  <2>1. x \in 0..(end + 1 - cnt) /\ x \in Nat /\ \A k \in 0..(cnt - 1) : x + k \notin bits
    BY DEF Fits
  <2> DEFINE e == x + cnt - 1
  <2>2. x \notin bits
    BY <2>1
  <2>3. start <= x
    BY <2>1, <2>2
  <2>4. \A m \in x..e : m \notin bits
    <3> SUFFICES ASSUME NEW m \in x..e PROVE m \notin bits
      OBVIOUS
    <3>1. m - x \in 0..(cnt - 1) /\ x + (m - x) = m
      BY <2>1
    <3> QED
      BY <2>1, <3>1
  <2>5. PICK j \in (start - 1)..e : IsLast(bits, start, e, j)
    <3>1. e \in Nat /\ start <= e
      BY <2>1, <2>3
    <3> QED
      BY <3>1, LastExists
  <2>6. j < x
    BY <2>1, <2>3, <2>4, <2>5 DEF IsLast
  <2>7. j + cnt \in (start + 1)..end /\ j + cnt <= e
    BY <2>1, <2>3, <2>5, <2>6
  <2>8. IsLast(bits, start, j + cnt, j) /\ j \in (start - 1)..(j + cnt)
    BY <2>1, <2>5, <2>7 DEF IsLast
  <2>9. counts(bits, start, end)[j + cnt] = (j + cnt) - j
    <3>1. j + cnt \in start..end
      BY <2>7
    <3> QED
      BY <2>8, <3>1, CountFacts
  <2>10. j + cnt \in Hits(bits, start, end, cnt)
    BY <2>5, <2>7, <2>9 DEF Hits
  <2> QED
    BY <2>7, <2>10
<1> QED
  BY <1>1, <1>2

(* bitmap_scan, byte by byte and bit by bit, returns the first run of cnt  *)
(* clear bits or -1 when there is none, for every bitmap with a clear bit; *)
(* a run may end in the bit behind the bitmap, which the last round of the *)
(* loop tests.                                                             *)
THEOREM ScanFindsFirstFit ==
    ASSUME NEW bits, NEW bytes \in Nat, NEW cnt \in Nat \ {0}
    PROVE  IsFirstFit(bits, bytes, cnt)
<1> DEFINE end == bytes * ByteBits
           start == bit_idx_start(bits, bytes)
           i == bitmap_scan(bits, bytes, cnt)
           s == Fits(bits, end, cnt)
           hits == Hits(bits, start, end, cnt)
<1>0. FirstFit(bits, bytes, cnt) = IF s = {} THEN NOT_FOUND ELSE Min(s)
  BY DEF FirstFit, Fits
<1>1. i = IF idx_byte(bits, bytes) = bytes THEN PANIC
          ELSE IF cnt = 1 THEN start
          ELSE IF hits = {} THEN NOT_FOUND
          ELSE Min(hits) - cnt + 1
  BY DEF bitmap_scan, Hits
<1>2. SUFFICES ASSUME idx_byte(bits, bytes) # bytes
               PROVE  i = IF s = {} THEN NOT_FOUND ELSE Min(s)
  BY <1>0, <1>1 DEF IsFirstFit
<1>3. /\ start \in 0..(end - 1) /\ start \in Nat /\ start \notin bits /\ end \in Nat /\ start < end
      /\ \A k \in 0..(start - 1) : k \in bits
  <2>1. end \in Nat
    BY BitmapScanAssumption
  <2> QED
    BY <1>2, <2>1, StartFacts
<1> HIDE DEF i, end, start
<1>4. s \in SUBSET Nat /\ hits \in SUBSET Nat
  BY <1>3 DEF Fits, Hits
<1>5. CASE cnt = 1
  <2>1. start \in s /\ \A x \in s : start <= x
    <3>1. start \in s
      BY <1>3, <1>5 DEF Fits
    <3>2. ASSUME NEW x \in s PROVE start <= x
      <4>1. x \in Nat /\ x + 0 \notin bits
        BY <1>3, <1>5 DEF Fits
      <4> QED
        BY <1>3, <4>1
    <3> QED
      BY <3>1, <3>2
  <2> HIDE DEF s
  <2>2. Min(s) \in s /\ Min(s) <= start
    BY <1>4, <2>1, LeastElement
  <2>3. Min(s) = start
    <3>1. Min(s) \in Nat /\ start <= Min(s)
      BY <1>4, <2>1, <2>2
    <3> QED
      BY <1>3, <2>2, <3>1
  <2> QED
    BY <1>1, <1>2, <1>5, <2>1, <2>3
<1>6. CASE cnt # 1
  <2>1. /\ \A h \in hits : h - cnt + 1 \in s
        /\ \A x \in s : \E h \in hits : h <= x + cnt - 1
    BY <1>3, <1>6, HitsAreFits DEF end
  <2> HIDE DEF s, hits
  <2>2. CASE hits = {}
    BY <1>1, <1>2, <1>6, <2>1, <2>2
  <2>3. CASE hits # {}
    <3>1. Min(hits) \in hits /\ \A h \in hits : Min(hits) <= h
      BY <1>4, <2>3, LeastElement
    <3>2. Min(hits) - cnt + 1 \in s
      BY <2>1, <3>1
    <3>3. Min(s) \in s /\ Min(s) <= Min(hits) - cnt + 1
      BY <1>4, <3>2, LeastElement
    <3>4. PICK h \in hits : h <= Min(s) + cnt - 1
      BY <2>1, <3>3
    <3>5. Min(hits) - cnt + 1 = Min(s)
      <4>1. Min(hits) \in Nat /\ Min(s) \in Nat /\ h \in Nat /\ Min(hits) <= h
        BY <1>4, <3>1, <3>3, <3>4
      <4> QED
        BY <3>3, <3>4, <4>1
    <3> QED
      BY <1>1, <1>2, <1>6, <2>3, <3>2, <3>5
  <2> QED
    BY <2>2, <2>3
<1> QED
  BY <1>5, <1>6

(* What the allocators use of it: the run begins inside the bitmap and     *)
(* ends there or with the bit behind it.                                   *)
LEMMA ScanRun ==
    ASSUME NEW bits, NEW bytes \in Nat, NEW cnt \in Nat \ {0},
           NEW p, p = bitmap_scan(bits, bytes, cnt), p # PANIC, p # NOT_FOUND
    PROVE  /\ p \in Nat /\ p < bytes * ByteBits /\ p + cnt <= bytes * ByteBits + 1
           /\ \A q \in p..(p + cnt - 1) : q \notin bits
           /\ bytes * ByteBits - 1 \in bits => p + cnt <= bytes * ByteBits
<1> DEFINE end == bytes * ByteBits
           s == Fits(bits, end, cnt)
<1>1. end \in Nat
  BY BitmapScanAssumption
<1>2. p = IF s = {} THEN NOT_FOUND ELSE Min(s)
  <2>1. IsFirstFit(bits, bytes, cnt)
    BY ScanFindsFirstFit
  <2> QED
    BY <2>1 DEF IsFirstFit, FirstFit, Fits
<1>3. s \in SUBSET Nat
  BY <1>1 DEF Fits
<1> HIDE DEF end
<1>4. p \in s
  <2> HIDE DEF s
  <2> QED
    BY <1>2, <1>3, LeastElement
<1>5. p \in 0..(end + 1 - cnt) /\ \A k \in 0..(cnt - 1) : p + k \notin bits
  BY <1>4 DEF Fits
<1>6. ASSUME NEW q \in p..(p + cnt - 1) PROVE q \notin bits
  <2>1. q - p \in 0..(cnt - 1) /\ p + (q - p) = q
    BY <1>1, <1>5
  <2> QED
    BY <1>5, <2>1
<1>7. p < end
  <2>1. CASE cnt = 1
    <3>1. idx_byte(bits, bytes) # bytes /\ p = bit_idx_start(bits, bytes)
      BY <2>1 DEF bitmap_scan
    <3> QED
      BY <1>1, <3>1, StartFacts DEF end
  <2>2. CASE cnt # 1
    BY <1>1, <1>5, <2>2
  <2> QED
    BY <2>1, <2>2
<1>8. ASSUME end - 1 \in bits PROVE p + cnt <= end
  <2>1. end - 1 \notin p..(p + cnt - 1)
    BY <1>6, <1>8
  <2> QED
    BY <1>1, <1>5, <1>7, <2>1
<1> QED
  BY <1>1, <1>5, <1>6, <1>7, <1>8 DEF end
=============================================================================
