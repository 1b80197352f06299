--------------------------- MODULE KeyboardProofs ---------------------------
(* The ring queue and the keyboard, for every size of the ring, any number *)
(* of tasks and any keys: the ring is a FIFO queue, nobody sleeps without  *)
(* a task that will wake him, and no control key is taken to be held that  *)
(* is not.                                                                 *)
EXTENDS Keyboard, SequenceTheorems, TLAPS

Values == Chars \union {NULL}

RingType ==
    /\ buf \in [0..(bufsize - 1) -> Values]
    /\ head \in 0..(bufsize - 1)
    /\ tail \in 0..(bufsize - 1)

Count == (head - tail + bufsize) % bufsize
At(i) == (tail + i - 1) % bufsize

(* The same without remainders, and the queue from the ring. *)
Positions ==
    /\ Count = IF head >= tail THEN head - tail ELSE head - tail + bufsize
    /\ Count \in 0..(bufsize - 1)
    /\ \A i \in 1..bufsize :
          At(i) = IF tail + i - 1 < bufsize THEN tail + i - 1 ELSE tail + i - 1 - bufsize
    /\ next_pos(head) = IF head = bufsize - 1 THEN 0 ELSE head + 1
    /\ next_pos(tail) = IF tail = bufsize - 1 THEN 0 ELSE tail + 1

Queued ==
    /\ Contents \in Seq(Values) /\ Len(Contents) = Count
    /\ \A i \in 1..Count : Contents[i] = buf[At(i)]

-----------------------------------------------------------------------------
(* Remainders up to twice the divisor. *)
LEMMA ModFacts ==
    ASSUME NEW n \in Nat, n > 1, NEW x \in Nat, x < 2 * n
    PROVE  x % n = IF x < n THEN x ELSE x - n
<1>1. CASE x < n
  BY <1>1
<1>2. CASE x >= n
  BY <1>2
<1> QED
  BY <1>1, <1>2

LEMMA SizeFacts == bufsize \in Nat /\ bufsize > 1
BY IoQueueAssumption

LEMMA PositionFacts == RingType => Positions
<1> SUFFICES ASSUME RingType PROVE Positions
  OBVIOUS
<1>0. /\ bufsize \in Nat /\ bufsize > 1
      /\ head \in Nat /\ head < bufsize /\ tail \in Nat /\ tail < bufsize
  BY SizeFacts DEF RingType
<1>1. Count = IF head >= tail THEN head - tail ELSE head - tail + bufsize
  <2> DEFINE x == head - tail + bufsize
  <2>1. x \in Nat /\ x < 2 * bufsize
    BY <1>0
  <2>2. x % bufsize = IF x < bufsize THEN x ELSE x - bufsize
    BY <1>0, <2>1, ModFacts
  <2> QED
    BY <1>0, <2>2 DEF Count
<1>2. ASSUME NEW i \in 1..bufsize
      PROVE  At(i) = IF tail + i - 1 < bufsize THEN tail + i - 1 ELSE tail + i - 1 - bufsize
  <2> DEFINE x == tail + i - 1
  <2>1. x \in Nat /\ x < 2 * bufsize
    BY <1>0
  <2>2. x % bufsize = IF x < bufsize THEN x ELSE x - bufsize
    BY <1>0, <2>1, ModFacts
  <2> QED
    BY <1>0, <2>1, <2>2 DEF At
<1>3. ASSUME NEW p \in 0..(bufsize - 1)
      PROVE  next_pos(p) = IF p = bufsize - 1 THEN 0 ELSE p + 1
  <2> DEFINE x == p + 1
  <2>1. x \in Nat /\ x < 2 * bufsize
    BY <1>0
  <2>2. x % bufsize = IF x < bufsize THEN x ELSE x - bufsize
    <3> HIDE DEF x
    <3> QED
      BY <1>0, <2>1, ModFacts
  <2> QED
    BY <1>0, <2>2 DEF next_pos
<1> QED
  BY <1>0, <1>1, <1>2, <1>3 DEF RingType, Positions

LEMMA ContentsFacts == RingType => Queued
<1> SUFFICES ASSUME RingType PROVE Queued
  OBVIOUS
<1>1. /\ Count \in Nat /\ Count <= bufsize - 1
      /\ \A i \in 1..Count : At(i) \in 0..(bufsize - 1)
  BY SizeFacts, PositionFacts DEF RingType, Positions
<1>2. \A i \in 1..Count : buf[At(i)] \in Values
  BY <1>1 DEF RingType
<1>3. Contents = [i \in 1..Count |-> buf[At(i)]]
  BY DEF Contents, Count, At
<1> HIDE DEF Count, At
<1> QED
  BY <1>1, <1>2, <1>3 DEF Queued

(* store puts a character behind the others, take takes the first one. *)
LEMMA PutRing ==
    ASSUME RingType, ~ioq_full, NEW c \in Chars,
           buf' = [buf EXCEPT ![head] = c], head' = next_pos(head), tail' = tail
    PROVE  RingType' /\ Len(Contents) < bufsize - 1 /\ Contents' = Append(Contents, c)
<1>0. /\ bufsize \in Nat /\ bufsize > 1
      /\ head \in Nat /\ head < bufsize /\ tail \in Nat /\ tail < bufsize
  BY SizeFacts DEF RingType
<1>1. head' = IF head = bufsize - 1 THEN 0 ELSE head + 1
  BY PositionFacts DEF Positions
<1>2. RingType'
  BY <1>0, <1>1 DEF RingType, Values
<1>P. Positions' /\ Queued'
  BY <1>2, PositionFacts, ContentsFacts, PTL
<1>3. Count < bufsize - 1 /\ Count' = Count + 1 /\ Count \in Nat
  <2>1. head' # tail
    BY DEF ioq_full
  <2>2. /\ Count = IF head >= tail THEN head - tail ELSE head - tail + bufsize
        /\ Count' = IF head' >= tail THEN head' - tail ELSE head' - tail + bufsize
    BY <1>P, PositionFacts DEF Positions
  <2> QED
    BY <1>0, <1>1, <2>1, <2>2
<1>4. \A i \in 1..(Count + 1) : At(i)' = At(i)
  BY DEF At
<1>5. At(Count + 1) = head /\ \A i \in 1..Count : At(i) # head /\ At(i) \in 0..(bufsize - 1)
  <2>1. /\ Count = IF head >= tail THEN head - tail ELSE head - tail + bufsize
        /\ \A i \in 1..bufsize :
              At(i) = IF tail + i - 1 < bufsize THEN tail + i - 1 ELSE tail + i - 1 - bufsize
    BY PositionFacts DEF Positions
  <2> HIDE DEF Count, At
  <2>2. Count + 1 \in 1..bufsize /\ \A i \in 1..Count : i \in 1..bufsize
    BY <1>0, <1>3
  <2>3. At(Count + 1) = head
    BY <1>0, <2>1, <2>2
  <2>4. ASSUME NEW i \in 1..Count PROVE At(i) # head /\ At(i) \in 0..(bufsize - 1)
    BY <1>0, <1>3, <2>1, <2>2
  <2> QED
    BY <2>3, <2>4
<1>6. /\ Contents \in Seq(Values) /\ Len(Contents) = Count
      /\ \A i \in 1..Count : Contents[i] = buf[At(i)]
  BY ContentsFacts DEF Queued
<1>7. /\ Contents' \in Seq(Values) /\ Len(Contents') = Count + 1
      /\ \A i \in 1..(Count + 1) : Contents'[i] = buf'[At(i)]
  <2>1. /\ (Contents \in Seq(Values) /\ Len(Contents) = Count)'
        /\ (\A i \in 1..Count : Contents[i] = buf[At(i)])'
    BY <1>P DEF Queued
  <2> HIDE DEF Count, At, Contents
  <2> QED
    BY <1>3, <1>4, <2>1 DEF Values
<1> HIDE DEF Count, At, Contents
<1>8. \A i \in 1..(Count + 1) : Contents'[i] = IF i <= Count THEN Contents[i] ELSE c
  <2>1. buf'[head] = c /\ \A p \in 0..(bufsize - 1) : p # head => buf'[p] = buf[p]
    BY <1>0 DEF RingType
  <2>2. ASSUME NEW i \in 1..(Count + 1), i <= Count PROVE Contents'[i] = Contents[i]
    <3>1. i \in 1..Count
      BY <1>3, <2>2
    <3> QED
      BY <1>5, <1>6, <1>7, <2>1, <3>1
  <2>3. ASSUME NEW i \in 1..(Count + 1), ~(i <= Count) PROVE Contents'[i] = c
    <3>1. i = Count + 1
      BY <1>3, <2>3
    <3> QED
      BY <1>5, <1>7, <2>1, <3>1
  <2> QED
    BY <2>2, <2>3
<1>9. c \in Values
  BY DEF Values
<1>10. /\ Append(Contents, c) \in Seq(Values) /\ Len(Append(Contents, c)) = Count + 1
       /\ \A i \in 1..(Count + 1) : Append(Contents, c)[i] = IF i <= Count THEN Contents[i] ELSE c
  BY <1>3, <1>6, <1>9
<1>11. Contents' = Append(Contents, c)
  BY <1>3, <1>7, <1>8, <1>10, SeqEqual
<1> QED
  BY <1>2, <1>3, <1>6, <1>11

LEMMA GetRing ==
    ASSUME RingType, ~ioq_empty, tail' = next_pos(tail), UNCHANGED <<buf, head>>
    PROVE  /\ RingType' /\ Contents # << >>
           /\ Head(Contents) = buf[tail] /\ Contents' = Tail(Contents)
<1>0. /\ bufsize \in Nat /\ bufsize > 1
      /\ head \in Nat /\ head < bufsize /\ tail \in Nat /\ tail < bufsize
  BY SizeFacts DEF RingType
<1>1. tail' = IF tail = bufsize - 1 THEN 0 ELSE tail + 1
  BY PositionFacts DEF Positions
<1>2. RingType'
  BY <1>0, <1>1 DEF RingType, Values
<1>P. Positions' /\ Queued'
  BY <1>2, PositionFacts, ContentsFacts, PTL
<1>3. Count > 0 /\ Count < bufsize /\ Count' = Count - 1 /\ Count \in Nat
  <2>2. /\ Count = IF head >= tail THEN head - tail ELSE head - tail + bufsize
        /\ Count' = IF head >= tail' THEN head - tail' ELSE head - tail' + bufsize
    BY <1>P, PositionFacts DEF Positions
  <2> QED
    BY <1>0, <1>1, <2>2 DEF ioq_empty
<1>4. At(1) = tail /\ \A i \in 1..(Count - 1) : At(i)' = At(i + 1)
  <2>1. /\ \A i \in 1..bufsize :
              At(i) = IF tail + i - 1 < bufsize THEN tail + i - 1 ELSE tail + i - 1 - bufsize
        /\ \A i \in 1..bufsize :
              At(i)' = IF tail' + i - 1 < bufsize THEN tail' + i - 1 ELSE tail' + i - 1 - bufsize
    BY <1>P, PositionFacts DEF Positions
  <2> HIDE DEF At, Count
  <2>2. At(1) = tail
    BY <1>0, <2>1
  <2>3. ASSUME NEW i \in 1..(Count - 1) PROVE At(i)' = At(i + 1)
    <3>1. i \in 1..bufsize /\ i + 1 \in 1..bufsize
      BY <1>0, <1>3
    <3>2. /\ At(i + 1) = IF tail + (i + 1) - 1 < bufsize THEN tail + (i + 1) - 1
                                                         ELSE tail + (i + 1) - 1 - bufsize
          /\ At(i)' = IF tail' + i - 1 < bufsize THEN tail' + i - 1 ELSE tail' + i - 1 - bufsize
      BY <2>1, <3>1
    <3> QED
      BY <1>0, <1>1, <1>3, <3>1, <3>2
  <2> QED
    BY <2>2, <2>3
<1>6. /\ Contents \in Seq(Values) /\ Len(Contents) = Count
      /\ \A i \in 1..Count : Contents[i] = buf[At(i)]
  BY ContentsFacts DEF Queued
<1>7. /\ Contents' \in Seq(Values) /\ Len(Contents') = Count - 1
      /\ \A i \in 1..(Count - 1) : Contents'[i] = Contents[i + 1]
  <2>1. /\ (Contents \in Seq(Values) /\ Len(Contents) = Count)'
        /\ (\A i \in 1..Count : Contents[i] = buf[At(i)])'
    BY <1>P DEF Queued
  <2> HIDE DEF Count, At, Contents
  <2>2. Contents' \in Seq(Values) /\ Len(Contents') = Count - 1
    BY <1>3, <2>1 DEF Values
  <2>3. ASSUME NEW i \in 1..(Count - 1) PROVE Contents'[i] = Contents[i + 1]
    <3>1. i + 1 \in 1..Count /\ i \in 1..Count'
      BY <1>3
    <3>2. Contents'[i] = buf'[At(i)'] /\ Contents[i + 1] = buf[At(i + 1)]
      BY <1>6, <2>1, <3>1
    <3> QED
      BY <1>4, <3>2
  <2> QED
    BY <2>2, <2>3
<1> HIDE DEF Count, At, Contents
<1>8. Contents # << >> /\ Head(Contents) = buf[tail]
  BY <1>3, <1>4, <1>6
<1>9. /\ Tail(Contents) \in Seq(Values) /\ Len(Tail(Contents)) = Count - 1
      /\ \A i \in 1..(Count - 1) : Tail(Contents)[i] = Contents[i + 1]
  BY <1>3, <1>6, <1>8
<1>10. Contents' = Tail(Contents)
  BY <1>3, <1>7, <1>9, SeqEqual
<1> QED
  BY <1>2, <1>8, <1>10

-----------------------------------------------------------------------------
(* The control keys that are taken to be held are among keys. *)
Backed(keys) ==
    /\ shift_status => keys \intersect Shifts # {}
    /\ ctrl_status  => keys \intersect Ctrls # {}
    /\ alt_status   => keys \intersect Alts # {}

LastByte(k, up) == (k % 256) + (IF up THEN 128 ELSE 0)

(* The bytes on the wire are those of one key, of which the handler may    *)
(* have seen the first: pressed and held, or just released.  Until the     *)
(* handler has seen them all, a status may be backed by that key.          *)
Pending(k, up) ==
    /\ up <=> k \notin down
    /\ \/ wire = Bytes(k, up) /\ ~ext_scancode
       \/ k >= 256 /\ wire = <<LastByte(k, up)>> /\ ext_scancode
    /\ Backed(down \union {k})

KeyInv ==
    /\ board \in Boards
    /\ shift_status \in BOOLEAN /\ ctrl_status \in BOOLEAN /\ alt_status \in BOOLEAN
    /\ caps_lock_status \in BOOLEAN /\ ext_scancode \in BOOLEAN
    /\ \/ wire = << >> /\ ~ext_scancode /\ Backed(down)
       \/ \E k \in board, up \in BOOLEAN : Pending(k, up)

(* What the two-byte codes and the break bit are made of. *)
LEMMA CodeFacts ==
    ASSUME NEW k \in Codes, NEW up \in BOOLEAN
    PROVE  /\ k \in Nat
           /\ LastByte(k, up) # Prefix
           /\ k >= 256 => /\ Bytes(k, up) = <<Prefix, LastByte(k, up)>>
                          /\ LastByte(k, up) + Ext = IF up THEN k + 128 ELSE k
           /\ k < 256 => /\ Bytes(k, up) = <<LastByte(k, up)>>
                         /\ LastByte(k, up) + 0 = IF up THEN k + 128 ELSE k
           /\ k % 256 < 128 /\ (k + 128) % 256 >= 128
<1>1. PICK n \in (1..127) \ {96}, e \in {0, Ext} : k = n + e
  BY DEF Codes
<1>2. CASE e = 0
  BY <1>1, <1>2 DEF Ext, Prefix, LastByte, Bytes
<1>3. CASE e = Ext
  BY <1>1, <1>3 DEF Ext, Prefix, LastByte, Bytes
<1> QED
  BY <1>1, <1>2, <1>3

(* The handler sees the prefix, or it decodes the key. *)
LEMMA HandlerFacts ==
    ASSUME KeyInv, intr_keyboard_handler
    PROVE  /\ UNCHANGED <<board, down>>
           /\ \E k \in board, up \in BOOLEAN :
                 /\ k \in Codes /\ Pending(k, up)
                 /\ \/ Pending(k, up)' /\ UNCHANGED <<status, vars>>
                    \/ /\ wire' = << >> /\ ~ext_scancode'
                       /\ decode(IF up THEN k + 128 ELSE k)
<1>1. UNCHANGED <<board, down>> /\ wire # << >> /\ wire' = Tail(wire)
  BY DEF intr_keyboard_handler
<1>2. PICK k \in board, up \in BOOLEAN : Pending(k, up)
  BY <1>1 DEF KeyInv
<1>3. k \in Codes
  BY KeyboardAssumption DEF KeyInv
<1>4. CASE k >= 256 /\ wire = Bytes(k, up) /\ ~ext_scancode
  <2>1. wire = <<Prefix, LastByte(k, up)>>
    BY <1>3, <1>4, CodeFacts
  <2>2. Head(wire) = Prefix /\ wire' = <<LastByte(k, up)>>
    BY <1>1, <2>1
  <2>3. ext_scancode' = TRUE /\ UNCHANGED <<status, vars>>
    BY <2>2 DEF intr_keyboard_handler
  <2>4. Pending(k, up)'
    BY <1>1, <1>2, <1>4, <2>2, <2>3 DEF Pending, Backed, status
  <2> QED
    BY <1>1, <1>2, <1>3, <2>3, <2>4
<1>5. CASE ~(k >= 256 /\ wire = Bytes(k, up) /\ ~ext_scancode)
  <2>0. k \in Nat
    BY <1>3, CodeFacts
  <2>1. wire = <<LastByte(k, up)>> /\ (ext_scancode <=> k >= 256)
    BY <1>2, <1>3, <1>5, <2>0, CodeFacts DEF Pending, KeyInv
  <2>2. Head(wire) = LastByte(k, up) /\ wire' = << >> /\ Head(wire) # Prefix
    BY <1>1, <1>3, <2>1, CodeFacts
  <2>3. ext_scancode' = FALSE /\ decode(LastByte(k, up) + (IF ext_scancode THEN Ext ELSE 0))
    BY <2>2 DEF intr_keyboard_handler
  <2>4. LastByte(k, up) + (IF ext_scancode THEN Ext ELSE 0) = IF up THEN k + 128 ELSE k
    BY <1>3, <2>0, <2>1, CodeFacts
  <2>5. decode(IF up THEN k + 128 ELSE k)
    BY <2>3, <2>4
  <2> QED
    BY <1>1, <1>2, <1>3, <2>2, <2>3, <2>5
<1> QED
  BY <1>4, <1>5

(* A break code clears a status, a make code sets one or types a character *)
(* of the board, or the key is unknown.                                    *)
LEMMA DecodeFacts ==
    ASSUME KeyInv, NEW k \in board, k \in Codes, NEW up \in BOOLEAN,
           decode(IF up THEN k + 128 ELSE k)
    PROVE  \/ up /\ break(k)
           \/ ~up /\ UNCHANGED status /\ \E c \in Chars : type(c)
           \/ ~up /\ Known(k) /\ control_key(k % 256)
           \/ ~up /\ UNCHANGED <<status, vars>>
<1>1. CASE up
  <2>1. k \in Nat /\ (k + 128) % 256 >= 128 /\ k + 128 - 128 = k
    BY CodeFacts
  <2> QED
    BY <1>1, <2>1 DEF decode
<1>2. CASE ~up
  <2>1. k \in Nat /\ ~(k % 256 >= 128) /\ decode(k)
    BY <1>2, CodeFacts
  <2>2. (Known(k) /\ make(k)) \/ UNCHANGED <<status, vars>>
    BY <2>1 DEF decode
  <2>3. ASSUME Known(k), make(k), keymap(k % 256, shift(k)) # NULL
        PROVE  UNCHANGED status /\ \E c \in Chars : type(c)
    <3>1. shift(k) \in BOOLEAN
      BY DEF shift, KeyInv
    <3>2. k \in 1..caps_lock_make
      BY <2>3 DEF Known, keymap, alt_r_make, ctrl_r_make, alt_l_make, ctrl_l_make, Ext, Prefix
    <3>3. k % 256 = k
      BY <3>2 DEF caps_lock_make
    <3>4. keymap(k, shift(k)) \in Chars
      <4>1. keymap(k, shift(k)) \in Chars \union {NULL}
        BY <3>1, <3>2, CharsAssumption DEF KeyInv
      <4> QED
        BY <2>3, <3>3, <4>1
    <3>5. UNCHANGED status /\ type(keymap(k % 256, shift(k)))
      BY <2>3 DEF make
    <3> QED
      BY <3>3, <3>4, <3>5
  <2>4. ASSUME Known(k), make(k), keymap(k % 256, shift(k)) = NULL
        PROVE  control_key(k % 256)
    BY <2>4 DEF make
  <2> QED
    BY <1>2, <2>2, <2>3, <2>4
<1> QED
  BY <1>1, <1>2

LEMMA KeyStep == KeyInv /\ [KNext]_allvars => KeyInv'
<1> SUFFICES ASSUME KeyInv, [KNext]_allvars PROVE KeyInv'
  OBVIOUS
<1>1. ASSUME UNCHANGED kvars PROVE KeyInv'
  BY <1>1 DEF KeyInv, Pending, Backed, kvars, status
<1>2. ASSUME NEW k \in board, NEW up \in BOOLEAN, send(k, up),
             down' = IF up THEN down \ {k} ELSE down \union {k}, up => k \in down
      PROVE  KeyInv'
  <2>1. /\ UNCHANGED <<status, ext_scancode, board>>
        /\ wire = << >> /\ wire' = Bytes(k, up)
    BY <1>2 DEF send
  <2>2. ~ext_scancode /\ Backed(down)
    <3>1. ASSUME NEW u \in board, NEW b \in BOOLEAN, Pending(u, b) PROVE FALSE
      BY <2>1, <3>1 DEF Pending, Bytes
    <3> QED
      BY <3>1 DEF KeyInv
  <2>3. Pending(k, up)'
    BY <1>2, <2>1, <2>2 DEF Pending, Backed, status
  <2> QED
    BY <1>2, <2>1, <2>3 DEF KeyInv, status
<1>3. ASSUME intr_keyboard_handler PROVE KeyInv'
  <2>0. UNCHANGED <<board, down>> /\ ext_scancode' \in BOOLEAN
    BY <1>3, HandlerFacts DEF intr_keyboard_handler
  <2>1. PICK k \in board, up \in BOOLEAN :
                 /\ k \in Codes /\ Pending(k, up)
                 /\ \/ Pending(k, up)' /\ UNCHANGED <<status, vars>>
                    \/ /\ wire' = << >> /\ ~ext_scancode'
                       /\ decode(IF up THEN k + 128 ELSE k)
    BY <1>3, HandlerFacts
  <2>2. CASE Pending(k, up)' /\ UNCHANGED <<status, vars>>
    BY <2>0, <2>1, <2>2 DEF KeyInv, status
  <2>3. CASE wire' = << >> /\ ~ext_scancode' /\ decode(IF up THEN k + 128 ELSE k)
    <3>1. (up <=> k \notin down) /\ Backed(down \union {k})
      BY <2>1 DEF Pending
    <3>2. CASE up /\ break(k)
      BY <2>0, <2>3, <3>1, <3>2 DEF KeyInv, Backed, break
    <3>3. CASE ~up /\ UNCHANGED status
      BY <2>0, <2>3, <3>1, <3>3 DEF KeyInv, Backed, status
    <3>4. CASE ~up /\ Known(k) /\ control_key(k % 256)
      <4>0. /\ k % 256 \in Shifts => k \in Shifts
            /\ k % 256 \in Ctrls => k \in Ctrls
            /\ k % 256 \in Alts => k \in Alts
        BY <3>4 DEF Known, Shifts, Ctrls, Alts, shift_l_make, shift_r_make, ctrl_l_make, ctrl_r_make,
             alt_l_make, alt_r_make, caps_lock_make, Ext, Prefix
      <4>1. k \in down /\ Backed(down)
        BY <3>1, <3>4 DEF Backed
      <4> QED
        BY <2>0, <2>3, <4>0, <4>1, <3>4 DEF KeyInv, Backed, control_key
    <3> QED
      BY <2>1, <2>3, <3>2, <3>3, <3>4, DecodeFacts DEF status
  <2> QED
    BY <2>1, <2>2, <2>3
<1>4. ASSUME NEW k \in board, press(k) PROVE KeyInv'
  BY <1>2, <1>4 DEF press
<1>5. ASSUME NEW k \in board, repeat(k) PROVE KeyInv'
  BY <1>2, <1>5 DEF repeat
<1>6. ASSUME NEW k \in board, release(k) PROVE KeyInv'
  BY <1>2, <1>6 DEF release
<1> QED
  BY <1>1, <1>3, <1>4, <1>5, <1>6 DEF KNext, allvars

LEMMA KeyInvInit == KInit => KeyInv
BY DEF KInit, KeyInv, Backed

(* No control key is taken to be held that is not, however its presses,    *)
(* repeats and releases are mixed with those of other keys, with one-byte  *)
(* and with two-byte codes: intr_keyboard_handler pairs every break code   *)
(* with its make code.                                                     *)
THEOREM KeysDoNotStick == KSpec => []NoStuckKeys
<1>1. KeyInv => NoStuckKeys
  <2> SUFFICES ASSUME KeyInv, wire = << >> PROVE ~ext_scancode /\ Backed(down)
    BY DEF NoStuckKeys, Backed
  <2>1. ASSUME NEW u \in board, NEW b \in BOOLEAN, Pending(u, b) PROVE FALSE
    BY <2>1 DEF Pending, Bytes
  <2> QED
    BY <2>1 DEF KeyInv
<1> QED
  BY <1>1, KeyInvInit, KeyStep, PTL DEF KSpec

-----------------------------------------------------------------------------
(* A step of a task or of the handler leaves the ring alone, stores one    *)
(* character in a ring that is not full or takes one from a ring that is   *)
(* not empty.                                                              *)
Putting(c) == \E s \in SUBSET asleep : store(c, s)
Taking(t)  == \E s \in SUBSET asleep : take(t, s)

LEMMA RingSteps ==
    ASSUME KeyInv, [KNext]_allvars
    PROVE  \/ UNCHANGED <<ring, got>>
           \/ \E c \in Chars : ~ioq_full /\ Putting(c)
           \/ \E t \in Consumers : ~ioq_empty /\ Taking(t)
<1> DEFINE Goal == \/ UNCHANGED <<ring, got>>
                   \/ \E c \in Chars : ~ioq_full /\ Putting(c)
                   \/ \E t \in Consumers : ~ioq_empty /\ Taking(t)
<1>1. ASSUME NEW t \in Tasks, NEW s \in SUBSET asleep, ~MustWait(t), transfer(t, s) PROVE Goal
  <2>1. CASE t \in Consumers /\ take(t, s)
    BY <1>1, <2>1 DEF Taking, MustWait
  <2>2. CASE t \in Producers /\ \E c \in TaskChars : store(c, s)
    <3>1. ~ioq_full
      BY <1>1, <2>2, IoQueueAssumption DEF MustWait
    <3>2. PICK c \in TaskChars : store(c, s)
      BY <2>2
    <3> QED
      BY <1>1, <3>1, <3>2, IoQueueAssumption DEF Putting
  <2> QED
    BY <1>1, <2>1, <2>2 DEF transfer
<1>2. ASSUME NEW t \in Tasks, NEW s, ioq_wait(t, s) PROVE Goal
  BY <1>2 DEF ioq_wait
<1>3. ASSUME NEW t \in Tasks, lock_wait(t) PROVE Goal
  BY <1>3 DEF lock_wait
<1>4. ASSUME NEW t \in Tasks, ioq_call(t) PROVE Goal
  <2>1. asleep \in SUBSET asleep
    OBVIOUS
  <2> QED
    BY <1>1, <1>2, <1>3, <1>4, <2>1 DEF ioq_call
<1>5. ASSUME NEW t \in Tasks, lock_resume(t) PROVE Goal
  BY <1>2, <1>3, <1>5 DEF lock_resume
<1>6. ASSUME NEW t \in Tasks, wait_resume(t) PROVE Goal
  <2> DEFINE woken == IF waiters = << >> THEN {} ELSE {Head(waiters)}
  <2>1. asleep \ woken \in SUBSET asleep
    OBVIOUS
  <2>2. (~MustWait(t) /\ transfer(t, asleep \ woken)) \/ ioq_wait(t, asleep \ woken)
    BY <1>6 DEF wait_resume
  <2> HIDE DEF woken, Goal
  <2> QED
    BY <1>1, <1>2, <2>1, <2>2
<1>7. ASSUME NEW k \in board, press(k) \/ repeat(k) \/ release(k) PROVE Goal
  BY <1>7 DEF press, repeat, release, send, vars
<1>8. CASE intr_keyboard_handler
  <2>1. PICK k \in board, up \in BOOLEAN :
                 /\ k \in Codes
                 /\ UNCHANGED vars \/ decode(IF up THEN k + 128 ELSE k)
    BY <1>8, HandlerFacts
  <2>2. UNCHANGED vars \/ break(k) \/ (\E c \in Chars : type(c)) \/ control_key(k % 256)
    BY <2>1, DecodeFacts
  <2>3. UNCHANGED vars \/ \E c \in Chars : ~ioq_full /\ store(c, asleep)
    BY <2>2 DEF break, control_key, type
  <2>4. asleep \in SUBSET asleep
    OBVIOUS
  <2> QED
    BY <2>3, <2>4 DEF Putting, vars
<1>9. CASE UNCHANGED allvars
  BY <1>9 DEF allvars, vars
<1> QED
  BY <1>4, <1>5, <1>6, <1>7, <1>8, <1>9 DEF KNext, Next, Resume, hang, vars

LEMMA RingTypeStep == KeyInv /\ RingType /\ [KNext]_allvars => RingType'
<1> SUFFICES ASSUME KeyInv, RingType, [KNext]_allvars PROVE RingType'
  OBVIOUS
<1>1. CASE UNCHANGED <<ring, got>>
  BY <1>1 DEF RingType, ring
<1>2. ASSUME NEW c \in Chars, ~ioq_full, Putting(c) PROVE RingType'
  BY <1>2, PutRing DEF Putting, store
<1>3. ASSUME NEW t \in Consumers, ~ioq_empty, Taking(t) PROVE RingType'
  BY <1>3, GetRing DEF Taking, take
<1> QED
  BY <1>1, <1>2, <1>3, RingSteps

LEMMA RingInit == KInit => RingType /\ Contents = << >>
<1> SUFFICES ASSUME KInit PROVE RingType /\ Contents = << >>
  OBVIOUS
<1>1. RingType /\ head = tail
  BY SizeFacts DEF KInit, Init, RingType, Values
<1>2. Positions /\ Queued
  BY <1>1, PositionFacts, ContentsFacts
<1>3. Count = 0
  BY <1>1, <1>2, SizeFacts DEF Positions, RingType
<1>4. Contents \in Seq(Values) /\ Len(Contents) = 0
  BY <1>2, <1>3 DEF Queued
<1> HIDE DEF Contents
<1> QED
  BY <1>1, <1>4

(* The ring of ioqueue.c, with its free slot and its indices that wrap     *)
(* around, is a FIFO queue of bufsize - 1 characters for the tasks and for *)
(* the interrupt handler together: a character that is stored is read      *)
(* once, in order, and none is overwritten.                                *)
THEOREM RingIsFifo == KSpec => FifoRefined
<1>1. KInit => Fifo!Init
  BY RingInit DEF KInit, Init, Fifo!Init
<1>2. ASSUME KeyInv, RingType, [KNext]_allvars PROVE [Fifo!Next]_<<Contents, got>>
  <2>1. CASE UNCHANGED <<ring, got>>
    BY <2>1 DEF ring, Contents
  <2>2. ASSUME NEW c \in Chars, ~ioq_full, Putting(c) PROVE Fifo!Next
    <3>1. got' = got
      BY <2>2 DEF Putting, store
    <3>2. Len(Contents) < bufsize - 1 /\ Contents' = Append(Contents, c)
      BY <1>2, <2>2, PutRing DEF Putting, store
    <3> QED
      BY <3>1, <3>2 DEF Fifo!Next, Fifo!Put
  <2>3. ASSUME NEW t \in Consumers, ~ioq_empty, Taking(t) PROVE Fifo!Next
    <3>1. got' = [got EXCEPT ![t] = buf[tail]]
      BY <2>3 DEF Taking, take
    <3>2. Contents # << >> /\ Head(Contents) = buf[tail] /\ Contents' = Tail(Contents)
      BY <1>2, <2>3, GetRing DEF Taking, take
    <3> QED
      BY <3>1, <3>2 DEF Fifo!Next, Fifo!Get
  <2> QED
    BY <1>2, <2>1, <2>2, <2>3, RingSteps
<1> QED
  BY <1>1, <1>2, RingInit, RingTypeStep, KeyInvInit, KeyStep, PTL DEF KSpec, FifoRefined, Fifo!Spec

-----------------------------------------------------------------------------
(* The tasks and what they sleep on: the one in ioq_wait has the lock and, *)
(* while it sleeps, is recorded as consumer or producer; the others that   *)
(* sleep are in the lock's list, once, and while there are any the lock is *)
(* taken or one of them is awake to take it.                               *)
TaskType ==
    /\ pc \in [Tasks -> {"home", "lock", "waiting"}]
    /\ asleep \subseteq Tasks
    /\ waiters \in Seq(Tasks)
    /\ holder \in Tasks \union {NULL}
    /\ consumer \in Consumers \union {NULL} /\ producer \in Producers \union {NULL}
    /\ kernel = "up"

WaiterInv ==
    /\ \A t \in Tasks : pc[t] = "waiting" <=> holder = t
    /\ consumer # NULL => consumer \in asleep /\ holder = consumer
    /\ producer # NULL => producer \in asleep /\ holder = producer
    /\ \A t \in asleep : pc[t] = "waiting" => t \in {consumer, producer}
    /\ \A t \in asleep : pc[t] # "home"

Listed(t) == \E i \in 1..Len(waiters) : waiters[i] = t

LockListInv ==
    /\ \A i \in 1..Len(waiters) : waiters[i] \in asleep /\ pc[waiters[i]] = "lock"
    /\ \A i, j \in 1..Len(waiters) : waiters[i] = waiters[j] => i = j
    /\ \A t \in asleep : pc[t] = "lock" => Listed(t)
    /\ waiters # << >> => holder # NULL \/ \E u \in Tasks \ asleep : pc[u] = "lock"

SleepInv == TaskType /\ WaiterInv /\ LockListInv

LEMMA TaskFacts ==
    /\ NULL \notin Tasks /\ Consumers \subseteq Tasks /\ Producers \subseteq Tasks
    /\ Consumers \intersect Producers = {}
BY IoQueueAssumption DEF Tasks

(* Data moves, and the waiter of the other kind is woken (unless it had    *)
(* been woken before): nobody else wakes or falls asleep.                  *)
LEMMA MoveStep ==
    ASSUME SleepInv, UNCHANGED <<holder, waiters, pc>>,
           \/ \E c \in Chars : store(c, asleep)
           \/ \E t \in Consumers : take(t, asleep)
    PROVE  SleepInv'
<1> USE TaskFacts DEF SleepInv, TaskType, WaiterInv, LockListInv, Listed
<1>1. \/ /\ consumer' = NULL /\ producer' = producer /\ asleep' = asleep \ {consumer}
         /\ kernel' = "up"
      \/ /\ producer' = NULL /\ consumer' = consumer /\ asleep' = asleep \ {producer}
         /\ kernel' = "up"
  BY DEF store, take, ASSERT
<1>2. TaskType'
  BY <1>1
<1>3. WaiterInv'
  <2>1. consumer # NULL /\ producer # NULL => consumer # producer
    BY IoQueueAssumption
  <2> QED
    BY <1>1, <2>1
<1>4. LockListInv'
  <2>1. \A i \in 1..Len(waiters) : waiters[i] \in asleep' /\ pc[waiters[i]] = "lock"
    BY <1>1
  <2> QED
    BY <1>1, <2>1
<1> QED
  BY <1>2, <1>3, <1>4

(* A task that is not in the list gets the free lock and waits for data or *)
(* for room.                                                               *)
LEMMA WaitStep ==
    ASSUME SleepInv, NEW t \in Tasks, t \notin asleep, holder = NULL,
           ioq_wait(t, asleep), UNCHANGED waiters
    PROVE  SleepInv'
<1> USE TaskFacts DEF SleepInv, TaskType
<1>0. consumer = NULL /\ producer = NULL
  BY DEF WaiterInv
<1>1. /\ holder' = t /\ pc' = [pc EXCEPT ![t] = "waiting"] /\ asleep' = asleep \union {t}
      /\ kernel' = "up"
      /\ \/ t \in Consumers /\ consumer' = t /\ producer' = NULL
         \/ t \in Producers /\ producer' = t /\ consumer' = NULL
  BY <1>0 DEF ioq_wait, ASSERT
<1>2. TaskType'
  BY <1>1
<1>3. WaiterInv'
  BY <1>0, <1>1 DEF WaiterInv
<1>4. LockListInv'
  BY <1>1 DEF LockListInv, Listed
<1> QED
  BY <1>2, <1>3, <1>4

(* A task that finds the lock taken goes to the end of its list. *)
LEMMA LockWaitStep ==
    ASSUME SleepInv, initialised, NEW t \in Tasks, t \notin asleep, pc[t] # "waiting",
           holder # NULL, lock_wait(t)
    PROVE  SleepInv'
<1> USE TaskFacts DEF SleepInv, TaskType
<1>1. /\ waiters' = Append(waiters, t) /\ pc' = [pc EXCEPT ![t] = "lock"]
      /\ asleep' = asleep \union {t} /\ kernel' = "up"
      /\ UNCHANGED <<consumer, producer, holder>>
  BY DEF lock_wait, ASSERT
<1>2. TaskType'
  <2>1. waiters' \in Seq(Tasks)
    BY <1>1, AppendProperties
  <2> QED
    BY <1>1, <2>1
<1>3. WaiterInv'
  BY <1>1 DEF WaiterInv
<1>4. LockListInv'
  <2>1. /\ Len(waiters') = Len(waiters) + 1 /\ Len(waiters) \in Nat
        /\ \A i \in 1..Len(waiters) : waiters'[i] = waiters[i]
        /\ waiters'[Len(waiters) + 1] = t
    BY <1>1
  <2>2. \A i \in 1..Len(waiters) : waiters[i] # t
    BY DEF LockListInv
  <2>3. \A i \in 1..Len(waiters') : waiters'[i] \in asleep' /\ pc'[waiters'[i]] = "lock"
    BY <1>1, <2>1 DEF LockListInv
  <2>4. \A i, j \in 1..Len(waiters') : waiters'[i] = waiters'[j] => i = j
    BY <2>1, <2>2 DEF LockListInv
  <2>5. \A u \in asleep' : pc'[u] = "lock" => Listed(u)'
    <3>1. Listed(t)'
      BY <2>1 DEF Listed
    <3>2. ASSUME NEW u \in asleep, Listed(u) PROVE Listed(u)'
      BY <2>1, <3>2 DEF Listed
    <3> QED
      BY <1>1, <3>1, <3>2 DEF LockListInv
  <2> QED
    BY <1>1, <2>3, <2>4, <2>5 DEF LockListInv
<1> QED
  BY <1>2, <1>3, <1>4

(* The waiter was woken: lock_release wakes the first of the lock's list,  *)
(* and the waiter moves its data or becomes the waiter again.              *)
LEMMA ResumeStep ==
    ASSUME SleepInv, NEW t \in Tasks, wait_resume(t)
    PROVE  SleepInv'
<1> USE TaskFacts DEF SleepInv, TaskType
<1> DEFINE woken == IF waiters = << >> THEN {} ELSE {Head(waiters)}
<1>0. /\ pc[t] = "waiting" /\ t \notin asleep /\ holder = t
      /\ waiters' = IF waiters = << >> THEN waiters ELSE Tail(waiters)
      /\ consumer = NULL /\ producer = NULL
  BY DEF wait_resume, Up, WaiterInv
<1>1. /\ kernel' = "up"
      /\ \/ /\ holder' = NULL /\ pc' = [pc EXCEPT ![t] = "home"]
            /\ consumer' = NULL /\ producer' = NULL /\ asleep' = asleep \ woken
         \/ /\ holder' = t /\ pc' = [pc EXCEPT ![t] = "waiting"]
            /\ asleep' = (asleep \ woken) \union {t}
            /\ \/ t \in Consumers /\ consumer' = t /\ producer' = NULL
               \/ t \in Producers /\ producer' = t /\ consumer' = NULL
  <2>1. CASE transfer(t, asleep \ woken) /\ holder' = NULL /\ pc' = [pc EXCEPT ![t] = "home"]
    BY <1>0, <2>1 DEF transfer, store, take, ASSERT
  <2>2. CASE ioq_wait(t, asleep \ woken)
    BY <1>0, <2>2 DEF ioq_wait, ASSERT
  <2> QED
    BY <2>1, <2>2 DEF wait_resume
<1>2. CASE waiters = << >>
  <2>1. woken = {} /\ waiters' = << >> /\ \A u \in asleep : pc[u] # "lock"
    BY <1>0, <1>2 DEF LockListInv, Listed
  <2> HIDE DEF woken
  <2>2. TaskType'
    BY <1>0, <1>1, <2>1
  <2>3. WaiterInv'
    BY <1>0, <1>1, <2>1 DEF WaiterInv
  <2>4. LockListInv'
    BY <1>0, <1>1, <2>1 DEF LockListInv, Listed
  <2> QED
    BY <2>2, <2>3, <2>4
<1>3. CASE waiters # << >>
  <2> DEFINE w == Head(waiters)
             n == Len(waiters)
  <2>1. /\ waiters' = Tail(waiters) /\ woken = {w} /\ n \in Nat /\ n > 0 /\ w = waiters[1]
        /\ waiters' \in Seq(Tasks) /\ Len(waiters') = n - 1
        /\ \A i \in 1..(n - 1) : waiters'[i] = waiters[i + 1]
    BY <1>0, <1>3
  <2>2. w \in asleep /\ pc[w] = "lock" /\ w # t /\ w \in Tasks
    BY <1>0, <2>1 DEF LockListInv
  <2>a. /\ \A i \in 1..n : waiters[i] \in asleep /\ pc[waiters[i]] = "lock"
        /\ \A i, j \in 1..n : waiters[i] = waiters[j] => i = j
    BY DEF LockListInv
  <2>b. asleep \subseteq Tasks /\ \A u \in asleep : pc[u] = "lock" => \E i \in 1..n : waiters[i] = u
    BY DEF LockListInv, Listed
  <2> HIDE DEF woken, w, n
  <2>3. TaskType'
    BY <1>0, <1>1, <2>1
  <2>4. WaiterInv'
    BY <1>0, <1>1, <2>1, <2>2 DEF WaiterInv
  <2>5. \A i \in 1..(n - 1) : waiters'[i] \in asleep' /\ pc'[waiters'[i]] = "lock"
    <3> SUFFICES ASSUME NEW i \in 1..(n - 1)
                 PROVE  waiters'[i] \in asleep' /\ pc'[waiters'[i]] = "lock"
      OBVIOUS
    <3>1. i + 1 \in 1..n /\ 1 \in 1..n /\ i + 1 # 1
      BY <2>1
    <3>2. waiters[i + 1] \in asleep \ {w} /\ pc[waiters[i + 1]] = "lock"
      BY <2>1, <2>a, <3>1
    <3> QED
      BY <1>0, <1>1, <2>1, <2>b, <3>2
  <2>6. \A i, j \in 1..(n - 1) : waiters'[i] = waiters'[j] => i = j
    BY <2>1, <2>a
  <2>7. ASSUME NEW u \in asleep', pc'[u] = "lock" PROVE Listed(u)'
    <3>1. u \in asleep \ {w} /\ pc[u] = "lock"
      BY <1>0, <1>1, <2>1, <2>b, <2>7
    <3>2. PICK i \in 1..n : waiters[i] = u
      BY <2>b, <3>1
    <3>3. i - 1 \in 1..(n - 1) /\ waiters'[i - 1] = u
      BY <2>1, <3>1, <3>2
    <3> QED
      BY <2>1, <3>3 DEF Listed
  <2>8. w \in Tasks \ asleep' /\ pc'[w] = "lock"
    BY <1>0, <1>1, <2>1, <2>2
  <2>9. LockListInv'
    BY <2>1, <2>5, <2>6, <2>7, <2>8 DEF LockListInv
  <2> QED
    BY <2>3, <2>4, <2>9
<1> QED
  BY <1>2, <1>3

LEMMA SleepStep == initialised /\ KeyInv /\ SleepInv /\ [KNext]_allvars => SleepInv'
<1> SUFFICES ASSUME initialised, KeyInv, SleepInv, [KNext]_allvars PROVE SleepInv'
  OBVIOUS
<1>0. ASSUME UNCHANGED vars PROVE SleepInv'
  BY <1>0 DEF SleepInv, TaskType, WaiterInv, LockListInv, Listed, vars, queue
<1>1. ASSUME NEW t \in Tasks, ioq_call(t) PROVE SleepInv'
  <2>0. t \notin asleep /\ pc[t] = "home"
    BY <1>1 DEF ioq_call, Up
  <2>1. CASE transfer(t, asleep) /\ UNCHANGED <<holder, waiters, pc>>
    BY <2>1, MoveStep, IoQueueAssumption DEF transfer
  <2>2. CASE LockFree /\ ioq_wait(t, asleep) /\ UNCHANGED waiters
    BY <2>0, <2>2, WaitStep DEF LockFree
  <2>3. CASE ~LockFree /\ lock_wait(t)
    BY <2>0, <2>3, LockWaitStep DEF LockFree
  <2> QED
    BY <1>1, <2>1, <2>2, <2>3 DEF ioq_call
<1>2. ASSUME NEW t \in Tasks, lock_resume(t) PROVE SleepInv'
  BY <1>2, WaitStep, LockWaitStep DEF lock_resume, Up
<1>3. ASSUME NEW t \in Tasks, wait_resume(t) PROVE SleepInv'
  BY <1>3, ResumeStep
<1>4. ASSUME NEW k \in board, press(k) \/ repeat(k) \/ release(k) PROVE SleepInv'
  BY <1>0, <1>4 DEF press, repeat, release, send
<1>5. CASE intr_keyboard_handler
  <2>1. PICK k \in board, up \in BOOLEAN :
                 /\ k \in Codes
                 /\ UNCHANGED vars \/ decode(IF up THEN k + 128 ELSE k)
    BY <1>5, HandlerFacts
  <2>2. UNCHANGED vars \/ break(k) \/ (\E c \in Chars : type(c)) \/ control_key(k % 256)
    BY <2>1, DecodeFacts
  <2>3. \/ UNCHANGED vars
        \/ UNCHANGED <<holder, waiters, pc>> /\ \E c \in Chars : store(c, asleep)
    BY <2>2 DEF break, control_key, type
  <2> QED
    BY <1>0, <2>3, MoveStep
<1> QED
  BY <1>0, <1>1, <1>2, <1>3, <1>4, <1>5 DEF KNext, Next, Resume, hang, allvars

(* In a queue that nobody initialised every task is at home until the      *)
(* first one goes for the lock, and does not come back.                    *)
IdleInv ==
    /\ asleep = {} /\ consumer = NULL /\ producer = NULL
    /\ \A t \in Tasks : pc[t] = "home"

LEMMA IdleStep ==
    ASSUME ~initialised, IdleInv, KeyInv, kernel = "up", [KNext]_allvars
    PROVE  ~initialised' /\ (kernel' = "panic" \/ (kernel' = "up" /\ IdleInv'))
<1> DEFINE Goal == ~initialised' /\ (kernel' = "panic" \/ (kernel' = "up" /\ IdleInv'))
<1>0. ASSUME UNCHANGED vars PROVE Goal
  BY <1>0 DEF IdleInv, vars, queue
<1>1. ASSUME UNCHANGED <<initialised, pc>>,
             \/ \E c : store(c, asleep)
             \/ \E t \in Consumers : take(t, asleep)
      PROVE  Goal
  BY <1>1 DEF IdleInv, store, take, ASSERT
<1>2. ASSUME NEW t \in Tasks, ioq_call(t), UNCHANGED initialised PROVE Goal
  <2>1. CASE transfer(t, asleep) /\ UNCHANGED <<holder, waiters, pc>>
    BY <1>1, <1>2, <2>1 DEF transfer
  <2>2. CASE lock_wait(t)
    BY <1>2, <2>2 DEF lock_wait, ASSERT
  <2> QED
    BY <1>2, <2>1, <2>2 DEF ioq_call, LockFree
<1>3. ASSUME NEW t \in Tasks, Resume(t) PROVE FALSE
  BY <1>3 DEF Resume, lock_resume, wait_resume, Up, IdleInv
<1>4. ASSUME NEW k \in board, press(k) \/ repeat(k) \/ release(k) PROVE Goal
  BY <1>0, <1>4 DEF press, repeat, release, send
<1>5. CASE intr_keyboard_handler
  <2>1. PICK k \in board, up \in BOOLEAN :
                 /\ k \in Codes
                 /\ UNCHANGED vars \/ decode(IF up THEN k + 128 ELSE k)
    BY <1>5, HandlerFacts
  <2>2. UNCHANGED vars \/ break(k) \/ (\E c \in Chars : type(c)) \/ control_key(k % 256)
    BY <2>1, DecodeFacts
  <2>3. \/ UNCHANGED vars
        \/ UNCHANGED <<initialised, pc>> /\ \E c : store(c, asleep)
    BY <2>2 DEF break, control_key, type
  <2> QED
    BY <1>0, <1>1, <2>3
<1> QED
  BY <1>0, <1>2, <1>3, <1>4, <1>5 DEF KNext, Next, hang, allvars

(* Nothing happens any more once the kernel has stopped. *)
LEMMA StoppedStep ==
    ASSUME kernel = "panic", [KNext]_allvars
    PROVE  UNCHANGED <<initialised, kernel>>
BY DEF KNext, Next, hang, Resume, ioq_call, lock_resume, wait_resume, Up, press, repeat, release, send,
   intr_keyboard_handler, allvars, vars

QueueInv ==
    IF initialised THEN SleepInv ELSE kernel = "panic" \/ (kernel = "up" /\ IdleInv)

LEMMA QueueStep == KeyInv /\ QueueInv /\ [KNext]_allvars => QueueInv'
<1> SUFFICES ASSUME KeyInv, QueueInv, [KNext]_allvars PROVE QueueInv'
  OBVIOUS
<1>1. CASE initialised
  <2>1. SleepInv'
    BY <1>1, SleepStep DEF QueueInv
  <2>2. initialised' = initialised
    BY <1>1 DEF KNext, Next, hang, press, repeat, release, send, intr_keyboard_handler, decode, make,
       type, break, control_key, allvars, vars
  <2> QED
    BY <1>1, <2>1, <2>2 DEF QueueInv
<1>2. CASE ~initialised /\ kernel = "panic"
  BY <1>2, StoppedStep DEF QueueInv
<1>3. CASE ~initialised /\ kernel = "up" /\ IdleInv
  BY <1>3, IdleStep DEF QueueInv
<1> QED
  BY <1>1, <1>2, <1>3 DEF QueueInv

(* In a queue that has been initialised no wakeup is lost between          *)
(* ioq_wait, wakeup and the queue's lock, with any number of readers and   *)
(* writers and with the interrupt handler that stores between any two of   *)
(* their steps, and none of the ASSERTs of ioqueue.c fails.  In one that   *)
(* has not, nobody sleeps before the kernel stops.                         *)
THEOREM SleepersAreKnown == KSpec => []SleeperKnown
<1>1. KInit => QueueInv
  BY TaskFacts DEF KInit, Init, QueueInv, SleepInv, TaskType, WaiterInv, LockListInv, IdleInv
<1>2. ASSUME QueueInv PROVE SleeperKnown
  <2>1. CASE initialised
    <3>1. SleepInv
      BY <1>2, <2>1 DEF QueueInv
    <3>2. ASSUME NEW t \in asleep, pc[t] = "lock"
          PROVE  /\ t \in {waiters[i] : i \in 1..Len(waiters)}
                 /\ holder # NULL \/ \E u \in Tasks \ asleep : pc[u] = "lock"
      BY <3>1, <3>2 DEF SleepInv, LockListInv, Listed
    <3> QED
      BY <3>1, <3>2 DEF SleepInv, TaskType, WaiterInv, SleeperKnown
  <2>2. CASE ~initialised
    BY <1>2, <2>2 DEF QueueInv, IdleInv, SleeperKnown
  <2> QED
    BY <2>1, <2>2
<1> QED
  BY <1>1, <1>2, QueueStep, KeyInvInit, KeyStep, PTL DEF KSpec
=============================================================================
