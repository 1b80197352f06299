------------------------------ MODULE Keyboard ------------------------------
(***************************************************************************)
(* The keyboard interrupt of device/keyboard.c and the queue kbd_buf it    *)
(* fills, with the tasks that read the queue (IoQueue.tla).  A key is      *)
(* named by its make code, a two-byte code by 0xe0xx as in the source, but *)
(* in decimal.                                                             *)
(* The character that the keymap gives for an index and a shift is the     *)
(* pair of the two, the invisible character is NULL.                       *)
(***************************************************************************)
EXTENDS IoQueue, FiniteSets

CONSTANTS
    Boards,     \* sets of keys: somebody plays on one of them (a bound)
    MaxDown     \* how many keys are held at once

Prefix == 224             \* 0xe0, before the second byte of a code
Ext    == 256 * Prefix    \* 0xe000

(* The codes of the keys.  No key breaks with the byte 0xe0 (0x60 + 0x80). *)
Codes == {n + e : n \in (1..127) \ {96}, e \in {0, Ext}}

ASSUME KeyboardAssumption ==
    /\ \A keys \in Boards : keys \subseteq Codes
    /\ MaxDown \in Nat

shift_l_make   == 42           \* 0x2a
shift_r_make   == 54           \* 0x36
alt_l_make     == 56           \* 0x38
alt_r_make     == Ext + 56     \* 0xe038
ctrl_l_make    == 29           \* 0x1d
ctrl_r_make    == Ext + 29     \* 0xe01d
caps_lock_make == 58           \* 0x3a

Shifts == {shift_l_make, shift_r_make}
Ctrls  == {ctrl_l_make, ctrl_r_make}
Alts   == {alt_l_make, alt_r_make}

VARIABLES
    ctrl_status, shift_status, alt_status, caps_lock_status, ext_scancode,
    board,      \* the keys in use
    down,       \* the keys that are held
    wire        \* the bytes that port 0x60 will give, one per interrupt

status == <<ctrl_status, shift_status, alt_status, caps_lock_status>>
kvars  == <<status, ext_scancode, board, down, wire>>
allvars == <<vars, kvars>>

KInit ==
    /\ Init
    /\ ctrl_status = FALSE /\ shift_status = FALSE /\ alt_status = FALSE
    /\ caps_lock_status = FALSE /\ ext_scancode = FALSE
    /\ board \in Boards /\ down = {} /\ wire = << >>

-----------------------------------------------------------------------------
(* The keyboard: a key that is pressed or repeats sends its make code, a   *)
(* key that is released its break code; 0xe0 goes before the second byte.  *)
(* It sends nothing while a code waits to be read: codes are read in the   *)
(* order they are sent, so a longer wire would only delay the handler.     *)
Bytes(k, up) ==
    LET byte == (k % 256) + (IF up THEN 128 ELSE 0)
    IN  IF k >= 256 THEN <<Prefix, byte>> ELSE <<byte>>

send(k, up) ==
    /\ kernel = "up" /\ wire = << >>
    /\ wire' = Bytes(k, up)
    /\ UNCHANGED <<vars, status, ext_scancode, board>>

press(k) ==
    /\ k \notin down
    /\ Cardinality(down) < MaxDown
    /\ down' = down \union {k}
    /\ send(k, FALSE)

repeat(k) == k \in down /\ send(k, FALSE) /\ UNCHANGED down

release(k) == k \in down /\ send(k, TRUE) /\ down' = down \ {k}

-----------------------------------------------------------------------------
(* The keys whose second character needs shift; every other key is taken   *)
(* for a letter, of which caps lock changes the case as well.              *)
ShiftOnly == (1..13) \union {26, 27, 39, 40, 41, 43, 51, 52, 53}

shift(scancode) ==
    IF scancode \in ShiftOnly THEN shift_status ELSE shift_status # caps_lock_status

keymap(index, sh) ==
    IF index \in {0, ctrl_l_make, shift_l_make, shift_r_make, alt_l_make, caps_lock_make}
      THEN NULL
      ELSE <<index, sh>>

(* What the keys in use can type is a character of the queue. *)
ASSUME CharsAssumption ==
    \A keys \in Boards : \A k \in keys \intersect 1..caps_lock_make : \A sh \in BOOLEAN :
        keymap(k, sh) \in Chars \union {NULL}

(* Mutant: an interrupt that finds the queue full stores all the same. *)
type_full(c) == store(c, asleep) /\ UNCHANGED <<initialised, holder, waiters, pc>>

(* A character is dropped when the queue is full. *)
type(c) ==
    \/ ~ioq_full /\ store(c, asleep) /\ UNCHANGED <<initialised, holder, waiters, pc>>
    \/ ioq_full /\ UNCHANGED vars

(* Mutant: the break code of the right shift is not looked for. *)
break_left(make_code) ==
    /\ ctrl_status' = (ctrl_status /\ make_code \notin Ctrls)
    /\ shift_status' = (shift_status /\ make_code # shift_l_make)
    /\ alt_status' = (alt_status /\ make_code \notin Alts)
    /\ UNCHANGED <<caps_lock_status, vars>>

break(make_code) ==
    /\ ctrl_status' = (ctrl_status /\ make_code \notin Ctrls)
    /\ shift_status' = (shift_status /\ make_code \notin Shifts)
    /\ alt_status' = (alt_status /\ make_code \notin Alts)
    /\ UNCHANGED <<caps_lock_status, vars>>

control_key(index) ==
    /\ ctrl_status' = (ctrl_status \/ index \in Ctrls)
    /\ shift_status' = (shift_status \/ index \in Shifts)
    /\ alt_status' = (alt_status \/ index \in Alts)
    /\ caps_lock_status' = (caps_lock_status # (index = caps_lock_make))
    /\ UNCHANGED vars

make(scancode) ==
    LET index == scancode % 256
        c     == keymap(index, shift(scancode))
    IN  \/ c # NULL /\ type(c) /\ UNCHANGED status
        \/ c = NULL /\ control_key(index)

Known(scancode) ==
    scancode \in 1..caps_lock_make \/ scancode \in {alt_r_make, ctrl_r_make}

(* The part of the handler behind the test for 0xe0: bit 7 tells a break   *)
(* code, and an unknown key is left alone.                                 *)
decode(scancode) ==
    LET break_code == scancode % 256 >= 128
    IN  \/ break_code /\ break(scancode - 128)
        \/ ~break_code /\ Known(scancode) /\ make(scancode)
        \/ ~break_code /\ ~Known(scancode) /\ UNCHANGED <<status, vars>>

intr_keyboard_handler ==
    /\ kernel = "up" /\ wire # << >>
    /\ wire' = Tail(wire)
    /\ \/ Head(wire) = Prefix /\ ext_scancode' = TRUE /\ UNCHANGED <<status, vars>>
       \/ /\ Head(wire) # Prefix
          /\ ext_scancode' = FALSE
          /\ decode(Head(wire) + (IF ext_scancode THEN Ext ELSE 0))
    /\ UNCHANGED <<board, down>>

KNext ==
    \/ Next /\ UNCHANGED kvars
    \/ \E k \in board : press(k) \/ repeat(k) \/ release(k)
    \/ intr_keyboard_handler

KSpec == KInit /\ [][KNext]_allvars

-----------------------------------------------------------------------------
(* When the handler has seen every byte, a status that says "down" is      *)
(* backed by a key that is held, however presses, repeats and releases of  *)
(* the left and the right key were mixed.  (The converse does not hold:    *)
(* releasing one of two shift keys clears shift_status.)                   *)
NoStuckKeys ==
    wire = << >> =>
        /\ shift_status => down \intersect Shifts # {}
        /\ ctrl_status  => down \intersect Ctrls # {}
        /\ alt_status   => down \intersect Alts # {}
        /\ ~ext_scancode
=============================================================================
