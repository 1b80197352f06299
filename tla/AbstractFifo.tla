---------------------------- MODULE AbstractFifo ----------------------------
(***************************************************************************)
(* What struct ioqueue promises: a bounded first-in first-out queue.       *)
(***************************************************************************)
EXTENDS Naturals, Sequences

CONSTANTS Consumers, Chars, Capacity, NULL

VARIABLES
    q,      \* the characters in the queue
    got     \* the last character each consumer was given

Init == q = << >> /\ got = [t \in Consumers |-> NULL]

Put(c) ==
    /\ Len(q) < Capacity
    /\ q' = Append(q, c)
    /\ UNCHANGED got

Get(t) ==
    /\ q # << >>
    /\ got' = [got EXCEPT ![t] = Head(q)]
    /\ q' = Tail(q)

Next == (\E c \in Chars : Put(c)) \/ (\E t \in Consumers : Get(t))

Spec == Init /\ [][Next]_<<q, got>>
=============================================================================
