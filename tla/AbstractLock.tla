---------------------------- MODULE AbstractLock ----------------------------
(***************************************************************************)
(* What struct lock promises its callers: a recursive mutual-exclusion     *)
(* lock.  held[t][l] is the number of lock_acquire(l) calls of task t that *)
(* have returned and whose lock_release(l) has not yet been called.        *)
(***************************************************************************)
EXTENDS Naturals

CONSTANTS Tasks, AllLocks

VARIABLE held

Init == held = [t \in Tasks |-> [l \in AllLocks |-> 0]]

(* lock_acquire returns to a caller that did not hold the lock *)
Acquire(t, l) ==
    /\ \A u \in Tasks : held[u][l] = 0
    /\ held' = [held EXCEPT ![t][l] = 1]

(* lock_acquire returns to a caller that already holds the lock *)
Reacquire(t, l) ==
    /\ held[t][l] > 0
    /\ held' = [held EXCEPT ![t][l] = @ + 1]

(* lock_release is called by a holder: one level less *)
Release(t, l) ==
    /\ held[t][l] > 0
    /\ held' = [held EXCEPT ![t][l] = @ - 1]

Next == \E t \in Tasks, l \in AllLocks :
            Acquire(t, l) \/ Reacquire(t, l) \/ Release(t, l)

Spec == Init /\ [][Next]_held
=============================================================================
