-------------------------------- MODULE List --------------------------------
(***************************************************************************)
(* The doubly linked lists of lib/kernel/list.c at the level of pointers.  *)
(* Sched and IoQueue take the ready list and the waiters lists to be       *)
(* sequences that change in one step; here the prev and next fields are    *)
(* assigned, an element that is removed keeps its old pointers, and        *)
(* elem_find and list_push are run by tasks that the timer may preempt     *)
(* between two accesses, unless they are called with interrupts off.       *)
(***************************************************************************)
EXTENDS Naturals, Sequences

CONSTANTS
    Tasks,
    Tags,           \* the list_elem of the elements
    Lists,
    NULL,
    Preemptible     \* the functions somebody calls with interrupts on

VARIABLES
    prev, next,     \* the fields of the list_elem
    pc, plist, obj, elem,   \* of each task: where it is, arguments and local
    cpu,            \* the task that has interrupts off, or NULL
    content         \* the elements each list should have

listVars == <<prev, next, pc, plist, obj, elem, cpu, content>>

head(l) == <<"head", l>>
tail(l) == <<"tail", l>>

(* The assumption of the theorems about the lists. *)
ListAssumption ==
    /\ NULL \notin Tags \union Tasks /\ Lists # {}
    /\ \A l \in Lists : {head(l), tail(l)} \intersect (Tags \union {NULL}) = {}
    /\ Preemptible \subseteq {"find", "push"}

Nodes == Tags \union {head(l) : l \in Lists} \union {tail(l) : l \in Lists}

InList(e, l) == \E i \in DOMAIN content[l] : content[l][i] = e
Linkable(e)  == (\A l \in Lists : ~InList(e, l)) /\ (\A t \in Tasks : pc[t] = "push" => obj[t] # e)

(* list_init, and tags whose task_struct is all zero *)
ListInit ==
    /\ prev = [n \in Nodes |-> IF \E l \in Lists : n = tail(l)
                               THEN head(CHOOSE l \in Lists : n = tail(l)) ELSE NULL]
    /\ next = [n \in Nodes |-> IF \E l \in Lists : n = head(l)
                               THEN tail(CHOOSE l \in Lists : n = head(l)) ELSE NULL]
    /\ pc = [t \in Tasks |-> "idle"]
    /\ plist \in [Tasks -> {CHOOSE l \in Lists : TRUE}]
    /\ obj = [t \in Tasks |-> NULL]
    /\ elem = [t \in Tasks |-> NULL]
    /\ cpu = NULL
    /\ content = [l \in Lists |-> << >>]

Runs(t) == cpu \in {NULL, t}

-----------------------------------------------------------------------------
(* All four assignments are made with interrupts off. *)
list_insert_before(before, e) ==
    /\ next' = [next EXCEPT ![prev[before]] = e, ![e] = before]
    /\ prev' = [prev EXCEPT ![e] = prev[before], ![before] = e]

list_append(t, l, e) ==
    /\ Runs(t) /\ pc[t] = "idle" /\ Linkable(e)
    /\ list_insert_before(tail(l), e)
    /\ content' = [content EXCEPT ![l] = Append(@, e)]
    /\ UNCHANGED <<pc, plist, obj, elem, cpu>>

(* list_push reads plist->head.next, the argument of list_insert_before,   *)
(* before interrupts are off.                                              *)
list_push_read(t, l, e) ==
    /\ Runs(t) /\ pc[t] = "idle" /\ Linkable(e)
    /\ pc' = [pc EXCEPT ![t] = "push"]
    /\ plist' = [plist EXCEPT ![t] = l]
    /\ obj' = [obj EXCEPT ![t] = e]
    /\ elem' = [elem EXCEPT ![t] = next[head(l)]]
    /\ cpu' = IF "push" \in Preemptible THEN NULL ELSE t
    /\ UNCHANGED <<prev, next, content>>

list_push(t) ==
    /\ Runs(t) /\ pc[t] = "push"
    /\ list_insert_before(elem[t], obj[t])
    /\ content' = [content EXCEPT ![plist[t]] = <<obj[t]>> \o @]
    /\ pc' = [pc EXCEPT ![t] = "idle"]
    /\ elem' = [elem EXCEPT ![t] = NULL]
    /\ obj' = [obj EXCEPT ![t] = NULL]
    /\ cpu' = NULL
    /\ UNCHANGED plist

(* The two assignments of list_remove; the element keeps its pointers. *)
unlink(e) ==
    /\ next' = [next EXCEPT ![prev[e]] = next[e]]
    /\ prev' = [prev EXCEPT ![next[e]] = prev[e]]

Index(s, e)   == CHOOSE i \in DOMAIN s : s[i] = e
Without(s, e) == [j \in 1..(Len(s) - 1) |-> s[IF j < Index(s, e) THEN j ELSE j + 1]]

list_remove(t, l, e) ==
    /\ Runs(t) /\ pc[t] = "idle" /\ InList(e, l)
    /\ unlink(e)
    /\ content' = [content EXCEPT ![l] = Without(@, e)]
    /\ UNCHANGED <<pc, plist, obj, elem, cpu>>

(* list_pop, which every caller makes with interrupts off or under a lock *)
list_pop(t, l) ==
    /\ Runs(t) /\ pc[t] = "idle"
    /\ next[head(l)] # tail(l)
    /\ unlink(next[head(l)])
    /\ content' = [content EXCEPT ![l] = Tail(@)]
    /\ UNCHANGED <<pc, plist, obj, elem, cpu>>

-----------------------------------------------------------------------------
elem_find(t, l, e) ==
    /\ Runs(t) /\ pc[t] = "idle"
    /\ pc' = [pc EXCEPT ![t] = "find"]
    /\ plist' = [plist EXCEPT ![t] = l]
    /\ obj' = [obj EXCEPT ![t] = e]
    /\ elem' = [elem EXCEPT ![t] = next[head(l)]]
    /\ cpu' = IF "find" \in Preemptible THEN NULL ELSE t
    /\ UNCHANGED <<prev, next, content>>

(* What elem->next reads; at address 0 is mapped memory of another use. *)
Successors(n) == IF n = NULL THEN Nodes \union {NULL} ELSE {next[n]}

elem_find_step(t) ==
    /\ Runs(t) /\ pc[t] = "find"
    /\ elem[t] # tail(plist[t]) /\ elem[t] # obj[t]
    /\ \E n \in Successors(elem[t]) : elem' = [elem EXCEPT ![t] = n]
    /\ UNCHANGED <<prev, next, pc, plist, obj, cpu, content>>

elem_find_true(t) ==
    /\ Runs(t) /\ pc[t] = "find"
    /\ elem[t] # tail(plist[t]) /\ elem[t] = obj[t]
    /\ pc' = [pc EXCEPT ![t] = "true"]
    /\ UNCHANGED <<prev, next, plist, obj, elem, cpu, content>>

elem_find_false(t) ==
    /\ Runs(t) /\ pc[t] = "find"
    /\ elem[t] = tail(plist[t])
    /\ pc' = [pc EXCEPT ![t] = "false"]
    /\ UNCHANGED <<prev, next, plist, obj, elem, cpu, content>>

elem_find_return(t) ==
    /\ Runs(t) /\ pc[t] \in {"true", "false"}
    /\ pc' = [pc EXCEPT ![t] = "idle"]
    /\ obj' = [obj EXCEPT ![t] = NULL]
    /\ elem' = [elem EXCEPT ![t] = NULL]
    /\ cpu' = NULL
    /\ UNCHANGED <<prev, next, plist, content>>

walk(t) == elem_find_step(t) \/ elem_find_true(t) \/ elem_find_false(t) \/ elem_find_return(t)

ListNext ==
    \E t \in Tasks :
        \/ \E l \in Lists, e \in Tags :
              \/ list_append(t, l, e) \/ list_push_read(t, l, e)
              \/ list_remove(t, l, e) \/ elem_find(t, l, e)
        \/ \E l \in Lists : list_pop(t, l)
        \/ list_push(t)
        \/ walk(t)

ListSpec == ListInit /\ [][ListNext]_listVars

-----------------------------------------------------------------------------
Path(l) == <<head(l)>> \o content[l] \o <<tail(l)>>

(* The pointers of a list say what it should contain, in both directions   *)
(* and after any sequence of insertions at both ends and removals anywhere *)
(* (list_insert_before and list_remove, list.c:14-50).                     *)
Linked ==
    \A l \in Lists : \A i \in 1..(Len(content[l]) + 1) :
        next[Path(l)[i]] = Path(l)[i + 1] /\ prev[Path(l)[i + 1]] = Path(l)[i]

(* The search never leaves its list: what elem_find looks at is an element *)
(* or the end of the list it was asked about, never NULL and never the end *)
(* of another list, behind which nothing stops it (list.c:58-68).          *)
FindStays == \A t \in Tasks : pc[t] = "find" => elem[t] \in Tags \union {tail(plist[t])}

(* elem_find says true exactly if the element is in the list at that time  *)
(* (list.c:57), and it never leaves the list to find out.                  *)
FindExact ==
    /\ FindStays
    /\ \A t \in Tasks :
          /\ pc[t] = "true"  => InList(obj[t], plist[t])
          /\ pc[t] = "false" => ~InList(obj[t], plist[t])
=============================================================================
