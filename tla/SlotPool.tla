------------------------------ MODULE SlotPool ------------------------------
(***************************************************************************)
(* What the swap bitmap promises its callers: a pool of capacity numbered  *)
(* slots, of which alloc hands out the lowest free one and fails only when *)
(* none is free.  Pager uses the pool in this form (SlotsFor).             *)
(***************************************************************************)
EXTENDS Integers, FiniteSetsExt

VARIABLES
    capacity,
    marked,     \* slots handed out
    last        \* the call made last and what it answered

vars == <<capacity, marked, last>>

Slots == 0..(capacity - 1)
Answer(op, index, ok) == [op |-> op, index |-> index, ok |-> ok]

Init ==
    /\ capacity \in Nat
    /\ marked = {}
    /\ last = Answer("create", 0, TRUE)

Alloc ==
    /\ Slots \ marked # {}
    /\ marked' = marked \union {Min(Slots \ marked)}
    /\ last' = Answer("alloc", Min(Slots \ marked), TRUE)
    /\ UNCHANGED capacity

AllocFails ==
    /\ Slots \subseteq marked
    /\ last' = Answer("alloc", 0, FALSE)
    /\ UNCHANGED <<capacity, marked>>

\* Marking a marked slot and unmarking a free one are errors of the caller.
Mark(i) ==
    /\ i \notin marked
    /\ marked' = marked \union {i}
    /\ last' = Answer("mark", i, TRUE)
    /\ UNCHANGED capacity

Unmark(i) ==
    /\ i \in marked
    /\ marked' = marked \ {i}
    /\ last' = Answer("unmark", i, TRUE)
    /\ UNCHANGED capacity

IsSet(i) ==
    /\ last' = Answer("isset", i, i \in marked)
    /\ UNCHANGED <<capacity, marked>>

Next == Alloc \/ AllocFails \/ \E i \in Slots : Mark(i) \/ Unmark(i) \/ IsSet(i)

Spec == Init /\ [][Next]_vars
=============================================================================
