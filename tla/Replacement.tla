---------------------------- MODULE Replacement ----------------------------
(***************************************************************************)
(* The page replacement algorithms of the virtual memory simulator: what   *)
(* evict_fcn and ref_fcn point to for "rand", "lru", "fifo", "clock" and   *)
(* "opt" (sim.c:25-31).                                                    *)
(*                                                                         *)
(* A node of the list at referlist_head holds a pointer to a page table    *)
(* entry, so the list is a sequence of pages; w is the function from a     *)
(* page to the frame word of its entry.  A search of the list compares     *)
(* WHOLE frame words (frame number and flag bits), never pointers, and so  *)
(* does Matches.  A circular list (clock) is the sequence read from        *)
(* referlist_head once around.                                             *)
(*                                                                         *)
(* An evict operator gives the frame the C function returns, the list it   *)
(* leaves and the frame words it leaves.                                   *)
(***************************************************************************)
EXTENDS Integers, Sequences, FiniteSetsExt

Matches(list, w, p) == {i \in DOMAIN list : w[list[i]] = w[p]}

-----------------------------------------------------------------------------
(* ref_fcn: the list after page p was referenced.                          *)

Prepend(list, p) == <<p>> \o list

\* The node at position i becomes the head, those before it move back.
MoveToFront(list, i) ==
    [j \in DOMAIN list |-> IF j = 1 THEN list[i]
                           ELSE IF j <= i THEN list[j - 1]
                           ELSE list[j]]

\* Mutant: a page found in the list stays where it is.
LruRefInPlace(list, w, p) ==
    IF Matches(list, w, p) = {} THEN Prepend(list, p) ELSE list

LruRef(list, w, p) ==
    IF Matches(list, w, p) = {} THEN Prepend(list, p)
    ELSE MoveToFront(list, Min(Matches(list, w, p)))

FifoRef(list, w, p) ==
    IF Matches(list, w, p) = {} THEN Prepend(list, p) ELSE list

\* Mutant: the list is not searched.
ClockRefAlways(list, w, p) == Append(list, p)

\* A match only has its reference bit set, which the equal word of p has.
ClockRef(list, w, p) ==
    IF Matches(list, w, p) = {} THEN Append(list, p) ELSE list

RefFcn(alg, list, w, p) ==
    CASE alg = "lru"   -> LruRef(list, w, p)
      [] alg = "fifo"  -> FifoRef(list, w, p)
      [] alg = "clock" -> ClockRef(list, w, p)
      [] OTHER         -> list

-----------------------------------------------------------------------------
(* evict_fcn: the frame to empty.                                          *)

\* Mutant: the node before the last one is unlinked with it.
TailEvictTwo(list, w) ==
    [frame |-> w[list[Len(list)]].num,
     list  |-> SubSeq(list, 1, Len(list) - 2),
     word  |-> w]

\* lru_evict and fifo_evict: unlink and free the last node.
TailEvict(list, w) ==
    [frame |-> w[list[Len(list)]].num,
     list  |-> SubSeq(list, 1, Len(list) - 1),
     word  |-> w]

\* The hand clears reference bits from the head on and stops at the first
\* page without one, or at the head again after a full turn; the list then
\* starts behind the freed node.
ClockEvict(list, w) ==
    LET unref   == {i \in DOMAIN list : ~w[list[i]].ref}
        stop    == IF unref = {} THEN 1 ELSE Min(unref)
        passed  == IF unref = {} THEN DOMAIN list ELSE 1..(stop - 1)
        cleared == {list[i] : i \in passed}
    IN  [frame |-> w[list[stop]].num,
         list  |-> SubSeq(list, stop + 1, Len(list)) \o SubSeq(list, 1, stop - 1),
         word  |-> [q \in DOMAIN w |->
                      IF q \in cleared THEN [w[q] EXCEPT !.ref = FALSE] ELSE w[q]]]

\* Mutant: a page the trace does not name again counts as the next one.
DistanceZero(trace, curr, q) ==
    LET uses == {i \in (curr + 1)..Len(trace) : trace[i].page = q}
    IN  IF uses = {} THEN 0 ELSE Min(uses) - curr - 1

\* How many trace nodes after position curr come before the next one for page q.
Distance(trace, curr, q) ==
    LET uses == {i \in (curr + 1)..Len(trace) : trace[i].page = q}
    IN  (IF uses = {} THEN Len(trace) + 1 ELSE Min(uses)) - curr - 1

\* The lowest frame whose page is needed last; cm is the coremap.
OptEvict(list, w, cm, trace, curr) ==
    LET far(f) == Distance(trace, curr, cm[f].vaddr)
    IN  [frame |-> Min({f \in DOMAIN cm : \A g \in DOMAIN cm : far(g) <= far(f)}),
         list  |-> list,
         word  |-> w]

RandEvict(list, w, f) == [frame |-> f, list |-> list, word |-> w]

\* lru_evict and fifo_evict write through the node before the last one, and
\* clock_evict frees the head and keeps it as the head when it is alone: with
\* fewer than two nodes the behaviour of the C function is undefined.
EvictDefined(alg, list) == alg \in {"lru", "fifo", "clock"} => Len(list) >= 2

\* Every result evict_fcn may have.
EvictFcn(alg, list, w, cm, trace, curr) ==
    CASE alg \in {"lru", "fifo"} -> {TailEvict(list, w)}
      [] alg = "clock"           -> {ClockEvict(list, w)}
      [] alg = "opt"             -> {OptEvict(list, w, cm, trace, curr)}
      [] OTHER                   -> {RandEvict(list, w, f) : f \in DOMAIN cm}
=============================================================================
