-------------------------- MODULE PagerRefinement --------------------------
(***************************************************************************)
(* Pager implements DemandPaging as long as the swap file has room.  The   *)
(* history variable loadedAt records when a page was last brought in; the  *)
(* program does not keep it.                                               *)
(***************************************************************************)
EXTENDS Pager

VARIABLE loadedAt

hvars == <<vars, loadedAt>>

HInit == Init /\ loadedAt = [q \in Pages |-> 0]

HNext ==
    /\ Next
    /\ loadedAt' = IF count'.miss > count.miss
                   THEN [loadedAt EXCEPT ![Page] = pos] ELSE loadedAt

HSpec == HInit /\ [][HNext]_hvars

Demand == INSTANCE DemandPaging WITH
    resident <- Resident,
    hits <- count.hit,
    misses <- count.miss,
    evictions <- count.clean + count.dirty

\* Every run of the simulator is a run of the demand pager: lists, reference
\* bits, trace distances and core map make each algorithm evict a page its
\* policy allows (lru.c, fifo.c, clock.c, opt.c, rand.c: "select the victim").
ImplementsDemandPaging == Demand!Spec

\* opt is Belady's algorithm (opt.c:18-21): at the end of a trace no choice of
\* victims would have missed less often, although opt_evict looks at one
\* eviction at a time, by distances it counts in the list of trace nodes.
OptIsBest == alg = "opt" /\ status = "done" => count.miss = Demand!FewestMisses

\* lru is accurate (lru.c:16): it keeps the memsize pages used last, whatever
\* it did before.  So a smaller memory never holds a page a larger one does
\* not, and more memory never misses more (README.docx on Belady's anomaly).
LruKeepsLatest ==
    alg = "lru" =>
        Resident = {q \in Pages :
            /\ Demand!LastUse(q) > 0
            /\ Cardinality({r \in Pages : Demand!LastUse(r) > Demand!LastUse(q)}) < memsize}

\* The version of a resident page counts exactly the stores to it since it
\* was last brought in (sim.c:49-51), and its entry is dirty exactly when
\* there was one (pagetable.c:196-197): no other page's traffic disturbs it.
StoresSinceLoad(q) ==
    Cardinality({i \in loadedAt[q]..(pos - 1) : trace[i] = [type |-> Store, page |-> q]})

StoresKept ==
    \A q \in Resident :
        /\ physmem[word[q].num].version = StoresSinceLoad(q)
        /\ word[q].dirty <=> StoresSinceLoad(q) > 0
=============================================================================
