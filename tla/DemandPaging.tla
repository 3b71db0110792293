---------------------------- MODULE DemandPaging ----------------------------
(***************************************************************************)
(* What a demand pager with a replacement policy promises: at most memsize *)
(* pages are resident, a page is resident right after it was referenced,   *)
(* a page leaves only when another one needs its frame, and the policy     *)
(* picks the page that leaves by the history and the future of the trace   *)
(* alone.  Nothing is said of frames, lists, reference bits or swap.       *)
(***************************************************************************)
EXTENDS Integers, Sequences, FiniteSets, FiniteSetsExt

CONSTANTS Pages, memsize, Algs, Accesses

VARIABLES
    trace,      \* the accesses to replay
    pos,        \* the next one
    alg,        \* the policy
    resident,   \* pages in memory
    loadedAt,   \* when each page was last brought in
    hits, misses, evictions

vars == <<trace, pos, alg, resident, loadedAt, hits, misses, evictions>>

Page == trace[pos].page

\* The last reference to q so far (0 if none), the next one after this.
LastUse(q) == Max({0} \union {i \in 1..(pos - 1) : trace[i].page = q})
NextUse(q) == Min({Len(trace) + 1} \union {i \in (pos + 1)..Len(trace) : trace[i].page = q})

\* The pages each policy may evict.
Evictable ==
    CASE alg = "lru"  -> {q \in resident : \A r \in resident : LastUse(q) <= LastUse(r)}
      [] alg = "fifo" -> {q \in resident : \A r \in resident : loadedAt[q] <= loadedAt[r]}
      [] alg = "opt"  -> {q \in resident : \A r \in resident : NextUse(r) <= NextUse(q)}
      \* a second chance at least for the page loaded last
      [] alg = "clock" -> {q \in resident : \E r \in resident : loadedAt[q] < loadedAt[r]}
      [] OTHER        -> resident

\* The misses of one line, which names q, and of the rest of the trace, with R
\* resident before it: rest gives those of the rest.
MissesWith(rest, q, R) ==
    IF q \in R THEN rest[R]
    ELSE 1 + IF Cardinality(R) < memsize THEN rest[R \union {q}]
             ELSE Min({rest[(R \ {r}) \union {q}] : r \in R})

\* The fewest misses that any choice of victims reaches on the whole trace:
\* fewest[i][R] counts from line i on, with R resident.
FewestMisses ==
    LET fewest[i \in 1..(Len(trace) + 1)] ==
            [R \in SUBSET Pages |->
                IF i > Len(trace) THEN 0
                ELSE MissesWith(fewest[i + 1], trace[i].page, R)]
    IN  fewest[1][{}]

Init ==
    /\ trace \in Seq(Accesses)
    /\ pos = 1
    /\ alg \in Algs
    /\ resident = {}
    /\ loadedAt = [q \in Pages |-> 0]
    /\ hits = 0 /\ misses = 0 /\ evictions = 0

HitPage ==
    /\ pos \in DOMAIN trace
    /\ Page \in resident
    /\ hits' = hits + 1
    /\ pos' = pos + 1
    /\ UNCHANGED <<trace, alg, resident, loadedAt, misses, evictions>>

BringIn ==
    /\ pos \in DOMAIN trace
    /\ Page \notin resident
    /\ loadedAt' = [loadedAt EXCEPT ![Page] = pos]
    /\ misses' = misses + 1
    /\ pos' = pos + 1
    /\ UNCHANGED <<trace, alg, hits>>

LoadPage ==
    /\ BringIn
    /\ Cardinality(resident) < memsize
    /\ resident' = resident \union {Page}
    /\ UNCHANGED evictions

ReplacePage ==
    /\ BringIn
    /\ Cardinality(resident) = memsize
    /\ \E q \in Evictable : resident' = (resident \ {q}) \union {Page}
    /\ evictions' = evictions + 1

Next == HitPage \/ LoadPage \/ ReplacePage

Spec == Init /\ [][Next]_vars
=============================================================================
