-------------------------- MODULE FastSlimReplay --------------------------
(***************************************************************************)
(* The full trace and the part of it that FastSlim keeps, replayed side by *)
(* side in memories with exact least-recently-used replacement (lru.c):    *)
(* what simulating the reduced trace says about the full one.              *)
(***************************************************************************)
EXTENDS FastSlim

CONSTANT MaxFrames   \* bound: memory sizes compared

ASSUME FramesAssumption == MaxFrames \in Nat

VARIABLES full, kept   \* each trace's replay: when each page was used last, misses by memory size

rvars == <<vars, full, kept>>

Never == -1
Fresh == [used |-> [pg \in Pages |-> Never], misses |-> [m \in 1..MaxFrames |-> 0]]

\* The pages used since pg was: in a memory of more frames pg is still there.
Since(replay, pg) == {q \in Pages : replay.used[q] > replay.used[pg]}
Misses(replay, pg, m) == replay.used[pg] = Never \/ Cardinality(Since(replay, pg)) >= m

Use(replay, pg) ==
    [used |-> [replay.used EXCEPT ![pg] = ts],
     misses |-> [m \in 1..MaxFrames |->
                    replay.misses[m] + IF Misses(replay, pg, m) THEN 1 ELSE 0]]

RInit == Init /\ full = Fresh /\ kept = Fresh

RNext ==
    /\ ts < MaxRefs
    /\ \E pg \in Pages :
          /\ Reference(pg)
          /\ full' = Use(full, pg)
          /\ kept' = IF toprint' # toprint THEN Use(kept, pg) ELSE kept

RSpec == RInit /\ [][RNext]_rvars

-----------------------------------------------------------------------------

\* A reference that is dropped (fastslim.py:65-67) is a hit in every memory of
\* BufferSize frames or more: the filter hides no miss of such a memory.
DroppedHit ==
    [][toprint' = toprint =>
         \E pg \in Pages : full.used[pg] # full'.used[pg] /\ ~Misses(full, pg, BufferSize)]_rvars

\* What the reduced trace says of a memory of m frames is true of the full
\* trace up to BufferSize - 1 frames: it misses at least as often as the full
\* trace does with BufferSize - 1 frames more, and at most as often as the full
\* trace does with that many fewer.
MissCurvesClose ==
    \A m \in 1..MaxFrames :
        LET more == m + BufferSize - 1
        IN  more <= MaxFrames => /\ full.misses[more] <= kept.misses[m]
                                 /\ kept.misses[more] <= full.misses[m]
=============================================================================
