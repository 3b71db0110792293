------------------------------ MODULE MCTraces ------------------------------
(* Trace sets for the model checking of the simulator.                      *)
EXTENDS Integers, Sequences

\* All traces of length n over pages 0..k - 1 in which page q is not named
\* before page q - 1 was: one trace per renaming of the pages.
Canonical(types, k, n) ==
    {t \in [1..n -> [type : types, page : 0..(k - 1)]] :
        \A i \in 1..n : \A q \in 0..(t[i].page - 1) :
            \E j \in 1..(i - 1) : t[j].page = q}

ThreePages == 0..2
FourPages == 0..3

\* Loads and stores; loads only, which is all that matters to what is evicted.
MixedTraces == Canonical({"L", "S"}, 3, 6)
LoadTraces == Canonical({"L"}, 4, 8)
=============================================================================
