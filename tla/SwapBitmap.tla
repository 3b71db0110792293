----------------------------- MODULE SwapBitmap -----------------------------
(***************************************************************************)
(* The bitmap of swap.c:11-142: nbits slots in an array v of unsigned      *)
(* words of BITS_PER_WORD bits.  A word is the set of its bit positions    *)
(* that are 1.  unsigned arithmetic is modulo UINT.                        *)
(***************************************************************************)
EXTENDS Integers, FiniteSetsExt

CONSTANTS BITS_PER_WORD,   \* 32 in the code
          UINT,            \* 2^32 in the code
          Sizes            \* swap sizes to consider

ASSUME WordAssumption == BITS_PER_WORD \in Nat \ {0} /\ UINT \in Nat \ {0}
ASSUME SizesAssumption == Sizes \subseteq 0..(UINT - 1)

VARIABLES
    nbits,      \* b->nbits
    v,          \* b->v
    last        \* the call made last and what it answered

vars == <<nbits, v, last>>

WORD_ALLBITS == 0..(BITS_PER_WORD - 1)
DIVROUNDDOWN(a, b) == a \div b     \* mutant
DIVROUNDUP(a, b) == ((a + b - 1) % UINT) \div b
Words(n) == DIVROUNDUP(n, BITS_PER_WORD)
Answer(op, index, ok) == [op |-> op, index |-> index, ok |-> ok]

\* Mutant: one bit too few.
LeftoverShort(n) ==
    IF Words(n) > n \div BITS_PER_WORD
    THEN (n - (Words(n) - 1) * BITS_PER_WORD + 1)..(BITS_PER_WORD - 1)
    ELSE {}

\* The bits of the last word beyond nbits, when nbits does not fill it.
Leftover(n) ==
    IF Words(n) > n \div BITS_PER_WORD
    THEN (n - (Words(n) - 1) * BITS_PER_WORD)..(BITS_PER_WORD - 1)
    ELSE {}

\* bitmap_create
Init ==
    /\ nbits \in Sizes
    /\ v = [ix \in 0..(Words(nbits) - 1) |->
              IF ix = Words(nbits) - 1 THEN Leftover(nbits) ELSE {}]
    /\ last = Answer("create", 0, TRUE)

\* The words bitmap_alloc looks at and finds not full.
Roomy == {ix \in 0..(Words(nbits) - 1) : v[ix] # WORD_ALLBITS}

bitmap_alloc ==
    LET ix == Min(Roomy)
        offset == Min(WORD_ALLBITS \ v[ix])
    IN  /\ Roomy # {}
        /\ v' = [v EXCEPT ![ix] = v[ix] \union {offset}]
        /\ last' = Answer("alloc", ix * BITS_PER_WORD + offset, TRUE)
        /\ UNCHANGED nbits

bitmap_alloc_full ==
    /\ Roomy = {}
    /\ last' = Answer("alloc", 0, FALSE)
    /\ UNCHANGED <<nbits, v>>

\* bitmap_translate
Ix(bitno) == bitno \div BITS_PER_WORD
Offset(bitno) == bitno % BITS_PER_WORD

\* The slots a caller may name.  The code asserts index < nbits only, which
\* lies in the array unless Words wraps around.
Named == {i \in 0..(nbits - 1) : Ix(i) \in DOMAIN v}

\* The assertions of bitmap_mark and bitmap_unmark are their guards.
bitmap_mark(index) ==
    /\ Offset(index) \notin v[Ix(index)]
    /\ v' = [v EXCEPT ![Ix(index)] = v[Ix(index)] \union {Offset(index)}]
    /\ last' = Answer("mark", index, TRUE)
    /\ UNCHANGED nbits

bitmap_unmark(index) ==
    /\ Offset(index) \in v[Ix(index)]
    /\ v' = [v EXCEPT ![Ix(index)] = v[Ix(index)] \ {Offset(index)}]
    /\ last' = Answer("unmark", index, TRUE)
    /\ UNCHANGED nbits

bitmap_isset(index) ==
    /\ last' = Answer("isset", index, Offset(index) \in v[Ix(index)])
    /\ UNCHANGED <<nbits, v>>

Next ==
    \/ bitmap_alloc
    \/ bitmap_alloc_full
    \/ \E index \in Named :
          bitmap_mark(index) \/ bitmap_unmark(index) \/ bitmap_isset(index)

Spec == Init /\ [][Next]_vars

-----------------------------------------------------------------------------

\* The leftover bits of the last word stay marked and bitmap_alloc never
\* hands out a slot beyond the swap file: its assertion *index < nbits
\* (swap.c:79) never fails, whatever was marked and unmarked before.
WithinFile ==
    /\ \A ix \in DOMAIN v : \A o \in WORD_ALLBITS \ v[ix] : ix * BITS_PER_WORD + o < nbits
    /\ last.op = "alloc" /\ last.ok => last.index < nbits

\* The bitmap is a pool of nbits slots, first fit across word boundaries.  A
\* size so large that rounding it up to words wraps around leaves no words,
\* and a pool of no slots.
Pool == INSTANCE SlotPool WITH
    capacity <- IF nbits + BITS_PER_WORD - 1 < UINT THEN nbits ELSE 0,
    marked <- {i \in Named : Offset(i) \in v[Ix(i)]}

ImplementsSlotPool == Pool!Spec
=============================================================================
