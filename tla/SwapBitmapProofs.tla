-------------------------- MODULE SwapBitmapProofs --------------------------
(***************************************************************************)
(* The swap bitmap implements the pool of slots, for every word size,      *)
(* every range of unsigned and every swap size, those included whose       *)
(* rounding up to words wraps around.                                      *)
(***************************************************************************)
EXTENDS SwapBitmap, WellFoundedInduction, TLAPS

USE WordAssumption, SizesAssumption

W == BITS_PER_WORD

LEMMA LeastElement ==
    ASSUME NEW S, S \subseteq Nat, S # {}
    PROVE  Min(S) \in S /\ \A x \in S : Min(S) <= x
<1> DEFINE R == {ss \in Nat \X Nat : ss[1] < ss[2]}
<1>1. IsWellFoundedOn(R, Nat)
  BY NatLessThanWellFounded, Zenon DEF OpToRel
<1> HIDE DEF R
<1>2. PICK m \in S : \A y \in S : ~ (<<y, m>> \in R)
  BY <1>1, WFMin
<1>3. \A y \in S : m <= y
  <2>1. SUFFICES ASSUME NEW y \in S, y < m PROVE FALSE
    OBVIOUS
  <2>2. <<y, m>> \in Nat \X Nat /\ <<y, m>>[1] < <<y, m>>[2]
    BY <2>1
  <2> QED BY <1>2, <2>1, <2>2 DEF R
<1> QED BY <1>3 DEF Min

-----------------------------------------------------------------------------
(* Slots and their places.                                                 *)

\* The only fact about products that is needed.
LEMMA Product ==
    ASSUME NEW a \in Int, NEW b \in Int, a < b
    PROVE  a * W + W <= b * W
<1> DEFINE k == b - a - 1
<1>1. k \in Nat /\ b = a + 1 + k /\ W \in Nat
  BY DEF W
<1>2. k * W >= 0
  BY <1>1
<1>3. (a + 1 + k) * W = a * W + W + k * W
  BY <1>1
<1> HIDE DEF k
<1> QED BY <1>1, <1>2, <1>3

LEMMA Place ==
    ASSUME NEW i \in Nat
    PROVE  /\ Ix(i) \in Nat /\ Offset(i) \in WORD_ALLBITS
           /\ i = Ix(i) * W + Offset(i)
BY DEF Ix, Offset, WORD_ALLBITS, W

LEMMA PlaceOnly ==
    ASSUME NEW ix \in Nat, NEW o \in WORD_ALLBITS
    PROVE  /\ ix * W + o \in Nat
           /\ Ix(ix * W + o) = ix /\ Offset(ix * W + o) = o
<1> DEFINE i == ix * W + o
<1>1. i \in Nat
  BY DEF WORD_ALLBITS, W
<1>2. Ix(i) \in Nat /\ Offset(i) \in WORD_ALLBITS /\ i = Ix(i) * W + Offset(i)
  BY <1>1, Place
<1>3. ~ (Ix(i) < ix)
  BY <1>2, Product DEF WORD_ALLBITS, W
<1>4. ~ (ix < Ix(i))
  BY <1>2, Product DEF WORD_ALLBITS, W
<1> QED BY <1>1, <1>2, <1>3, <1>4 DEF WORD_ALLBITS, W

-----------------------------------------------------------------------------
(* How many words there are.                                               *)

Rounds(n) == n + W - 1 < UINT

LEMMA WordsWrapped == ASSUME NEW n \in Sizes, ~Rounds(n) PROVE Words(n) = 0
<1>1. n \in Nat /\ n < UINT /\ W \in Nat \ {0} /\ UINT \in Nat \ {0} /\ n + W - 1 \in Nat
  BY DEF W
<1> DEFINE r == (n + W - 1) % UINT
<1>2. r \in Nat /\ r < W
  <2>1. r \in Nat /\ r < UINT
    BY <1>1
  <2>2. CASE UINT <= W
    BY <1>1, <2>1, <2>2
  <2>3. CASE W < UINT
    <3>1. n + W - 1 = UINT + (n + W - 1 - UINT) /\ n + W - 1 - UINT \in 0..(UINT - 1)
      BY <1>1, <2>3 DEF Rounds
    <3>2. r = n + W - 1 - UINT
      BY <1>1, <3>1
    <3> QED BY <1>1, <2>1, <3>2
  <2> QED BY <1>1, <2>2, <2>3
<1>3. r \div W = 0
  <2>1. \A x \in Nat : x < W => x \div W = 0
    BY <1>1
  <2> QED BY <1>2, <2>1
<1> QED BY <1>3 DEF Words, DIVROUNDUP, W

LEMMA WordsSuffice ==
    ASSUME NEW n \in Sizes, Rounds(n)
    PROVE  /\ Words(n) \in Nat
           /\ n <= Words(n) * W /\ Words(n) * W < n + W
<1>1. n \in Nat /\ n < UINT /\ W \in Nat \ {0} /\ UINT \in Nat \ {0} /\ n + W - 1 \in Nat
  BY DEF W
<1>2. (n + W - 1) % UINT = n + W - 1
  BY <1>1 DEF Rounds
<1>3. Words(n) = Ix(n + W - 1)
  BY <1>2 DEF Words, DIVROUNDUP, Ix, W
<1>4. /\ Ix(n + W - 1) \in Nat /\ Offset(n + W - 1) \in 0..(W - 1)
      /\ n + W - 1 = Ix(n + W - 1) * W + Offset(n + W - 1)
  BY <1>1, Place DEF WORD_ALLBITS, W
<1>5. Words(n) * W \in Nat
  BY <1>1, <1>3, <1>4
<1> QED BY <1>1, <1>3, <1>4, <1>5

\* The leftover bits are those beyond n in the last word.
LEMMA LeftoverBits ==
    ASSUME NEW n \in Sizes, Words(n) > 0, NEW o \in WORD_ALLBITS
    PROVE  o \in Leftover(n) <=> (Words(n) - 1) * W + o >= n
<1>1. n \in Nat /\ W \in Nat \ {0} /\ Rounds(n)
  BY WordsWrapped DEF W
<1>2. Words(n) \in Nat /\ n <= Words(n) * W /\ Words(n) * W < n + W
  BY <1>1, WordsSuffice
<1>3. (Words(n) - 1) * W \in Nat /\ Words(n) * W = (Words(n) - 1) * W + W
  BY <1>1, <1>2
<1>4. /\ n \div W \in Nat /\ n % W \in 0..(W - 1)
      /\ n = (n \div W) * W + (n % W)
  BY <1>1
<1>5. CASE Words(n) > n \div W
  <2> DEFINE before == (Words(n) - 1) * W
  <2>1. Leftover(n) = (n - before)..(W - 1) /\ before \in Nat
    BY <1>3, <1>5 DEF Leftover, W
  <2>2. WORD_ALLBITS = 0..(W - 1)
    BY DEF WORD_ALLBITS, W
  <2>3. before + o >= n <=> o \in (n - before)..(W - 1)
    <3> HIDE DEF before
    <3> QED BY <1>1, <2>1, <2>2
  <2> QED BY <2>1, <2>3
<1>6. CASE ~(Words(n) > n \div W)
  <2>1. Words(n) * W <= (n \div W) * W
    <3>1. Words(n) = n \div W \/ Words(n) < n \div W
      BY <1>2, <1>4, <1>6
    <3>2. Words(n) < n \div W => Words(n) * W + W <= (n \div W) * W
      BY <1>2, <1>4, Product
    <3>3. (n \div W) * W \in Nat
      BY <1>1, <1>4
    <3> QED BY <1>1, <1>2, <3>1, <3>2, <3>3
  <2>2. n = (Words(n) - 1) * W + W
    <3>1. (n \div W) * W \in Nat
      BY <1>1, <1>4
    <3>2. (n \div W) * W <= n /\ Words(n) * W \in Nat
      BY <1>1, <1>2, <1>4, <3>1
    <3>3. n = Words(n) * W
      BY <1>1, <1>2, <2>1, <3>1, <3>2
    <3> QED BY <1>3, <3>3
  <2>3. Leftover(n) = {}
    BY <1>6 DEF Leftover, W
  <2> QED BY <1>1, <1>3, <2>2, <2>3 DEF WORD_ALLBITS, W
<1> QED BY <1>5, <1>6

\* The slots that lie in the array.
LEMMA NamedSlots ==
    ASSUME NEW n \in Sizes, NEW ix \in Nat, NEW o \in WORD_ALLBITS, ix * W + o < n
    PROVE  Rounds(n) => ix < Words(n)
<1> SUFFICES ASSUME Rounds(n), ~(ix < Words(n)) PROVE FALSE
  OBVIOUS
<1>1. Words(n) \in Nat /\ n <= Words(n) * W /\ n \in Nat /\ W \in Nat
  BY WordsSuffice DEF W
<1>2. Words(n) * W <= ix * W
  <2>1. Words(n) < ix => Words(n) * W + W <= ix * W
    BY <1>1, Product
  <2>2. Words(n) * W \in Nat /\ ix * W \in Nat
    BY <1>1
  <2> QED BY <1>1, <2>1, <2>2
<1>3. ix * W \in Nat /\ Words(n) * W \in Nat
  BY <1>1
<1> QED BY <1>1, <1>2, <1>3 DEF WORD_ALLBITS, W

-----------------------------------------------------------------------------
(* The invariant: the words keep their number, and what lies beyond the    *)
(* swap file stays marked.                                                 *)

WordIndices == 0..(Words(nbits) - 1)

BitmapInv ==
    /\ nbits \in Sizes
    /\ v \in [WordIndices -> SUBSET WORD_ALLBITS]
    /\ \A ix \in WordIndices : \A o \in WORD_ALLBITS \ v[ix] : ix * W + o < nbits

LastInv == last.op = "alloc" /\ last.ok => last.index < nbits

LEMMA SizeTyped == ASSUME NEW n \in Sizes PROVE n \in Nat /\ n < UINT /\ Words(n) \in Nat
<1>1. n \in Nat /\ n < UINT
  OBVIOUS
<1>2. Words(n) \in Nat
  BY WordsWrapped, WordsSuffice
<1> QED BY <1>1, <1>2

LEMMA BitmapInit == Init => BitmapInv /\ LastInv
<1> SUFFICES ASSUME Init PROVE BitmapInv /\ LastInv
  OBVIOUS
<1>1. nbits \in Sizes /\ nbits \in Nat /\ Words(nbits) \in Nat
  BY SizeTyped DEF Init
<1>2. \A n \in Sizes : Leftover(n) \subseteq WORD_ALLBITS
  <2> SUFFICES ASSUME NEW n \in Sizes, Words(n) > n \div BITS_PER_WORD
               PROVE  n - (Words(n) - 1) * BITS_PER_WORD >= 0
                      /\ n - (Words(n) - 1) * BITS_PER_WORD \in Int
    BY DEF Leftover, WORD_ALLBITS
  <2>1. n \in Nat /\ Words(n) \in Nat /\ n \div W \in Nat /\ W \in Nat
    BY SizeTyped DEF W
  <2>2. Rounds(n)
    BY <2>1, WordsWrapped DEF W
  <2>3. Words(n) * W < n + W /\ Words(n) * W = (Words(n) - 1) * W + W
        /\ (Words(n) - 1) * W \in Int
    BY <2>1, <2>2, WordsSuffice
  <2>4. n - (Words(n) - 1) * W >= 0 /\ n - (Words(n) - 1) * W \in Int
    <3> DEFINE b == (Words(n) - 1) * W
    <3>1. b \in Int /\ b + W < n + W
      BY <2>3
    <3> HIDE DEF b
    <3>2. n - b >= 0 /\ n - b \in Int
      BY <2>1, <3>1
    <3> QED BY <3>2 DEF b
  <2> QED BY <2>4 DEF W
<1>3. v \in [WordIndices -> SUBSET WORD_ALLBITS]
  BY <1>1, <1>2 DEF Init, WordIndices
<1>4. ASSUME NEW ix \in WordIndices, NEW o \in WORD_ALLBITS \ v[ix]
      PROVE  ix * W + o < nbits
  <2>1. \/ ix = Words(nbits) - 1 /\ o \notin Leftover(nbits) /\ Words(nbits) > 0
        \/ ix < Words(nbits) - 1
    <3>1. ix \in Nat /\ ix <= Words(nbits) - 1
      BY <1>1 DEF WordIndices
    <3>2. v[ix] = IF ix = Words(nbits) - 1 THEN Leftover(nbits) ELSE {}
      BY DEF Init, WordIndices
    <3> QED BY <1>1, <1>4, <3>1, <3>2
  <2>2. CASE ix = Words(nbits) - 1 /\ o \notin Leftover(nbits) /\ Words(nbits) > 0
    <3>1. ~ ((Words(nbits) - 1) * W + o >= nbits)
      BY <1>1, <2>2, LeftoverBits
    <3>2. (Words(nbits) - 1) * W + o \in Nat
      BY <1>1, <2>2, PlaceOnly
    <3> QED BY <1>1, <2>2, <3>1, <3>2
  <2>3. CASE ix < Words(nbits) - 1
    <3>1. ix * W + W <= (Words(nbits) - 1) * W
      BY <1>1, <2>3, Product DEF WordIndices
    <3>2. Rounds(nbits)
      BY <1>1, <2>3, WordsWrapped DEF WordIndices
    <3>3. Words(nbits) * W < nbits + W /\ Words(nbits) * W = (Words(nbits) - 1) * W + W
          /\ (Words(nbits) - 1) * W \in Nat /\ ix * W \in Nat /\ W \in Nat
      BY <1>1, <2>3, <3>2, WordsSuffice DEF WordIndices, W
    <3>4. o \in Nat /\ o < W
      BY DEF WORD_ALLBITS, W
    <3>5. (Words(nbits) - 1) * W < nbits
      <4> DEFINE b == (Words(nbits) - 1) * W
      <4>1. b \in Nat /\ b + W < nbits + W
        BY <3>3
      <4> HIDE DEF b
      <4>2. b < nbits
        BY <1>1, <3>3, <4>1
      <4> QED BY <4>2 DEF b
    <3> QED BY <1>1, <3>1, <3>3, <3>4, <3>5
  <2> QED BY <2>1, <2>2, <2>3
<1>5. LastInv
  BY DEF Init, Answer, LastInv
<1> QED BY <1>1, <1>3, <1>4, <1>5 DEF BitmapInv

\* What bitmap_alloc hands out: the lowest place that is not marked.
LEMMA AllocPlace ==
    ASSUME BitmapInv, Roomy # {}, NEW ix, ix = Min(Roomy),
           NEW o, o = Min(WORD_ALLBITS \ v[ix])
    PROVE  /\ ix \in WordIndices /\ o \in WORD_ALLBITS \ v[ix]
           /\ \A j \in WordIndices : v[j] # WORD_ALLBITS => ix <= j
           /\ \A x \in WORD_ALLBITS \ v[ix] : o <= x
<1>1. nbits \in Sizes /\ Words(nbits) \in Nat /\ v \in [WordIndices -> SUBSET WORD_ALLBITS]
  BY SizeTyped DEF BitmapInv
<1>2. WordIndices \subseteq Nat /\ WORD_ALLBITS \subseteq Nat
  BY DEF WordIndices, WORD_ALLBITS
<1>3. Roomy \subseteq WordIndices /\ \A j \in WordIndices : v[j] # WORD_ALLBITS => j \in Roomy
  BY DEF Roomy, WordIndices
<1>4. ix \in Roomy /\ \A j \in Roomy : ix <= j
  BY <1>2, <1>3, LeastElement
<1>5. WORD_ALLBITS \ v[ix] # {}
  BY <1>1, <1>3, <1>4 DEF Roomy
<1>6. o \in WORD_ALLBITS \ v[ix] /\ \A x \in WORD_ALLBITS \ v[ix] : o <= x
  <2>1. WORD_ALLBITS \ v[ix] \subseteq Nat
    BY <1>2
  <2> QED BY <1>5, <2>1, LeastElement
<1> QED BY <1>3, <1>4, <1>6

LEMMA BitmapNext == BitmapInv /\ LastInv /\ [Next]_vars => BitmapInv' /\ LastInv'
<1> SUFFICES ASSUME BitmapInv, LastInv, [Next]_vars PROVE BitmapInv' /\ LastInv'
  OBVIOUS
<1>0. nbits \in Sizes /\ v \in [WordIndices -> SUBSET WORD_ALLBITS]
      /\ \A ix \in WordIndices : \A o \in WORD_ALLBITS \ v[ix] : ix * W + o < nbits
  BY DEF BitmapInv
<1>1. CASE bitmap_alloc
  <2> DEFINE ix == Min(Roomy)
             o == Min(WORD_ALLBITS \ v[ix])
  <2>1. ix \in WordIndices /\ o \in WORD_ALLBITS \ v[ix]
    BY <1>1, AllocPlace DEF bitmap_alloc
  <2>2. v' = [v EXCEPT ![ix] = v[ix] \union {o}] /\ nbits' = nbits
        /\ last' = Answer("alloc", ix * W + o, TRUE)
    BY <1>1 DEF bitmap_alloc, W
  <2> HIDE DEF ix, o
  <2>3. v' \in [WordIndices -> SUBSET WORD_ALLBITS] /\ WordIndices' = WordIndices
    BY <1>0, <2>1, <2>2 DEF WordIndices
  <2>4. \A j \in WordIndices : v[j] \subseteq v'[j]
    BY <1>0, <2>2
  <2>5. BitmapInv'
    BY <1>0, <2>2, <2>3, <2>4 DEF BitmapInv
  <2>6. LastInv'
    BY <1>0, <2>1, <2>2 DEF LastInv, Answer
  <2> QED BY <2>5, <2>6
<1>2. CASE bitmap_alloc_full \/ UNCHANGED vars
  <2>1. UNCHANGED <<nbits, v>>
    BY <1>2 DEF bitmap_alloc_full, vars
  <2>2. LastInv'
    BY <1>2, <2>1 DEF bitmap_alloc_full, vars, LastInv, Answer
  <2> QED BY <2>1, <2>2 DEF BitmapInv, WordIndices
<1>3. CASE \E i \in Named : bitmap_mark(i) \/ bitmap_unmark(i) \/ bitmap_isset(i)
  <2>1. PICK i \in Named : bitmap_mark(i) \/ bitmap_unmark(i) \/ bitmap_isset(i)
    BY <1>3
  <2>2. i \in Nat /\ i < nbits /\ Ix(i) \in WordIndices /\ Offset(i) \in WORD_ALLBITS
        /\ i = Ix(i) * W + Offset(i)
    BY <1>0, SizeTyped, Place DEF Named, WordIndices
  <2>3. nbits' = nbits /\ WordIndices' = WordIndices
    BY <2>1 DEF bitmap_mark, bitmap_unmark, bitmap_isset, WordIndices
  <2>4. LastInv'
    BY <2>1 DEF bitmap_mark, bitmap_unmark, bitmap_isset, LastInv, Answer
  <2>5. \/ v' = v
        \/ v' = [v EXCEPT ![Ix(i)] = v[Ix(i)] \union {Offset(i)}]
        \/ v' = [v EXCEPT ![Ix(i)] = v[Ix(i)] \ {Offset(i)}]
    BY <2>1 DEF bitmap_mark, bitmap_unmark, bitmap_isset
  <2>6. v' \in [WordIndices -> SUBSET WORD_ALLBITS]
    BY <1>0, <2>2, <2>5
  <2>7. ASSUME NEW j \in WordIndices, NEW o \in WORD_ALLBITS \ v'[j] PROVE j * W + o < nbits
    <3>1. o \notin v[j] \/ (j = Ix(i) /\ o = Offset(i))
      BY <1>0, <2>2, <2>5, <2>7
    <3> QED BY <1>0, <2>2, <3>1
  <2> QED BY <1>0, <2>3, <2>4, <2>6, <2>7 DEF BitmapInv
<1> QED BY <1>1, <1>2, <1>3 DEF Next

\* bitmap_alloc never hands out a slot beyond the swap file, for every size of
\* word, of unsigned and of swap file: its assertion never fails.
THEOREM SlotsWithinFile == Spec => []WithinFile
<1>1. BitmapInv /\ LastInv => WithinFile
  <2> SUFFICES ASSUME BitmapInv, LastInv PROVE WithinFile
    OBVIOUS
  <2>1. DOMAIN v = WordIndices
    BY DEF BitmapInv
  <2> QED BY <2>1 DEF BitmapInv, LastInv, WithinFile, W
<1> QED BY <1>1, BitmapInit, BitmapNext, PTL DEF Spec

-----------------------------------------------------------------------------
(* The refinement.                                                         *)

Capacity == IF nbits + BITS_PER_WORD - 1 < UINT THEN nbits ELSE 0
Marked == {i \in Named : Offset(i) \in v[Ix(i)]}

\* The pool's slots are those that lie in the array.
LEMMA PoolSlots == BitmapInv => Capacity \in Nat /\ Named = 0..(Capacity - 1)
<1> SUFFICES ASSUME BitmapInv PROVE Capacity \in Nat /\ Named = 0..(Capacity - 1)
  OBVIOUS
<1>1. nbits \in Sizes /\ nbits \in Nat /\ Words(nbits) \in Nat /\ DOMAIN v = WordIndices
  BY SizeTyped DEF BitmapInv
<1>2. CASE Rounds(nbits)
  <2>1. Capacity = nbits
    BY <1>2 DEF Rounds, Capacity, W
  <2>2. \A i \in 0..(nbits - 1) : Ix(i) \in WordIndices
    <3> SUFFICES ASSUME NEW i \in 0..(nbits - 1) PROVE Ix(i) \in WordIndices
      OBVIOUS
    <3>1. i \in Nat /\ i < nbits
      BY <1>1
    <3>2. Ix(i) \in Nat /\ Offset(i) \in WORD_ALLBITS /\ i = Ix(i) * W + Offset(i)
      BY <3>1, Place
    <3>3. Ix(i) < Words(nbits)
      BY <1>1, <1>2, <3>1, <3>2, NamedSlots
    <3> QED BY <1>1, <3>2, <3>3 DEF WordIndices
  <2> QED BY <1>1, <2>1, <2>2 DEF Named
<1>3. CASE ~Rounds(nbits)
  <2>1. Capacity = 0 /\ WordIndices = {}
    BY <1>1, <1>3, WordsWrapped DEF Rounds, Capacity, W, WordIndices
  <2> QED BY <1>1, <2>1 DEF Named
<1> QED BY <1>2, <1>3

\* A place that is not marked is a slot of the pool that is not marked.
LEMMA FreePlace ==
    ASSUME BitmapInv, NEW ix \in WordIndices, NEW o \in WORD_ALLBITS \ v[ix]
    PROVE  /\ ix * W + o \in Named \ Marked
           /\ Ix(ix * W + o) = ix /\ Offset(ix * W + o) = o
<1>1. ix \in Nat /\ nbits \in Nat /\ DOMAIN v = WordIndices
  BY SizeTyped DEF BitmapInv, WordIndices
<1>2. ix * W + o \in Nat /\ Ix(ix * W + o) = ix /\ Offset(ix * W + o) = o
  BY <1>1, PlaceOnly
<1>3. ix * W + o < nbits
  BY DEF BitmapInv
<1>4. ix * W + o \in 0..(nbits - 1)
  <2> DEFINE i == ix * W + o
  <2>1. i \in Nat /\ i < nbits
    BY <1>2, <1>3
  <2> HIDE DEF i
  <2>2. i \in 0..(nbits - 1)
    BY <1>1, <2>1
  <2> QED BY <2>2 DEF i
<1> QED BY <1>1, <1>2, <1>4 DEF Named, Marked

\* The lowest unmarked place is the lowest free slot: first fit goes on from
\* one word to the next.
LEMMA LowestPlace ==
    ASSUME BitmapInv, Roomy # {}
    PROVE  LET ix == Min(Roomy)
               o == Min(WORD_ALLBITS \ v[ix])
           IN  /\ ix * W + o \in Named \ Marked
               /\ Min(Named \ Marked) = ix * W + o
               /\ Ix(ix * W + o) = ix /\ Offset(ix * W + o) = o
<1> DEFINE ix == Min(Roomy)
           o == Min(WORD_ALLBITS \ v[ix])
           i == ix * W + o
<1>1. /\ ix \in WordIndices /\ o \in WORD_ALLBITS \ v[ix]
      /\ \A j \in WordIndices : v[j] # WORD_ALLBITS => ix <= j
      /\ \A x \in WORD_ALLBITS \ v[ix] : o <= x
  BY AllocPlace
<1> HIDE DEF ix, o
<1>2. i \in Named \ Marked /\ Ix(i) = ix /\ Offset(i) = o
  BY <1>1, FreePlace
<1>3. nbits \in Nat /\ DOMAIN v = WordIndices /\ v \in [WordIndices -> SUBSET WORD_ALLBITS]
      /\ Named \subseteq Nat /\ W \in Nat /\ ix \in Nat /\ o \in Nat /\ o < W
  BY <1>1, SizeTyped DEF BitmapInv, Named, W, WordIndices, WORD_ALLBITS
<1>4. ASSUME NEW y \in Named \ Marked PROVE i <= y
  <2>1. y \in Nat /\ Ix(y) \in WordIndices /\ Offset(y) \in WORD_ALLBITS \ v[Ix(y)]
        /\ y = Ix(y) * W + Offset(y) /\ Ix(y) \in Nat
    BY <1>3, Place DEF Named, Marked
  <2>2. ix <= Ix(y)
    BY <1>1, <2>1
  <2>3. CASE ix = Ix(y)
    <3>1. o <= Offset(y) /\ Offset(y) \in Nat
      BY <1>1, <2>1, <2>3 DEF WORD_ALLBITS
    <3>2. ix * W \in Nat
      BY <1>3
    <3> QED BY <1>3, <2>1, <2>3, <3>1, <3>2
  <2>4. CASE ix < Ix(y)
    <3>1. ix * W + W <= Ix(y) * W
      BY <1>3, <2>1, <2>4, Product
    <3>2. ix * W \in Nat /\ Ix(y) * W \in Nat /\ Offset(y) \in Nat
      BY <1>3, <2>1 DEF WORD_ALLBITS
    <3> QED BY <1>3, <2>1, <3>1, <3>2
  <2> QED BY <1>3, <2>1, <2>2, <2>3, <2>4
<1>5. Min(Named \ Marked) = i
  <2>1. Named \ Marked \subseteq Nat /\ Named \ Marked # {}
    BY <1>2, <1>3
  <2>2. Min(Named \ Marked) \in Named \ Marked /\ Min(Named \ Marked) <= i
    BY <1>2, <2>1, LeastElement
  <2>3. i <= Min(Named \ Marked) /\ i \in Nat /\ Min(Named \ Marked) \in Nat
    BY <1>2, <1>4, <2>1, <2>2
  <2> QED BY <2>2, <2>3
<1> QED BY <1>2, <1>5 DEF ix, o

\* No unmarked place is left exactly when no slot is.
LEMMA FullPlaces == ASSUME BitmapInv, Roomy = {} PROVE Named \subseteq Marked
<1> SUFFICES ASSUME NEW i \in Named PROVE Offset(i) \in v[Ix(i)]
  BY DEF Marked
<1>1. i \in Nat /\ Ix(i) \in WordIndices
  BY SizeTyped DEF BitmapInv, Named
<1>2. v[Ix(i)] = WORD_ALLBITS
  BY <1>1 DEF Roomy, WordIndices
<1> QED BY <1>1, <1>2, Place

\* What a change of one place does to the slots.
LEMMA MarkedAfter ==
    ASSUME BitmapInv, NEW i \in Named, NEW word,
           v' = [v EXCEPT ![Ix(i)] = word], nbits' = nbits,
           word = v[Ix(i)] \union {Offset(i)} \/ word = v[Ix(i)] \ {Offset(i)}
    PROVE  /\ Named' = Named
           /\ Marked' = IF Offset(i) \in word THEN Marked \union {i} ELSE Marked \ {i}
<1>1. nbits \in Nat /\ DOMAIN v = WordIndices /\ Named \subseteq Nat
      /\ \A x \in Named : Ix(x) \in DOMAIN v
  BY SizeTyped DEF BitmapInv, Named
<1>2. Named' = Named
  BY DEF Named
<1>3. \A x \in Named : Ix(x) = Ix(i) /\ Offset(x) = Offset(i) => x = i
  BY <1>1, Place
<1>4. \A x \in Named : x # i => (Offset(x) \in v'[Ix(x)] <=> Offset(x) \in v[Ix(x)])
  <2> SUFFICES ASSUME NEW x \in Named, x # i, Ix(x) = Ix(i)
               PROVE  Offset(x) \in word <=> Offset(x) \in v[Ix(x)]
    BY <1>1
  <2> QED BY <1>3
<1>5. Offset(i) \in v'[Ix(i)] <=> Offset(i) \in word
  BY <1>1
<1>6. \A x \in Named : x \in Marked' <=> Offset(x) \in v'[Ix(x)]
  BY <1>2 DEF Marked
<1>7. \A x \in Named : x \in Marked <=> Offset(x) \in v[Ix(x)]
  BY DEF Marked
<1>8. Marked \subseteq Named /\ Marked' \subseteq Named
  BY <1>2 DEF Marked
<1> QED BY <1>2, <1>4, <1>5, <1>6, <1>7, <1>8

LEMMA MarkOne ==
    ASSUME BitmapInv, NEW i \in Named, nbits' = nbits,
           v' = [v EXCEPT ![Ix(i)] = v[Ix(i)] \union {Offset(i)}]
    PROVE  Marked' = Marked \union {i}
<1> DEFINE word == v[Ix(i)] \union {Offset(i)}
<1>1. /\ v' = [v EXCEPT ![Ix(i)] = word] /\ Offset(i) \in word
      /\ word = v[Ix(i)] \union {Offset(i)} \/ word = v[Ix(i)] \ {Offset(i)}
  OBVIOUS
<1> HIDE DEF word
<1> QED BY <1>1, MarkedAfter

LEMMA UnmarkOne ==
    ASSUME BitmapInv, NEW i \in Named, nbits' = nbits,
           v' = [v EXCEPT ![Ix(i)] = v[Ix(i)] \ {Offset(i)}]
    PROVE  Marked' = Marked \ {i}
<1> DEFINE word == v[Ix(i)] \ {Offset(i)}
<1>1. /\ v' = [v EXCEPT ![Ix(i)] = word] /\ Offset(i) \notin word
      /\ word = v[Ix(i)] \union {Offset(i)} \/ word = v[Ix(i)] \ {Offset(i)}
  OBVIOUS
<1> HIDE DEF word
<1> QED BY <1>1, MarkedAfter

LEMMA PoolTerms ==
    /\ BitmapInv => Pool!Slots = Named
    /\ \A S : Pool!Min(S) = Min(S)
    /\ \A op, i, ok : Pool!Answer(op, i, ok) = Answer(op, i, ok)
<1>1. BitmapInv => Pool!Slots = Named
  BY PoolSlots DEF Pool!Slots, Capacity
<1>2. \A S : Pool!Min(S) = Min(S)
  BY DEF Pool!Min, Min
<1>3. \A op, i, ok : Pool!Answer(op, i, ok) = Answer(op, i, ok)
  BY DEF Pool!Answer, Answer
<1> QED BY <1>1, <1>2, <1>3

LEMMA PoolInit == Init => Pool!Init
<1> SUFFICES ASSUME Init PROVE Pool!Init
  OBVIOUS
<1>1. BitmapInv /\ nbits \in Sizes /\ Words(nbits) \in Nat
  BY BitmapInit, SizeTyped DEF Init
<1>2. ASSUME NEW i \in Named, Offset(i) \in v[Ix(i)] PROVE FALSE
  <2>1. i \in Nat /\ i < nbits /\ Ix(i) \in WordIndices /\ Offset(i) \in WORD_ALLBITS
        /\ i = Ix(i) * W + Offset(i)
    BY <1>1, SizeTyped, Place DEF Named, BitmapInv
  <2>2. v[Ix(i)] = IF Ix(i) = Words(nbits) - 1 THEN Leftover(nbits) ELSE {}
    BY <2>1 DEF Init, WordIndices
  <2>3. Ix(i) = Words(nbits) - 1 /\ Offset(i) \in Leftover(nbits) /\ Words(nbits) > 0
    BY <1>1, <1>2, <2>1, <2>2 DEF WordIndices
  <2>4. (Words(nbits) - 1) * W + Offset(i) >= nbits
    BY <1>1, <2>1, <2>3, LeftoverBits
  <2> QED BY <1>1, <2>1, <2>3, <2>4, SizeTyped
<1>3. Marked = {}
  BY <1>2 DEF Marked
<1>4. Capacity \in Nat /\ last = Answer("create", 0, TRUE)
  BY <1>1, PoolSlots DEF Init
<1> QED BY <1>3, <1>4, PoolTerms DEF Pool!Init, Capacity, Marked

LEMMA PoolNext == BitmapInv /\ [Next]_vars => [Pool!Next]_(Pool!vars)
<1> SUFFICES ASSUME BitmapInv, [Next]_vars PROVE Pool!Next \/ UNCHANGED Pool!vars
  OBVIOUS
<1>0. Pool!Slots = Named /\ (nbits' = nbits => Capacity' = Capacity)
  BY PoolTerms DEF Capacity
<1>1. CASE bitmap_alloc
  <2> DEFINE ix == Min(Roomy)
             o == Min(WORD_ALLBITS \ v[ix])
             i == ix * W + o
  <2>1. Roomy # {} /\ v' = [v EXCEPT ![ix] = v[ix] \union {o}] /\ nbits' = nbits
        /\ last' = Answer("alloc", i, TRUE)
    BY <1>1 DEF bitmap_alloc, W
  <2>2. i \in Named \ Marked /\ Min(Named \ Marked) = i /\ Ix(i) = ix /\ Offset(i) = o
    BY <2>1, LowestPlace
  <2> HIDE DEF ix, o
  <2>3. Marked' = Marked \union {i}
    <3>1. v' = [v EXCEPT ![Ix(i)] = v[Ix(i)] \union {Offset(i)}]
      BY <2>1, <2>2
    <3> HIDE DEF i
    <3> QED BY <2>1, <2>2, <3>1, MarkOne
  <2> HIDE DEF i
  <2>4. Pool!Alloc
    BY <1>0, <2>1, <2>2, <2>3, PoolTerms DEF Pool!Alloc, Capacity, Marked
  <2> QED BY <2>4 DEF Pool!Next
<1>2. CASE bitmap_alloc_full
  <2>1. Named \subseteq Marked /\ UNCHANGED <<nbits, v>> /\ last' = Answer("alloc", 0, FALSE)
    BY <1>2, FullPlaces DEF bitmap_alloc_full
  <2>2. Marked' = Marked /\ Capacity' = Capacity
    BY <2>1 DEF Marked, Named, Capacity
  <2>3. Pool!AllocFails
    BY <1>0, <2>1, <2>2, PoolTerms DEF Pool!AllocFails, Capacity, Marked
  <2> QED BY <2>3 DEF Pool!Next
<1>3. CASE \E i \in Named : bitmap_mark(i) \/ bitmap_unmark(i) \/ bitmap_isset(i)
  <2>1. PICK i \in Named : bitmap_mark(i) \/ bitmap_unmark(i) \/ bitmap_isset(i)
    BY <1>3
  <2>2. i \in Marked <=> Offset(i) \in v[Ix(i)]
    BY DEF Marked
  <2>3. Capacity' = Capacity
    BY <1>0, <2>1 DEF bitmap_mark, bitmap_unmark, bitmap_isset
  <2>4. CASE bitmap_mark(i)
    <3>1. i \notin Marked /\ Marked' = Marked \union {i} /\ last' = Answer("mark", i, TRUE)
      BY <2>2, <2>4, MarkOne DEF bitmap_mark
    <3>2. Pool!Mark(i)
      BY <2>3, <3>1, PoolTerms DEF Pool!Mark, Capacity, Marked
    <3> QED BY <1>0, <3>2 DEF Pool!Next
  <2>5. CASE bitmap_unmark(i)
    <3>1. i \in Marked /\ Marked' = Marked \ {i} /\ last' = Answer("unmark", i, TRUE)
      BY <2>2, <2>5, UnmarkOne DEF bitmap_unmark
    <3>2. Pool!Unmark(i)
      BY <2>3, <3>1, PoolTerms DEF Pool!Unmark, Capacity, Marked
    <3> QED BY <1>0, <3>2 DEF Pool!Next
  <2>6. CASE bitmap_isset(i)
    <3>1. last' = Answer("isset", i, i \in Marked) /\ UNCHANGED <<nbits, v>>
      BY <2>2, <2>6 DEF bitmap_isset, Answer
    <3>2. Marked' = Marked
      BY <3>1 DEF Marked, Named
    <3>3. Pool!IsSet(i)
      BY <2>3, <3>1, <3>2, PoolTerms DEF Pool!IsSet, Capacity, Marked
    <3> QED BY <1>0, <3>3 DEF Pool!Next
  <2> QED BY <2>1, <2>4, <2>5, <2>6
<1>4. CASE UNCHANGED vars
  <2>1. UNCHANGED <<nbits, v, last>> /\ Marked' = Marked /\ Capacity' = Capacity
    BY <1>4 DEF vars, Marked, Named, Capacity
  <2> QED BY <2>1 DEF Pool!vars, Marked, Capacity
<1> QED BY <1>1, <1>2, <1>3, <1>4 DEF Next

\* The array of words is a pool of slots, whatever the sizes: alloc hands out
\* the lowest free slot, across word boundaries too, and fails only when none
\* is free; mark, unmark and isset are about the slot they are given.
THEOREM BitmapIsPool == Spec => ImplementsSlotPool
<1> QED BY BitmapInit, BitmapNext, PoolInit, PoolNext, PTL
        DEF Spec, ImplementsSlotPool, Pool!Spec
=============================================================================
