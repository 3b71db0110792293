-------------------------- MODULE FastSlimProofs --------------------------
(***************************************************************************)
(* What the trace filter drops, for any set of pages, any buffer size and  *)
(* traces of any length.                                                   *)
(***************************************************************************)
EXTENDS FastSlimReplay, FiniteSetTheorems, TLAPS

USE FilterAssumption

Buffered == {ti.pg : ti \in tracebuffer}

\* The buffer holds no more than its size, and it has been the most recent
\* pages' since it was last emptied: a page used after one of its pages is in
\* it too.
BufferInv ==
    /\ ts \in Nat
    /\ IsFiniteSet(tracebuffer) /\ Cardinality(tracebuffer) <= BufferSize
    /\ Buffered \subseteq Pages
    /\ full.used \in [Pages -> Int] /\ \A q \in Pages : full.used[q] < ts
    /\ \A pg \in Buffered : full.used[pg] # Never
    /\ \A pg \in Buffered, q \in Pages : full.used[q] >= full.used[pg] => q \in Buffered

\* What waits to be printed was read before.
QueueInv == toprint \in Seq([pg : Pages, tstamp : Int, marked : BOOLEAN])
            /\ \A i \in 1..Len(toprint) : toprint[i].tstamp < ts

\* A set of items names no more pages than it has items.
LEMMA FewPages ==
    ASSUME NEW T, IsFiniteSet(T), Cardinality(T) <= BufferSize
    PROVE  LET S == {ti.pg : ti \in T}
           IN  IsFiniteSet(S) /\ Cardinality(S) \in Nat /\ Cardinality(S) <= BufferSize
<1> DEFINE S == {ti.pg : ti \in T}
           pageOf == [ti \in T |-> ti.pg]
<1>1. pageOf \in Surjection(T, S)
  BY DEF Surjection
<1>2. IsFiniteSet(S) /\ Cardinality(S) <= Cardinality(T)
  BY <1>1, FS_Surjection
<1>3. Cardinality(S) \in Nat /\ Cardinality(T) \in Nat
  BY <1>2, FS_CardinalityType
<1> QED BY <1>2, <1>3

LEMMA UsedNow ==
    ASSUME BufferInv, NEW pg \in Pages, full' = Use(full, pg)
    PROVE  /\ full'.used \in [Pages -> Int]
           /\ \A q \in Pages : full'.used[q] = IF q = pg THEN ts ELSE full.used[q]
BY DEF BufferInv, Use

LEMMA InBufferMeans == \A pg : InBuffer(pg) <=> pg \in Buffered
BY DEF InBuffer, Buffered

LEMMA BufferInit == RInit => BufferInv /\ QueueInv
<1> SUFFICES ASSUME RInit PROVE BufferInv /\ QueueInv
  OBVIOUS
<1>1. full.used = [pg \in Pages |-> -1] /\ ts = 0
  BY DEF RInit, Init, Fresh, Never
<1>2. Buffered = {} /\ IsFiniteSet(tracebuffer) /\ Cardinality(tracebuffer) = 0
  BY FS_EmptySet DEF RInit, Init, Buffered
<1>3. BufferInv
  BY <1>1, <1>2 DEF BufferInv
<1>4. QueueInv
  BY DEF RInit, Init, QueueInv
<1> QED BY <1>3, <1>4

\* A reference keeps the invariant, whichever of the three it is.
LEMMA BufferStep ==
    ASSUME BufferInv, NEW pg \in Pages, Reference(pg), full' = Use(full, pg)
    PROVE  BufferInv'
<1>1. ts' = ts + 1 /\ ts \in Nat
  BY DEF Reference, Hit, FirstSeen, Emit, BufferInv
<1>2. /\ full'.used \in [Pages -> Int]
      /\ \A q \in Pages : full'.used[q] = IF q = pg THEN ts ELSE full.used[q]
  BY UsedNow
<1>3. \A q \in Pages : full'.used[q] < ts' /\ full.used[q] \in Int /\ full.used[q] < ts
  BY <1>1, <1>2 DEF BufferInv
<1>4. full'.used[pg] # Never
  BY <1>1, <1>2 DEF Never
<1>5. CASE Hit(pg)
  <2>1. Buffered' = Buffered /\ tracebuffer' = tracebuffer /\ pg \in Buffered
    BY <1>5, InBufferMeans DEF Hit, Buffered
  <2>2. \A p \in Buffered, q \in Pages : full'.used[q] >= full'.used[p] => q \in Buffered
    BY <1>2, <1>3, <2>1 DEF BufferInv
  <2>3. \A p \in Buffered : full'.used[p] # Never
    BY <1>2, <1>4 DEF BufferInv
  <2> QED BY <1>1, <1>2, <1>3, <2>1, <2>2, <2>3 DEF BufferInv
<1>6. CASE FirstSeen(pg)
  <2>1. tracebuffer' = tracebuffer \cup {TraceItem(pg)} /\ TraceItem(pg).pg = pg
    BY <1>6 DEF FirstSeen, TraceItem
  <2>2. Buffered' = Buffered \cup {pg}
    BY <2>1 DEF Buffered
  <2>3. IsFiniteSet(tracebuffer') /\ Cardinality(tracebuffer') <= BufferSize
    <3>1. Cardinality(tracebuffer) \in Nat /\ Cardinality(tracebuffer) # BufferSize
      BY <1>6, FS_CardinalityType DEF FirstSeen, BufferFull, BufferInv
    <3>2. /\ IsFiniteSet(tracebuffer \cup {TraceItem(pg)})
          /\ Cardinality(tracebuffer \cup {TraceItem(pg)}) \in
                {Cardinality(tracebuffer), Cardinality(tracebuffer) + 1}
      <4> DEFINE x == TraceItem(pg)
      <4> HIDE DEF x
      <4>1. IsFiniteSet(tracebuffer \cup {x})
            /\ Cardinality(tracebuffer \cup {x}) =
                 IF x \in tracebuffer THEN Cardinality(tracebuffer) ELSE Cardinality(tracebuffer) + 1
        BY FS_AddElement DEF BufferInv
      <4> QED BY <4>1 DEF x
    <3> QED BY <2>1, <3>1, <3>2 DEF BufferInv
  <2>4. \A p \in Buffered', q \in Pages : full'.used[q] >= full'.used[p] => q \in Buffered'
    <3> SUFFICES ASSUME NEW p \in Buffered', NEW q \in Pages, q # pg,
                        full'.used[q] >= full'.used[p]
                 PROVE  q \in Buffered
      BY <2>2
    <3>1. p # pg /\ p \in Buffered
      BY <1>2, <1>3, <2>2
    <3> QED BY <1>2, <3>1 DEF BufferInv
  <2>5. \A p \in Buffered' : full'.used[p] # Never
    BY <1>2, <1>4, <2>2 DEF BufferInv
  <2> QED BY <1>1, <1>2, <1>3, <2>2, <2>3, <2>4, <2>5 DEF BufferInv
<1>7. CASE Emit(pg)
  <2>1. tracebuffer' = {TraceItem(pg)} /\ TraceItem(pg).pg = pg
    BY <1>7 DEF Emit, TraceItem
  <2>2. Buffered' = {pg}
    BY <2>1 DEF Buffered
  <2>3. IsFiniteSet(tracebuffer') /\ Cardinality(tracebuffer') <= BufferSize
    <3>1. \A x : IsFiniteSet({x}) /\ Cardinality({x}) = 1
      BY FS_Singleton
    <3>2. IsFiniteSet({TraceItem(pg)}) /\ Cardinality({TraceItem(pg)}) = 1
      BY <3>1
    <3> QED BY <2>1, <3>2
  <2>4. \A q \in Pages : full'.used[q] >= full'.used[pg] => q = pg
    BY <1>2, <1>3
  <2> QED BY <1>1, <1>2, <1>3, <1>4, <2>2, <2>3, <2>4 DEF BufferInv
<1> QED BY <1>5, <1>6, <1>7 DEF Reference

LEMMA QueueStep ==
    ASSUME BufferInv, QueueInv, NEW pg \in Pages, Reference(pg)
    PROVE  QueueInv' /\ (toprint' = toprint => Hit(pg))
<1> DEFINE Items == [pg : Pages, tstamp : Int, marked : BOOLEAN]
<1>1. ts' = ts + 1 /\ ts \in Nat
  BY DEF Reference, Hit, FirstSeen, Emit, BufferInv
<1>2. TraceItem(pg) \in Items /\ TraceItem(pg).tstamp = ts
  BY <1>1 DEF TraceItem
<1>3. \A i \in 1..Len(toprint) : toprint[i].tstamp \in Int /\ toprint[i].tstamp < ts + 1
  <2>0. toprint \in Seq(Items)
    BY DEF QueueInv
  <2>1. \A i \in 1..Len(toprint) : toprint[i] \in Items
    <3> HIDE DEF Items
    <3> QED BY <2>0
  <2>2. \A i \in 1..Len(toprint) : toprint[i].tstamp \in Int
    BY <2>1
  <2> QED BY <1>1, <2>2 DEF QueueInv
<1>4. CASE Hit(pg)
  BY <1>1, <1>3, <1>4 DEF Hit, QueueInv
<1>5. CASE FirstSeen(pg)
  <2>1. toprint' = Append(toprint, TraceItem(pg)) /\ toprint \in Seq(Items)
    BY <1>5 DEF FirstSeen, QueueInv
  <2>2. toprint' \in Seq(Items) /\ Len(toprint') = Len(toprint) + 1
        /\ \A i \in 1..Len(toprint') :
              toprint'[i] = IF i = Len(toprint) + 1 THEN TraceItem(pg) ELSE toprint[i]
    BY <1>2, <2>1
  <2>3. \A i \in 1..Len(toprint') : toprint'[i].tstamp < ts'
    BY <1>1, <1>2, <1>3, <2>1, <2>2
  <2> QED BY <2>1, <2>2, <2>3 DEF QueueInv
<1>6. CASE Emit(pg)
  <2>1. toprint' = <<TraceItem(pg)>>
    BY <1>6 DEF Emit
  <2>2. QueueInv'
    BY <1>1, <1>2, <2>1 DEF QueueInv
  <2>3. toprint' # toprint
    BY <1>1, <1>2, <2>1 DEF QueueInv
  <2> QED BY <2>2, <2>3
<1> QED BY <1>4, <1>5, <1>6 DEF Reference

\* Since a page of the buffer was used, only the other pages of the buffer were.
LEMMA RecentlyUsed ==
    ASSUME BufferInv, NEW pg \in Buffered
    PROVE  ~Misses(full, pg, BufferSize)
<1>1. Since(full, pg) \subseteq Buffered \ {pg}
  BY DEF Since, BufferInv
<1>2. IsFiniteSet(Buffered) /\ Cardinality(Buffered) <= BufferSize
  BY FewPages DEF BufferInv, Buffered
<1>3. /\ IsFiniteSet(Buffered \ {pg})
      /\ Cardinality(Buffered \ {pg}) = Cardinality(Buffered) - 1
  BY <1>2, FS_RemoveElement
<1>4. IsFiniteSet(Since(full, pg)) /\ Cardinality(Since(full, pg)) <= Cardinality(Buffered \ {pg})
  BY <1>1, <1>3, FS_Subset
<1>5. Cardinality(Since(full, pg)) \in Nat /\ Cardinality(Buffered) \in Nat
  BY <1>2, <1>4, FS_CardinalityType
<1>6. full.used[pg] # Never
  BY DEF BufferInv
<1> QED BY <1>2, <1>3, <1>4, <1>5, <1>6 DEF Misses

LEMMA BufferNext == BufferInv /\ QueueInv /\ [RNext]_rvars => BufferInv' /\ QueueInv'
<1> SUFFICES ASSUME BufferInv, QueueInv, [RNext]_rvars PROVE BufferInv' /\ QueueInv'
  OBVIOUS
<1>1. CASE RNext
  <2>1. PICK pg \in Pages : Reference(pg) /\ full' = Use(full, pg)
    BY <1>1 DEF RNext
  <2> QED BY <2>1, BufferStep, QueueStep
<1>2. CASE UNCHANGED rvars
  BY <1>2 DEF rvars, vars, BufferInv, QueueInv, Buffered
<1> QED BY <1>1, <1>2

\* A reference that the filter drops (fastslim.py:80-82) is a hit in a memory of
\* BufferSize frames with least-recently-used replacement, and so in every
\* larger one, whatever the trace.
THEOREM DroppedAreHits == RSpec => DroppedHit
<1> DEFINE A == toprint' = toprint =>
         \E pg \in Pages : full.used[pg] # full'.used[pg] /\ ~Misses(full, pg, BufferSize)
<1>1. BufferInv /\ QueueInv /\ [RNext]_rvars => [A]_rvars
  <2> SUFFICES ASSUME BufferInv, QueueInv, RNext, toprint' = toprint
               PROVE  \E pg \in Pages : full.used[pg] # full'.used[pg]
                                        /\ ~Misses(full, pg, BufferSize)
    OBVIOUS
  <2>1. PICK pg \in Pages : Reference(pg) /\ full' = Use(full, pg)
    BY DEF RNext
  <2>2. pg \in Buffered
    BY <2>1, QueueStep, InBufferMeans DEF Hit
  <2>3. full.used[pg] # full'.used[pg]
    BY <2>1, UsedNow DEF BufferInv
  <2> QED BY <2>2, <2>3, RecentlyUsed
<1> QED BY <1>1, BufferInit, BufferNext, PTL DEF RSpec, DroppedHit

-----------------------------------------------------------------------------
(* The miss counts of the two traces.                                      *)

\* The pages one trace used since it used pg, and the other did not.
Ahead(pg) == Since(full, pg) \ Since(kept, pg)
Behind(pg) == Since(kept, pg) \ Since(full, pg)

Used == {q \in Pages : full.used[q] # Never}

\* The two traces order the pages the same way, but for fewer than BufferSize
\* pages around each page: those that shared a buffer with it.
OrderInv ==
    /\ IsFiniteSet(Used)
    /\ kept.used \in [Pages -> Int]
    /\ \A q \in Pages : /\ full.used[q] >= Never
                        /\ kept.used[q] >= Never /\ kept.used[q] < ts
                        /\ kept.used[q] = Never <=> full.used[q] = Never
    /\ \A pg \in Buffered, q \in Pages : kept.used[q] >= kept.used[pg] => q \in Buffered
    /\ \A q \in Used : Cardinality(Ahead(q)) < BufferSize /\ Cardinality(Behind(q)) < BufferSize

MissesTyped ==
    full.misses \in [1..MaxFrames -> Nat] /\ kept.misses \in [1..MaxFrames -> Nat]

CurveInv == BufferInv /\ QueueInv /\ OrderInv /\ MissesTyped

\* Fewer than BufferSize pages share the buffer with one of its pages.
LEMMA FewOthers ==
    ASSUME NEW T, IsFiniteSet(T), Cardinality(T) <= BufferSize,
           NEW pg \in {ti.pg : ti \in T}, NEW A, A \subseteq {ti.pg : ti \in T} \ {pg}
    PROVE  Cardinality(A) < BufferSize
<1> DEFINE S == {ti.pg : ti \in T}
<1>1. IsFiniteSet(S) /\ Cardinality(S) \in Nat /\ Cardinality(S) <= BufferSize
  BY FewPages
<1> HIDE DEF S
<1>2. IsFiniteSet(S \ {pg}) /\ Cardinality(S \ {pg}) = Cardinality(S) - 1
  BY <1>1, FS_RemoveElement DEF S
<1>3. IsFiniteSet(A) /\ Cardinality(A) <= Cardinality(S \ {pg})
  BY <1>2, FS_Subset DEF S
<1>4. Cardinality(A) \in Nat
  BY <1>3, FS_CardinalityType
<1> QED BY <1>1, <1>2, <1>3, <1>4

\* A set that is larger by fewer than BufferSize elements.
LEMMA SlightlyMore ==
    ASSUME NEW A, NEW B, IsFiniteSet(A), IsFiniteSet(B),
           Cardinality(A \ B) < BufferSize, NEW m \in Nat, Cardinality(A) >= m + BufferSize - 1
    PROVE  Cardinality(B) >= m
<1> DEFINE D == A \ B
<1>1. IsFiniteSet(D) /\ IsFiniteSet(B \cup D)
  BY FS_Subset, FS_Union
<1>2. A \subseteq B \cup D
  OBVIOUS
<1> HIDE DEF D
<1>3. Cardinality(A) <= Cardinality(B \cup D)
  BY <1>1, <1>2, FS_Subset
<1>4. Cardinality(B \cup D) = Cardinality(B) + Cardinality(D) - Cardinality(B \cap D)
  BY <1>1, FS_Union
<1>5. IsFiniteSet(B \cap D)
  BY <1>1, FS_Subset
<1>6. /\ Cardinality(A) \in Nat /\ Cardinality(B) \in Nat /\ Cardinality(D) \in Nat
      /\ Cardinality(B \cup D) \in Nat /\ Cardinality(B \cap D) \in Nat
  BY <1>1, <1>5, FS_CardinalityType
<1>7. Cardinality(D) < BufferSize
  BY DEF D
<1> QED BY <1>3, <1>4, <1>6, <1>7

\* The pages used since one of the used pages was are used pages.
LEMMA SinceUsed ==
    ASSUME BufferInv, OrderInv, NEW q \in Used
    PROVE  /\ Since(full, q) \subseteq Used \ {q} /\ IsFiniteSet(Since(full, q))
           /\ Since(kept, q) \subseteq Used \ {q} /\ IsFiniteSet(Since(kept, q))
<1>1. Since(full, q) \subseteq Used \ {q}
  BY DEF BufferInv, OrderInv, Since, Used, Never
<1>2. Since(kept, q) \subseteq Used \ {q}
  BY DEF BufferInv, OrderInv, Since, Used, Never
<1> QED BY <1>1, <1>2, FS_Subset DEF OrderInv

\* Use makes the page the latest and leaves the order of the others.
LEMMA UsedLast ==
    ASSUME NEW r, NEW pg \in Pages, r.used \in [Pages -> Int], ts \in Nat,
           \A q \in Pages : r.used[q] < ts
    PROVE  /\ Use(r, pg).used \in [Pages -> Int]
           /\ \A q \in Pages : Use(r, pg).used[q] = IF q = pg THEN ts ELSE r.used[q]
           /\ \A q \in Pages \ {pg} : Since(Use(r, pg), q) = Since(r, q) \cup {pg}
           /\ Since(Use(r, pg), pg) = {}
<1> DEFINE u == Use(r, pg)
<1>1. u.used \in [Pages -> Int] /\ \A q \in Pages : u.used[q] = IF q = pg THEN ts ELSE r.used[q]
  BY DEF Use
<1> HIDE DEF u
<1>2. \A q \in Pages \ {pg} : Since(u, q) = Since(r, q) \cup {pg}
  BY <1>1 DEF Since
<1>3. Since(u, pg) = {}
  BY <1>1 DEF Since
<1> QED BY <1>1, <1>2, <1>3 DEF u

LEMMA UsedGrows ==
    ASSUME BufferInv, OrderInv, NEW pg \in Pages, full' = Use(full, pg)
    PROVE  Used' = Used \cup {pg} /\ IsFiniteSet(Used')
<1>1. ts \in Nat /\ \A q \in Pages : full'.used[q] = IF q = pg THEN ts ELSE full.used[q]
  BY UsedNow DEF BufferInv
<1>2. Used' = Used \cup {pg}
  BY <1>1 DEF Used, Never
<1>3. IsFiniteSet(Used \cup {pg})
  BY FS_AddElement DEF OrderInv
<1> QED BY <1>2, <1>3

\* The pages of the buffer are close whatever their order.
LEMMA BufferClose ==
    ASSUME NEW T, IsFiniteSet(T), Cardinality(T) <= BufferSize,
           NEW q \in {ti.pg : ti \in T},
           NEW U, NEW K, U \subseteq {ti.pg : ti \in T} \ {q}, K \subseteq {ti.pg : ti \in T} \ {q}
    PROVE  Cardinality(U \ K) < BufferSize /\ Cardinality(K \ U) < BufferSize
<1>1. U \ K \subseteq {ti.pg : ti \in T} \ {q} /\ K \ U \subseteq {ti.pg : ti \in T} \ {q}
  OBVIOUS
<1> QED BY <1>1, FewOthers

\* A reference that is dropped.
LEMMA OrderHit ==
    ASSUME BufferInv, OrderInv, BufferInv', NEW pg \in Pages, Hit(pg),
           full' = Use(full, pg), kept' = kept
    PROVE  OrderInv'
<1>1. /\ ts \in Nat /\ ts' = ts + 1 /\ tracebuffer' = tracebuffer
      /\ Buffered' = Buffered /\ pg \in Buffered
  BY InBufferMeans DEF Hit, Buffered, BufferInv
<1>2. /\ full'.used \in [Pages -> Int]
      /\ \A q \in Pages : full'.used[q] = IF q = pg THEN ts ELSE full.used[q]
  BY UsedNow
<1>3. Used' = Used \cup {pg} /\ IsFiniteSet(Used') /\ pg \in Used
  BY <1>1, UsedGrows DEF BufferInv, Used
<1>4. \A q \in Pages : /\ full'.used[q] >= Never
                       /\ kept'.used[q] >= Never /\ kept'.used[q] < ts'
                       /\ kept'.used[q] = Never <=> full'.used[q] = Never
  BY <1>1, <1>2, <1>3 DEF OrderInv, Never, Used
<1>5. \A p \in Buffered', q \in Pages : kept'.used[q] >= kept'.used[p] => q \in Buffered'
  BY <1>1 DEF OrderInv
<1>6. ASSUME NEW q \in Used'
      PROVE  Cardinality(Ahead(q)') < BufferSize /\ Cardinality(Behind(q)') < BufferSize
  <2>1. CASE q \in Buffered
    <3>1. Since(full, q)' \subseteq Buffered' \ {q} /\ Since(kept, q)' \subseteq Buffered' \ {q}
      BY <1>1, <1>5, <2>1 DEF BufferInv, OrderInv, Since
    <3> QED BY <1>1, <2>1, <3>1, BufferClose DEF BufferInv, Ahead, Behind, Buffered
  <2>2. CASE q \notin Buffered
    <3>1. q \in Used /\ q # pg
      BY <1>1, <1>3, <2>2
    <3>2. full.used[q] < full.used[pg]
      BY <1>1, <2>2, <3>1 DEF BufferInv, Used
    <3>3. Since(full, q)' = Since(full, q)
      BY <1>1, <1>2, <3>1, <3>2 DEF BufferInv, Since, Used
    <3>4. Since(kept, q)' = Since(kept, q)
      BY DEF Since
    <3> QED BY <3>1, <3>3, <3>4 DEF OrderInv, Ahead, Behind
  <2> QED BY <2>1, <2>2
<1> QED BY <1>3, <1>4, <1>5, <1>6 DEF OrderInv

\* A reference that is kept.
LEMMA OrderKept ==
    ASSUME BufferInv, OrderInv, BufferInv', NEW pg \in Pages, FirstSeen(pg) \/ Emit(pg),
           full' = Use(full, pg), kept' = Use(kept, pg)
    PROVE  OrderInv'
<1>1. /\ ts \in Nat /\ ts' = ts + 1 /\ pg \notin Buffered
      /\ Buffered' = Buffered \cup {pg} \/ Buffered' = {pg}
  BY InBufferMeans DEF FirstSeen, Emit, Buffered, BufferInv, TraceItem
<1>2. /\ full'.used \in [Pages -> Int] /\ kept'.used \in [Pages -> Int]
      /\ \A q \in Pages : /\ full'.used[q] = IF q = pg THEN ts ELSE full.used[q]
                          /\ kept'.used[q] = IF q = pg THEN ts ELSE kept.used[q]
  BY UsedLast DEF BufferInv, OrderInv
<1>3. Used' = Used \cup {pg} /\ IsFiniteSet(Used')
  BY UsedGrows
<1>4. \A q \in Pages : /\ full'.used[q] >= Never
                       /\ kept'.used[q] >= Never /\ kept'.used[q] < ts'
                       /\ kept'.used[q] = Never <=> full'.used[q] = Never
  BY <1>1, <1>2 DEF OrderInv, Never
<1>5. \A p \in Buffered', q \in Pages : kept'.used[q] >= kept'.used[p] => q \in Buffered'
  <2> SUFFICES ASSUME NEW p \in Buffered', NEW q \in Pages, kept'.used[q] >= kept'.used[p]
               PROVE  q \in Buffered'
    OBVIOUS
  <2>1. CASE q = pg
    BY <1>1, <2>1
  <2>2. CASE q # pg
    <3>1. p # pg
      BY <1>1, <1>2, <2>2 DEF OrderInv
    <3> QED BY <1>1, <1>2, <2>2, <3>1 DEF OrderInv, BufferInv
  <2> QED BY <2>1, <2>2
<1>6. ASSUME NEW q \in Used'
      PROVE  Cardinality(Ahead(q)') < BufferSize /\ Cardinality(Behind(q)') < BufferSize
  <2>1. CASE q \in Buffered'
    <3>1. q \in Pages
      BY DEF Used
    <3>2. Since(full, q)' \subseteq Buffered' \ {q} /\ Since(kept, q)' \subseteq Buffered' \ {q}
      BY <1>2, <1>5, <2>1, <3>1 DEF BufferInv, Since
    <3> QED BY <2>1, <3>2, BufferClose DEF BufferInv, Ahead, Behind, Buffered
  <2>2. CASE q \notin Buffered'
    <3>1. q \in Used /\ q # pg /\ q \in Pages
      BY <1>1, <1>3, <2>2 DEF Used
    <3>2. Since(full, q)' = Since(full, q) \cup {pg} /\ Since(kept, q)' = Since(kept, q) \cup {pg}
      <4>1. /\ Since(Use(full, pg), q) = Since(full, q) \cup {pg}
            /\ Since(Use(kept, pg), q) = Since(kept, q) \cup {pg}
        BY <1>1, <3>1, UsedLast DEF BufferInv, OrderInv
      <4>2. Since(full, q)' = Since(full', q) /\ Since(kept, q)' = Since(kept', q)
        BY DEF Since
      <4> QED BY <4>1, <4>2
    <3>3. Ahead(q)' \subseteq Ahead(q) /\ Behind(q)' \subseteq Behind(q)
      BY <3>2 DEF Ahead, Behind
    <3>4. IsFiniteSet(Ahead(q)) /\ IsFiniteSet(Behind(q))
      BY <3>1, SinceUsed, FS_Subset DEF Ahead, Behind
    <3>5. /\ Cardinality(Ahead(q)') <= Cardinality(Ahead(q))
          /\ Cardinality(Behind(q)') <= Cardinality(Behind(q))
          /\ IsFiniteSet(Ahead(q)') /\ IsFiniteSet(Behind(q)')
      BY <3>3, <3>4, FS_Subset
    <3>6. /\ Cardinality(Ahead(q)) \in Nat /\ Cardinality(Behind(q)) \in Nat
          /\ Cardinality(Ahead(q)') \in Nat /\ Cardinality(Behind(q)') \in Nat
      BY <3>4, <3>5, FS_CardinalityType
    <3> QED BY <3>1, <3>5, <3>6 DEF OrderInv
  <2> QED BY <2>1, <2>2
<1> QED BY <1>2, <1>3, <1>4, <1>5, <1>6 DEF OrderInv

\* What misses in the larger of two memories of one trace misses in the
\* smaller of the other trace.
LEMMA MissesToo ==
    ASSUME BufferInv, OrderInv, NEW pg \in Pages, NEW m \in Nat
    PROVE  /\ Misses(full, pg, m + BufferSize - 1) => Misses(kept, pg, m)
           /\ Misses(kept, pg, m + BufferSize - 1) => Misses(full, pg, m)
<1>1. CASE pg \notin Used
  BY <1>1 DEF OrderInv, Misses, Used
<1>2. CASE pg \in Used
  <2>1. IsFiniteSet(Since(full, pg)) /\ IsFiniteSet(Since(kept, pg))
    BY <1>2, SinceUsed
  <2>2. full.used[pg] # Never /\ kept.used[pg] # Never
    BY <1>2 DEF OrderInv, Used
  <2>3. /\ Cardinality(Since(full, pg) \ Since(kept, pg)) < BufferSize
        /\ Cardinality(Since(kept, pg) \ Since(full, pg)) < BufferSize
    BY <1>2 DEF OrderInv, Ahead, Behind
  <2>4. Misses(full, pg, m + BufferSize - 1) => Misses(kept, pg, m)
    BY <2>1, <2>2, <2>3, SlightlyMore DEF Misses
  <2>5. Misses(kept, pg, m + BufferSize - 1) => Misses(full, pg, m)
    BY <2>1, <2>2, <2>3, SlightlyMore DEF Misses
  <2> QED BY <2>4, <2>5
<1> QED BY <1>1, <1>2

\* What misses in a memory misses in every smaller one.
LEMMA SmallerMisses ==
    ASSUME BufferInv, OrderInv, NEW pg \in Pages, NEW m \in Nat, NEW n \in Nat, n <= m,
           Misses(full, pg, m)
    PROVE  Misses(full, pg, n)
<1>1. CASE full.used[pg] = Never
  BY <1>1 DEF Misses
<1>2. CASE full.used[pg] # Never
  <2>1. Cardinality(Since(full, pg)) \in Nat
    BY <1>2, SinceUsed, FS_CardinalityType DEF Used
  <2> QED BY <1>2, <2>1 DEF Misses
<1> QED BY <1>1, <1>2

LEMMA MissesCounted ==
    ASSUME NEW r, NEW pg \in Pages, r.misses \in [1..MaxFrames -> Nat]
    PROVE  /\ Use(r, pg).misses \in [1..MaxFrames -> Nat]
           /\ \A m \in 1..MaxFrames :
                 Use(r, pg).misses[m] = r.misses[m] + IF Misses(r, pg, m) THEN 1 ELSE 0
<1>1. Use(r, pg).misses =
         [m \in 1..MaxFrames |-> r.misses[m] + IF Misses(r, pg, m) THEN 1 ELSE 0]
  BY DEF Use
<1>2. ASSUME NEW m \in 1..MaxFrames
      PROVE  r.misses[m] + (IF Misses(r, pg, m) THEN 1 ELSE 0) \in Nat
  <2>1. r.misses[m] \in Nat
    OBVIOUS
  <2>2. (IF Misses(r, pg, m) THEN 1 ELSE 0) \in Nat
    OBVIOUS
  <2> QED BY <2>1, <2>2
<1> QED BY <1>1, <1>2

LEMMA CurveStep ==
    ASSUME CurveInv, MissCurvesClose, NEW pg \in Pages, Reference(pg), full' = Use(full, pg),
           kept' = IF toprint' # toprint THEN Use(kept, pg) ELSE kept
    PROVE  CurveInv' /\ MissCurvesClose'
<1>1. BufferInv' /\ QueueInv' /\ (toprint' = toprint => Hit(pg))
  BY BufferStep, QueueStep DEF CurveInv
<1>2. MaxFrames \in Nat
  BY FramesAssumption
<1>3. /\ full'.misses \in [1..MaxFrames -> Nat]
      /\ \A m \in 1..MaxFrames :
            full'.misses[m] = full.misses[m] + IF Misses(full, pg, m) THEN 1 ELSE 0
  BY MissesCounted DEF CurveInv, MissesTyped
<1>4. \A m \in 1..MaxFrames : full.misses[m] \in Nat /\ kept.misses[m] \in Nat
  BY DEF CurveInv, MissesTyped
<1>5. CASE Hit(pg)
  <2>1. kept' = kept
    BY <1>5 DEF Hit
  <2>2. OrderInv'
    BY <1>1, <1>5, <2>1, OrderHit DEF CurveInv
  <2>3. ASSUME NEW m \in 1..MaxFrames, m + BufferSize - 1 <= MaxFrames
        PROVE  /\ full'.misses[m + BufferSize - 1] <= kept'.misses[m]
               /\ kept'.misses[m + BufferSize - 1] <= full'.misses[m]
    <3>1. m + BufferSize - 1 \in 1..MaxFrames /\ m + BufferSize - 1 \in Nat
      BY <1>2, <2>3
    <3>2. ~Misses(full, pg, m + BufferSize - 1)
      <4>1. ~Misses(full, pg, BufferSize)
        BY <1>5, InBufferMeans, RecentlyUsed DEF CurveInv, Hit
      <4> QED BY <3>1, <4>1, SmallerMisses DEF CurveInv
    <3>3. /\ full.misses[m + BufferSize - 1] <= kept.misses[m]
          /\ kept.misses[m + BufferSize - 1] <= full.misses[m]
      BY <2>3 DEF MissCurvesClose
    <3> HIDE DEF MissCurvesClose
    <3> QED BY <1>3, <1>4, <2>1, <3>1, <3>2, <3>3
  <2> QED BY <1>1, <1>3, <2>1, <2>2, <2>3 DEF CurveInv, MissesTyped, MissCurvesClose
<1>6. CASE FirstSeen(pg) \/ Emit(pg)
  <2>1. kept' = Use(kept, pg)
    <3>1. ~Hit(pg)
      BY <1>6 DEF FirstSeen, Emit, Hit
    <3> QED BY <1>1, <3>1
  <2>2. OrderInv'
    BY <1>1, <1>6, <2>1, OrderKept DEF CurveInv
  <2>3. /\ kept'.misses \in [1..MaxFrames -> Nat]
        /\ \A m \in 1..MaxFrames :
              kept'.misses[m] = kept.misses[m] + IF Misses(kept, pg, m) THEN 1 ELSE 0
    BY <2>1, MissesCounted DEF CurveInv, MissesTyped
  <2>4. ASSUME NEW m \in 1..MaxFrames, m + BufferSize - 1 <= MaxFrames
        PROVE  /\ full'.misses[m + BufferSize - 1] <= kept'.misses[m]
               /\ kept'.misses[m + BufferSize - 1] <= full'.misses[m]
    <3>1. m + BufferSize - 1 \in 1..MaxFrames /\ m \in Nat
      BY <1>2, <2>4
    <3>2. /\ Misses(full, pg, m + BufferSize - 1) => Misses(kept, pg, m)
          /\ Misses(kept, pg, m + BufferSize - 1) => Misses(full, pg, m)
      BY <3>1, MissesToo DEF CurveInv
    <3>3. /\ full.misses[m + BufferSize - 1] <= kept.misses[m]
          /\ kept.misses[m + BufferSize - 1] <= full.misses[m]
      BY <2>4 DEF MissCurvesClose
    <3> QED BY <1>3, <1>4, <2>3, <3>1, <3>2, <3>3
  <2> QED BY <1>1, <1>3, <2>2, <2>3, <2>4 DEF CurveInv, MissesTyped, MissCurvesClose
<1> QED BY <1>5, <1>6 DEF Reference

LEMMA CurveInit == RInit => CurveInv /\ MissCurvesClose
<1> SUFFICES ASSUME RInit PROVE OrderInv /\ MissesTyped /\ MissCurvesClose
  BY BufferInit DEF CurveInv
<1>1. /\ full.used = [q \in Pages |-> -1] /\ kept.used = [q \in Pages |-> -1] /\ ts = 0
      /\ full.misses = [m \in 1..MaxFrames |-> 0] /\ kept.misses = [m \in 1..MaxFrames |-> 0]
      /\ Buffered = {}
  BY DEF RInit, Init, Fresh, Never, Buffered
<1>2. Used = {} /\ IsFiniteSet(Used)
  BY <1>1, FS_EmptySet DEF Used, Never
<1>3. OrderInv
  BY <1>1, <1>2 DEF OrderInv, Never
<1>4. MissesTyped
  BY <1>1 DEF MissesTyped
<1>5. MissCurvesClose
  BY <1>1, FramesAssumption DEF MissCurvesClose
<1> QED BY <1>3, <1>4, <1>5

\* The reduced trace (fastslim.py:80-88) says of every memory what is true of
\* the full one up to BufferSize - 1 frames: for any pages, any buffer, and
\* traces of any length.
THEOREM CurvesAreClose == RSpec => []MissCurvesClose
<1>1. CurveInv /\ MissCurvesClose /\ [RNext]_rvars => CurveInv' /\ MissCurvesClose'
  <2> SUFFICES ASSUME CurveInv, MissCurvesClose, [RNext]_rvars
               PROVE  CurveInv' /\ MissCurvesClose'
    OBVIOUS
  <2>1. CASE RNext
    <3>1. PICK pg \in Pages : /\ Reference(pg) /\ full' = Use(full, pg)
                              /\ kept' = IF toprint' # toprint THEN Use(kept, pg) ELSE kept
      BY <2>1 DEF RNext
    <3> QED BY <3>1, CurveStep
  <2>2. CASE UNCHANGED rvars
    <3>1. /\ ts' = ts /\ tracebuffer' = tracebuffer /\ toprint' = toprint
          /\ full' = full /\ kept' = kept
      BY <2>2 DEF rvars, vars
    <3>2. BufferInv' /\ QueueInv'
      BY <2>2, BufferNext DEF CurveInv
    <3>3. OrderInv'
      BY <3>1 DEF CurveInv, OrderInv, Used, Buffered, Ahead, Behind, Since
    <3> QED BY <3>1, <3>2, <3>3 DEF CurveInv, MissesTyped, MissCurvesClose
  <2> QED BY <2>1, <2>2
<1> QED BY <1>1, CurveInit, PTL DEF RSpec

=============================================================================
