------------------------ MODULE PagerRefinementProofs ------------------------
(***************************************************************************)
(* What the simulator's algorithms do to the set of resident pages, for    *)
(* every memory size, trace and set of pages, as long as the swap file can *)
(* hold every page: each algorithm evicts a page its policy allows, lru    *)
(* keeps the pages used last, and no store to a resident page is lost.     *)
(***************************************************************************)
EXTENDS PagerRefinement, PagerProofs

USE PagesAssumption, TableAssumption, SizeAssumption, AlgAssumption, TraceAssumption,
    FaultAssumption

-----------------------------------------------------------------------------
(* What a step does.                                                       *)

LEMMA NoSwapFails == ASSUME RoomySwap, FrameInv PROVE ~SwapFails
<1> SUFFICES ASSUME SwapFails PROVE FALSE
  OBVIOUS
<1>1. Page \in Pages /\ Evicting /\ EvictDefined(alg, referlist)
  BY CurrentAccess DEF FrameInv, SwapFails, Evicting, Missing
<1>2. PICK e \in Victims : WriteFaults \/ SlotsFor(OffsFor(Page), Owner(e)) = {}
  BY DEF SwapFails
<1>3. Owner(e) \in Pages /\ OffsFor(Page) = swap_off
  BY <1>1, VictimVacates, NewTableHarmless DEF Resident
<1> QED BY <1>2, <1>3, RoomForVictim DEF RoomySwap

\* A hit: the page stays in its frame, marked referenced, and a store to it
\* counts in that frame alone.
Stays ==
    /\ Page \in Resident /\ Resident' = Resident
    /\ \A q \in Resident : word'[q].num = word[q].num /\ (q # Page => word'[q] = word[q])
    /\ word'[Page].ref
    /\ word'[Page].dirty <=> word[Page].dirty \/ Type = Store
    /\ physmem'[word[Page].num].version =
          physmem[word[Page].num].version + (IF Type = Store THEN 1 ELSE 0)
    /\ \A g \in Frames : g # word[Page].num => physmem'[g] = physmem[g]
    /\ referlist' = RefFcn(alg, referlist, word', Page)

LEMMA HitStays == ASSUME FrameInv, Hit PROVE Stays
<1> DEFINE w0 == WordsFor(Page)
           n == word[Page].num
<1>1. TypeInv /\ Replaying /\ Page \in Pages /\ WordsOK(w0) /\ w0[Page].valid
  BY CurrentAccess, WordsForTypes DEF FrameInv, Hit
<1>2. /\ word' = Touch(w0, Page, Type)
      /\ physmem' = [physmem EXCEPT ![w0[Page].num].version =
                        physmem[w0[Page].num].version + (IF Type = Store THEN 1 ELSE 0)]
      /\ referlist' = RefFcn(alg, referlist, word', Page)
  BY DEF Hit, Reference
<1>3. \A q \in Pages : (w0[q].valid <=> word[q].valid) /\ (word[q].valid => w0[q] = word[q])
  BY <1>1, NewTableHarmless
<1>4. word[Page].valid /\ w0[Page] = word[Page]
  BY <1>1, <1>3
<1> HIDE DEF w0
<1>5. /\ \A q \in Pages : q # Page => word'[q] = w0[q]
      /\ word'[Page].valid /\ word'[Page].num = n /\ word'[Page].ref
      /\ word'[Page].dirty <=> word[Page].dirty \/ Type = Store
  <2>1. w0 \in [Pages -> WordType] /\ w0[Page] \in WordType
    BY <1>1 DEF WordsOK
  <2>2. word' = [w0 EXCEPT ![Page] = [w0[Page] EXCEPT !.valid = TRUE, !.ref = TRUE,
                                         !.dirty = w0[Page].dirty \/ Type = Store]]
    BY <1>2 DEF Touch
  <2>3. word'[Page] = [w0[Page] EXCEPT !.valid = TRUE, !.ref = TRUE,
                                       !.dirty = w0[Page].dirty \/ Type = Store]
    BY <1>1, <2>1, <2>2
  <2>4. /\ word'[Page].valid /\ word'[Page].num = w0[Page].num /\ word'[Page].ref
        /\ word'[Page].dirty = (w0[Page].dirty \/ Type = Store)
    BY <2>1, <2>3 DEF WordType
  <2> QED BY <1>1, <1>4, <2>1, <2>2, <2>4
<1>6. Resident' = Resident /\ Page \in Resident
  BY <1>1, <1>3, <1>4, <1>5 DEF Resident
<1>7. physmem \in [Frames -> PageType] /\ n \in Frames
  BY <1>1 DEF TypeInv, TypeOK, WordType
<1>8. /\ physmem'[n].version = physmem[n].version + (IF Type = Store THEN 1 ELSE 0)
      /\ \A g \in Frames : g # n => physmem'[g] = physmem[g]
  BY <1>2, <1>4, <1>7 DEF PageType
<1> HIDE DEF n
<1> QED BY <1>2, <1>3, <1>4, <1>5, <1>6, <1>8 DEF Stays, Resident, n

\* A miss: the pages in gone leave, the page takes frame f, and the list was l
\* before the reference.
Moves(gone, l, f) ==
    /\ Page \in Pages \ Resident /\ Resident' = (Resident \ gone) \union {Page}
    /\ f \in Frames /\ l \in Seq(Pages)
    /\ \A q \in Resident \ gone : /\ word'[q].num = word[q].num /\ word[q].num # f
                                  /\ word'[q].dirty = word[q].dirty
    /\ word'[Page].num = f /\ word'[Page].ref
    /\ word'[Page].dirty <=> Type = Store
    /\ physmem'[f].version = IF Type = Store THEN 1 ELSE 0
    /\ \A g \in Frames : g # f => physmem'[g] = physmem[g]
    /\ referlist' = RefFcn(alg, l, word', Page)

LEMMA PlaceMoves ==
    ASSUME FrameInv, Replaying, ~word[Page].valid, NEW w, WordsOK(w), NEW l \in Seq(Pages),
           NEW f \in Frames, NEW c, Place(w, l, f, c), NEW gone,
           \A q \in Pages : /\ w[q].valid <=> word[q].valid /\ q \notin gone
                            /\ w[q].valid => /\ w[q].num = word[q].num /\ w[q].num # f
                                             /\ w[q].dirty = word[q].dirty
    PROVE  Moves(gone, l, f) /\ \A q \in Pages : q # Page => word'[q] = w[q]
<1> DEFINE x == Install(w, Page, f)
           z == [ZeroWord EXCEPT !.num = f, !.valid = TRUE]
           t == [z EXCEPT !.valid = TRUE, !.ref = TRUE, !.dirty = z.dirty \/ Type = Store]
           pm == [physmem EXCEPT ![f] = Fill(Page)]
<1>1. TypeInv /\ Page \in Pages /\ w \in [Pages -> WordType]
  BY CurrentAccess DEF FrameInv, WordsOK
<1>2. x = [w EXCEPT ![Page] = z] /\ x[Page] = z
  BY <1>1 DEF Install
<1>3. /\ word' = [x EXCEPT ![Page] = [x[Page] EXCEPT !.valid = TRUE, !.ref = TRUE,
                                         !.dirty = x[Page].dirty \/ Type = Store]]
      /\ physmem' = [pm EXCEPT ![x[Page].num].version =
                        pm[x[Page].num].version + (IF Type = Store THEN 1 ELSE 0)]
      /\ referlist' = RefFcn(alg, l, word', Page)
  BY DEF Place, Reference, Touch
<1>4. z.num = f /\ z.valid /\ ~z.dirty
  BY DEF ZeroWord
<1>5. t.num = f /\ t.valid /\ t.ref /\ (t.dirty <=> Type = Store)
  BY DEF ZeroWord
<1> HIDE DEF x, z
<1>6. word'[Page] = t /\ \A q \in Pages : q # Page => word'[q] = w[q]
  BY <1>1, <1>2, <1>3
<1> HIDE DEF t
<1>7. Resident' = (Resident \ gone) \union {Page} /\ Page \notin Resident
  BY <1>1, <1>5, <1>6 DEF Resident
<1>8. /\ physmem'[f].version = IF Type = Store THEN 1 ELSE 0
      /\ \A g \in Frames : g # f => physmem'[g] = physmem[g]
  <2>1. physmem \in [Frames -> PageType]
    BY <1>1 DEF TypeInv, TypeOK
  <2>2. Fill(Page) = [version |-> 0, vaddr |-> Page]
    BY <1>1, WordsForTypes DEF Fill, WordsOK
  <2>3. pm[f] = [version |-> 0, vaddr |-> Page] /\ DOMAIN pm = Frames
    BY <2>1, <2>2
  <2>4. physmem' = [pm EXCEPT ![f].version = pm[f].version + (IF Type = Store THEN 1 ELSE 0)]
    BY <1>2, <1>3, <1>4
  <2>5. physmem'[f].version = pm[f].version + (IF Type = Store THEN 1 ELSE 0)
    BY <2>3, <2>4
  <2>6. \A g \in Frames : g # f => physmem'[g] = pm[g] /\ pm[g] = physmem[g]
    BY <2>1, <2>3, <2>4
  <2> QED BY <2>3, <2>5, <2>6
<1>9. \A q \in Resident \ gone : /\ word'[q].num = word[q].num /\ word[q].num # f
                                 /\ word'[q].dirty = word[q].dirty
  BY <1>1, <1>6, <1>7 DEF Resident
<1> QED BY <1>1, <1>3, <1>5, <1>6, <1>7, <1>8, <1>9 DEF Moves

LEMMA LoadMoves ==
    ASSUME FrameInv, UseFreeFrame
    PROVE  \E f \in Frames : Moves({}, referlist, f) /\ \A q \in Resident : word'[q] = word[q]
<1> DEFINE w0 == WordsFor(Page)
           w1 == FirstUse(w0, Page)
           f == Min(FreeFrames)
<1>1. TypeInv /\ Replaying /\ Page \in Pages /\ WordsOK(w0) /\ WordsOK(w1) /\ ~w0[Page].valid
  BY CurrentAccess, WordsForTypes, FirstUseTypes DEF FrameInv, UseFreeFrame, Missing
<1>2. Place(w1, referlist, f, count)
  BY DEF UseFreeFrame
<1>3. \A q \in Pages : (w1[q].valid <=> word[q].valid) /\ (word[q].valid => w1[q] = word[q])
  <2>1. \A q \in Pages : (w0[q].valid <=> word[q].valid) /\ (word[q].valid => w0[q] = word[q])
    BY <1>1, NewTableHarmless
  <2>2. w1[Page].valid = w0[Page].valid /\ \A q \in Pages : q # Page => w1[q] = w0[q]
    BY <1>1 DEF FirstUse, WordsOK, WordType
  <2> HIDE DEF w0, w1
  <2> QED BY <1>1, <2>1, <2>2
<1>4. f \in Frames /\ ~coremap[f].in_use
  <2>1. FreeFrames \subseteq Nat /\ FreeFrames # {}
    BY DEF UseFreeFrame, FreeFrames, Frames
  <2>2. f \in FreeFrames
    BY <2>1, MinProps
  <2> QED BY <2>2 DEF FreeFrames
<1>5. ~word[Page].valid /\ referlist \in Seq(Pages)
  BY <1>1, NewTableHarmless DEF TypeInv, TypeOK
<1>6. \A q \in Pages : word[q].valid => word[q].num # f
  BY <1>4 DEF FrameInv, FrameTable, Resident
<1> HIDE DEF w0, w1, f
<1>7. Moves({}, referlist, f) /\ \A q \in Pages : q # Page => word'[q] = w1[q]
  BY <1>1, <1>2, <1>3, <1>4, <1>5, <1>6, PlaceMoves
<1>8. \A q \in Resident : q \in Pages /\ word[q].valid /\ q # Page
  BY <1>5 DEF Resident
<1>9. \A q \in Resident : word'[q] = word[q]
  BY <1>3, <1>7, <1>8
<1> QED BY <1>4, <1>7, <1>9

\* Before the page is placed the victim is no longer valid, and no other
\* resident page changed in more than its reference bit.
LEMMA VictimWords ==
    ASSUME FrameInv, Evicting, EvictDefined(alg, referlist), NEW e \in Victims
    PROVE  \A q \in Pages :
              /\ Unmapped(e)[q].valid <=> word[q].valid /\ q # Owner(e)
              /\ Unmapped(e)[q].valid =>
                    /\ Unmapped(e)[q].num = word[q].num /\ word[q].num # e.frame
                    /\ Unmapped(e)[q].dirty = word[q].dirty
              /\ q # Owner(e) => Unmapped(e)[q] = e.word[q]
<1> DEFINE w0 == WordsFor(Page)
           w1 == FirstUse(w0, Page)
           u == Unmapped(e)
           o == Owner(e)
<1>1. /\ TypeInv /\ Replaying /\ Page \in Pages /\ ~w0[Page].valid
      /\ WordsOK(w0) /\ WordsOK(w1)
  BY CurrentAccess, WordsForTypes, FirstUseTypes DEF FrameInv, Evicting, Missing
<1>2. \A q \in Pages : (w1[q].valid <=> word[q].valid) /\ (word[q].valid => w1[q] = word[q])
  <2>1. \A q \in Pages : (w0[q].valid <=> word[q].valid) /\ (word[q].valid => w0[q] = word[q])
    BY <1>1, NewTableHarmless
  <2>2. w1[Page].valid = w0[Page].valid /\ \A q \in Pages : q # Page => w1[q] = w0[q]
    BY <1>1 DEF FirstUse, WordsOK, WordType
  <2> HIDE DEF w0, w1
  <2> QED BY <1>1, <2>1, <2>2
<1>3. /\ o \in Pages /\ WordsOK(u) /\ SameButRef(w1, e.word)
  BY <1>1, VictimTypes
<1>4. o \in Resident /\ Vacated(u, e.list, e.frame)
  BY VictimVacates
<1>5. e.word \in Words(Pages, 0..(memsize - 1))
  <2>1. w1 \in Words(Pages, 0..(memsize - 1))
    BY <1>1 DEF WordsOK, WordType, Words, Frames
  <2>2. DOMAIN coremap = 0..(memsize - 1) /\ referlist \in Seq(Pages) /\ trace \in Seq(Accesses)
        /\ curr \in Nat
    BY <1>1, CurrentAccess DEF TypeInv, TypeOK, Frames
  <2> QED BY <2>1, <2>2, EvictFcnProps DEF Victims
<1>6. \A q \in Pages : /\ e.word[q].num = w1[q].num /\ e.word[q].dirty = w1[q].dirty
                       /\ e.word[q].valid <=> w1[q].valid
  BY <1>1, <1>3 DEF SameButRef, WordsOK
<1> HIDE DEF w0, w1
<1>7. \A q \in Pages : q # o => u[q] = e.word[q]
  BY <1>3, <1>5 DEF Unmapped, ToggleValid, Words
<1>8. ~u[o].valid
  <2>1. e.word[o].valid /\ e.word[o] \in [num : 0..(memsize - 1), valid : BOOLEAN, dirty : BOOLEAN,
                                         ref : BOOLEAN, onswap : BOOLEAN]
    BY <1>2, <1>3, <1>4, <1>5, <1>6 DEF Resident, Words
  <2>2. u = [e.word EXCEPT ![o] = [e.word[o] EXCEPT !.valid = ~e.word[o].valid]]
    BY DEF Unmapped, ToggleValid
  <2>3. u[o] = [e.word[o] EXCEPT !.valid = ~e.word[o].valid]
    BY <1>3, <1>5, <2>2 DEF Words
  <2> QED BY <2>1, <2>3
<1>9. \A q \in Pages : u[q].valid => u[q].num # e.frame
  BY <1>4 DEF Vacated
<1> HIDE DEF u, o
<1>10. ASSUME NEW q \in Pages
       PROVE  /\ u[q].valid <=> word[q].valid /\ q # o
              /\ u[q].valid => /\ u[q].num = word[q].num /\ word[q].num # e.frame
                               /\ u[q].dirty = word[q].dirty
  <2>1. CASE q = o
    BY <1>8, <2>1
  <2>2. CASE q # o
    BY <1>2, <1>6, <1>7, <1>9, <2>2
  <2> QED BY <2>1, <2>2
<1> QED BY <1>7, <1>10 DEF u, o

LEMMA EvictMoves ==
    ASSUME FrameInv, EvictClean \/ EvictDirty
    PROVE  /\ FreeFrames = {} /\ EvictDefined(alg, referlist) /\ Evicting
           /\ \E e \in Victims :
                 /\ Owner(e) \in Resident /\ word[Owner(e)].num = e.frame
                 /\ Moves({Owner(e)}, e.list, e.frame)
                 /\ \A q \in Resident \ {Owner(e)} : word'[q] = e.word[q]
<1>1. TypeInv /\ Replaying /\ Page \in Pages /\ Evicting /\ EvictDefined(alg, referlist)
  BY CurrentAccess DEF FrameInv, EvictClean, EvictDirty, Evicting, Missing
<1>0. PICK e \in Victims :
         \E w, c : /\ w = Unmapped(e) \/ w = ClearDirty(Unmapped(e), Owner(e))
                  /\ Place(w, e.list, Unmapped(e)[Owner(e)].num, c)
  BY DEF EvictClean, EvictDirty
<1>2. PICK w, c : /\ w = Unmapped(e) \/ w = ClearDirty(Unmapped(e), Owner(e))
                  /\ Place(w, e.list, Unmapped(e)[Owner(e)].num, c)
  BY <1>0
<1> DEFINE u == Unmapped(e)
           o == Owner(e)
<1>3. /\ e.frame \in Frames /\ e.list \in Seq(Pages) /\ WordsOK(u) /\ o \in Resident /\ o \in Pages
      /\ u[o].num = e.frame
  BY <1>1, VictimVacates DEF Resident
<1>4. \A q \in Pages :
         /\ u[q].valid <=> word[q].valid /\ q # o
         /\ u[q].valid => /\ u[q].num = word[q].num /\ word[q].num # e.frame
                          /\ u[q].dirty = word[q].dirty
         /\ q # o => u[q] = e.word[q]
  BY <1>1, VictimWords
<1> HIDE DEF u, o
<1>5. /\ WordsOK(w) /\ w[o].valid = u[o].valid
      /\ \A q \in Pages : q # o => w[q] = u[q]
  BY <1>2, <1>3 DEF ClearDirty, WordsOK, WordType, u, o
<1>6. ~word[Page].valid
  BY <1>1, NewTableHarmless DEF Evicting, Missing
<1>7. word[o].num = e.frame
  BY <1>1, <1>3 DEF FrameInv, FrameTable, Evicting, FreeFrames, Owner, o
<1>8. /\ Moves({o}, e.list, e.frame)
      /\ \A q \in Pages : q # Page => word'[q] = w[q]
  <2>1. Place(w, e.list, e.frame, c)
    BY <1>2, <1>3 DEF u, o
  <2>2. ASSUME NEW q \in Pages
        PROVE  /\ w[q].valid <=> word[q].valid /\ q \notin {o}
               /\ w[q].valid => /\ w[q].num = word[q].num /\ w[q].num # e.frame
                                /\ w[q].dirty = word[q].dirty
    <3>1. CASE q = o
      BY <1>4, <1>5, <3>1
    <3>2. CASE q # o
      BY <1>4, <1>5, <3>2
    <3> QED BY <3>1, <3>2
  <2> QED BY <1>1, <1>3, <1>5, <1>6, <2>1, <2>2, PlaceMoves
<1>9. \A q \in Resident \ {o} : word'[q] = e.word[q]
  BY <1>4, <1>5, <1>6, <1>8 DEF Resident
<1> QED BY <1>1, <1>3, <1>7, <1>8, <1>9 DEF Evicting, o

-----------------------------------------------------------------------------
(* The four kinds of steps, with the history of loads.                     *)

Quiet == UNCHANGED <<trace, pos, alg, word, coremap, physmem, referlist, count, loadedAt>>

Advances == Replaying /\ pos' = pos + 1 /\ UNCHANGED <<trace, alg>>

HitStep ==
    /\ Stays /\ FreeFrames' = FreeFrames /\ loadedAt' = loadedAt
    /\ count'.hit = count.hit + 1 /\ count'.miss = count.miss
    /\ count'.clean + count'.dirty = count.clean + count.dirty

MissStep ==
    /\ loadedAt' = [loadedAt EXCEPT ![Page] = pos]
    /\ count'.hit = count.hit /\ count'.miss = count.miss + 1

LoadStep ==
    /\ MissStep /\ FreeFrames # {}
    /\ \E f \in Frames : Moves({}, referlist, f) /\ \A q \in Resident : word'[q] = word[q]
    /\ count'.clean + count'.dirty = count.clean + count.dirty

ReplaceStep ==
    /\ MissStep /\ FreeFrames = {} /\ FreeFrames' = {}
    /\ EvictDefined(alg, referlist) /\ Evicting
    /\ \E e \in Victims :
          /\ Owner(e) \in Resident /\ word[Owner(e)].num = e.frame
          /\ Moves({Owner(e)}, e.list, e.frame)
          /\ \A q \in Resident \ {Owner(e)} : word'[q] = e.word[q]
    /\ count'.clean + count'.dirty = count.clean + count.dirty + 1

LEMMA Referenced ==
    ASSUME Hit \/ UseFreeFrame \/ EvictClean \/ EvictDirty
    PROVE  Advances
<1>1. Replaying /\ \E w, cm, pm, l, c : Reference(w, cm, pm, l, c)
  <2>1. CASE Hit
    BY <2>1 DEF Hit
  <2>2. CASE UseFreeFrame
    BY <2>2 DEF UseFreeFrame, Missing, Place
  <2>3. CASE EvictClean
    BY <2>3 DEF EvictClean, Evicting, Missing, Place
  <2>4. CASE EvictDirty
    BY <2>4 DEF EvictDirty, Evicting, Missing, Place
  <2> QED BY <2>1, <2>2, <2>3, <2>4
<1> QED BY <1>1 DEF Advances, Reference

LEMMA HSteps ==
    ASSUME RoomySwap, FrameInv, [HNext]_hvars
    PROVE  Quiet \/ (Advances /\ (HitStep \/ LoadStep \/ ReplaceStep))
<1>1. TypeInv /\ [Next]_vars /\ ~SwapFails
  BY NoSwapFails DEF HNext, hvars, FrameInv
<1>2. /\ count.miss \in Nat /\ count.clean \in Nat /\ count.dirty \in Nat
  BY <1>1 DEF TypeInv, TypeOK, CountType
<1>3. CASE EvictCrashes \/ Finish \/ Stopped \/ UNCHANGED vars
  <2>1. UNCHANGED <<trace, pos, alg, word, coremap, physmem, referlist, count>>
    BY <1>3 DEF EvictCrashes, Finish, Stopped, vars
  <2>2. loadedAt' = loadedAt
    BY <1>2, <2>1 DEF HNext, hvars
  <2> QED BY <2>1, <2>2 DEF Quiet
<1>4. CASE Hit \/ UseFreeFrame \/ EvictClean \/ EvictDirty
  <2>1. Advances
    BY <1>4, Referenced
  <2>2. pos' # pos
    BY <1>1, <2>1 DEF Advances, TypeInv, TypeOK
  <2>3. loadedAt' = IF count'.miss > count.miss
                    THEN [loadedAt EXCEPT ![Page] = pos] ELSE loadedAt
    BY <2>2 DEF HNext, hvars, vars
  <2>4. CASE /\ Hit /\ count'.hit = count.hit + 1 /\ count'.miss = count.miss
             /\ count'.clean = count.clean /\ count'.dirty = count.dirty
    <3>1. loadedAt' = loadedAt
      BY <1>2, <2>3, <2>4
    <3>2. Stays /\ FreeFrames' = FreeFrames
      BY <2>4, HitStays, FramesStay
    <3> QED BY <2>1, <2>4, <3>1, <3>2 DEF HitStep
  <2>5. ASSUME count'.hit = count.hit, count'.miss = count.miss + 1
        PROVE  MissStep
    BY <1>2, <2>3, <2>5 DEF MissStep
  <2>6. CASE /\ UseFreeFrame /\ count'.hit = count.hit /\ count'.miss = count.miss + 1
             /\ count'.clean = count.clean /\ count'.dirty = count.dirty
    <3>1. FreeFrames # {}
      BY <2>6 DEF UseFreeFrame
    <3> QED BY <2>1, <2>5, <2>6, <3>1, LoadMoves DEF LoadStep
  <2>7. CASE /\ EvictClean \/ EvictDirty
             /\ count'.hit = count.hit /\ count'.miss = count.miss + 1
             /\ count'.clean + count'.dirty = count.clean + count.dirty + 1
    <3>1. FreeFrames' = FreeFrames
      BY <2>7, FramesStay
    <3> QED BY <2>1, <2>5, <2>7, <3>1, EvictMoves DEF ReplaceStep
  <2> QED BY <1>1, <1>2, <2>2, <2>4, <2>6, <2>7, StepCounted
<1> QED BY <1>1, <1>3, <1>4 DEF Next

-----------------------------------------------------------------------------
(* No store to a resident page is lost.                                    *)

HistoryOK ==
    /\ loadedAt \in [Pages -> 0..(pos - 1)]
    /\ \A q \in Resident : loadedAt[q] > 0

StoreInv == FrameInv /\ HistoryOK /\ StoresKept

LEMMA HistoryKept ==
    ASSUME FrameInv, HistoryOK, Quiet \/ (Advances /\ (HitStep \/ LoadStep \/ ReplaceStep))
    PROVE  HistoryOK'
<1>1. pos \in Nat \ {0}
  BY DEF FrameInv, TypeInv, TypeOK
<1>2. CASE Quiet
  BY <1>2 DEF Quiet, HistoryOK, Resident
<1>3. CASE Advances /\ HitStep
  BY <1>1, <1>3 DEF Advances, HitStep, Stays, HistoryOK
<1>4. CASE Advances /\ (LoadStep \/ ReplaceStep)
  <2>1. loadedAt' = [loadedAt EXCEPT ![Page] = pos] /\ pos' = pos + 1
    BY <1>4 DEF LoadStep, ReplaceStep, MissStep, Advances
  <2>2. Page \in Pages /\ Resident' \subseteq Resident \union {Page}
    BY <1>4 DEF LoadStep, ReplaceStep, Moves
  <2> QED BY <1>1, <2>1, <2>2 DEF HistoryOK, Resident
<1> QED BY <1>2, <1>3, <1>4

LEMMA StoresCounted ==
    ASSUME TypeInv, Advances, NEW q \in Pages, loadedAt'[q] \in 1..pos
    PROVE  /\ StoresSinceLoad(q)' \in Nat
           /\ loadedAt'[q] < pos /\ loadedAt'[q] = loadedAt[q] =>
                 /\ StoresSinceLoad(q) \in Nat
                 /\ StoresSinceLoad(q)' =
                       StoresSinceLoad(q) + (IF Type = Store /\ Page = q THEN 1 ELSE 0)
           /\ loadedAt'[q] = pos =>
                 StoresSinceLoad(q)' = IF Type = Store /\ Page = q THEN 1 ELSE 0
<1> DEFINE made(a, b) == {i \in a..b : trace[i] = [type |-> Store, page |-> q]}
           new == IF Type = Store /\ Page = q THEN {pos} ELSE {}
           n == loadedAt'[q]
<1>1. pos \in Nat /\ n \in 1..pos /\ trace[pos] \in Accesses /\ pos' = pos + 1 /\ trace' = trace
  BY CurrentAccess DEF TypeInv, TypeOK, Replaying, Advances
<1>2. trace[pos] = [type |-> Store, page |-> q] <=> Type = Store /\ Page = q
  <2>1. trace[pos] = [type |-> trace[pos].type, page |-> trace[pos].page]
    BY <1>1 DEF Accesses
  <2> QED BY <2>1 DEF Type, Page
<1>3. made(n, pos) = made(n, pos - 1) \union new
  BY <1>1, <1>2
<1>4. \A b \in Int : IsFiniteSet(made(n, b)) /\ Cardinality(made(n, b)) \in Nat
  <2> TAKE b \in Int
  <2>1. IsFiniteSet(n..b) /\ made(n, b) \subseteq n..b
    BY <1>1, FS_Interval
  <2> HIDE DEF made
  <2> QED BY <2>1, FS_Subset, FS_CardinalityType
<1>5. StoresSinceLoad(q)' = Cardinality(made(n, pos))
  <2>1. pos' - 1 = pos
    BY <1>1
  <2> QED BY <1>1, <2>1 DEF StoresSinceLoad
<1>6. n = loadedAt[q] => StoresSinceLoad(q) = Cardinality(made(n, pos - 1))
  BY DEF StoresSinceLoad
<1>7. pos \notin made(n, pos - 1) /\ (n = pos => made(n, pos - 1) = {})
  BY <1>1
<1> HIDE DEF made, n
<1>8. Cardinality(made(n, pos)) = Cardinality(made(n, pos - 1))
                                     + (IF Type = Store /\ Page = q THEN 1 ELSE 0)
  <2>1. pos - 1 \in Int
    BY <1>1
  <2>2. IsFiniteSet(made(n, pos - 1)) /\ Cardinality(made(n, pos - 1)) \in Nat
    BY <1>4, <2>1
  <2>3. CASE ~(Type = Store /\ Page = q)
    <3>1. made(n, pos) = made(n, pos - 1)
      BY <1>3, <2>3
    <3> QED BY <2>2, <2>3, <3>1
  <2>4. CASE Type = Store /\ Page = q
    <3>1. made(n, pos) = made(n, pos - 1) \union {pos}
      BY <1>3, <2>4
    <3>2. Cardinality(made(n, pos)) = Cardinality(made(n, pos - 1)) + 1
      BY <1>7, <2>2, <3>1, FS_AddElement
    <3> QED BY <2>4, <3>2
  <2> QED BY <2>3, <2>4
<1>9. pos - 1 \in Int /\ pos \in Int
  BY <1>1
<1>10. n = pos => Cardinality(made(n, pos - 1)) = 0
  BY <1>7, FS_EmptySet
<1>11. /\ Cardinality(made(n, pos)) \in Nat /\ Cardinality(made(n, pos - 1)) \in Nat
  BY <1>4, <1>9
<1>12. StoresSinceLoad(q)' \in Nat
  BY <1>5, <1>11
<1>13. n = loadedAt[q] =>
         /\ StoresSinceLoad(q) \in Nat
         /\ StoresSinceLoad(q)' =
               StoresSinceLoad(q) + (IF Type = Store /\ Page = q THEN 1 ELSE 0)
  BY <1>5, <1>6, <1>8, <1>11
<1>14. n = pos => StoresSinceLoad(q)' = IF Type = Store /\ Page = q THEN 1 ELSE 0
  BY <1>5, <1>8, <1>10
<1> QED BY <1>12, <1>13, <1>14 DEF n

LEMMA StoresStay ==
    ASSUME RoomySwap, StoreInv, [HNext]_hvars
    PROVE  StoreInv'
<1>1. FrameInv' /\ HistoryOK'
  BY HSteps, HistoryKept, NextFrames DEF StoreInv, HNext, hvars
<1>2. /\ TypeInv /\ pos \in Nat \ {0} /\ HistoryOK
      /\ physmem \in [Frames -> PageType] /\ word \in [Pages -> WordType]
  BY DEF StoreInv, FrameInv, TypeInv, TypeOK
<1>3. CASE Quiet
  <2>1. /\ \A q : StoresSinceLoad(q)' = StoresSinceLoad(q)
        /\ Resident' = Resident /\ word' = word /\ physmem' = physmem
    BY <1>3 DEF Quiet, StoresSinceLoad, Resident
  <2> QED BY <1>1, <2>1 DEF StoreInv, StoresKept
<1>4. CASE Advances /\ HitStep
  <2>1. /\ Stays /\ loadedAt' = loadedAt /\ Page \in Resident
    BY <1>4 DEF HitStep, Stays
  <2>2. ASSUME NEW q \in Resident
        PROVE  /\ physmem'[word'[q].num].version = StoresSinceLoad(q)'
               /\ word'[q].dirty <=> StoresSinceLoad(q)' > 0
    <3>1. /\ loadedAt[q] \in 1..pos /\ loadedAt[q] < pos /\ q \in Pages
      BY <1>2 DEF HistoryOK, Resident
    <3>2. /\ StoresSinceLoad(q) \in Nat
          /\ StoresSinceLoad(q)' =
                StoresSinceLoad(q) + (IF Type = Store /\ Page = q THEN 1 ELSE 0)
      BY <1>2, <1>4, <2>1, <3>1, StoresCounted
    <3>3. physmem[word[q].num].version = StoresSinceLoad(q)
      BY DEF StoreInv, StoresKept
    <3>4. word[q].dirty <=> StoresSinceLoad(q) > 0
      BY DEF StoreInv, StoresKept
    <3>5. word'[q].num = word[q].num
      BY <2>1 DEF Stays
    <3>6. CASE q = Page
      <4>1. /\ word'[q].dirty <=> word[q].dirty \/ Type = Store
            /\ physmem'[word[q].num].version =
                  physmem[word[q].num].version + (IF Type = Store THEN 1 ELSE 0)
        BY <2>1, <3>6 DEF Stays
      <4>2. physmem'[word'[q].num].version = StoresSinceLoad(q)'
        BY <3>2, <3>3, <3>5, <3>6, <4>1
      <4>3. word'[q].dirty <=> StoresSinceLoad(q)' > 0
        BY <3>2, <3>4, <3>6, <4>1
      <4> QED BY <4>2, <4>3
    <3>7. CASE q # Page
      <4>1. word[q].num # word[Page].num /\ word[q].num \in Frames
        BY <1>2, <2>1, <3>1, <3>7 DEF StoreInv, FrameInv, FrameTable, WordType
      <4>2. word'[q] = word[q] /\ physmem'[word[q].num] = physmem[word[q].num]
        BY <2>1, <3>7, <4>1 DEF Stays
      <4>3. StoresSinceLoad(q)' = StoresSinceLoad(q)
        BY <3>2, <3>7
      <4> QED BY <3>3, <3>4, <3>5, <4>2, <4>3
    <3> QED BY <3>6, <3>7
  <2> QED BY <1>1, <2>1, <2>2 DEF Stays, StoreInv, StoresKept
<1>5. ASSUME NEW gone, NEW l, NEW f, Moves(gone, l, f), Advances, MissStep
      PROVE  StoresKept'
  <2>1. /\ Page \in Pages \ Resident /\ Resident' = (Resident \ gone) \union {Page}
        /\ loadedAt' = [loadedAt EXCEPT ![Page] = pos]
        /\ word'[Page].num = f /\ (word'[Page].dirty <=> Type = Store)
        /\ physmem'[f].version = IF Type = Store THEN 1 ELSE 0
    BY <1>5 DEF Moves, MissStep
  <2>2. ASSUME NEW q \in Pages, q = Page
        PROVE  /\ physmem'[word'[q].num].version = StoresSinceLoad(q)'
               /\ word'[q].dirty <=> StoresSinceLoad(q)' > 0
    <3>1. loadedAt'[q] = pos /\ loadedAt'[q] \in 1..pos
      BY <1>2, <2>1, <2>2 DEF HistoryOK
    <3>2. StoresSinceLoad(q)' = IF Type = Store /\ Page = q THEN 1 ELSE 0
      BY <1>2, <1>5, <3>1, StoresCounted
    <3> QED BY <2>1, <2>2, <3>2
  <2>3. ASSUME NEW q \in Resident \ gone
        PROVE  /\ physmem'[word'[q].num].version = StoresSinceLoad(q)'
               /\ word'[q].dirty <=> StoresSinceLoad(q)' > 0
    <3>1. /\ loadedAt[q] \in 1..pos /\ loadedAt[q] < pos /\ q \in Pages /\ q # Page
      <4>1. q \in Resident /\ q \in Pages /\ q # Page
        BY <2>1 DEF Resident
      <4> QED BY <1>2, <4>1 DEF HistoryOK
    <3>2. loadedAt'[q] = loadedAt[q]
      BY <1>2, <2>1, <3>1 DEF HistoryOK
    <3>3. StoresSinceLoad(q)' = StoresSinceLoad(q)
      <4>1. /\ StoresSinceLoad(q) \in Nat
            /\ StoresSinceLoad(q)' =
                  StoresSinceLoad(q) + (IF Type = Store /\ Page = q THEN 1 ELSE 0)
        BY <1>2, <1>5, <3>1, <3>2, StoresCounted
      <4> QED BY <3>1, <4>1
    <3>4. /\ physmem[word[q].num].version = StoresSinceLoad(q)
          /\ word[q].dirty <=> StoresSinceLoad(q) > 0
      BY DEF StoreInv, StoresKept
    <3>5. /\ word'[q].num = word[q].num /\ word[q].num # f /\ word'[q].dirty = word[q].dirty
      BY <1>5 DEF Moves
    <3>6. physmem'[word[q].num] = physmem[word[q].num]
      BY <1>2, <1>5, <3>1, <3>5 DEF Moves, WordType
    <3> QED BY <3>3, <3>4, <3>5, <3>6
  <2>4. \A q \in Resident' : q \in Resident \ gone \/ (q \in Pages /\ q = Page)
    BY <2>1
  <2> QED BY <2>2, <2>3, <2>4 DEF StoresKept
<1>6. CASE Advances /\ (LoadStep \/ ReplaceStep)
  <2>1. MissStep /\ \E gone, l, f : Moves(gone, l, f)
    BY <1>6 DEF LoadStep, ReplaceStep
  <2> QED BY <1>1, <1>5, <1>6, <2>1 DEF StoreInv
<1> QED BY <1>1, <1>3, <1>4, <1>6, HSteps DEF StoreInv

\* With room for every page in the swap file, the version kept with a resident
\* page is the number of stores to it since it was brought in, and its entry
\* is dirty exactly if there was one: no eviction, no swapping and no other
\* page's store disturbs it, with any number of frames and any trace.
THEOREM StoresSurviveInMemory ==
    ASSUME RoomySwap
    PROVE  HSpec => []StoresKept
<1>1. HInit => StoreInv
  <2> SUFFICES ASSUME HInit PROVE StoreInv
    OBVIOUS
  <2>1. FrameInv /\ Resident = {} /\ pos = 1 /\ loadedAt = [q \in Pages |-> 0]
    BY InitFrames DEF HInit, Init, Resident, ZeroWord
  <2> QED BY <2>1 DEF StoreInv, StoresKept, HistoryOK
<1>2. StoreInv /\ [HNext]_hvars => StoreInv'
  BY StoresStay
<1>3. StoreInv => StoresKept
  BY DEF StoreInv
<1> QED BY <1>1, <1>2, <1>3, PTL DEF HSpec

-----------------------------------------------------------------------------
(* The order of the lists, and the victims.                                *)

LEMMA MatchesAre ==
    ASSUME FrameTable', NEW l \in Seq(Pages), Range(l) \subseteq Resident',
           NEW p \in Resident'
    PROVE  Matches(l, word', p) = {i \in DOMAIN l : l[i] = p}
<1>1. ASSUME NEW q \in Resident', word'[q] = word'[p] PROVE q = p
  <2>1. coremap'[word'[q].num].pte = q /\ coremap'[word'[p].num].pte = p
    BY DEF FrameTable
  <2> QED BY <1>1, <2>1
<1>2. \A i \in DOMAIN l : l[i] \in Resident'
  BY DEF Range
<1> QED BY <1>1, <1>2 DEF Matches

\* What the list algorithms do to a list l of distinct resident pages when
\* page p is referenced.
LEMMA ListStep ==
    ASSUME FrameTable', NEW l \in Seq(Pages), Range(l) \subseteq Resident', IsInjective(l),
           NEW p \in Resident', referlist' = RefFcn(alg, l, word', p)
    PROVE  /\ p \notin Range(l) =>
                /\ alg \in {"lru", "fifo"} => referlist' = Prepend(l, p)
                /\ alg = "clock" => referlist' = Append(l, p)
           /\ p \in Range(l) =>
                /\ alg = "lru" => \E k \in DOMAIN l : l[k] = p /\ referlist' = MoveToFront(l, k)
                /\ alg \in {"fifo", "clock"} => referlist' = l
<1>1. Matches(l, word', p) = {i \in DOMAIN l : l[i] = p}
  BY MatchesAre
<1>2. Matches(l, word', p) = {} <=> p \notin Range(l)
  BY <1>1 DEF Range
<1>3. Matches(l, word', p) # {} => l[Min(Matches(l, word', p))] = p
                                   /\ Min(Matches(l, word', p)) \in DOMAIN l
  <2> DEFINE S == Matches(l, word', p)
  <2>1. S \subseteq DOMAIN l /\ S \subseteq Nat
    BY <1>1
  <2> HIDE DEF S
  <2>2. S # {} => Min(S) \in S
    BY <2>1, MinProps
  <2>3. S = {i \in DOMAIN l : l[i] = p}
    BY <1>1 DEF S
  <2> QED BY <2>2, <2>3 DEF S
<1>4. /\ alg = "lru" => referlist' = LruRef(l, word', p)
      /\ alg = "fifo" => referlist' = FifoRef(l, word', p)
      /\ alg = "clock" => referlist' = ClockRef(l, word', p)
  BY DEF RefFcn
<1> QED BY <1>2, <1>3, <1>4 DEF LruRef, FifoRef, ClockRef

\* The page evicted, by algorithm.
LEMMA VictimIs ==
    ASSUME FrameInv, Evicting, EvictDefined(alg, referlist), NEW e \in Victims
    PROVE  LET l == referlist
           IN  /\ alg \in {"lru", "fifo"} =>
                     /\ Owner(e) = l[Len(l)]
                     /\ \E w : e.list = TailEvict(l, w).list
               /\ alg = "clock" /\ word[l[Len(l)]].ref => Owner(e) # l[Len(l)]
               /\ alg = "opt" => \A q \in Resident :
                     Distance(trace, pos, q) <= Distance(trace, pos, Owner(e))
<1> DEFINE l == referlist
           w == FirstUse(WordsFor(Page), Page)
<1>1. /\ TypeInv /\ FrameTable /\ Page \in Pages /\ ~word[Page].valid
      /\ \A f \in Frames : coremap[f].in_use
  BY CurrentAccess, NewTableHarmless DEF FrameInv, Evicting, Missing, FreeFrames
<1>2. \A q \in Resident : w[q] = word[q]
  <2>1. \A q \in Resident : q \in Pages /\ WordsFor(Page)[q] = word[q] /\ q # Page
    BY <1>1, NewTableHarmless DEF Resident
  <2>2. WordsOK(WordsFor(Page))
    BY <1>1, WordsForTypes
  <2> QED BY <2>1, <2>2 DEF FirstUse, WordsOK
<1>3. \A q \in Resident : word[q].num \in Frames /\ coremap[word[q].num].pte = q
                          /\ coremap[word[q].num].vaddr = q
  BY <1>1 DEF FrameTable, Resident, TypeInv, TypeOK, WordType
<1>4. \A f \in Frames : coremap[f].pte \in Resident /\ coremap[f].vaddr = coremap[f].pte
  BY <1>1 DEF FrameTable, Resident, TypeInv, TypeOK
<1>5. /\ l \in Seq(Pages)
      /\ ListAlg => /\ IsInjective(l) /\ Len(l) \in Nat /\ Len(l) >= 2 /\ DOMAIN l = 1..Len(l)
                    /\ \A i \in 1..Len(l) : l[i] \in Resident
  <2>1. l \in Seq(Pages)
    BY <1>1 DEF TypeInv, TypeOK
  <2>2. ListAlg => Range(l) = Resident /\ IsInjective(l) /\ Len(l) >= 2
    BY DEF FrameInv, ListTracksMemory, ListAlg, EvictDefined
  <2> QED BY <2>1, <2>2 DEF Range
<1> HIDE DEF w
<1>6. CASE alg \in {"lru", "fifo"}
  <2>1. e = TailEvict(l, w)
    BY <1>6 DEF Victims, EvictFcn, w
  <2>2. e.frame = w[l[Len(l)]].num
    BY <2>1 DEF TailEvict
  <2>3. l[Len(l)] \in Resident
    BY <1>5, <1>6 DEF ListAlg
  <2> QED BY <1>2, <1>3, <1>6, <2>1, <2>2, <2>3 DEF Owner
<1>7. CASE alg = "clock"
  <2>1. e = ClockEvict(l, w)
    BY <1>7 DEF Victims, EvictFcn, w
  <2> SUFFICES ASSUME word[l[Len(l)]].ref PROVE Owner(e) # l[Len(l)]
    BY <1>7
  <2>2. Len(l) \in 1..Len(l) /\ l[Len(l)] \in Resident
    BY <1>5, <1>7 DEF ListAlg
  <2>3. w[l[Len(l)]].ref
    BY <1>2, <2>2
  <2>4. PICK k \in DOMAIN l : k < Len(l) /\ e.frame = w[l[k]].num
    BY <1>5, <1>7, <2>1, <2>3, ClockSpares DEF ListAlg
  <2>5. l[k] \in Resident /\ l[k] # l[Len(l)]
    BY <1>5, <1>7, <2>2, <2>4 DEF ListAlg, IsInjective
  <2> QED BY <1>2, <1>3, <2>4, <2>5 DEF Owner
<1>8. CASE alg = "opt"
  <2>1. e = OptEvict(l, w, coremap, trace, curr) /\ curr = pos /\ pos \in Nat
    BY <1>1, <1>8 DEF Victims, EvictFcn, w, TypeInv, TypeOK
  <2>2. DOMAIN coremap = 0..(memsize - 1) /\ trace \in Seq(Accesses)
    BY <1>1 DEF TypeInv, TypeOK, Frames
  <2>3. /\ e.frame \in Frames
        /\ \A g \in Frames : Distance(trace, pos, coremap[g].vaddr)
                                <= Distance(trace, pos, coremap[e.frame].vaddr)
    BY <2>1, <2>2, OptEvictProps DEF Frames
  <2>4. coremap[e.frame].vaddr = Owner(e)
    BY <1>4, <2>3 DEF Owner
  <2>5. ASSUME NEW q \in Resident
        PROVE  Distance(trace, pos, q) <= Distance(trace, pos, Owner(e))
    <3>1. word[q].num \in Frames /\ coremap[word[q].num].vaddr = q
      BY <1>3
    <3> QED BY <2>3, <2>4, <3>1
  <2> QED BY <1>8, <2>5
<1> QED BY <1>6, <1>7, <1>8

-----------------------------------------------------------------------------
(* Uses of a page, behind and ahead.                                       *)

\* The greatest line before n of trace t that uses page q, if there is one.
LastBefore(n, t, q) == Demand!Max({0} \union {i \in 1..(n - 1) : t[i].page = q})

LEMMA GreatestUse ==
    ASSUME NEW n \in Nat \ {0}, NEW t, NEW q
    PROVE  LET m == LastBefore(n, t, q)
           IN  /\ m \in 0..(n - 1)
               /\ m > 0 => t[m].page = q
               /\ \A i \in 1..(n - 1) : t[i].page = q => i <= m
<1> DEFINE S == {0} \union {i \in 1..(n - 1) : t[i].page = q}
           T == {n - i : i \in S}
<1>1. S \subseteq 0..(n - 1) /\ 0 \in S
  OBVIOUS
<1>2. T \subseteq Nat /\ n - 0 \in T
  BY <1>1
<1>3. Min(T) \in T /\ \A x \in T : Min(T) <= x
  <2> HIDE DEF T
  <2> QED BY <1>2, MinProps
<1>4. PICK m \in S : \A i \in S : i <= m
  <2>1. PICK m \in S : Min(T) = n - m
    BY <1>3
  <2>2. \A i \in S : n - m <= n - i
    BY <1>3, <2>1
  <2>3. \A i \in S : i <= m
    BY <1>1, <2>2
  <2> QED BY <2>3
<1>5. Demand!Max(S) \in S /\ \A i \in S : Demand!Max(S) >= i
  <2> HIDE DEF S
  <2>1. \A i \in S : m >= i
    BY <1>1, <1>4
  <2> QED BY <2>1 DEF Demand!Max
<1> QED BY <1>1, <1>5 DEF LastBefore

LastUsed == [q \in Pages |-> Demand!LastUse(q)]

LEMMA LastUsedTypes ==
    ASSUME TypeInv
    PROVE  /\ LastUsed \in [Pages -> 0..(pos - 1)]
           /\ \A q, r \in Pages : LastUsed[q] = LastUsed[r] /\ q # r => LastUsed[q] = 0
<1>1. pos \in Nat \ {0}
  BY DEF TypeInv, TypeOK
<1>2. \A q \in Pages : /\ LastUsed[q] \in 0..(pos - 1)
                       /\ LastUsed[q] > 0 => trace[LastUsed[q]].page = q
  <2>1. \A q \in Pages : LastUsed[q] = LastBefore(pos, trace, q)
    BY DEF LastUsed, LastBefore, Demand!LastUse
  <2> QED BY <1>1, <2>1, GreatestUse
<1>3. LastUsed \in [Pages -> 0..(pos - 1)]
  BY <1>2 DEF LastUsed
<1> QED BY <1>2, <1>3

\* A reference is the last use of its page, and of no other.
LEMMA LastUsedStep ==
    ASSUME TypeInv, Advances
    PROVE  /\ LastUsed' \in [Pages -> 0..pos]
           /\ LastUsed'[Page] = pos
           /\ \A q \in Pages : q # Page => LastUsed'[q] = LastUsed[q]
           /\ Raised(LastUsed, LastUsed', Pages, Page)
<1>1. /\ pos \in Nat \ {0} /\ pos' = pos + 1 /\ pos' \in Nat \ {0} /\ trace' = trace
      /\ Page \in Pages
  BY CurrentAccess DEF TypeInv, TypeOK, Advances
<1>2. ASSUME NEW q \in Pages
      PROVE  /\ LastUsed[q] \in 0..(pos - 1)
             /\ LastUsed[q] > 0 => trace[LastUsed[q]].page = q
             /\ \A i \in 1..(pos - 1) : trace[i].page = q => i <= LastUsed[q]
  <2> DEFINE m == LastBefore(pos, trace, q)
  <2>1. LastUsed[q] = m
    BY DEF LastUsed, LastBefore, Demand!LastUse
  <2>2. /\ m \in 0..(pos - 1)
        /\ m > 0 => trace[m].page = q
        /\ \A i \in 1..(pos - 1) : trace[i].page = q => i <= m
    BY <1>1, GreatestUse
  <2> HIDE DEF m
  <2> QED BY <2>1, <2>2
<1>3. ASSUME NEW q \in Pages
      PROVE  /\ LastUsed'[q] \in 0..pos
             /\ LastUsed'[q] > 0 => trace[LastUsed'[q]].page = q
             /\ \A i \in 1..pos : trace[i].page = q => i <= LastUsed'[q]
  <2>1. LastUsed'[q] = LastBefore(pos', trace', q)
    BY DEF LastUsed, LastBefore, Demand!LastUse
  <2>2. pos' - 1 = pos
    BY <1>1
  <2> QED BY <1>1, <2>1, <2>2, GreatestUse
<1>4. LastUsed' \in [Pages -> 0..pos]
  BY <1>3 DEF LastUsed
<1>5. LastUsed'[Page] = pos
  <2>1. trace[pos].page = Page /\ pos \in 1..pos
    BY <1>1 DEF Page
  <2>2. pos <= LastUsed'[Page] /\ LastUsed'[Page] \in 0..pos
    BY <1>1, <1>3, <2>1
  <2> QED BY <1>1, <2>2
<1>6. ASSUME NEW q \in Pages, q # Page
      PROVE  LastUsed'[q] = LastUsed[q]
  <2>1. trace[pos].page # q
    BY <1>6 DEF Page
  <2>2. LastUsed'[q] \in 0..(pos - 1)
    BY <1>1, <1>3, <2>1
  <2>0. LastUsed[q] \in Nat /\ LastUsed'[q] \in Nat
    BY <1>1, <1>2, <2>2
  <2>3. LastUsed'[q] <= LastUsed[q]
    <3>1. CASE LastUsed'[q] = 0
      BY <1>2, <3>1
    <3>2. CASE LastUsed'[q] > 0
      BY <1>1, <1>2, <1>3, <2>2, <3>2
    <3> QED BY <2>2, <3>1, <3>2
  <2>4. LastUsed[q] <= LastUsed'[q]
    <3>1. CASE LastUsed[q] = 0
      BY <2>0, <3>1
    <3>2. CASE LastUsed[q] > 0
      <4>1. LastUsed[q] \in 1..pos /\ trace[LastUsed[q]].page = q
        BY <1>1, <1>2, <3>2
      <4> QED BY <1>3, <4>1
    <3> QED BY <2>0, <3>1, <3>2
  <2> QED BY <2>0, <2>3, <2>4
<1>7. Raised(LastUsed, LastUsed', Pages, Page)
  <2>1. LastUsed \in [Pages -> Nat] /\ LastUsed' \in [Pages -> Nat]
    BY <1>2, <1>4 DEF LastUsed
  <2>2. ASSUME NEW q \in Pages, q # Page
        PROVE  LastUsed'[q] = LastUsed[q] /\ LastUsed'[q] < LastUsed'[Page]
    BY <1>1, <1>2, <1>5, <1>6, <2>2
  <2> QED BY <2>1, <2>2 DEF Raised
<1> QED BY <1>4, <1>5, <1>6, <1>7

\* Among pages that are not in use now, the order of opt's distances is that
\* of the next uses.
LEMMA DistanceIsNextUse ==
    ASSUME TypeInv, NEW q
    PROVE  /\ Demand!NextUse(q) \in Int
           /\ Distance(trace, pos, q) = Demand!NextUse(q) - pos - 1
<1> DEFINE L == Len(trace)
           uses == {i \in (pos + 1)..L : trace[i].page = q}
           all == {L + 1} \union uses
<1>1. pos \in Nat /\ L \in Nat
  BY DEF TypeInv, TypeOK
<1>2. uses \subseteq Nat /\ \A i \in uses : i <= L
  BY <1>1
<1>3. Demand!NextUse(q) = Demand!Min(all)
  BY DEF Demand!NextUse
<1>4. Demand!Min(all) = Min(all)
  BY DEF Demand!Min, Min
<1>5. Distance(trace, pos, q) = (IF uses = {} THEN L + 1 ELSE Min(uses)) - pos - 1
  BY DEF Distance
<1> HIDE DEF uses, L
<1>6. all \subseteq Nat /\ L + 1 \in all
  BY <1>1, <1>2
<1>7. Min(all) \in all /\ \A x \in all : Min(all) <= x
  <2> HIDE DEF all
  <2> QED BY <1>6, MinProps
<1>8. CASE uses = {}
  <2>1. Min(all) = L + 1
    BY <1>7, <1>8
  <2> QED BY <1>1, <1>3, <1>4, <1>5, <1>8, <2>1
<1>9. CASE uses # {}
  <2>1. Min(uses) \in uses /\ \A x \in uses : Min(uses) <= x
    BY <1>2, <1>9, MinProps
  <2>2. Min(uses) <= L /\ Min(uses) \in Nat
    BY <1>2, <2>1
  <2>3. Min(all) <= Min(uses) /\ Min(all) \in Nat
    BY <1>6, <1>7, <2>1
  <2>4. Min(all) \in uses
    BY <1>1, <1>7, <2>2, <2>3
  <2>5. Min(uses) <= Min(all)
    BY <2>1, <2>4
  <2>6. Min(uses) = Min(all)
    BY <2>2, <2>3, <2>5
  <2> QED BY <1>1, <1>3, <1>4, <1>5, <1>9, <2>3, <2>6
<1> QED BY <1>8, <1>9

-----------------------------------------------------------------------------
(* How many pages are resident.                                            *)

LEMMA ResidentCount ==
    ASSUME FrameInv
    PROVE  /\ IsFiniteSet(Resident) /\ Cardinality(Resident) \in Nat
           /\ FreeFrames = {} => Cardinality(Resident) = memsize
           /\ FreeFrames # {} => Cardinality(Resident) < memsize
<1> DEFINE Used == Frames \ FreeFrames
           at == [q \in Resident |-> word[q].num]
<1>1. FrameTable /\ word \in [Pages -> WordType]
      /\ \A f \in Frames : coremap[f].in_use => coremap[f].pte \in Pages
  BY DEF FrameInv, TypeInv, TypeOK
<1>2. IsFiniteSet(Frames) /\ Cardinality(Frames) = memsize
  <2>1. IsFiniteSet(0..(memsize - 1)) /\ Cardinality(0..(memsize - 1)) = memsize
    BY FS_Interval
  <2> QED BY <2>1 DEF Frames
<1>3. IsFiniteSet(Resident)
  <2>1. Resident \subseteq Pages
    BY DEF Resident
  <2> QED BY <2>1, FS_Subset
<1>4. ExistsBijection(Resident, Used)
  <2>1. at \in [Resident -> Used]
    BY <1>1 DEF FrameTable, FreeFrames, Resident, WordType
  <2>2. \A q, r \in Resident : at[q] = at[r] => q = r
    BY <1>1 DEF FrameTable
  <2>3. \A f \in Used : \E q \in Resident : at[q] = f
    BY <1>1 DEF FrameTable, FreeFrames, Resident
  <2> HIDE DEF at, Used
  <2>4. at \in Bijection(Resident, Used)
    BY <2>1, <2>2, <2>3 DEF Bijection, Injection, Surjection, IsInjective
  <2> QED BY <2>4 DEF ExistsBijection
<1>5. Cardinality(Used) = Cardinality(Resident) /\ Cardinality(Resident) \in Nat
  BY <1>3, <1>4, FS_Bijection, FS_CardinalityType
<1>6. Cardinality(Used) <= memsize /\ (Cardinality(Used) = memsize => Used = Frames)
  BY <1>2, FS_Subset
<1>7. FreeFrames \subseteq Frames
  BY DEF FreeFrames
<1>8. (FreeFrames = {} => Used = Frames) /\ (FreeFrames # {} => Used # Frames)
  BY <1>7
<1> HIDE DEF Used
<1>9. FreeFrames = {} => Cardinality(Resident) = memsize
  BY <1>2, <1>5, <1>8
<1>10. FreeFrames # {} => Cardinality(Resident) < memsize
  BY <1>5, <1>6, <1>8
<1> QED BY <1>3, <1>5, <1>9, <1>10

-----------------------------------------------------------------------------
(* The policies.                                                           *)

\* lru: down the list, and from resident to other pages, the last use gets
\* older; while a frame is free nothing has been evicted.
LruOrder ==
    /\ Descending(LastUsed, referlist)
    /\ \A p \in Resident : LastUsed[p] > 0
    /\ \A p \in Resident, q \in Pages \ Resident : LastUsed[p] > LastUsed[q]
    /\ FreeFrames # {} => \A q \in Pages \ Resident : LastUsed[q] = 0

\* clock: the last node is the page loaded last, and it has not been passed.
ClockOrder ==
    referlist # <<>> =>
        LET last == referlist[Len(referlist)]
        IN  word[last].ref /\ \A q \in Resident : q # last => loadedAt[q] < loadedAt[last]

PolicyInv ==
    /\ FrameInv /\ HistoryOK
    /\ alg = "lru" => LruOrder
    /\ alg = "fifo" => Descending(loadedAt, referlist)
    /\ alg = "clock" => ClockOrder

LEMMA LoadRaises ==
    ASSUME FrameInv, HistoryOK, Advances, MissStep
    PROVE  Raised(loadedAt, loadedAt', Pages, Page)
<1>1. /\ pos \in Nat \ {0} /\ loadedAt \in [Pages -> 0..(pos - 1)]
      /\ loadedAt' = [loadedAt EXCEPT ![Page] = pos] /\ Page \in Pages
  BY CurrentAccess DEF FrameInv, TypeInv, TypeOK, HistoryOK, MissStep, Advances
<1>2. loadedAt \in [Pages -> Nat] /\ loadedAt' \in [Pages -> Nat]
  BY <1>1
<1>3. \A q \in Pages : q # Page => loadedAt'[q] = loadedAt[q] /\ loadedAt'[q] < loadedAt'[Page]
  BY <1>1
<1> QED BY <1>2, <1>3 DEF Raised

LEMMA HitKeepsPolicy ==
    ASSUME RoomySwap, PolicyInv, FrameInv', HistoryOK', Advances, HitStep
    PROVE  PolicyInv'
<1> DEFINE l == referlist
           p == Page
<1>1. /\ TypeInv /\ Stays /\ FreeFrames' = FreeFrames /\ loadedAt' = loadedAt
      /\ p \in Resident /\ Resident' = Resident /\ alg' = alg /\ l \in Seq(Pages)
      /\ referlist' = RefFcn(alg, l, word', p) /\ Resident \subseteq Pages
  BY DEF PolicyInv, FrameInv, HitStep, Stays, Advances, TypeInv, TypeOK, Resident
<1>2. ListAlg => Range(l) = Resident /\ IsInjective(l)
  BY DEF PolicyInv, FrameInv, ListTracksMemory, ListAlg
<1>3. /\ alg = "lru" => \E k \in DOMAIN l : l[k] = p /\ referlist' = MoveToFront(l, k)
      /\ alg \in {"fifo", "clock"} => referlist' = l
  BY <1>1, <1>2, ListStep DEF FrameInv, ListAlg
<1>4. ASSUME alg = "lru" PROVE LruOrder'
  <2>1. Raised(LastUsed, LastUsed', Pages, p)
    BY <1>1, LastUsedStep
  <2>2. LruOrder /\ IsInjective(l)
    BY <1>2, <1>4 DEF PolicyInv, ListAlg
  <2>3. Descending(LastUsed', referlist')
    BY <1>1, <1>3, <1>4, <2>1, <2>2, MoveDescends DEF LruOrder
  <2> HIDE DEF p
  <2>4. /\ \A q \in Pages : LastUsed[q] \in Nat /\ LastUsed'[q] \in Nat
        /\ \A q \in Pages : q # p => LastUsed'[q] = LastUsed[q] /\ LastUsed'[q] < LastUsed'[p]
    BY <2>1 DEF Raised
  <2>5. \A q \in Resident : LastUsed'[q] > 0
    <3>1. LastUsed'[p] > 0
      BY <1>1, LastUsedStep DEF p, TypeInv, TypeOK
    <3> QED BY <1>1, <2>2, <2>4, <3>1 DEF LruOrder
  <2>6. \A r \in Resident, q \in Pages \ Resident : LastUsed'[r] > LastUsed'[q]
    BY <1>1, <2>2, <2>4 DEF LruOrder
  <2>7. FreeFrames # {} => \A q \in Pages \ Resident : LastUsed'[q] = 0
    BY <1>1, <2>2, <2>4 DEF LruOrder
  <2> QED BY <1>1, <2>3, <2>5, <2>6, <2>7 DEF LruOrder
<1>5. ASSUME alg = "fifo" PROVE Descending(loadedAt', referlist')
  BY <1>1, <1>3, <1>5 DEF PolicyInv
<1>6. ASSUME alg = "clock" PROVE ClockOrder'
  <2> SUFFICES ASSUME l # <<>> PROVE ClockOrder'
    BY <1>3, <1>6 DEF ClockOrder
  <2>1. l[Len(l)] \in Resident
    <3>1. Len(l) \in DOMAIN l
      BY <1>1
    <3> QED BY <1>2, <1>6, <3>1 DEF ListAlg, Range
  <2>2. ClockOrder
    BY <1>6 DEF PolicyInv
  <2>3. word'[l[Len(l)]].ref
    <3>1. word[l[Len(l)]].ref
      BY <2>2 DEF ClockOrder
    <3>2. CASE l[Len(l)] = Page
      BY <1>1, <3>2 DEF Stays
    <3>3. CASE l[Len(l)] # Page
      BY <1>1, <2>1, <3>1, <3>3 DEF Stays
    <3> QED BY <3>2, <3>3
  <2>4. referlist' = l
    BY <1>3, <1>6
  <2> QED BY <1>1, <2>2, <2>3, <2>4 DEF ClockOrder
<1> QED BY <1>1, <1>4, <1>5, <1>6 DEF PolicyInv

LEMMA MissKeepsPolicy ==
    ASSUME PolicyInv, FrameInv', HistoryOK', Advances, MissStep,
           NEW gone, NEW l, NEW f, Moves(gone, l, f), gone \subseteq Resident,
           ListAlg => Range(l) = Resident \ gone /\ IsInjective(l),
           alg = "lru" =>
              /\ Descending(LastUsed, l)
              /\ \A r \in Resident \ gone, q \in gone : LastUsed[r] > LastUsed[q],
           alg = "fifo" => Descending(loadedAt, l),
           FreeFrames' # {} => gone = {} /\ FreeFrames # {}
    PROVE  PolicyInv'
<1> DEFINE p == Page
<1>1. /\ TypeInv /\ p \in Pages /\ p \notin Resident /\ alg' = alg /\ l \in Seq(Pages)
      /\ Resident' = (Resident \ gone) \union {p} /\ word'[p].ref
      /\ referlist' = RefFcn(alg, l, word', p) /\ Resident \subseteq Pages
  BY DEF PolicyInv, FrameInv, Moves, Advances, Resident
<1>2. ListAlg => p \notin Range(l)
  BY <1>1
<1>3. /\ alg \in {"lru", "fifo"} => referlist' = Prepend(l, p)
      /\ alg = "clock" => referlist' = Append(l, p)
  BY <1>1, <1>2, ListStep DEF FrameInv, ListAlg
<1>4. Raised(loadedAt, loadedAt', Pages, p)
  BY LoadRaises DEF PolicyInv
<1>5. ASSUME alg = "lru" PROVE LruOrder'
  <2>1. Raised(LastUsed, LastUsed', Pages, p) /\ LastUsed'[p] = pos /\ pos > 0
    BY <1>1, LastUsedStep DEF TypeInv, TypeOK
  <2>2. LruOrder
    BY <1>5 DEF PolicyInv
  <2>3. Descending(LastUsed', referlist')
    BY <1>1, <1>2, <1>3, <1>5, <2>1, PrependDescends DEF ListAlg
  <2> HIDE DEF p
  <2>4. /\ \A q \in Pages : LastUsed[q] \in Nat /\ LastUsed'[q] \in Nat
        /\ \A q \in Pages : q # p => LastUsed'[q] = LastUsed[q] /\ LastUsed'[q] < LastUsed'[p]
    BY <2>1 DEF Raised
  <2>5. \A q \in Resident' : LastUsed'[q] > 0
    BY <1>1, <2>1, <2>2, <2>4 DEF LruOrder
  <2>6. ASSUME NEW r \in Resident', NEW q \in Pages \ Resident'
        PROVE  LastUsed'[r] > LastUsed'[q]
    <3>1. q # p /\ LastUsed'[q] = LastUsed[q] /\ LastUsed'[q] < LastUsed'[p]
          /\ LastUsed[q] \in Nat /\ LastUsed'[p] \in Nat
      BY <1>1, <2>4
    <3>2. CASE r = p
      BY <3>1, <3>2
    <3>3. CASE r # p
      <4>1. r \in Resident \ gone /\ r \in Pages /\ LastUsed'[r] = LastUsed[r]
        BY <1>1, <2>4, <3>3
      <4>2. LastUsed[r] > LastUsed[q]
        BY <1>1, <1>5, <2>2, <4>1 DEF LruOrder
      <4> QED BY <3>1, <4>1, <4>2
    <3> QED BY <3>2, <3>3
  <2>7. FreeFrames' # {} => \A q \in Pages \ Resident' : LastUsed'[q] = 0
    BY <1>1, <2>2, <2>4 DEF LruOrder
  <2> QED BY <2>3, <2>5, <2>6, <2>7 DEF LruOrder
<1>6. ASSUME alg = "fifo" PROVE Descending(loadedAt', referlist')
  BY <1>1, <1>2, <1>3, <1>4, <1>6, PrependDescends DEF ListAlg
<1>7. ASSUME alg = "clock" PROVE ClockOrder'
  <2>1. referlist' = Append(l, p) /\ Len(referlist') = Len(l) + 1
    BY <1>1, <1>3, <1>7
  <2>2. referlist'[Len(referlist')] = p
    BY <1>1, <2>1
  <2>3. \A q \in Resident' : q # p => loadedAt'[q] < loadedAt'[p]
    BY <1>1, <1>4 DEF Raised
  <2> HIDE DEF p
  <2> QED BY <1>1, <2>2, <2>3 DEF ClockOrder
<1> QED BY <1>1, <1>5, <1>6, <1>7 DEF PolicyInv

LEMMA LoadKeepsPolicy ==
    ASSUME PolicyInv, FrameInv', HistoryOK', Advances, LoadStep
    PROVE  PolicyInv'
<1>1. PICK f \in Frames : Moves({}, referlist, f)
  BY DEF LoadStep
<1>2. ListAlg => Range(referlist) = Resident \ {} /\ IsInjective(referlist)
  BY DEF PolicyInv, FrameInv, ListTracksMemory, ListAlg
<1>3. alg = "lru" => Descending(LastUsed, referlist)
  BY DEF PolicyInv, LruOrder
<1>4. alg = "fifo" => Descending(loadedAt, referlist)
  BY DEF PolicyInv
<1>5. MissStep /\ FreeFrames # {}
  BY DEF LoadStep
<1> QED BY <1>1, <1>2, <1>3, <1>4, <1>5, MissKeepsPolicy

\* Along the list of lru and fifo the victim has the least value.
LEMMA VictimLeast ==
    ASSUME FrameInv, Evicting, EvictDefined(alg, referlist), NEW e \in Victims,
           alg \in {"lru", "fifo"}, NEW m, Descending(m, referlist)
    PROVE  /\ Descending(m, e.list)
           /\ \A q \in Resident \ {Owner(e)} : m[q] > m[Owner(e)]
<1> DEFINE l == referlist
<1>1. l \in Seq(Pages) /\ l # <<>> /\ Range(l) = Resident
  BY DEF FrameInv, TypeInv, TypeOK, ListTracksMemory, EvictDefined
<1>2. Owner(e) = l[Len(l)] /\ \E w : e.list = TailEvict(l, w).list
  BY VictimIs
<1>3. /\ Descending(m, e.list)
      /\ \A i \in DOMAIN l : l[i] # l[Len(l)] => m[l[i]] > m[l[Len(l)]]
  BY <1>1, <1>2, TailDescends
<1>4. \A q \in Resident : \E i \in DOMAIN l : l[i] = q
  BY <1>1 DEF Range
<1> HIDE DEF l
<1> QED BY <1>2, <1>3, <1>4

LEMMA ReplaceKeepsPolicy ==
    ASSUME PolicyInv, FrameInv', HistoryOK', Advances, ReplaceStep
    PROVE  PolicyInv'
<1>1. PICK e \in Victims : Owner(e) \in Resident /\ Moves({Owner(e)}, e.list, e.frame)
  BY DEF ReplaceStep
<1> DEFINE o == Owner(e)
<1>2. /\ FrameInv /\ MissStep /\ FreeFrames' = {}
      /\ Evicting /\ EvictDefined(alg, referlist)
  BY DEF PolicyInv, ReplaceStep
<1>3. ListAlg => Range(e.list) = Resident \ {o} /\ IsInjective(e.list)
  <2>1. Vacated(Unmapped(e), e.list, e.frame)
    BY <1>2, VictimVacates
  <2>2. {q \in Pages : Unmapped(e)[q].valid} = Resident \ {o}
    BY <1>2, VictimWords DEF Resident
  <2> QED BY <2>1, <2>2 DEF Vacated
<1>4. alg = "lru" => /\ Descending(LastUsed, e.list)
                     /\ \A r \in Resident \ {o}, q \in {o} : LastUsed[r] > LastUsed[q]
  BY <1>2, VictimLeast DEF PolicyInv, LruOrder
<1>5. alg = "fifo" => Descending(loadedAt, e.list)
  BY <1>2, VictimLeast DEF PolicyInv
<1> QED BY <1>1, <1>2, <1>3, <1>4, <1>5, MissKeepsPolicy

LEMMA PolicyKept ==
    ASSUME RoomySwap, PolicyInv, [HNext]_hvars
    PROVE  PolicyInv'
<1>1. FrameInv' /\ HistoryOK'
  BY HSteps, HistoryKept, NextFrames DEF PolicyInv, HNext, hvars
<1>2. CASE Quiet
  <2>1. /\ UNCHANGED <<alg, loadedAt, referlist, word>> /\ Resident' = Resident
        /\ FreeFrames' = FreeFrames /\ LastUsed' = LastUsed
    BY <1>2 DEF Quiet, Resident, FreeFrames, LastUsed, Demand!LastUse
  <2>2. (LruOrder => LruOrder') /\ (ClockOrder => ClockOrder')
    BY <2>1 DEF LruOrder, ClockOrder
  <2> QED BY <1>1, <2>1, <2>2 DEF PolicyInv
<1> QED BY <1>1, <1>2, HSteps, HitKeepsPolicy, LoadKeepsPolicy, ReplaceKeepsPolicy DEF PolicyInv

LEMMA InitPolicy == HInit => PolicyInv
<1> SUFFICES ASSUME HInit PROVE PolicyInv
  OBVIOUS
<1>1. /\ FrameInv /\ Resident = {} /\ pos = 1 /\ loadedAt = [q \in Pages |-> 0]
      /\ referlist = <<>>
  BY InitFrames DEF HInit, Init, Resident, ZeroWord
<1>2. \A q \in Pages : LastUsed[q] = 0
  BY <1>1, LastUsedTypes DEF FrameInv
<1> QED BY <1>1, <1>2 DEF PolicyInv, HistoryOK, LruOrder, ClockOrder, Descending

\* lru holds exactly the memsize pages used last, at every line of every
\* trace, with every number of frames.
THEOREM LruIsAccurate ==
    ASSUME RoomySwap
    PROVE  HSpec => []LruKeepsLatest
<1>1. PolicyInv => LruKeepsLatest
  <2> SUFFICES ASSUME PolicyInv, alg = "lru", NEW q \in Pages
               PROVE  q \in Resident <=>
                        /\ Demand!LastUse(q) > 0
                        /\ Cardinality({r \in Pages : Demand!LastUse(r) > Demand!LastUse(q)}) < memsize
    BY DEF LruKeepsLatest, Resident
  <2> DEFINE later == {r \in Pages : Demand!LastUse(r) > Demand!LastUse(q)}
  <2>1. /\ FrameInv /\ LruOrder /\ Resident \subseteq Pages
        /\ \A r \in Pages : LastUsed[r] = Demand!LastUse(r) /\ LastUsed[r] \in Nat
    <3>1. FrameInv /\ LruOrder /\ Resident \subseteq Pages
      BY DEF PolicyInv, Resident
    <3>2. LastUsed \in [Pages -> 0..(pos - 1)]
      BY <3>1, LastUsedTypes DEF FrameInv
    <3> QED BY <3>1, <3>2 DEF LastUsed
  <2>2. later = {r \in Pages : LastUsed[r] > LastUsed[q]}
    BY <2>1
  <2>3. IsFiniteSet(later) /\ Cardinality(later) \in Nat
    <3>1. later \subseteq Pages
      OBVIOUS
    <3> HIDE DEF later
    <3> QED BY <3>1, FS_Subset, FS_CardinalityType
  <2>4. /\ IsFiniteSet(Resident) /\ Cardinality(Resident) \in Nat
        /\ FreeFrames = {} => Cardinality(Resident) = memsize
        /\ Cardinality(Resident) <= memsize
    BY <2>1, ResidentCount
  <2> HIDE DEF later
  <2>5. CASE q \in Resident
    <3>1. later \subseteq Resident /\ q \notin later
      <4>1. ASSUME NEW r \in later, r \notin Resident PROVE FALSE
        <5>1. r \in Pages \ Resident /\ LastUsed[r] > LastUsed[q]
          BY <2>2, <4>1
        <5>2. LastUsed[q] > LastUsed[r]
          BY <2>1, <2>5, <5>1 DEF LruOrder
        <5> QED BY <2>1, <5>1, <5>2
      <4>2. q \notin later
        BY <2>1, <2>2
      <4> QED BY <4>1, <4>2
    <3>2. Cardinality(later) <= Cardinality(Resident) /\ Cardinality(later) # Cardinality(Resident)
      BY <2>4, <2>5, <3>1, FS_Subset
    <3>3. Cardinality(later) < memsize
      BY <2>3, <2>4, <3>2
    <3> QED BY <2>1, <2>5, <3>3 DEF LruOrder, later
  <2>6. CASE q \notin Resident
    <3> SUFFICES ASSUME Demand!LastUse(q) > 0 PROVE ~(Cardinality(later) < memsize)
      BY <2>6 DEF later
    <3>1. FreeFrames = {}
      BY <2>1, <2>6 DEF LruOrder
    <3>2. Resident \subseteq later
      BY <2>1, <2>2, <2>6 DEF LruOrder
    <3>3. Cardinality(Resident) <= Cardinality(later)
      BY <2>3, <3>2, FS_Subset
    <3> QED BY <2>3, <2>4, <3>1, <3>3
  <2> QED BY <2>5, <2>6
<1>2. PolicyInv /\ [HNext]_hvars => PolicyInv'
  BY PolicyKept
<1> QED BY <1>1, <1>2, InitPolicy, PTL DEF HSpec

-----------------------------------------------------------------------------
(* The refinement.                                                         *)

\* The instance has a copy of the operator that counts.
LEMMA SameCardinality == \A S : Demand!Cardinality(S) = Cardinality(S)
BY DEF Demand!Cardinality, Cardinality

LEMMA InitRefines == HInit => Demand!Init
<1> SUFFICES ASSUME HInit PROVE Demand!Init
  OBVIOUS
<1>1. /\ trace \in Seq(Accesses) /\ pos = 1 /\ alg \in Algs
      /\ word = [q \in Pages |-> ZeroWord] /\ loadedAt = [q \in Pages |-> 0]
      /\ count = [hit |-> 0, miss |-> 0, ref |-> 0, clean |-> 0, dirty |-> 0]
  BY DEF HInit, Init
<1>2. Resident = {}
  BY <1>1 DEF Resident, ZeroWord
<1> QED BY <1>1, <1>2 DEF Demand!Init

\* The victim is one the policy may evict.
LEMMA VictimEvictable ==
    ASSUME PolicyInv, Evicting, EvictDefined(alg, referlist), NEW e \in Victims,
           Owner(e) \in Resident
    PROVE  Owner(e) \in Demand!Evictable
<1> DEFINE o == Owner(e)
           l == referlist
<1>1. /\ FrameInv /\ TypeInv /\ o \in Resident /\ Resident \subseteq Pages
  BY DEF PolicyInv, FrameInv, Resident
<1>2. CASE alg = "lru"
  <2>1. \A q \in Resident \ {o} : LastUsed[q] > LastUsed[o]
    BY <1>1, <1>2, VictimLeast DEF PolicyInv, LruOrder
  <2>2. \A q \in Resident : LastUsed[q] = Demand!LastUse(q) /\ LastUsed[q] \in Nat
    BY <1>1, LastUsedTypes DEF LastUsed
  <2> HIDE DEF o
  <2>3. \A r \in Resident : Demand!LastUse(o) <= Demand!LastUse(r)
    BY <1>1, <2>1, <2>2
  <2> QED BY <1>1, <1>2, <2>3 DEF Demand!Evictable, o
<1>3. CASE alg = "fifo"
  <2>1. \A q \in Resident \ {o} : loadedAt[q] > loadedAt[o]
    BY <1>1, <1>3, VictimLeast DEF PolicyInv
  <2>2. \A q \in Resident : loadedAt[q] \in Int
    BY <1>1 DEF PolicyInv, HistoryOK, TypeInv, TypeOK
  <2> HIDE DEF o
  <2>3. \A r \in Resident : loadedAt[o] <= loadedAt[r]
    BY <1>1, <2>1, <2>2
  <2> QED BY <1>1, <1>3, <2>3 DEF Demand!Evictable, o
<1>4. CASE alg = "clock"
  <2>1. l # <<>> /\ l \in Seq(Pages) /\ Range(l) = Resident
    BY <1>1, <1>4 DEF FrameInv, TypeInv, TypeOK, ListTracksMemory, EvictDefined
  <2>2. l[Len(l)] \in Resident
    <3>1. Len(l) \in DOMAIN l
      BY <2>1
    <3> QED BY <2>1, <3>1 DEF Range
  <2>3. /\ word[l[Len(l)]].ref
        /\ \A q \in Resident : q # l[Len(l)] => loadedAt[q] < loadedAt[l[Len(l)]]
    BY <1>4, <2>1 DEF PolicyInv, ClockOrder
  <2>4. o # l[Len(l)]
    BY <1>1, <1>4, <2>3, VictimIs
  <2>5. loadedAt[o] < loadedAt[l[Len(l)]]
    BY <1>1, <2>3, <2>4
  <2> QED BY <1>1, <1>4, <2>2, <2>5 DEF Demand!Evictable
<1>5. CASE alg = "opt"
  <2>1. \A q \in Resident : Distance(trace, pos, q) <= Distance(trace, pos, o)
    BY <1>1, <1>5, VictimIs
  <2>2. ASSUME NEW q \in Resident PROVE Demand!NextUse(q) <= Demand!NextUse(o)
    <3>1. /\ Demand!NextUse(q) \in Int /\ Demand!NextUse(o) \in Int /\ pos \in Int
          /\ Distance(trace, pos, q) = Demand!NextUse(q) - pos - 1
          /\ Distance(trace, pos, o) = Demand!NextUse(o) - pos - 1
      BY <1>1, DistanceIsNextUse DEF TypeInv, TypeOK
    <3>2. Distance(trace, pos, q) <= Distance(trace, pos, o)
      BY <2>1
    <3> QED BY <3>1, <3>2
  <2> HIDE DEF o
  <2> QED BY <1>1, <1>5, <2>2 DEF Demand!Evictable, o
<1>6. CASE alg \notin {"lru", "fifo", "clock", "opt"}
  BY <1>1, <1>6 DEF Demand!Evictable
<1> QED BY <1>2, <1>3, <1>4, <1>5, <1>6

LEMMA StepRefines ==
    ASSUME RoomySwap, PolicyInv, [HNext]_hvars
    PROVE  [Demand!Next]_Demand!vars
<1>1. FrameInv /\ TypeInv
  BY DEF PolicyInv, FrameInv
<1>2. CASE Quiet
  <2>1. Resident' = Resident
    BY <1>2 DEF Quiet, Resident
  <2> QED BY <1>2, <2>1 DEF Quiet, Demand!vars
<1>3. CASE Advances /\ HitStep
  <2>1. Demand!HitPage
    BY <1>3 DEF Demand!HitPage, Demand!Page, Page, HitStep, Stays, Advances, Replaying
  <2> QED BY <2>1 DEF Demand!Next
<1>4. ASSUME Advances, MissStep, Page \notin Resident PROVE Demand!BringIn
  BY <1>4 DEF Demand!BringIn, Demand!Page, Page, MissStep, Advances, Replaying
<1>5. CASE Advances /\ LoadStep
  <2>1. PICK f \in Frames : Moves({}, referlist, f)
    BY <1>5 DEF LoadStep
  <2>2. Page \notin Resident /\ Resident' = Resident \union {Page}
    BY <2>1 DEF Moves
  <2>3. Demand!BringIn /\ Cardinality(Resident) < memsize
    BY <1>1, <1>4, <1>5, <2>2, ResidentCount DEF LoadStep
  <2>4. Demand!LoadPage
    BY <1>5, <2>2, <2>3, SameCardinality DEF Demand!LoadPage, Demand!Page, Page, LoadStep
  <2> QED BY <2>4 DEF Demand!Next
<1>6. CASE Advances /\ ReplaceStep
  <2>1. PICK e \in Victims : Owner(e) \in Resident /\ Moves({Owner(e)}, e.list, e.frame)
    BY <1>6 DEF ReplaceStep
  <2>2. Page \notin Resident /\ Resident' = (Resident \ {Owner(e)}) \union {Page}
    BY <2>1 DEF Moves
  <2>3. Demand!BringIn /\ Cardinality(Resident) = memsize
    BY <1>1, <1>4, <1>6, <2>2, ResidentCount DEF ReplaceStep
  <2>4. Owner(e) \in Demand!Evictable
    BY <1>6, <2>1, VictimEvictable DEF ReplaceStep
  <2>5. Demand!ReplacePage
    BY <1>6, <2>2, <2>3, <2>4, SameCardinality
       DEF Demand!ReplacePage, Demand!Page, Page, ReplaceStep
  <2> QED BY <2>5 DEF Demand!Next
<1> QED BY <1>1, <1>2, <1>3, <1>5, <1>6, HSteps

\* The simulator implements the demand pager with each of its policies: the
\* victim of lru, fifo, clock, opt and rand is one the policy allows, frames
\* are filled before anything is evicted, and hits, misses and evictions are
\* counted as they happen.
THEOREM PagerImplementsDemandPaging ==
    ASSUME RoomySwap
    PROVE  HSpec => ImplementsDemandPaging
<1>1. PolicyInv /\ [HNext]_hvars => PolicyInv'
  BY PolicyKept
<1>2. PolicyInv /\ [HNext]_hvars => [Demand!Next]_Demand!vars
  BY StepRefines
<1> QED BY <1>1, <1>2, InitPolicy, InitRefines, PTL DEF HSpec, ImplementsDemandPaging, Demand!Spec

-----------------------------------------------------------------------------
(* Belady's algorithm misses least.                                        *)

\* FewestMisses for a trace t, and its function of the line and the pages.
Rest(t, f, i, R) ==
    IF i > Len(t) THEN 0 ELSE Demand!MissesWith(f[i + 1], t[i].page, R)

Solves(t, f, k) ==
    f = [i \in k..(Len(t) + 1) |-> [R \in SUBSET Pages |-> Rest(t, f, i, R)]]

Fewest(t) == CHOOSE f : Solves(t, f, 1)

LEMMA FewestIs == Demand!FewestMisses = Fewest(trace)[1][{}]
BY DEF Demand!FewestMisses, Fewest, Solves, Rest

\* Induction from the end of the trace to its start.
LEMMA Backwards ==
    ASSUME NEW n \in Nat \ {0}, NEW S, n \in S,
           \A i \in 1..(n - 1) : i + 1 \in S => i \in S
    PROVE  1..n \subseteq S
<1> DEFINE T == {n - i : i \in (1..n) \ S}
<1>1. T \subseteq Nat
  OBVIOUS
<1>2. ASSUME T # {} PROVE FALSE
  <2>1. Min(T) \in T /\ \A x \in T : Min(T) <= x
    <3> HIDE DEF T
    <3> QED BY <1>1, <1>2, MinProps
  <2>2. PICK i \in (1..n) \ S : Min(T) = n - i
    BY <2>1
  <2>3. i \in 1..(n - 1) /\ i + 1 \in 1..n
    BY <2>2
  <2>4. i + 1 \notin S
    BY <2>2, <2>3
  <2>5. n - (i + 1) \in T
    BY <2>3, <2>4
  <2>6. Min(T) <= n - (i + 1)
    BY <2>1, <2>5
  <2> QED BY <2>2, <2>3, <2>6
<1> QED BY <1>2

\* The recursion has a solution.
LEMMA FewestSolves == ASSUME NEW t \in Seq(Accesses) PROVE Solves(t, Fewest(t), 1)
<1> DEFINE n == Len(t) + 1
           S == {k \in 1..n : \E f : Solves(t, f, k)}
<1>1. n \in Nat \ {0} /\ Len(t) \in Nat
  OBVIOUS
<1>2. n \in S
  <2> DEFINE f == [i \in n..n |-> [R \in SUBSET Pages |-> 0]]
  <2>1. \A i \in n..n, R \in SUBSET Pages : Rest(t, f, i, R) = 0
    BY <1>1 DEF Rest
  <2>2. Solves(t, f, n)
    BY <1>1, <2>1 DEF Solves
  <2> QED BY <1>1, <2>2
<1>3. ASSUME NEW k \in 1..(n - 1), k + 1 \in S PROVE k \in S
  <2>1. PICK f : Solves(t, f, k + 1)
    BY <1>3
  <2> DEFINE g == [i \in k..n |-> IF i = k THEN [R \in SUBSET Pages |-> Rest(t, f, k, R)]
                                  ELSE f[i]]
  <2>2. \A i \in k..n : i # k => i \in (k + 1)..n
    BY <1>1
  <2>3. \A i \in (k + 1)..n : g[i] = f[i] /\ f[i] = [R \in SUBSET Pages |-> Rest(t, f, i, R)]
    <3>1. \A i \in (k + 1)..n : i \in k..n /\ i # k
      BY <1>1
    <3>2. \A i \in (k + 1)..n : g[i] = f[i]
      BY <3>1
    <3> HIDE DEF g
    <3>3. \A i \in (k + 1)..n : f[i] = [R \in SUBSET Pages |-> Rest(t, f, i, R)]
      BY <2>1 DEF Solves
    <3> QED BY <3>2, <3>3
  <2>4. \A i \in k..n : i <= Len(t) => g[i + 1] = f[i + 1]
    BY <1>1, <2>3
  <2>5. \A i \in k..n, R \in SUBSET Pages : Rest(t, g, i, R) = Rest(t, f, i, R)
    <3> HIDE DEF g
    <3> QED BY <1>1, <2>4 DEF Rest
  <2>6. \A i \in k..n : g[i] = [R \in SUBSET Pages |-> Rest(t, f, i, R)]
    BY <1>1, <2>2, <2>3
  <2>7. \A i \in k..n : g[i] = [R \in SUBSET Pages |-> Rest(t, g, i, R)]
    <3> HIDE DEF g
    <3> QED BY <2>5, <2>6
  <2>8. g = [i \in k..n |-> g[i]]
    OBVIOUS
  <2> HIDE DEF g
  <2>9. Solves(t, g, k)
    BY <2>7, <2>8 DEF Solves
  <2> QED BY <1>1, <2>9
<1> HIDE DEF S
<1>4. 1 \in S
  <2> HIDE DEF n
  <2> QED BY <1>1, <1>2, <1>3, Backwards
<1>5. \E f : Solves(t, f, 1)
  BY <1>4 DEF S
<1> QED BY <1>5 DEF Fewest

Full == {R \in SUBSET Pages : Cardinality(R) = memsize}

LEMMA Swapped ==
    ASSUME NEW R \in Full, NEW a \in R, NEW b \in Pages, b \notin R
    PROVE  (R \ {a}) \union {b} \in Full
<1>1. IsFiniteSet(R) /\ Cardinality(R) = memsize
  BY FS_Subset DEF Full
<1>2. IsFiniteSet(R \ {a}) /\ Cardinality(R \ {a}) = memsize - 1
  BY <1>1, FS_RemoveElement
<1>3. Cardinality((R \ {a}) \union {b}) = (memsize - 1) + 1
  BY <1>2, FS_AddElement
<1> QED BY <1>3 DEF Full

\* What the recursion says, line by line, as natural numbers.
LEMMA FewestStep ==
    ASSUME NEW t \in Seq(Accesses), NEW i \in 1..Len(t)
    PROVE  LET F == Fewest(t)
               q == t[i].page
           IN  \A R \in SUBSET Pages :
                  /\ q \in R => F[i][R] = F[i + 1][R]
                  /\ q \notin R /\ Cardinality(R) < memsize =>
                        F[i][R] = 1 + F[i + 1][R \union {q}]
                  /\ q \notin R /\ ~(Cardinality(R) < memsize) =>
                        F[i][R] = 1 + Min({F[i + 1][(R \ {r}) \union {q}] : r \in R})
<1> DEFINE F == Fewest(t)
<1>1. Len(t) \in Nat /\ i \in 1..(Len(t) + 1) /\ ~(i > Len(t))
  OBVIOUS
<1>2. \A k \in 1..(Len(t) + 1) : F[k] = [R \in SUBSET Pages |-> Rest(t, F, k, R)]
  BY FewestSolves DEF Solves
<1> HIDE DEF F
<1>3. \A R \in SUBSET Pages : F[i][R] = Demand!MissesWith(F[i + 1], t[i].page, R)
  BY <1>1, <1>2 DEF Rest
<1>4. \A T : Demand!Min(T) = Min(T)
  BY DEF Demand!Min, Min
<1> QED BY <1>3, <1>4, SameCardinality DEF Demand!MissesWith, F

\* The same for a hit and for a load into a free frame.
LEMMA FewestHits ==
    ASSUME NEW t \in Seq(Accesses), NEW i \in 1..Len(t), NEW R \in SUBSET Pages, t[i].page \in R
    PROVE  Fewest(t)[i][R] = Fewest(t)[i + 1][R]
BY FewestStep, Zenon

LEMMA FewestLoads ==
    ASSUME NEW t \in Seq(Accesses), NEW i \in 1..Len(t), NEW R \in SUBSET Pages,
           t[i].page \notin R, Cardinality(R) < memsize
    PROVE  Fewest(t)[i][R] = 1 + Fewest(t)[i + 1][R \union {t[i].page}]
BY FewestStep, Zenon

LEMMA FewestEnd ==
    ASSUME NEW t \in Seq(Accesses), NEW R \in SUBSET Pages
    PROVE  Fewest(t)[Len(t) + 1][R] = 0
<1> DEFINE F == Fewest(t)
<1>1. Len(t) \in Nat /\ Len(t) + 1 \in 1..(Len(t) + 1) /\ Len(t) + 1 > Len(t)
  OBVIOUS
<1>2. \A k \in 1..(Len(t) + 1) : F[k] = [T \in SUBSET Pages |-> Rest(t, F, k, T)]
  BY FewestSolves DEF Solves
<1> HIDE DEF F
<1> QED BY <1>1, <1>2 DEF Rest, F

LEMMA LineOfTrace ==
    ASSUME NEW t \in Seq(Accesses), NEW i \in 1..Len(t)
    PROVE  t[i].page \in Pages /\ i \in 1..(Len(t) + 1) /\ i + 1 \in 1..(Len(t) + 1)
<1>1. t[i] \in Accesses /\ Len(t) \in Nat
  OBVIOUS
<1> QED BY <1>1 DEF Accesses

LEMMA FullIsNot == ASSUME NEW R \in SUBSET Pages, ~(Cardinality(R) < memsize) PROVE R # {}
<1>1. R = {} => Cardinality(R) = 0
  BY FS_EmptySet
<1> QED BY <1>1

LEMMA FewestTypes ==
    ASSUME NEW t \in Seq(Accesses)
    PROVE  \A i \in 1..(Len(t) + 1), R \in SUBSET Pages : Fewest(t)[i][R] \in Nat
<1> DEFINE F == Fewest(t)
           n == Len(t) + 1
           S == {i \in 1..n : \A R \in SUBSET Pages : F[i][R] \in Nat}
<1>1. n \in Nat \ {0} /\ Len(t) \in Nat
  OBVIOUS
<1>2. n \in S
  BY <1>1, FewestEnd
<1>3. ASSUME NEW i \in 1..(n - 1), i + 1 \in S PROVE i \in S
  <2>1. i \in 1..Len(t) /\ i \in 1..n /\ t[i].page \in Pages
    <3>1. i \in 1..Len(t)
      BY <1>1
    <3> QED BY <3>1, LineOfTrace
  <2>2. ASSUME NEW R \in SUBSET Pages PROVE F[i][R] \in Nat
    <3> DEFINE q == t[i].page
               T == {F[i + 1][(R \ {r}) \union {q}] : r \in R}
    <3>1. \A U \in SUBSET Pages : F[i + 1][U] \in Nat
      BY <1>3
    <3>2. /\ q \in R => F[i][R] = F[i + 1][R]
          /\ q \notin R /\ Cardinality(R) < memsize => F[i][R] = 1 + F[i + 1][R \union {q}]
          /\ q \notin R /\ ~(Cardinality(R) < memsize) => F[i][R] = 1 + Min(T)
      BY <2>1, FewestStep
    <3>3. R \union {q} \in SUBSET Pages /\ \A r \in R : (R \ {r}) \union {q} \in SUBSET Pages
      BY <2>1
    <3> HIDE DEF F, q
    <3>4. T \subseteq Nat
      <4>1. \A r \in R : F[i + 1][(R \ {r}) \union {q}] \in Nat
        BY <3>1, <3>3
      <4> QED BY <4>1
    <3>5. ~(Cardinality(R) < memsize) => T # {}
      BY FullIsNot
    <3> HIDE DEF T
    <3>6. ~(Cardinality(R) < memsize) => Min(T) \in Nat
      BY <3>4, <3>5, MinProps
    <3> QED BY <3>1, <3>2, <3>3, <3>6
  <2> QED BY <2>1, <2>2
<1>4. 1..n \subseteq S
  <2> HIDE DEF n, S
  <2> QED BY <1>1, <1>2, <1>3, Backwards
<1> QED BY <1>4

\* With memory full, a miss costs one more than the best that can follow.
LEMMA FewestReplaces ==
    ASSUME NEW t \in Seq(Accesses), NEW i \in 1..Len(t), NEW R \in Full, t[i].page \notin R
    PROVE  /\ \A r \in R : Fewest(t)[i][R] <= 1 + Fewest(t)[i + 1][(R \ {r}) \union {t[i].page}]
           /\ \E r \in R : Fewest(t)[i][R] = 1 + Fewest(t)[i + 1][(R \ {r}) \union {t[i].page}]
<1> DEFINE F == Fewest(t)
           q == t[i].page
           T == {F[i + 1][(R \ {r}) \union {q}] : r \in R}
<1>1. /\ i + 1 \in 1..(Len(t) + 1) /\ q \in Pages /\ R \in SUBSET Pages
      /\ ~(Cardinality(R) < memsize) /\ q \notin R
  BY LineOfTrace DEF Full
<1>2. F[i][R] = 1 + Min(T)
  BY <1>1, FewestStep
<1>3. \A r \in R : F[i + 1][(R \ {r}) \union {q}] \in Nat
  <2>1. \A r \in R : (R \ {r}) \union {q} \in SUBSET Pages
    BY <1>1
  <2> QED BY <1>1, <2>1, FewestTypes
<1>4. R # {}
  BY <1>1, FullIsNot
<1> HIDE DEF F, q
<1>5. T \subseteq Nat /\ T # {}
  BY <1>3, <1>4
<1>6. Min(T) \in T /\ \A x \in T : Min(T) <= x
  <2> HIDE DEF T
  <2> QED BY <1>5, MinProps
<1>7. \A r \in R : F[i][R] <= 1 + F[i + 1][(R \ {r}) \union {q}]
  <2> TAKE r \in R
  <2> DEFINE x == F[i + 1][(R \ {r}) \union {q}]
  <2>1. x \in T /\ x \in Nat
    BY <1>3
  <2> HIDE DEF T, x
  <2>2. Min(T) <= x /\ Min(T) \in Nat
    BY <1>5, <1>6, <2>1
  <2>3. F[i][R] <= 1 + x
    BY <1>2, <2>1, <2>2
  <2> QED BY <2>3 DEF x
<1>8. PICK r \in R : Min(T) = F[i + 1][(R \ {r}) \union {q}]
  BY <1>6
<1> QED BY <1>2, <1>7, <1>8 DEF F, q

\* One other page in memory saves at most one miss.
LEMMA OnePageOneMiss ==
    ASSUME NEW t \in Seq(Accesses)
    PROVE  \A i \in 1..(Len(t) + 1), R \in Full : \A a \in R, b \in Pages \ R :
              Fewest(t)[i][R] <= Fewest(t)[i][(R \ {a}) \union {b}] + 1
<1> DEFINE F == Fewest(t)
           n == Len(t) + 1
           Near(i) == \A R \in Full : \A a \in R, b \in Pages \ R :
                         F[i][R] <= F[i][(R \ {a}) \union {b}] + 1
           S == {i \in 1..n : Near(i)}
<1>1. n \in Nat \ {0} /\ Len(t) \in Nat /\ Full \subseteq SUBSET Pages
  BY DEF Full
<1>2. \A i \in 1..n, R \in Full : F[i][R] \in Nat
  BY <1>1, FewestTypes
<1>3. \A R \in Full : \A a \in R, b \in Pages \ R : (R \ {a}) \union {b} \in Full
  BY Swapped
<1>4. n \in S
  <2>1. \A R \in Full : F[n][R] = 0
    BY <1>1, FewestEnd
  <2> HIDE DEF F
  <2> QED BY <1>1, <1>3, <2>1
<1>5. ASSUME NEW i \in 1..(n - 1), i + 1 \in S PROVE i \in S
  <2> DEFINE q == t[i].page
  <2>1. i \in 1..Len(t) /\ i \in 1..n /\ i + 1 \in 1..n /\ q \in Pages
    <3>1. i \in 1..Len(t)
      BY <1>1
    <3> QED BY <3>1, LineOfTrace
  <2>2. ASSUME NEW R \in Full, NEW a \in R, NEW b \in Pages \ R
        PROVE  F[i][R] <= F[i][(R \ {a}) \union {b}] + 1
    <3> DEFINE U == (R \ {a}) \union {b}
    <3>1. U \in Full /\ a \in Pages /\ a \notin U /\ b \in U
      BY <1>1, <1>3
    <3>2. \A W \in Full : W \in SUBSET Pages /\ (q \in W => F[i][W] = F[i + 1][W])
      BY <1>1, <2>1, FewestStep
    <3>3. \A W \in Full : q \notin W => \A r \in W : F[i][W] <= 1 + F[i + 1][(W \ {r}) \union {q}]
      BY <2>1, FewestReplaces
    <3>4. q \notin U => \E r \in U : F[i][U] = 1 + F[i + 1][(U \ {r}) \union {q}]
      BY <2>1, <3>1, FewestReplaces
    <3>5. Near(i + 1)
      BY <1>5
    <3>6. F[i][R] \in Nat /\ F[i][U] \in Nat /\ F[i + 1][R] \in Nat /\ F[i + 1][U] \in Nat
      BY <1>2, <2>1, <3>1
    <3> HIDE DEF F, q
    <3>7. CASE q \in R /\ q # a
      <4>1. F[i][R] = F[i + 1][R] /\ F[i][U] = F[i + 1][U]
        BY <3>1, <3>2, <3>7
      <4> QED BY <3>5, <4>1
    <3>8. CASE q = b
      <4>1. F[i][U] = F[i + 1][U] /\ F[i][R] <= 1 + F[i + 1][U]
        BY <3>1, <3>2, <3>3, <3>8
      <4> HIDE DEF U
      <4> QED BY <3>6, <4>1 DEF U
    <3>9. CASE q \notin R \ {a} /\ q # b
      <4>1. PICK r \in U : F[i][U] = 1 + F[i + 1][(U \ {r}) \union {q}]
        BY <3>4, <3>9
      <4> DEFINE z == F[i + 1][(U \ {r}) \union {q}]
                 y == F[i + 1][(R \ {r}) \union {q}]
      <4>0. z \in Nat
        <5>1. (U \ {r}) \union {q} \in Full
          BY <1>3, <2>1, <3>1, <3>9, <4>1
        <5> QED BY <1>2, <2>1, <5>1
      <4>2. CASE r = b
        <5>1. (U \ {r}) \union {q} = (R \ {a}) \union {q}
          BY <4>2
        <5>2. q = a => F[i][R] = F[i + 1][R] /\ (R \ {a}) \union {q} = R
          BY <3>2
        <5>3. q # a => F[i][R] <= 1 + F[i + 1][(R \ {a}) \union {q}]
          BY <3>3, <3>9
        <5>4. F[i][U] = 1 + z /\ (q = a => F[i][R] = z) /\ (q # a => F[i][R] <= 1 + z)
          BY <4>1, <5>1, <5>2, <5>3
        <5> HIDE DEF U, z
        <5>5. F[i][R] <= F[i][U] + 1
          BY <3>6, <4>0, <5>4
        <5> QED BY <5>5 DEF U
      <4>3. CASE r # b
        <5>1. r \in R /\ r # a
          BY <4>1, <4>3
        <5>2. q = a => /\ F[i][R] = F[i + 1][R]
                       /\ (U \ {r}) \union {q} = (R \ {r}) \union {b}
          BY <3>2, <5>1
        <5>3. q = a => F[i + 1][R] <= F[i + 1][(R \ {r}) \union {b}] + 1
          BY <3>5, <5>1
        <5>4. ASSUME q # a
              PROVE  /\ F[i][R] <= 1 + F[i + 1][(R \ {r}) \union {q}]
                     /\ F[i + 1][(R \ {r}) \union {q}] <= F[i + 1][(U \ {r}) \union {q}] + 1
                     /\ F[i + 1][(R \ {r}) \union {q}] \in Nat
          <6>1. q \in Pages \ R
            BY <2>1, <3>9, <5>4
          <6>2. (R \ {r}) \union {q} \in Full
            BY <1>3, <5>1, <6>1
          <6>3. a \in (R \ {r}) \union {q} /\ b \in Pages \ ((R \ {r}) \union {q})
            BY <3>9, <5>1
          <6>4. (((R \ {r}) \union {q}) \ {a}) \union {b} = (U \ {r}) \union {q}
            BY <3>9, <4>3, <5>1, <5>4
          <6>5. F[i][R] <= 1 + F[i + 1][(R \ {r}) \union {q}]
            BY <3>3, <5>1, <6>1
          <6> QED BY <1>2, <2>1, <3>5, <6>2, <6>3, <6>4, <6>5
        <5>5. F[i][U] = 1 + z /\ (q = a => F[i][R] <= z + 1)
          BY <4>1, <5>2, <5>3
        <5>6. q # a => F[i][R] <= 1 + y /\ y <= z + 1 /\ y \in Nat
          BY <5>4
        <5> HIDE DEF U, y, z
        <5>7. F[i][R] <= F[i][U] + 1
          BY <3>6, <4>0, <5>5, <5>6
        <5> QED BY <5>7 DEF U
      <4> QED BY <4>2, <4>3
    <3> QED BY <3>7, <3>8, <3>9
  <2> QED BY <2>1, <2>2
<1>6. 1..n \subseteq S
  <2> HIDE DEF n, S
  <2> QED BY <1>1, <1>4, <1>5, Backwards
<1> QED BY <1>6

\* From line i on, b is not used before a is.
Sooner(t, i, a, b) ==
    \A j \in i..Len(t) : t[j].page = b => \E k \in i..j : t[k].page = a

\* Of two pages it is best to keep the one that is needed sooner.
LEMMA KeepSooner ==
    ASSUME NEW t \in Seq(Accesses)
    PROVE  \A i \in 1..(Len(t) + 1), R \in Full : \A a \in R, b \in Pages \ R :
              Sooner(t, i, a, b) => Fewest(t)[i][R] <= Fewest(t)[i][(R \ {a}) \union {b}]
<1> DEFINE F == Fewest(t)
           n == Len(t) + 1
           Best(i) == \A R \in Full : \A a \in R, b \in Pages \ R :
                         Sooner(t, i, a, b) => F[i][R] <= F[i][(R \ {a}) \union {b}]
           S == {i \in 1..n : Best(i)}
<1>1. n \in Nat \ {0} /\ Len(t) \in Nat /\ Full \subseteq SUBSET Pages
  BY DEF Full
<1>2. \A i \in 1..n, R \in Full : F[i][R] \in Nat
  BY <1>1, FewestTypes
<1>3. \A R \in Full : \A a \in R, b \in Pages \ R : (R \ {a}) \union {b} \in Full
  BY Swapped
<1>4. n \in S
  <2>1. \A R \in Full : F[n][R] = 0
    BY <1>1, FewestEnd
  <2> HIDE DEF F
  <2>2. ASSUME NEW R \in Full, NEW a \in R, NEW b \in Pages \ R
        PROVE  F[n][R] <= F[n][(R \ {a}) \union {b}]
    <3>1. F[n][R] = 0 /\ F[n][(R \ {a}) \union {b}] = 0
      BY <1>3, <2>1
    <3> QED BY <3>1
  <2>3. Best(n) /\ n \in 1..n
    BY <1>1, <2>2
  <2> HIDE DEF Best, n
  <2> QED BY <2>3
<1>5. ASSUME NEW i \in 1..(n - 1), i + 1 \in S PROVE i \in S
  <2> DEFINE q == t[i].page
  <2>1. i \in 1..Len(t) /\ i \in 1..n /\ i + 1 \in 1..n /\ q \in Pages
    <3>1. i \in 1..Len(t)
      BY <1>1
    <3> QED BY <3>1, LineOfTrace
  <2>2. ASSUME NEW R \in Full, NEW a \in R, NEW b \in Pages \ R, Sooner(t, i, a, b)
        PROVE  F[i][R] <= F[i][(R \ {a}) \union {b}]
    <3> DEFINE U == (R \ {a}) \union {b}
    <3>1. U \in Full /\ a \in Pages /\ a \notin U /\ b \in U /\ a # b
      BY <1>1, <1>3
    <3>2. \A W \in Full : W \in SUBSET Pages /\ (q \in W => F[i][W] = F[i + 1][W])
      BY <1>1, <2>1, FewestStep
    <3>3. \A W \in Full : q \notin W => \A r \in W : F[i][W] <= 1 + F[i + 1][(W \ {r}) \union {q}]
      BY <2>1, FewestReplaces
    <3>4. q \notin U => \E r \in U : F[i][U] = 1 + F[i + 1][(U \ {r}) \union {q}]
      BY <2>1, <3>1, FewestReplaces
    <3>5. Best(i + 1)
      BY <1>5
    <3>6. F[i][R] \in Nat /\ F[i][U] \in Nat /\ F[i + 1][R] \in Nat /\ F[i + 1][U] \in Nat
      BY <1>2, <2>1, <3>1
    <3>7. q # b
      <4>1. q = b => \E k \in i..i : t[k].page = a
        BY <1>1, <2>1, <2>2 DEF Sooner
      <4> QED BY <2>1, <3>1, <4>1
    <3>8. q # a => Sooner(t, i + 1, a, b)
      <4> SUFFICES ASSUME q # a, NEW j \in (i + 1)..Len(t), t[j].page = b
                   PROVE  \E k \in (i + 1)..j : t[k].page = a
        BY DEF Sooner
      <4>1. PICK k \in i..j : t[k].page = a
        BY <1>1, <2>1, <2>2 DEF Sooner
      <4>2. k # i
        BY <4>1
      <4> QED BY <1>1, <2>1, <4>1, <4>2
    <3>9. \A W \in Full : \A c \in W, d \in Pages \ W :
            F[i + 1][W] <= F[i + 1][(W \ {c}) \union {d}] + 1
      BY <2>1, OnePageOneMiss
    <3> HIDE DEF F, q
    <3>10. CASE q \in R /\ q # a
      <4>1. F[i][R] = F[i + 1][R] /\ F[i][U] = F[i + 1][U]
        BY <3>1, <3>2, <3>10
      <4> QED BY <3>5, <3>8, <3>10, <4>1
    <3>11. CASE q \notin R \ {a}
      <4>1. PICK r \in U : F[i][U] = 1 + F[i + 1][(U \ {r}) \union {q}]
        BY <3>4, <3>7, <3>11
      <4> DEFINE z == F[i + 1][(U \ {r}) \union {q}]
                 y == F[i + 1][(R \ {r}) \union {q}]
      <4>2. z \in Nat
        <5>1. (U \ {r}) \union {q} \in Full
          BY <1>3, <2>1, <3>1, <3>7, <3>11, <4>1
        <5> QED BY <1>2, <2>1, <5>1
      <4>3. CASE r = b
        <5>1. (U \ {r}) \union {q} = (R \ {a}) \union {q}
          BY <4>3
        <5>2. q = a => F[i][R] = F[i + 1][R] /\ (R \ {a}) \union {q} = R
          BY <3>2
        <5>3. q # a => F[i][R] <= 1 + F[i + 1][(R \ {a}) \union {q}]
          BY <3>3, <3>11
        <5>4. F[i][U] = 1 + z /\ (q = a => F[i][R] = z) /\ (q # a => F[i][R] <= 1 + z)
          BY <4>1, <5>1, <5>2, <5>3
        <5> HIDE DEF U, z
        <5>5. F[i][R] <= F[i][U]
          BY <3>6, <4>2, <5>4
        <5> QED BY <5>5 DEF U
      <4>4. CASE r # b
        <5>1. r \in R /\ r # a
          BY <4>1, <4>4
        <5>2. q = a => /\ F[i][R] = F[i + 1][R]
                       /\ (U \ {r}) \union {q} = (R \ {r}) \union {b}
          BY <3>2, <5>1
        <5>3. q = a => F[i + 1][R] <= F[i + 1][(R \ {r}) \union {b}] + 1
          BY <3>9, <5>1
        <5>4. ASSUME q # a
              PROVE  /\ F[i][R] <= 1 + F[i + 1][(R \ {r}) \union {q}]
                     /\ F[i + 1][(R \ {r}) \union {q}] <= F[i + 1][(U \ {r}) \union {q}]
                     /\ F[i + 1][(R \ {r}) \union {q}] \in Nat
          <6>1. q \in Pages \ R
            BY <2>1, <3>11, <5>4
          <6>2. (R \ {r}) \union {q} \in Full
            BY <1>3, <5>1, <6>1
          <6>3. a \in (R \ {r}) \union {q} /\ b \in Pages \ ((R \ {r}) \union {q})
            BY <3>7, <5>1
          <6>4. (((R \ {r}) \union {q}) \ {a}) \union {b} = (U \ {r}) \union {q}
            BY <3>7, <3>11, <4>4, <5>1, <5>4
          <6>5. F[i][R] <= 1 + F[i + 1][(R \ {r}) \union {q}]
            BY <3>3, <5>1, <6>1
          <6> QED BY <1>2, <2>1, <3>5, <3>8, <5>4, <6>2, <6>3, <6>4, <6>5
        <5>5. F[i][U] = 1 + z /\ (q = a => F[i][R] <= z + 1)
          BY <4>1, <5>2, <5>3
        <5>6. q # a => F[i][R] <= 1 + y /\ y <= z /\ y \in Nat
          BY <5>4
        <5> HIDE DEF U, y, z
        <5>7. F[i][R] <= F[i][U]
          BY <3>6, <4>2, <5>5, <5>6
        <5> QED BY <5>7 DEF U
      <4> QED BY <4>3, <4>4
    <3> QED BY <3>10, <3>11
  <2> QED BY <2>1, <2>2
<1>6. 1..n \subseteq S
  <2> HIDE DEF n, S
  <2> QED BY <1>1, <1>4, <1>5, Backwards
<1> QED BY <1>6

\* The victim of opt leaves the memory from which the fewest misses follow.
LEMMA OptVictimBest ==
    ASSUME FrameInv, Advances, alg = "opt", ReplaceStep
    PROVE  Fewest(trace)[pos][Resident] = 1 + Fewest(trace)[pos + 1][Resident']
<1> DEFINE F == Fewest(trace)
           p == Page
<1>1. /\ TypeInv /\ trace \in Seq(Accesses) /\ pos \in 1..Len(trace) /\ p = trace[pos].page
      /\ p \in Pages /\ pos + 1 \in 1..(Len(trace) + 1) /\ pos \in 1..(Len(trace) + 1)
  BY CurrentAccess DEF FrameInv, TypeInv, TypeOK, Advances, Page
<1>2. PICK e \in Victims : Owner(e) \in Resident /\ Moves({Owner(e)}, e.list, e.frame)
  BY DEF ReplaceStep
<1>3. Resident \in Full /\ Resident \subseteq Pages
  BY ResidentCount DEF Full, ReplaceStep, Resident
<1> DEFINE R == Resident
           o == Owner(e)
           U == (R \ {o}) \union {p}
<1>4. p \notin R /\ Resident' = U /\ o \in R
  BY <1>2 DEF Moves
<1>5. U \in Full
  BY <1>1, <1>3, <1>4, Swapped
<1>6. \A r \in R : F[pos][R] <= 1 + F[pos + 1][(R \ {r}) \union {p}]
  BY <1>1, <1>3, <1>4, FewestReplaces
<1>7. PICK r \in R : F[pos][R] = 1 + F[pos + 1][(R \ {r}) \union {p}]
  <2>1. R \in Full /\ trace[pos].page \notin R
    BY <1>1, <1>3, <1>4
  <2> HIDE DEF R
  <2>2. \E r \in R : Fewest(trace)[pos][R]
                       = 1 + Fewest(trace)[pos + 1][(R \ {r}) \union {trace[pos].page}]
    BY <1>1, <2>1, FewestReplaces
  <2> QED BY <1>1, <2>2
<1>8. F[pos + 1][U] <= F[pos + 1][(R \ {r}) \union {p}]
  <2>1. CASE r = o
    <3>1. F[pos + 1][U] \in Nat
      BY <1>1, <1>5, FewestTypes DEF Full
    <3> HIDE DEF F
    <3> QED BY <2>1, <3>1
  <2>2. CASE r # o
    <3>1. Distance(trace, pos, r) <= Distance(trace, pos, o)
      BY <1>2, VictimIs DEF ReplaceStep
    <3>2. Sooner(trace, pos + 1, r, o)
      <4> SUFFICES ASSUME NEW j \in (pos + 1)..Len(trace), trace[j].page = o
                   PROVE  \E k \in (pos + 1)..j : trace[k].page = r
        BY DEF Sooner
      <4> DEFINE L == Len(trace)
                 at(c) == {i \in (pos + 1)..L : trace[i].page = c}
                 next(c) == IF at(c) = {} THEN L + 1 ELSE Min(at(c))
      <4>1. L \in Nat /\ pos \in Nat
        BY <1>1
      <4>2. \A c : Distance(trace, pos, c) = next(c) - pos - 1
        BY DEF Distance
      <4>3. \A c : at(c) # {} => Min(at(c)) \in at(c) /\ \A x \in at(c) : Min(at(c)) <= x
        <5> TAKE c
        <5>1. at(c) \subseteq Nat
          BY <4>1
        <5> HIDE DEF at
        <5> QED BY <5>1, MinProps
      <4>4. j \in at(o)
        OBVIOUS
      <4>5. \A c : \A x \in at(c) : x \in (pos + 1)..L /\ trace[x].page = c
        OBVIOUS
      <4> HIDE DEF at, L, R, o
      <4>6. next(o) <= j /\ next(o) \in Int
        <5>1. next(o) = Min(at(o)) /\ Min(at(o)) \in at(o) /\ Min(at(o)) <= j
          BY <4>3, <4>4
        <5> HIDE DEF next
        <5> QED BY <4>1, <4>5, <5>1
      <4>7. next(r) \in Int /\ next(r) <= next(o)
        <5>1. next(r) \in Int
          BY <4>1, <4>3, <4>5
        <5> HIDE DEF next
        <5> QED BY <3>1, <4>1, <4>2, <4>6, <5>1
      <4>8. j <= L
        BY <4>4, <4>5, <4>1
      <4>9. next(r) \in at(r)
        BY <4>1, <4>3, <4>5, <4>6, <4>7, <4>8
      <4> HIDE DEF next
      <4>10. next(r) \in (pos + 1)..j /\ trace[next(r)].page = r
        BY <4>1, <4>4, <4>5, <4>6, <4>7, <4>8, <4>9
      <4> QED BY <4>10
    <3>3. r \in U /\ o \in Pages \ U /\ (U \ {r}) \union {o} = (R \ {r}) \union {p}
      BY <1>3, <1>4, <2>2
    <3> HIDE DEF U, o
    <3> QED BY <1>1, <1>5, <3>2, <3>3, KeepSooner
  <2> QED BY <2>1, <2>2
<1>9. /\ F[pos + 1][U] \in Nat /\ F[pos][R] \in Nat
      /\ F[pos + 1][(R \ {r}) \union {p}] \in Nat
  <2>1. (R \ {r}) \union {p} \in SUBSET Pages /\ U \in SUBSET Pages /\ R \in SUBSET Pages
    BY <1>1, <1>3
  <2> HIDE DEF U
  <2> QED BY <1>1, <2>1, FewestTypes
<1>10. F[pos][R] <= 1 + F[pos + 1][U]
  BY <1>4, <1>6
<1> DEFINE x == F[pos + 1][(R \ {r}) \union {p}]
           y == F[pos + 1][U]
           z == F[pos][R]
<1>11. z = 1 + x /\ z <= 1 + y /\ y <= x /\ x \in Nat /\ y \in Nat /\ z \in Nat
  BY <1>7, <1>8, <1>9, <1>10
<1> HIDE DEF x, y, z
<1>12. z = 1 + y
  BY <1>11
<1> QED BY <1>4, <1>12 DEF y, z

\* The misses so far and the fewest that can follow are the fewest of all.
OptInv ==
    /\ FrameInv /\ HistoryOK
    /\ alg = "opt" => count.miss + Fewest(trace)[pos][Resident] = Fewest(trace)[1][{}]
    /\ status = "done" => pos \notin DOMAIN trace

LEMMA OptKept ==
    ASSUME RoomySwap, OptInv, [HNext]_hvars
    PROVE  OptInv'
<1> DEFINE F == Fewest(trace)
<1>1. FrameInv' /\ HistoryOK' /\ [Next]_vars /\ FrameInv /\ TypeInv
  BY HSteps, HistoryKept, NextFrames DEF OptInv, HNext, hvars, FrameInv
<1>2. status' = "done" => pos' \notin DOMAIN trace'
  <2>1. status' = "done" => /\ pos' = pos /\ trace' = trace
                            /\ status = "done" \/ pos \notin DOMAIN trace
    <3>1. CASE Hit \/ UseFreeFrame \/ EvictClean \/ EvictDirty
      BY <3>1 DEF Hit, UseFreeFrame, EvictClean, EvictDirty, Place, Reference, Evicting,
                  Missing, Replaying
    <3>2. CASE EvictCrashes \/ Finish \/ Stopped \/ UNCHANGED vars
      BY <3>2 DEF EvictCrashes, Finish, Stopped, vars
    <3> QED BY <1>1, <3>1, <3>2, NoSwapFails DEF Next
  <2> QED BY <2>1 DEF OptInv
<1>3. ASSUME alg' = "opt"
      PROVE  count'.miss + Fewest(trace')[pos'][Resident'] = Fewest(trace')[1][{}]
  <2>1. trace' = trace /\ alg' = alg
    BY <1>1, HSteps DEF Quiet, Advances
  <2>2. alg = "opt" /\ count.miss + F[pos][Resident] = F[1][{}] /\ count.miss \in Nat
    BY <1>1, <1>3, <2>1 DEF OptInv, TypeInv, TypeOK, CountType
  <2>3. CASE Quiet
    <3>1. Resident' = Resident /\ pos' = pos /\ count' = count
      BY <2>3 DEF Quiet, Resident
    <3> QED BY <2>1, <2>2, <3>1
  <2>4. ASSUME Advances
        PROVE  /\ trace \in Seq(Accesses) /\ pos \in 1..Len(trace) /\ Page = trace[pos].page
               /\ pos' = pos + 1 /\ pos + 1 \in 1..(Len(trace) + 1) /\ Resident \in SUBSET Pages
               /\ Resident' \in SUBSET Pages
    BY <1>1, <2>4, CurrentAccess DEF TypeInv, TypeOK, Advances, Page, Resident
  <2>5. CASE Advances /\ HitStep
    <3>1. F[pos][Resident] = F[pos + 1][Resident]
      <4>1. trace[pos].page \in Resident
        BY <2>4, <2>5 DEF HitStep, Stays
      <4> QED BY <2>4, <2>5, <4>1, FewestHits
    <3> QED BY <2>1, <2>2, <2>4, <2>5, <3>1 DEF HitStep, Stays
  <2>6. ASSUME Advances, F[pos][Resident] = 1 + F[pos + 1][Resident'],
               count'.miss = count.miss + 1
        PROVE  count'.miss + Fewest(trace')[pos'][Resident'] = Fewest(trace')[1][{}]
    <3>1. F[pos + 1][Resident'] \in Nat
      BY <2>4, <2>6, FewestTypes
    <3>2. count'.miss + F[pos + 1][Resident'] = F[1][{}]
      <4> HIDE DEF F
      <4> QED BY <2>2, <2>6, <3>1
    <3> QED BY <2>1, <2>4, <2>6, <3>2
  <2>7. CASE Advances /\ LoadStep
    <3>1. Page \notin Resident /\ Resident' = Resident \union {Page}
      BY <2>7 DEF LoadStep, Moves
    <3>2. Cardinality(Resident) < memsize
      BY <1>1, <2>7, ResidentCount DEF LoadStep
    <3>3. F[pos][Resident] = 1 + F[pos + 1][Resident \union {Page}]
      <4>1. trace[pos].page \notin Resident
        BY <2>4, <2>7, <3>1
      <4>2. Fewest(trace)[pos][Resident] = 1 + Fewest(trace)[pos + 1][Resident \union {trace[pos].page}]
        BY <2>4, <2>7, <3>2, <4>1, FewestLoads
      <4> QED BY <2>4, <2>7, <4>2
    <3> QED BY <2>6, <2>7, <3>1, <3>3 DEF LoadStep, MissStep
  <2>8. CASE Advances /\ ReplaceStep
    <3>1. F[pos][Resident] = 1 + F[pos + 1][Resident']
      BY <1>1, <2>2, <2>8, OptVictimBest
    <3> QED BY <2>6, <2>8, <3>1 DEF ReplaceStep, MissStep
  <2> QED BY <1>1, <2>3, <2>5, <2>7, <2>8, HSteps
<1> QED BY <1>1, <1>2, <1>3 DEF OptInv

\* Belady's theorem for the program: on no trace and with no number of frames
\* does any choice of victims miss less often than opt.c, which looks at one
\* eviction at a time.
THEOREM OptMissesLeast ==
    ASSUME RoomySwap
    PROVE  HSpec => []OptIsBest
<1>1. HInit => OptInv
  <2> SUFFICES ASSUME HInit PROVE OptInv
    OBVIOUS
  <2>1. /\ PolicyInv /\ pos = 1 /\ count.miss = 0 /\ status = "running" /\ trace \in Seq(Accesses)
        /\ Resident = {}
    BY InitPolicy DEF HInit, Init, Resident, ZeroWord
  <2>2. Fewest(trace)[1][{}] \in Nat
    <3>1. 1 \in 1..(Len(trace) + 1) /\ {} \in SUBSET Pages
      BY <2>1
    <3> QED BY <2>1, <3>1, FewestTypes
  <2>3. 0 + Fewest(trace)[1][{}] = Fewest(trace)[1][{}]
    BY <2>2
  <2> QED BY <2>1, <2>3 DEF OptInv, PolicyInv
<1>2. OptInv /\ [HNext]_hvars => OptInv'
  BY OptKept
<1>3. OptInv => OptIsBest
  <2> SUFFICES ASSUME OptInv, alg = "opt", status = "done"
               PROVE  count.miss = Demand!FewestMisses
    BY DEF OptIsBest
  <2>1. /\ pos = Len(trace) + 1 /\ trace \in Seq(Accesses) /\ Resident \in SUBSET Pages
        /\ count.miss \in Nat
    BY DEF OptInv, FrameInv, TypeInv, TypeOK, CountType, Resident
  <2>2. Fewest(trace)[pos][Resident] = 0
    BY <2>1, FewestEnd
  <2>3. count.miss + 0 = Fewest(trace)[1][{}]
    BY <2>2 DEF OptInv
  <2> QED BY <2>1, <2>3, FewestIs
<1> QED BY <1>1, <1>2, <1>3, PTL DEF HSpec

=============================================================================
