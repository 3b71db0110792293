------------------------------- MODULE Pager -------------------------------
(***************************************************************************)
(* The virtual memory simulator: a trace of page accesses is replayed      *)
(* against a two-level page table, a core map of memsize frames, a swap    *)
(* file of swapsize slots and one of five replacement algorithms           *)
(* (pagetable.c, swap.c, sim.c; Replacement.tla has the algorithms).       *)
(*                                                                         *)
(* The program is sequential: one step replays one trace line, from        *)
(* access_mem through find_physpage, allocate_frame, evict_fcn,            *)
(* swap_pageout and ref_fcn to the version update.  The helper operators   *)
(* follow the order in which the C code rewrites the frame words.          *)
(*                                                                         *)
(* Addresses are page aligned in the traces, so a page stands for vaddr    *)
(* and for vaddr >> PAGE_SHIFT alike.  A page table entry is two functions *)
(* of the page: word (the frame field, split into the frame number and the *)
(* flag bits) and swap_off (the slot, that is swap_off / SIMPAGESIZE).     *)
(***************************************************************************)
EXTENDS Replacement, FiniteSets

CONSTANTS Pages,           \* page numbers the traces use
          PTRS_PER_PGTBL,  \* entries of a second-level table
          memsize,         \* -m: frames of simulated memory
          swapsize,        \* -s: slots of the swap file
          Algs,            \* values of -a to consider
          Traces,          \* trace files to consider
          WriteFaults      \* whether a write to the swap file may fail

Load == "L"
Store == "S"               \* stands for 'S' and 'M', which are treated alike
AccessTypes == {Load, Store}
Accesses == [type : AccessTypes, page : Pages]
AlgNames == {"rand", "lru", "fifo", "clock", "opt"}

ASSUME PagesAssumption == Pages \subseteq Nat /\ IsFiniteSet(Pages)
ASSUME TableAssumption == PTRS_PER_PGTBL \in Nat \ {0}
ASSUME SizeAssumption == memsize \in Nat \ {0} /\ swapsize \in Nat
ASSUME AlgAssumption == Algs \subseteq AlgNames
ASSUME TraceAssumption == Traces \subseteq Seq(Accesses)
ASSUME FaultAssumption == WriteFaults \in BOOLEAN

PAGE_SIZE == 4096
NoPage == -1               \* a coremap entry that was never filled
NoSlot == -1               \* INVALID_SWAP
Frames == 0..(memsize - 1)
Slots == 0..(swapsize - 1)

VARIABLES
    trace,      \* the trace file, and the list opt_init makes of it
    pos,        \* the next line replay_trace reads
    alg,        \* what init_fcn, ref_fcn and evict_fcn point to
    pgdir,      \* directory entries that have a second-level table
    word,       \* frame words of the page table entries
    swap_off,   \* swap slots of the page table entries
    coremap,    \* frame -> in_use, pte (as a page) and vaddr
    physmem,    \* frame -> version and vaddr stored in it
    swapmap,    \* slots marked in the swap bitmap
    swapfile,   \* slot -> last contents written
    referlist,  \* the list at referlist_head
    curr,       \* opt's position in the list of trace nodes
    count,      \* the five event counters
    status      \* "running", "done" or "crashed" (undefined behaviour)

vars == <<trace, pos, alg, pgdir, word, swap_off, coremap, physmem, swapmap,
          swapfile, referlist, curr, count, status>>

ZeroWord == [num |-> 0, valid |-> FALSE, dirty |-> FALSE, ref |-> FALSE,
             onswap |-> FALSE]
EmptyFrame == [in_use |-> FALSE, pte |-> NoPage, vaddr |-> NoPage]
BlankPage == [version |-> 0, vaddr |-> NoPage]

Init ==
    /\ trace \in Traces
    /\ pos = 1
    /\ alg \in Algs
    /\ pgdir = {}
    /\ word = [q \in Pages |-> ZeroWord]
    /\ swap_off = [q \in Pages |-> NoSlot]
    /\ coremap = [f \in Frames |-> EmptyFrame]
    /\ physmem = [f \in Frames |-> BlankPage]
    /\ swapmap = {}
    /\ swapfile = [s \in Slots |-> BlankPage]
    /\ referlist = <<>>
    /\ curr = 1
    /\ count = [hit |-> 0, miss |-> 0, ref |-> 0, clean |-> 0, dirty |-> 0]
    /\ status = "running"

-----------------------------------------------------------------------------
(* Page table.                                                             *)

PgdirIndex(q) == q \div PTRS_PER_PGTBL

\* find_physpage gives a page without a second-level table a new one, all of
\* whose entries are zero and off swap.
NewTable(q) == {r \in Pages : PgdirIndex(r) = PgdirIndex(q) /\ PgdirIndex(q) \notin pgdir}
WordsFor(q) == [r \in Pages |-> IF r \in NewTable(q) THEN ZeroWord ELSE word[r]]
OffsFor(q) == [r \in Pages |-> IF r \in NewTable(q) THEN NoSlot ELSE swap_off[r]]

\* A page that is not on swap is marked dirty before a frame is sought.
FirstUse(w, q) == IF w[q].onswap THEN w ELSE [w EXCEPT ![q].dirty = TRUE]

\* Mutant: the victim keeps its valid bit.
ToggleNothing(w, q) == w

\* The victim's entry loses (by exclusive or) its valid bit.
ToggleValid(w, q) == [w EXCEPT ![q].valid = ~w[q].valid]
ClearDirty(w, q) == [w EXCEPT ![q].dirty = FALSE]

\* Mutants: the owner, or the in_use flag, is not set.
OwnUnnamed(cm, q, f) == [cm EXCEPT ![f].in_use = TRUE]
OwnUnused(cm, q, f) == [cm EXCEPT ![f].pte = q]

\* allocate_frame's last statements: q owns frame f, every other bit is reset.
Install(w, q, f) == [w EXCEPT ![q] = [ZeroWord EXCEPT !.num = f, !.valid = TRUE]]
Own(cm, q, f) == [cm EXCEPT ![f] = [in_use |-> TRUE, pte |-> q, vaddr |-> NoPage]]

\* Mutant: init_frame only clears the frame.
FillBlank(q) == IF WordsFor(q)[q].onswap THEN swapfile[swap_off[q]] ELSE BlankPage

\* The contents of a frame just allocated: zeroes and the address
\* (init_frame), or what swap_pagein reads back.
Fill(q) == IF WordsFor(q)[q].onswap THEN swapfile[swap_off[q]]
           ELSE [version |-> 0, vaddr |-> q]

\* Mutant: a load clears the dirty bit.
TouchByType(w, q, type) ==
    [w EXCEPT ![q] = [w[q] EXCEPT !.valid = TRUE, !.ref = TRUE, !.dirty = type = Store]]

\* find_physpage's last statements on the entry.
Touch(w, q, type) ==
    [w EXCEPT ![q] = [w[q] EXCEPT !.valid = TRUE, !.ref = TRUE,
                                  !.dirty = w[q].dirty \/ type = Store]]

-----------------------------------------------------------------------------
(* Swap.                                                                   *)

\* Mutants: a new slot each time; slot 0 when none is free.
SlotsForAnew(offs, q) == IF Slots \subseteq swapmap THEN {} ELSE {Min(Slots \ swapmap)}
SlotsForAlways(offs, q) ==
    IF offs[q] # NoSlot THEN {offs[q]}
    ELSE IF Slots \subseteq swapmap THEN {0}
    ELSE {Min(Slots \ swapmap)}

\* The slot swap_pageout writes q to: the one it has, or the first free one.
SlotsFor(offs, q) ==
    IF offs[q] # NoSlot THEN {offs[q]}
    ELSE IF Slots \subseteq swapmap THEN {}
    ELSE {Min(Slots \ swapmap)}

\* allocate_frame shifts the frame NUMBER by PAGE_SHIFT once more before it
\* hands it to swap_pageout.
SwapSource(f) == f \div PAGE_SIZE

-----------------------------------------------------------------------------
(* One line of the trace.                                                  *)

Replaying == status = "running" /\ pos \in DOMAIN trace
Page == trace[pos].page
Type == trace[pos].type
FreeFrames == {f \in Frames : ~coremap[f].in_use}

\* What every reference ends with, from line 187 of pagetable.c on and in
\* access_mem: w, cm, pm and list are the frame words, core map, memory and
\* list so far, c the counters.
Reference(w, cm, pm, list, c) ==
    LET f == w[Page].num
        touched == Touch(w, Page, Type)
    IN  /\ word' = touched
        /\ coremap' = [cm EXCEPT ![f].vaddr = Page]
        /\ physmem' = [pm EXCEPT ![f].version = pm[f].version + (IF Type = Store THEN 1 ELSE 0)]
        /\ referlist' = RefFcn(alg, list, touched, Page)
        /\ curr' = IF alg = "opt" THEN curr + 1 ELSE curr
        /\ count' = [c EXCEPT !.ref = c.ref + 1]
        /\ pos' = pos + 1
        /\ pgdir' = pgdir \union {PgdirIndex(Page)}
        /\ UNCHANGED <<trace, alg, status>>

\* Mutant: the miss is not counted.
PlaceUncounted(w, list, f, c) ==
    Reference(Install(w, Page, f), Own(coremap, Page, f), [physmem EXCEPT ![f] = Fill(Page)],
              list, c)

\* A miss that got frame f: the frame is filled and the reference completed.
Place(w, list, f, c) ==
    Reference(Install(w, Page, f), Own(coremap, Page, f),
              [physmem EXCEPT ![f] = Fill(Page)], list,
              [c EXCEPT !.miss = c.miss + 1])

Hit ==
    /\ Replaying
    /\ WordsFor(Page)[Page].valid
    /\ Reference(WordsFor(Page), coremap, physmem, referlist,
                 [count EXCEPT !.hit = count.hit + 1])
    /\ swap_off' = OffsFor(Page)
    /\ UNCHANGED <<swapmap, swapfile>>

Missing == Replaying /\ ~WordsFor(Page)[Page].valid

\* The lowest frame not in use is taken.
UseFreeFrame ==
    /\ Missing
    /\ FreeFrames # {}
    /\ Place(FirstUse(WordsFor(Page), Page), referlist, Min(FreeFrames), count)
    /\ swap_off' = OffsFor(Page)
    /\ UNCHANGED <<swapmap, swapfile>>

Evicting == Missing /\ FreeFrames = {}

Victims == EvictFcn(alg, referlist, FirstUse(WordsFor(Page), Page), coremap, trace, curr)
Owner(e) == coremap[e.frame].pte
Unmapped(e) == ToggleValid(e.word, Owner(e))

EvictClean ==
    /\ Evicting
    /\ EvictDefined(alg, referlist)
    /\ \E e \in Victims :
         /\ ~Unmapped(e)[Owner(e)].dirty
         /\ Place(Unmapped(e), e.list, Unmapped(e)[Owner(e)].num,
                  [count EXCEPT !.clean = count.clean + 1])
    /\ swap_off' = OffsFor(Page)
    /\ UNCHANGED <<swapmap, swapfile>>

EvictDirty ==
    /\ Evicting
    /\ EvictDefined(alg, referlist)
    /\ \E e \in Victims : \E s \in SlotsFor(OffsFor(Page), Owner(e)) :
         /\ Unmapped(e)[Owner(e)].dirty
         /\ swapmap' = swapmap \union {s}
         /\ swapfile' = [swapfile EXCEPT ![s] = physmem[SwapSource(e.frame)]]
         /\ swap_off' = [OffsFor(Page) EXCEPT ![Owner(e)] = s]
         /\ Place(ClearDirty(Unmapped(e), Owner(e)), e.list, Unmapped(e)[Owner(e)].num,
                  [count EXCEPT !.dirty = count.dirty + 1])

\* swap_pageout fails: no slot is free, or the write fails and a slot just
\* allocated stays marked.  allocate_frame returns INVALID_SWAP, which
\* find_physpage does not test: it clears the memory BEFORE the first frame
\* (init_frame(-1, vaddr)) and completes the reference with the frame word
\* the page had.
SwapFails ==
    /\ Evicting
    /\ EvictDefined(alg, referlist)
    /\ \E e \in Victims :
         /\ Unmapped(e)[Owner(e)].dirty
         /\ \/ /\ SlotsFor(OffsFor(Page), Owner(e)) = {}
               /\ swapmap' = swapmap
            \/ /\ WriteFaults
               /\ \E s \in SlotsFor(OffsFor(Page), Owner(e)) : swapmap' = swapmap \union {s}
         /\ swap_off' = [OffsFor(Page) EXCEPT ![Owner(e)] = NoSlot]
         /\ Reference(Unmapped(e), coremap, physmem, e.list,
                      [count EXCEPT !.miss = count.miss + 1])
    /\ UNCHANGED swapfile

\* The evict function dereferences NULL or a freed node.
EvictCrashes ==
    /\ Evicting
    /\ ~EvictDefined(alg, referlist)
    /\ status' = "crashed"
    /\ UNCHANGED <<trace, pos, alg, pgdir, word, swap_off, coremap, physmem,
                   swapmap, swapfile, referlist, curr, count>>

\* main prints the counters and exits.
Finish ==
    /\ status = "running"
    /\ pos \notin DOMAIN trace
    /\ status' = "done"
    /\ UNCHANGED <<trace, pos, alg, pgdir, word, swap_off, coremap, physmem,
                   swapmap, swapfile, referlist, curr, count>>

Stopped == status # "running" /\ UNCHANGED vars

Next ==
    \/ Hit
    \/ UseFreeFrame
    \/ EvictClean
    \/ EvictDirty
    \/ SwapFails
    \/ EvictCrashes
    \/ Finish
    \/ Stopped

Spec == Init /\ [][Next]_vars

-----------------------------------------------------------------------------
(* Properties.                                                             *)

Resident == {q \in Pages : word[q].valid}

WordType == [num : Frames, valid : BOOLEAN, dirty : BOOLEAN, ref : BOOLEAN,
             onswap : BOOLEAN]
FrameType == [in_use : BOOLEAN, pte : Pages \union {NoPage}, vaddr : Pages \union {NoPage}]
PageType == [version : Nat, vaddr : Pages \union {NoPage}]
CountType == [hit : Nat, miss : Nat, ref : Nat, clean : Nat, dirty : Nat]

\* The state has its types; a frame in use belongs to a page.
TypeOK ==
    /\ trace \in Seq(Accesses)
    /\ pos \in 1..(Len(trace) + 1)
    /\ alg \in Algs
    /\ pgdir \subseteq Nat
    /\ word \in [Pages -> WordType]
    /\ swap_off \in [Pages -> Slots \union {NoSlot}]
    /\ coremap \in [Frames -> FrameType]
    /\ \A f \in Frames : coremap[f].in_use => coremap[f].pte \in Pages
    /\ physmem \in [Frames -> PageType]
    /\ swapmap \subseteq Slots
    /\ swapfile \in [Slots -> PageType]
    /\ referlist \in Seq(Pages)
    /\ curr = IF alg = "opt" THEN pos ELSE 1
    /\ count \in CountType
    /\ status \in {"running", "done", "crashed"}

\* A valid page table entry and the core map entry of its frame point at each
\* other, and no frame is in use without such an entry (pagetable.h:72-76):
\* after any run of hits, loads and evictions no two pages share a frame.
FrameTable ==
    /\ \A q \in Resident : LET c == coremap[word[q].num]
                           IN  c.in_use /\ c.pte = q /\ c.vaddr = q
    /\ \A f \in Frames : coremap[f].in_use =>
         /\ word[coremap[f].pte].valid
         /\ word[coremap[f].pte].num = f

\* The list an algorithm keeps holds each resident page once and nothing
\* else, although it is searched by frame word and never told of evictions.
ListTracksMemory ==
    alg \in {"lru", "fifo", "clock"} =>
        /\ Range(referlist) = Resident
        /\ IsInjective(referlist)

\* The counters main prints agree: every reference hit or missed, and every
\* miss either took a free frame or evicted exactly one page.
CountersBalance ==
    /\ count.hit + count.miss = count.ref
    /\ count.ref = pos - 1
    /\ count.miss = count.clean + count.dirty + Cardinality(Frames \ FreeFrames)

\* The comparison access_mem makes (sim.c:58) never fails: a resident page's
\* frame holds that page's address.
SelfCheck == \A q \in Resident : physmem[word[q].num].vaddr = q

\* Pages never share a swap slot, and a page's slot stays marked in the
\* bitmap for as long as the page has it.
SlotsDistinct ==
    \A q \in Pages : swap_off[q] # NoSlot =>
        /\ swap_off[q] \in swapmap
        /\ \A r \in Pages : swap_off[r] = swap_off[q] => r = q

\* No slot is lost either: every marked slot belongs to a page.
SlotsOwned == SlotsDistinct /\ \A s \in swapmap : \E q \in Pages : swap_off[q] = s

\* No list algorithm ever runs out of list nodes.
NeverCrashes == status # "crashed"

\* A page whose directory entry has no second-level table was never resident,
\* so giving it a table (WordsFor, OffsFor) forgets nothing.
TablesFresh ==
    \A q \in Pages : PgdirIndex(q) \notin pgdir => ~word[q].valid /\ swap_off[q] = NoSlot

\* What is left of CountersBalance when pages cannot be written out: every
\* reference is a hit or a miss, and no miss counts two evictions.
CountersAddUp ==
    /\ count.hit + count.miss = count.ref
    /\ count.ref = pos - 1
    /\ count.clean + count.dirty <= count.miss

-----------------------------------------------------------------------------
(* What a comment says of the program and the code does not keep.          *)

\* A page that comes back has its data read from swap (pagetable.c:145-147),
\* so its version counts every store of the trace to it so far.
StoresSurvive ==
    \A q \in Resident :
        physmem[word[q].num].version =
            Cardinality({i \in 1..(pos - 1) : trace[i] = [type |-> Store, page |-> q]})

=============================================================================
