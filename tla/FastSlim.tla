----------------------------- MODULE FastSlim -----------------------------
(***************************************************************************)
(* traceprogs/fastslim.py: the filter between valgrind and the simulator.  *)
(* It reads a trace of references line by line and prints the part of it   *)
(* that the simulator replays.  Lines that are no reference (and, without  *)
(* --keepcode, instruction fetches) change nothing and are left out; the   *)
(* type of a reference is passed on and changes nothing either.            *)
(***************************************************************************)
EXTENDS Integers, FiniteSets, SequencesExt

CONSTANTS Pages,
          BufferSize,   \* --buffersize
          MaxRefs       \* bound: references read

ASSUME FilterAssumption == BufferSize \in Nat \ {0} /\ MaxRefs \in Nat

VARIABLES
    ts,            \* references read so far
    tracebuffer,   \* the items in the buffer; a set of items compares their pages
    toprint,       \* the items that wait to be printed
    printed        \* the reduced trace

vars == <<ts, tracebuffer, toprint, printed>>

TraceItem(pg) == [pg |-> pg, tstamp |-> ts, marked |-> FALSE]

Init == ts = 0 /\ tracebuffer = {} /\ toprint = <<>> /\ printed = <<>>

\* Mutant: the buffer takes one item more.
BufferFullLate == Cardinality(tracebuffer) = BufferSize + 1

BufferFull == Cardinality(tracebuffer) = BufferSize
InBuffer(pg) == \E ti \in tracebuffer : ti.pg = pg

\* What emit_marked_in_ts_order prints.
Emitted ==
    SortSeq(toprint \o SetToSeq({ti \in tracebuffer : ti.marked}),
            LAMBDA a, b : a.tstamp < b.tstamp)

\* The item made for this line is marked, not the one in the buffer, and the
\* line makes no difference.
Hit(pg) ==
    /\ InBuffer(pg)
    /\ ts' = ts + 1
    /\ UNCHANGED <<tracebuffer, toprint, printed>>

FirstSeen(pg) ==
    /\ ~InBuffer(pg)
    /\ ~BufferFull
    /\ toprint' = Append(toprint, TraceItem(pg))
    /\ tracebuffer' = tracebuffer \union {TraceItem(pg)}
    /\ ts' = ts + 1
    /\ UNCHANGED printed

\* Mutant: the buffer is not cleared.
EmitOnly(pg) ==
    /\ ~InBuffer(pg)
    /\ BufferFull
    /\ printed' = printed \o Emitted
    /\ toprint' = <<TraceItem(pg)>>
    /\ tracebuffer' = tracebuffer \union {TraceItem(pg)}
    /\ ts' = ts + 1

\* The buffer is full: everything is printed and the buffer starts again.
Emit(pg) ==
    /\ ~InBuffer(pg)
    /\ BufferFull
    /\ printed' = printed \o Emitted
    /\ toprint' = <<TraceItem(pg)>>
    /\ tracebuffer' = {TraceItem(pg)}
    /\ ts' = ts + 1

Reference(pg) == Hit(pg) \/ FirstSeen(pg) \/ Emit(pg)

\* At the end of the input nothing more is printed: what is in toprint is lost.
Next == ts < MaxRefs /\ \E pg \in Pages : Reference(pg)

Spec == Init /\ [][Next]_vars
=============================================================================
