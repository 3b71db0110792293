----------------------- MODULE InterceptorRefinement -----------------------
(***************************************************************************)
(* Calls made one after the other (InKernel = 1), with new processes only  *)
(* between them, implement MonitorService.  A call takes effect when it    *)
(* returns: the history variables seen and answer hold what the module's   *)
(* state says when no call is in progress, and the last call that          *)
(* returned.  The program keeps neither.                                   *)
(***************************************************************************)
EXTENDS Interceptor

VARIABLES seen, answer

hvars == <<vars, seen, answer>>

\* The monitored processes of s: those in the list, or with monitored = 2
\* those not in it.
Watched(s) == {q \in alive : IF monitored[s] = 2 THEN ~Listed(s, q) ELSE Listed(s, q)}

Numbers == Table \ {MY_CUSTOM_SYSCALL}

View ==
    [intercepted |-> {s \in Numbers : intercepted[s]},
     all         |-> {s \in Numbers : monitored[s] = 2},
     watched     |-> [s \in Numbers |-> Watched(s)],
     alive       |-> alive]

Quiet == \A p \in Procs : pc[p] = "idle"

HInit ==
    /\ Init
    /\ seen = View
    /\ answer = [proc |-> 0, cmd |-> "none", syscall |-> 0, pid |-> 0, ret |-> "none"]

HNext ==
    /\ Next
    /\ alive' \subseteq alive \/ Quiet
    /\ seen' = IF Quiet' THEN View' ELSE seen
    /\ answer' = IF \E p \in Procs : pc[p] = "return" /\ pc'[p] = "idle"
                 THEN LET p == CHOOSE q \in Procs : pc[q] = "return"
                      IN  [proc |-> p, cmd |-> Cmd(p), syscall |-> Syscall(p), pid |-> Pid(p),
                           ret |-> call[p].ret]
                 ELSE answer

HSpec == HInit /\ [][HNext]_hvars

Service == INSTANCE MonitorService WITH
    intercepted <- seen.intercepted,
    all <- seen.all,
    watched <- seen.watched,
    alive <- seen.alive

\* Every run of calls made one after the other is a run of MonitorService:
\* the lists, which are black lists once all pids are monitored, the flags and
\* the saved pointers keep exactly the promised set of monitored processes,
\* through exits and reused pids, and every request gets the promised answer.
ImplementsService == Service!Spec
=============================================================================
