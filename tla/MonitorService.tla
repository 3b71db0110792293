--------------------------- MODULE MonitorService ---------------------------
(***************************************************************************)
(* What the interceptor promises its users (interceptor.c:300-348): system *)
(* calls are intercepted or not, and of an intercepted system call a set   *)
(* of processes is monitored.  A request is refused with one of three      *)
(* error codes and changes nothing, or it is done.  Nothing is said of     *)
(* lists, black lists, locks or saved pointers.                            *)
(***************************************************************************)
EXTENDS Integers

CONSTANTS Procs, Uid, Numbers, Cmds, Requests

VARIABLES
    intercepted,   \* the intercepted system calls
    all,           \* those for which new processes are monitored too
    watched,       \* the processes monitored for each system call
    alive,
    answer         \* the last call to return, and how

vars == <<intercepted, all, watched, alive, answer>>

Init ==
    /\ intercepted = {} /\ all = {}
    /\ watched = [s \in Numbers |-> {}]
    /\ alive = Procs
    /\ answer = [proc |-> 0, cmd |-> "none", syscall |-> 0, pid |-> 0, ret |-> "none"]

Valid(r) == r.syscall \in Numbers /\ r.cmd \in Cmds /\ (r.pid = 0 \/ r.pid \in alive)

\* Root may ask for anything, others only for monitoring of their own pids.
Permitted(p, r) ==
    \/ Uid[p] = 0
    \/ r.cmd \in {"start", "stop"} /\ r.pid # 0 /\ Uid[r.pid] = Uid[p]

Code(p, r) ==
    LET s == r.syscall
        admin == r.cmd \in {"intercept", "release"}
    IN  IF ~Valid(r)                                               THEN "EINVAL"
        ELSE IF admin /\ ~Permitted(p, r)                          THEN "EPERM"
        ELSE IF r.cmd = "intercept" /\ s \in intercepted           THEN "EBUSY"
        ELSE IF r.cmd # "intercept" /\ s \notin intercepted        THEN "EINVAL"
        ELSE IF ~Permitted(p, r)                                   THEN "EPERM"
        ELSE IF r.cmd = "start" /\ r.pid \in watched[s]            THEN "EBUSY"
        ELSE IF r.cmd = "stop" /\ r.pid \notin watched[s] \union {0} THEN "EINVAL"
        ELSE "ok"

Watch(s, who) == watched' = [watched EXCEPT ![s] = who]
Whom(r) == IF r.pid = 0 THEN alive ELSE {r.pid}

Do(r) ==
    LET s == r.syscall
    IN  \/ /\ r.cmd = "intercept"
           /\ intercepted' = intercepted \union {s}
           /\ UNCHANGED <<all, watched>>
        \/ /\ r.cmd = "release"
           /\ intercepted' = intercepted \ {s}
           /\ all' = all \ {s}
           /\ Watch(s, {})
        \/ /\ r.cmd = "start"
           /\ Watch(s, watched[s] \union Whom(r))
           /\ all' = IF r.pid = 0 THEN all \union {s} ELSE all
           /\ UNCHANGED intercepted
        \/ /\ r.cmd = "stop"
           /\ Watch(s, watched[s] \ Whom(r))
           /\ all' = IF r.pid = 0 THEN all \ {s} ELSE all
           /\ UNCHANGED intercepted

Serve(p, r) ==
    /\ IF Code(p, r) = "ok" THEN Do(r) ELSE UNCHANGED <<intercepted, all, watched>>
    /\ answer' = [proc |-> p, cmd |-> r.cmd, syscall |-> r.syscall, pid |-> r.pid,
                  ret |-> Code(p, r)]
    /\ UNCHANGED alive

\* An intercepted call is forwarded, and logged for a monitored process.
Run(p, s) ==
    /\ answer' = [proc |-> p, cmd |-> "call", syscall |-> s, pid |-> 0,
                  ret |-> IF p \in watched[s] THEN "logged" ELSE "quiet"]
    /\ UNCHANGED <<intercepted, all, watched, alive>>

\* Monitoring ends with the process; what gets its pid later starts afresh.
Exit(p) ==
    /\ alive' = alive \ {p}
    /\ watched' = [s \in Numbers |-> watched[s] \ {p}]
    /\ UNCHANGED <<intercepted, all, answer>>

Fork(p) ==
    /\ alive' = alive \union {p}
    /\ watched' = [s \in Numbers |-> IF s \in all THEN watched[s] \union {p} ELSE watched[s]]
    /\ UNCHANGED <<intercepted, all, answer>>

Next ==
    \/ \E p \in alive : \/ Exit(p)
                        \/ \E r \in Requests : Serve(p, r)
                        \/ \E s \in intercepted : Run(p, s)
    \/ \E p \in Procs \ alive : Fork(p)

Spec == Init /\ [][Next]_vars
=============================================================================
