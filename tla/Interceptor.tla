---------------------------- MODULE Interceptor ----------------------------
(***************************************************************************)
(* The loadable kernel module of interceptor.c once it is loaded: requests *)
(* to intercept, release, start and stop monitoring (my_syscall), the      *)
(* generic interceptor that runs in place of an intercepted system call,   *)
(* and the custom exit_group.  Processes run these at the same time; a     *)
(* step is one access to shared memory, one lock operation or one list     *)
(* operation.                                                              *)
(*                                                                         *)
(* A kernel oops (a null pointer, an exhausted kernel stack, a list torn   *)
(* by two CPUs) ends the run.  A pid keeps its owner when it is reused,    *)
(* and exit_group itself is not among the intercepted calls.               *)
(***************************************************************************)
EXTENDS Integers, FiniteSets

CONSTANTS Procs,         \* process ids
          Uid,           \* their owners; 0 is root
          NR_syscalls,
          Asked,         \* system call numbers processes use and ask about
          AskedPids,     \* pid arguments; 0 stands for all pids
          InKernel,      \* bound: calls in progress at a time
          KmallocFails   \* whether kmalloc may return NULL

ASSUME ProcsAssumption == Procs \subseteq Nat \ {0} /\ IsFiniteSet(Procs)
ASSUME UidAssumption == Uid \in [Procs -> Nat]
ASSUME NumbersAssumption == NR_syscalls \in Nat \ {0} /\ Asked \subseteq Int /\ AskedPids \subseteq Int
ASSUME BoundsAssumption == InKernel \in Nat \ {0} /\ KmallocFails \in BOOLEAN

VARIABLES
    sys_call_table,   \* what each entry points to
    rw,               \* whether the pages of sys_call_table are writable
    f,                \* table[s].f, the saved original
    intercepted,      \* table[s].intercepted
    monitored,        \* table[s].monitored
    my_list,          \* table[s].my_list: how many nodes name each pid
    pidlist_lock,     \* the process that holds it, or NoProc
    calltable_lock,
    alive,            \* pids that pid_task finds
    pc,               \* what each process does next; "idle" is user mode
    call,             \* the call it is in
    status            \* "up" or "oops"

MY_CUSTOM_SYSCALL == 0
Table == 0..NR_syscalls
NoProc == 0
Cmds == {"intercept", "release", "start", "stop"}
Requests == [cmd : Cmds \union {"unknown"}, syscall : Asked, pid : AskedPids, ret : {"none"}]
NoCall == [cmd |-> "none", syscall |-> 0, pid |-> 0, ret |-> "none"]

callTable == <<sys_call_table, rw, calltable_lock>>
table == <<f, intercepted, monitored, my_list>>
process == <<pc, call>>
rest == <<alive, status>>
vars == <<callTable, table, pidlist_lock, process, rest>>

Fresh ==
    /\ sys_call_table = [s \in Table |-> "original"]
    /\ rw = FALSE
    /\ f = [s \in Table |-> "null"]
    /\ intercepted = [s \in Table |-> FALSE]
    /\ monitored = [s \in Table |-> 0]
    /\ my_list = [s \in Table |-> [q \in Procs |-> 0]]
    /\ pidlist_lock = NoProc
    /\ calltable_lock = NoProc
    /\ pc = [p \in Procs |-> "idle"]
    /\ call = [p \in Procs |-> NoCall]
    /\ status = "up"

Init == Fresh /\ alive = Procs

-----------------------------------------------------------------------------
(* Moving on.                                                              *)

Cmd(p) == call[p].cmd
Syscall(p) == call[p].syscall
Pid(p) == call[p].pid
IsRoot(p) == Uid[p] = 0

At(p, label) == status = "up" /\ pc[p] = label
Go(p, label) == pc' = [pc EXCEPT ![p] = label] /\ UNCHANGED call
GoWith(p, label, code) ==
    /\ pc' = [pc EXCEPT ![p] = label]
    /\ call' = [call EXCEPT ![p].ret = code]
Return(p, code) == GoWith(p, "return", code)

Oops == status' = "oops" /\ UNCHANGED <<callTable, table, pidlist_lock, process, alive>>

\* A process in user mode starts call c at label.
Start(p, c, label) ==
    /\ At(p, "idle")
    /\ p \in alive
    /\ Cardinality({q \in Procs : pc[q] # "idle"}) < InKernel
    /\ pc' = [pc EXCEPT ![p] = label]
    /\ call' = [call EXCEPT ![p] = c]
    /\ UNCHANGED <<callTable, table, pidlist_lock, rest>>

Leave(p) ==
    /\ At(p, "return")
    /\ pc' = [pc EXCEPT ![p] = "idle"]
    /\ call' = [call EXCEPT ![p] = NoCall]
    /\ UNCHANGED <<callTable, table, pidlist_lock, rest>>

-----------------------------------------------------------------------------
(* The list operations, each on the entry of system call s.                *)

Listed(s, q) == my_list[s][q] > 0

\* Mutant: it stays 1.
MonitoredKept(lists, s) == monitored[s]

\* monitored drops from 1 to 0 when the last node goes.
StillMonitored(lists, s) ==
    IF (\A q \in Procs : lists[s][q] = 0) /\ monitored[s] = 1 THEN 0 ELSE monitored[s]

add_pid_sysc(q, s) ==
    /\ my_list' = [my_list EXCEPT ![s][q] = my_list[s][q] + 1]
    /\ UNCHANGED <<f, intercepted, monitored>>

\* Mutant: the search is expected to succeed.
del_pid_unchecked(q, s) ==
    LET lists == [my_list EXCEPT ![s][q] = my_list[s][q] - 1]
    IN  /\ my_list' = lists
        /\ monitored' = [monitored EXCEPT ![s] = StillMonitored(lists, s)]
        /\ UNCHANGED <<f, intercepted>>

\* The first node of q goes, if there is one.
del_pid_sysc(q, s) ==
    IF Listed(s, q)
    THEN LET lists == [my_list EXCEPT ![s][q] = my_list[s][q] - 1]
         IN  /\ my_list' = lists
             /\ monitored' = [monitored EXCEPT ![s] = StillMonitored(lists, s)]
             /\ UNCHANGED <<f, intercepted>>
    ELSE UNCHANGED table

\* Mutant: the loop starts one entry late.
VisitedLate == 2..(NR_syscalls - 1)

\* Every node of q goes, from the lists the loop of del_pid visits.
Visited == 1..(NR_syscalls - 1)
del_pid(q) ==
    LET lists == [s \in Table |-> IF s \in Visited THEN [my_list[s] EXCEPT ![q] = 0]
                                  ELSE my_list[s]]
    IN  /\ my_list' = lists
        /\ monitored' = [s \in Table |-> IF s \in Visited /\ Listed(s, q)
                                         THEN StillMonitored(lists, s) ELSE monitored[s]]
        /\ UNCHANGED <<f, intercepted>>

destroy_list(s) ==
    /\ my_list' = [my_list EXCEPT ![s] = [q \in Procs |-> 0]]
    /\ monitored' = [monitored EXCEPT ![s] = 0]
    /\ UNCHANGED <<f, intercepted>>

-----------------------------------------------------------------------------
(* The locks and the write protection of sys_call_table.                   *)

LockPids(p) ==
    /\ At(p, "lock_pids")
    /\ pidlist_lock = NoProc
    /\ pidlist_lock' = p
    /\ Go(p, "in_pids")
    /\ UNCHANGED <<callTable, table, rest>>

\* What follows the critical section: the end of exit_group or the answer.
UnlockPids(p) ==
    /\ At(p, "unlock_pids")
    /\ pidlist_lock' = NoProc
    /\ Go(p, CASE Cmd(p) = "exit" -> "dying"
               [] Cmd(p) = "start" /\ call[p].ret = "ok" -> "set_some"
               [] OTHER -> "return")
    /\ UNCHANGED <<callTable, table, rest>>

\* Mutant: calltable_lock is taken without waiting for it.
LockCallsAtOnce(p) ==
    /\ At(p, "lock_calls")
    /\ calltable_lock' = p
    /\ Go(p, "set_rw")
    /\ UNCHANGED <<sys_call_table, rw, table, pidlist_lock, rest>>

LockCalls(p) ==
    /\ At(p, "lock_calls")
    /\ calltable_lock = NoProc
    /\ calltable_lock' = p
    /\ Go(p, "set_rw")
    /\ UNCHANGED <<sys_call_table, rw, table, pidlist_lock, rest>>

set_addr_rw(p) ==
    /\ At(p, "set_rw")
    /\ rw' = TRUE
    /\ Go(p, IF Cmd(p) = "intercept" THEN "switch" ELSE "destroy")
    /\ UNCHANGED <<sys_call_table, calltable_lock, table, pidlist_lock, rest>>

set_addr_ro(p) ==
    /\ At(p, "set_ro")
    /\ rw' = FALSE
    /\ Go(p, "unlock_calls")
    /\ UNCHANGED <<sys_call_table, calltable_lock, table, pidlist_lock, rest>>

\* Mutant: calltable_lock stays locked.
UnlockCallsNot(p) ==
    /\ At(p, "unlock_calls")
    /\ Return(p, "ok")
    /\ UNCHANGED <<callTable, table, pidlist_lock, rest>>

UnlockCalls(p) ==
    /\ At(p, "unlock_calls")
    /\ calltable_lock' = NoProc
    /\ Return(p, "ok")
    /\ UNCHANGED <<sys_call_table, rw, table, pidlist_lock, rest>>

-----------------------------------------------------------------------------
(* my_syscall: the checks.                                                 *)

\* Mutant: an intercepted call may be intercepted again.
CheckNotBusy(p, r) ==
    IF \/ r.syscall \notin Table \ {MY_CUSTOM_SYSCALL}
       \/ r.cmd \notin Cmds
       \/ r.pid # 0 /\ r.pid \notin alive                            THEN "EINVAL"
    ELSE IF r.cmd \in {"intercept", "release"} /\ ~IsRoot(p)        THEN "EPERM"
    ELSE IF r.cmd # "intercept" /\ ~intercepted[r.syscall]          THEN "EINVAL"
    ELSE IF r.cmd \in {"start", "stop"} /\ r.pid = 0 /\ ~IsRoot(p)  THEN "EPERM"
    ELSE "ok"

\* The answer of the checks before the first change, in their order.
Check(p, r) ==
    IF \/ r.syscall \notin Table \ {MY_CUSTOM_SYSCALL}
       \/ r.cmd \notin Cmds
       \/ r.pid # 0 /\ r.pid \notin alive                            THEN "EINVAL"
    ELSE IF r.cmd \in {"intercept", "release"} /\ ~IsRoot(p)        THEN "EPERM"
    ELSE IF r.cmd = "intercept" /\ intercepted[r.syscall]           THEN "EBUSY"
    ELSE IF r.cmd # "intercept" /\ ~intercepted[r.syscall]          THEN "EINVAL"
    ELSE IF r.cmd \in {"start", "stop"} /\ r.pid = 0 /\ ~IsRoot(p)  THEN "EPERM"
    ELSE "ok"

FirstStep(r) ==
    CASE r.cmd = "intercept"               -> "save"
      [] r.cmd = "release"                 -> "lock_calls"
      [] r.cmd = "start" /\ r.pid = 0      -> "destroy_all"
      [] r.cmd = "stop" /\ r.pid = 0       -> "clear_all"
      [] OTHER                             -> "owner"

my_syscall(p) ==
    \E r \in Requests :
        LET code == Check(p, r)
        IN  Start(p, [r EXCEPT !.ret = code], IF code = "ok" THEN FirstStep(r) ELSE "return")

\* Mutant: the owner is not compared.
check_pid_exists(p) ==
    /\ At(p, "owner")
    /\ IF Pid(p) \notin alive THEN Oops
       ELSE Go(p, "mode") /\ UNCHANGED <<callTable, table, pidlist_lock, rest>>

\* pid_task of a process that is gone is NULL and is dereferenced.
check_pid_from_list(p) ==
    /\ At(p, "owner")
    /\ IF Pid(p) \notin alive THEN Oops
       ELSE /\ IF Uid[Pid(p)] = Uid[p] \/ IsRoot(p) THEN Go(p, "mode") ELSE Return(p, "EPERM")
            /\ UNCHANGED <<callTable, table, pidlist_lock, rest>>

\* With monitored = 2 the list is a black list.
ReadMode(p) ==
    /\ At(p, "mode")
    /\ Go(p, IF monitored[Syscall(p)] = 2 THEN "black" ELSE "list")
    /\ UNCHANGED <<callTable, table, pidlist_lock, rest>>

\* check_pid_monitored in the four commands for one pid.
SearchList(p) ==
    /\ pc[p] \in {"black", "list"} /\ status = "up"
    /\ LET found == Listed(Syscall(p), Pid(p))
           black == pc[p] = "black"
       IN  IF Cmd(p) = "start" /\ found # black THEN Return(p, "EBUSY")
           ELSE IF Cmd(p) = "stop" /\ found = black THEN Return(p, "EINVAL")
           ELSE Go(p, IF black THEN "change_black" ELSE "lock_pids")
    /\ UNCHANGED <<callTable, table, pidlist_lock, rest>>

-----------------------------------------------------------------------------
(* my_syscall: the changes.                                                *)

SaveOriginal(p) ==
    /\ At(p, "save")
    /\ f' = [f EXCEPT ![Syscall(p)] = sys_call_table[Syscall(p)]]
    /\ Go(p, "flag")
    /\ UNCHANGED <<callTable, intercepted, monitored, my_list, pidlist_lock, rest>>

FlagIntercepted(p) ==
    /\ At(p, "flag")
    /\ intercepted' = [intercepted EXCEPT ![Syscall(p)] = TRUE]
    /\ Go(p, "lock_calls")
    /\ UNCHANGED <<callTable, f, monitored, my_list, pidlist_lock, rest>>

\* Under calltable_lock.
SwitchToInterceptor(p) ==
    /\ At(p, "switch")
    /\ sys_call_table' = [sys_call_table EXCEPT ![Syscall(p)] = "interceptor"]
    /\ Go(p, "set_ro")
    /\ UNCHANGED <<rw, calltable_lock, table, pidlist_lock, rest>>

\* The release, under calltable_lock, store by store.
ReleaseList(p) ==
    /\ At(p, "destroy")
    /\ destroy_list(Syscall(p))
    /\ Go(p, "restore")
    /\ UNCHANGED <<callTable, pidlist_lock, rest>>

RestoreOriginal(p) ==
    /\ At(p, "restore")
    /\ sys_call_table' = [sys_call_table EXCEPT ![Syscall(p)] = f[Syscall(p)]]
    /\ Go(p, "unflag")
    /\ UNCHANGED <<rw, calltable_lock, table, pidlist_lock, rest>>

ClearIntercepted(p) ==
    /\ At(p, "unflag")
    /\ intercepted' = [intercepted EXCEPT ![Syscall(p)] = FALSE]
    /\ Go(p, "unmonitor")
    /\ UNCHANGED <<callTable, f, monitored, my_list, pidlist_lock, rest>>

ClearMonitored(p) ==
    /\ \/ At(p, "unmonitor") /\ Go(p, "forget")
       \/ At(p, "clear_all") /\ Go(p, "destroy_all")   \* stop for all pids
    /\ monitored' = [monitored EXCEPT ![Syscall(p)] = 0]
    /\ UNCHANGED <<callTable, f, intercepted, my_list, pidlist_lock, rest>>

ForgetOriginal(p) ==
    /\ At(p, "forget")
    /\ f' = [f EXCEPT ![Syscall(p)] = "null"]
    /\ Go(p, "set_ro")
    /\ UNCHANGED <<callTable, intercepted, monitored, my_list, pidlist_lock, rest>>

\* Start and stop for all pids, without a lock.
DestroyForAll(p) ==
    /\ At(p, "destroy_all")
    /\ destroy_list(Syscall(p))
    /\ IF Cmd(p) = "start" THEN Go(p, "set_all") ELSE Go(p, "return")
    /\ UNCHANGED <<callTable, pidlist_lock, rest>>

\* The store to monitored that ends a start: 2 for all pids, 1 for one.
SetMonitored(p) ==
    /\ \E mode \in {1, 2} :
         /\ At(p, IF mode = 2 THEN "set_all" ELSE "set_some")
         /\ monitored' = [monitored EXCEPT ![Syscall(p)] = mode]
    /\ Go(p, "return")
    /\ UNCHANGED <<callTable, f, intercepted, my_list, pidlist_lock, rest>>

\* Start takes a pid off the black list, stop puts it on: neither locks, and
\* stop drops the -ENOMEM of add_pid_sysc.
ChangeBlackList(p) ==
    /\ At(p, "change_black")
    /\ IF Cmd(p) = "start" THEN del_pid_sysc(Pid(p), Syscall(p))
       ELSE add_pid_sysc(Pid(p), Syscall(p)) \/ (KmallocFails /\ UNCHANGED table)
    /\ Go(p, "return")
    /\ UNCHANGED <<callTable, pidlist_lock, rest>>

\* Mutant: -ENOMEM is returned with pidlist_lock held.
ChangeListHolds(p) ==
    /\ At(p, "in_pids")
    /\ \/ Cmd(p) = "start" /\ add_pid_sysc(Pid(p), Syscall(p)) /\ Go(p, "unlock_pids")
       \/ Cmd(p) = "start" /\ KmallocFails /\ UNCHANGED table /\ Return(p, "ENOMEM")
       \/ Cmd(p) = "stop" /\ del_pid_sysc(Pid(p), Syscall(p)) /\ Go(p, "unlock_pids")
       \/ Cmd(p) = "exit" /\ del_pid(p) /\ Go(p, "unlock_pids")
    /\ UNCHANGED <<callTable, pidlist_lock, rest>>

\* my_syscall_start_monitor's body (inlined in my_syscall),
\* my_syscall_stop_monitor and my_exit_group, under pidlist_lock.
ChangeList(p) ==
    /\ At(p, "in_pids")
    /\ \/ Cmd(p) = "start" /\ add_pid_sysc(Pid(p), Syscall(p)) /\ Go(p, "unlock_pids")
       \/ Cmd(p) = "start" /\ KmallocFails /\ UNCHANGED table /\ GoWith(p, "unlock_pids", "ENOMEM")
       \/ Cmd(p) = "stop" /\ del_pid_sysc(Pid(p), Syscall(p)) /\ Go(p, "unlock_pids")
       \/ Cmd(p) = "exit" /\ del_pid(p) /\ Go(p, "unlock_pids")
    /\ UNCHANGED <<callTable, pidlist_lock, rest>>

-----------------------------------------------------------------------------
(* interceptor, exit_group and the processes.                              *)

\* A system call whose entry was switched.
SystemCall(p) ==
    \E s \in Asked \intersect (Table \ {MY_CUSTOM_SYSCALL}) :
        /\ sys_call_table[s] = "interceptor"
        /\ Start(p, [NoCall EXCEPT !.cmd = "call", !.syscall = s], "look")

SystemCallNull(p) ==
    /\ At(p, "idle")
    /\ p \in alive
    /\ \E s \in Asked \intersect (Table \ {MY_CUSTOM_SYSCALL}) : sys_call_table[s] = "null"
    /\ Oops

InterceptorMode(p) ==
    /\ At(p, "look")
    /\ Go(p, IF monitored[Syscall(p)] = 2 THEN "look_black" ELSE "look_list")
    /\ UNCHANGED <<callTable, table, pidlist_lock, rest>>

\* Mutant: the black list is not consulted.
InterceptorLogAll(p) ==
    /\ pc[p] \in {"look_black", "look_list"} /\ status = "up"
    /\ GoWith(p, "forward",
              IF pc[p] = "look_black" \/ Listed(Syscall(p), p) THEN "logged" ELSE "quiet")
    /\ UNCHANGED <<callTable, table, pidlist_lock, rest>>

\* check_pid_monitored and, for a monitored process, log_message.
InterceptorLog(p) ==
    /\ pc[p] \in {"look_black", "look_list"} /\ status = "up"
    /\ GoWith(p, "forward",
              IF Listed(Syscall(p), p) = (pc[p] = "look_list") THEN "logged" ELSE "quiet")
    /\ UNCHANGED <<callTable, table, pidlist_lock, rest>>

\* table[sysc].f(reg).  The interceptor that calls itself may use up the
\* kernel stack at any time.
Forward(p) ==
    /\ At(p, "forward")
    /\ LET original == f[Syscall(p)]
       IN  \/ /\ original # "null"
              /\ Go(p, IF original = "interceptor" THEN "look" ELSE "return")
              /\ UNCHANGED <<callTable, table, pidlist_lock, rest>>
           \/ original # "original" /\ Oops

my_exit_group(p) == Start(p, [NoCall EXCEPT !.cmd = "exit"], "lock_pids")

orig_exit_group(p) ==
    /\ At(p, "dying")
    /\ alive' = alive \ {p}
    /\ pc' = [pc EXCEPT ![p] = "idle"]
    /\ call' = [call EXCEPT ![p] = NoCall]
    /\ UNCHANGED <<callTable, table, pidlist_lock, status>>

\* A new process gets pid p.
Fork(p) ==
    /\ status = "up"
    /\ p \notin alive
    /\ alive' = alive \union {p}
    /\ UNCHANGED <<callTable, table, pidlist_lock, process, status>>

\* Two processes are about to use one list and one of them changes it: if
\* that happens at the same time the list may be torn.  Otherwise the two list
\* operations happen one after the other.
ListsChanged(p) ==
    CASE pc[p] \in {"destroy", "destroy_all", "change_black"} -> {Syscall(p)}
      [] pc[p] = "in_pids" -> IF Cmd(p) = "exit" THEN Visited ELSE {Syscall(p)}
      [] OTHER -> {}

ListsRead(p) ==
    IF pc[p] \in {"black", "list", "look_black", "look_list"} THEN {Syscall(p)} ELSE {}

Conflict(p, q) ==
    p # q /\ ListsChanged(p) \intersect (ListsChanged(q) \union ListsRead(q)) # {}

TearList == status = "up" /\ (\E p, q \in Procs : Conflict(p, q)) /\ Oops

-----------------------------------------------------------------------------

\* What a process does in the kernel once it is there.
Continue(p) ==
    \/ check_pid_from_list(p) \/ ReadMode(p) \/ SearchList(p)
    \/ SaveOriginal(p) \/ FlagIntercepted(p) \/ SwitchToInterceptor(p)
    \/ ReleaseList(p) \/ RestoreOriginal(p) \/ ClearIntercepted(p)
    \/ ClearMonitored(p) \/ ForgetOriginal(p)
    \/ DestroyForAll(p) \/ SetMonitored(p) \/ ChangeBlackList(p) \/ ChangeList(p)
    \/ InterceptorMode(p) \/ InterceptorLog(p) \/ Forward(p)
    \/ LockPids(p) \/ UnlockPids(p) \/ LockCalls(p) \/ UnlockCalls(p)
    \/ set_addr_rw(p) \/ set_addr_ro(p)
    \/ orig_exit_group(p) \/ Leave(p)

Enter(p) == my_syscall(p) \/ SystemCall(p) \/ SystemCallNull(p) \/ my_exit_group(p)

Halted == status = "oops" /\ UNCHANGED vars

Next ==
    \/ \E p \in Procs : Enter(p) \/ Continue(p) \/ Fork(p)
    \/ TearList
    \/ Halted

Spec == Init /\ [][Next]_vars

\* A process in the kernel runs on, unless it spins on a lock.
FairSpec == Spec /\ \A p \in Procs : WF_vars(Continue(p))

-----------------------------------------------------------------------------
(* Properties.                                                             *)

InPids == {"in_pids", "unlock_pids"}
InCalls == {"set_rw", "switch", "destroy", "restore", "unflag", "unmonitor", "forget",
            "set_ro", "unlock_calls"}
Labels == InPids \union InCalls \union
    {"idle", "return", "owner", "mode", "black", "list", "change_black", "lock_pids",
     "set_some", "save", "flag", "lock_calls", "clear_all", "destroy_all", "set_all",
     "look", "look_black", "look_list", "forward", "dying"}
Codes == {"none", "ok", "EINVAL", "EPERM", "EBUSY", "ENOMEM", "logged", "quiet"}
Calls == [cmd : Cmds \union {"unknown", "none", "call", "exit"},
          syscall : Asked \union {0}, pid : AskedPids \union {0}, ret : Codes]
Pointers == {"original", "interceptor", "null"}

\* The state has its types.
TypeOK ==
    /\ sys_call_table \in [Table -> Pointers]
    /\ rw \in BOOLEAN
    /\ f \in [Table -> Pointers]
    /\ intercepted \in [Table -> BOOLEAN]
    /\ monitored \in [Table -> {0, 1, 2}]
    /\ my_list \in [Table -> [Procs -> Nat]]
    /\ pidlist_lock \in Procs \union {NoProc}
    /\ calltable_lock \in Procs \union {NoProc}
    /\ alive \subseteq Procs
    /\ pc \in [Procs -> Labels]
    /\ call \in [Procs -> Calls]
    /\ status \in {"up", "oops"}

\* A process is between the lock and the unlock of a spinlock exactly when it
\* holds it, on every path through the four commands and exit_group, so no two
\* are there at once and no path unlocks what it does not hold.
LocksExclusive ==
    \A p \in Procs :
        /\ pidlist_lock = p <=> pc[p] \in InPids
        /\ calltable_lock = p <=> pc[p] \in InCalls

\* sys_call_table is write protected whenever nobody holds calltable_lock.
WriteProtected == rw => calltable_lock # NoProc

\* An entry changes only while its pages are writable: whatever the
\* interleaving, no other request has set them read-only in between.
WritesAllowed == [][sys_call_table' # sys_call_table => rw]_vars

\* With a single administrator, and whatever the other processes do: no
\* pointer to the interceptor is ever saved as an original, no entry is null,
\* and when no intercept or release of a system call is under way its entry,
\* its flag and its saved pointer agree.
OriginalKept ==
    \A s \in Table :
        /\ f[s] # "interceptor" /\ sys_call_table[s] # "null"
        /\ (\A p \in Procs : Cmd(p) \in {"intercept", "release"} => Syscall(p) # s) =>
               /\ intercepted[s] <=> sys_call_table[s] = "interceptor"
               /\ intercepted[s] <=> f[s] = "original"

\* A step of a process that is not root leaves every interception alone and
\* changes the lists only for pids of its own user.
OthersUntouched ==
    [][\A p \in Procs : pc'[p] # pc[p] /\ ~IsRoot(p) =>
          /\ UNCHANGED <<sys_call_table, rw, f, intercepted>>
          /\ \A s \in Table, q \in Procs : my_list'[s][q] # my_list[s][q] => Uid[q] = Uid[p]]_vars

\* Every lock taken is given back, on the error paths too (interceptor.c:346):
\* whatever processes do, each lock is free again and again.
LocksReleased ==
    /\ []<>(pidlist_lock = NoProc \/ status = "oops")
    /\ []<>(calltable_lock = NoProc \/ status = "oops")

\* Calls made one after the other never oops, and between calls the lists
\* are in order: a system call that is not intercepted has nothing listed, no
\* pid is listed twice, and monitored is 1 exactly with a nonempty list that is
\* no black list.
ListsInOrder ==
    /\ status = "up"
    /\ (\A p \in Procs : pc[p] = "idle") =>
         \A s \in Table :
            /\ ~intercepted[s] => monitored[s] = 0
            /\ \A q \in Procs : my_list[s][q] <= 1
            /\ monitored[s] = 1 => \E q \in Procs : Listed(s, q)
            /\ monitored[s] = 0 => \A q \in Procs : ~Listed(s, q)

\* A process that exits leaves all lists (interceptor.c:234-236): no dead pid
\* is listed, which a later process with that pid would inherit.
ExitsForgotten == \A s \in Table, q \in Procs : Listed(s, q) => q \in alive

-----------------------------------------------------------------------------
(* What the sources ask for and concurrent requests break.                 *)

\* "Don't forget to call the original system call, so we allow processes to
\* proceed as normal" (interceptor.c:277).
OriginalCallable == \A p \in Procs : pc[p] = "forward" => f[Syscall(p)] # "null"
=============================================================================
