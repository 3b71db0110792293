------------------------- MODULE InterceptorProofs -------------------------
(***************************************************************************)
(* Theorems about the interceptor, for any number of processes, system     *)
(* calls and calls in progress, and with failing allocations: its locks;   *)
(* the types of its state, and what a process that is not root cannot      *)
(* change; and the originals of the intercepted calls, where the unlocked  *)
(* test, save and flag of an intercept (interceptor.c:413, 351-352) are    *)
(* safe as long as one process administers the module.                     *)
(***************************************************************************)
EXTENDS Interceptor, TLAPS

USE ProcsAssumption, UidAssumption, NumbersAssumption, BoundsAssumption

\* Between set_addr_rw and set_addr_ro.
Writing == {"switch", "destroy", "restore", "unflag", "unmonitor", "forget", "set_ro"}

\* Who writes sys_call_table has it writable, and nobody else has.
Window == rw = \E p \in Procs : pc[p] \in Writing

LockInv == pc \in [Procs -> Labels] /\ LocksExclusive /\ Window

\* A step of p from one place to another on the same side of both locks and of
\* the write window.
SameSide(a, b) ==
    /\ a \in InPids <=> b \in InPids
    /\ a \in InCalls <=> b \in InCalls
    /\ a \in Writing <=> b \in Writing

LEMMA MoveAside ==
    ASSUME LockInv, NEW p \in Procs, NEW l \in Labels, SameSide(pc[p], l),
           pc' = [pc EXCEPT ![p] = l],
           UNCHANGED <<rw, pidlist_lock, calltable_lock>>
    PROVE  LockInv'
<1>1. pc' \in [Procs -> Labels]
  BY DEF LockInv
<1>2. \A q \in Procs : pc'[q] = IF q = p THEN l ELSE pc[q]
  BY DEF LockInv
<1>3. LocksExclusive'
  BY <1>2 DEF LockInv, LocksExclusive, SameSide
<1>4. Window'
  <2>1. (\E q \in Procs : pc'[q] \in Writing) = (\E q \in Procs : pc[q] \in Writing)
    BY <1>2 DEF SameSide
  <2> QED BY <2>1 DEF LockInv, Window
<1> QED BY <1>1, <1>3, <1>4 DEF LockInv

LEMMA Stay ==
    ASSUME LockInv, UNCHANGED <<pc, rw, pidlist_lock, calltable_lock>>
    PROVE  LockInv'
BY DEF LockInv, LocksExclusive, Window

\* A call starts outside of both critical sections.
LEMMA EnterLocks == ASSUME LockInv, NEW p \in Procs, Enter(p) PROVE LockInv'
<1>1. CASE my_syscall(p)
  <2>1. PICK r \in Requests :
          Start(p, [r EXCEPT !.ret = Check(p, r)],
                IF Check(p, r) = "ok" THEN FirstStep(r) ELSE "return")
    BY <1>1 DEF my_syscall
  <2> DEFINE l == IF Check(p, r) = "ok" THEN FirstStep(r) ELSE "return"
  <2>2. FirstStep(r) \in {"save", "lock_calls", "destroy_all", "clear_all", "owner"}
    BY DEF FirstStep
  <2>3. l \in Labels /\ SameSide("idle", l)
    BY <2>2 DEF Labels, SameSide, InPids, InCalls, Writing
  <2> HIDE DEF l
  <2>4. pc[p] = "idle" /\ pc' = [pc EXCEPT ![p] = l]
        /\ UNCHANGED <<rw, pidlist_lock, calltable_lock>>
    BY <2>1 DEF Start, At, callTable, l
  <2> QED BY <2>3, <2>4, MoveAside
<1>2. CASE SystemCall(p)
  <2>1. pc[p] = "idle" /\ pc' = [pc EXCEPT ![p] = "look"]
        /\ UNCHANGED <<rw, pidlist_lock, calltable_lock>>
    BY <1>2 DEF SystemCall, Start, At, callTable
  <2>2. "look" \in Labels /\ SameSide("idle", "look")
    BY DEF Labels, SameSide, InPids, InCalls, Writing
  <2> QED BY <2>1, <2>2, MoveAside
<1>3. CASE my_exit_group(p)
  <2>1. pc[p] = "idle" /\ pc' = [pc EXCEPT ![p] = "lock_pids"]
        /\ UNCHANGED <<rw, pidlist_lock, calltable_lock>>
    BY <1>3 DEF my_exit_group, Start, At, callTable
  <2>2. "lock_pids" \in Labels /\ SameSide("idle", "lock_pids")
    BY DEF Labels, SameSide, InPids, InCalls, Writing
  <2> QED BY <2>1, <2>2, MoveAside
<1>4. CASE SystemCallNull(p)
  BY <1>4, Stay DEF SystemCallNull, Oops, callTable, process
<1> QED BY <1>1, <1>2, <1>3, <1>4 DEF Enter

\* The lock operations and the changes of the write protection.
LEMMA LockSteps ==
    ASSUME LockInv, NEW p \in Procs,
           LockPids(p) \/ UnlockPids(p) \/ LockCalls(p) \/ UnlockCalls(p)
             \/ set_addr_rw(p) \/ set_addr_ro(p)
    PROVE  LockInv'
<1> DEFINE moves(l) == \A q \in Procs : pc'[q] = IF q = p THEN l ELSE pc[q]
<1>0. p # NoProc /\ NoProc \notin Procs
  BY DEF NoProc
<1>1. \A l \in Labels : pc' = [pc EXCEPT ![p] = l] => pc' \in [Procs -> Labels] /\ moves(l)
  BY DEF LockInv
<1>2. CASE LockPids(p)
  <2>1. pc[p] = "lock_pids" /\ pidlist_lock = NoProc /\ pidlist_lock' = p
        /\ pc' = [pc EXCEPT ![p] = "in_pids"] /\ UNCHANGED <<rw, calltable_lock>>
    BY <1>2 DEF LockPids, At, Go, callTable
  <2>2. pc' \in [Procs -> Labels] /\ moves("in_pids")
    BY <1>1, <2>1 DEF Labels, InPids
  <2>3. LocksExclusive'
    BY <1>0, <2>1, <2>2 DEF LockInv, LocksExclusive, InPids, InCalls
  <2>4. Window'
    BY <2>1, <2>2 DEF LockInv, Window, Writing
  <2> QED BY <2>2, <2>3, <2>4 DEF LockInv
<1>3. CASE UnlockPids(p)
  <2> DEFINE l == CASE Cmd(p) = "exit" -> "dying"
                    [] Cmd(p) = "start" /\ call[p].ret = "ok" -> "set_some"
                    [] OTHER -> "return"
  <2>1. l \in {"dying", "set_some", "return"}
    OBVIOUS
  <2> HIDE DEF l
  <2>2. pc[p] = "unlock_pids" /\ pidlist_lock' = NoProc
        /\ pc' = [pc EXCEPT ![p] = l] /\ UNCHANGED <<rw, calltable_lock>>
    BY <1>3 DEF UnlockPids, At, Go, callTable, l
  <2>3. pc' \in [Procs -> Labels] /\ moves(l)
    BY <1>1, <2>1, <2>2 DEF Labels
  <2>4. LocksExclusive'
    BY <1>0, <2>1, <2>2, <2>3 DEF LockInv, LocksExclusive, InPids, InCalls
  <2>5. Window'
    BY <2>1, <2>2, <2>3 DEF LockInv, Window, Writing
  <2> QED BY <2>3, <2>4, <2>5 DEF LockInv
<1>4. CASE LockCalls(p)
  <2>1. pc[p] = "lock_calls" /\ calltable_lock = NoProc /\ calltable_lock' = p
        /\ pc' = [pc EXCEPT ![p] = "set_rw"] /\ UNCHANGED <<rw, pidlist_lock>>
    BY <1>4 DEF LockCalls, At, Go
  <2>2. pc' \in [Procs -> Labels] /\ moves("set_rw")
    BY <1>1, <2>1 DEF Labels, InCalls
  <2>3. LocksExclusive'
    BY <1>0, <2>1, <2>2 DEF LockInv, LocksExclusive, InPids, InCalls
  <2>4. Window'
    BY <2>1, <2>2 DEF LockInv, Window, Writing
  <2> QED BY <2>2, <2>3, <2>4 DEF LockInv
<1>5. CASE UnlockCalls(p)
  <2>1. pc[p] = "unlock_calls" /\ calltable_lock' = NoProc
        /\ pc' = [pc EXCEPT ![p] = "return"] /\ UNCHANGED <<rw, pidlist_lock>>
    BY <1>5 DEF UnlockCalls, At, Return, GoWith
  <2>2. pc' \in [Procs -> Labels] /\ moves("return")
    BY <1>1, <2>1 DEF Labels
  <2>3. LocksExclusive'
    BY <1>0, <2>1, <2>2 DEF LockInv, LocksExclusive, InPids, InCalls
  <2>4. Window'
    BY <2>1, <2>2 DEF LockInv, Window, Writing
  <2> QED BY <2>2, <2>3, <2>4 DEF LockInv
<1>6. CASE set_addr_rw(p)
  <2> DEFINE l == IF Cmd(p) = "intercept" THEN "switch" ELSE "destroy"
  <2>1. l \in {"switch", "destroy"}
    OBVIOUS
  <2> HIDE DEF l
  <2>2. pc[p] = "set_rw" /\ rw' = TRUE /\ pc' = [pc EXCEPT ![p] = l]
        /\ UNCHANGED <<calltable_lock, pidlist_lock>>
    BY <1>6 DEF set_addr_rw, At, Go, l
  <2>3. pc' \in [Procs -> Labels] /\ moves(l)
    BY <1>1, <2>1, <2>2 DEF Labels, InCalls
  <2>4. LocksExclusive'
    BY <2>1, <2>2, <2>3 DEF LockInv, LocksExclusive, InPids, InCalls
  <2>5. Window'
    <3>1. pc'[p] \in Writing
      BY <2>1, <2>3 DEF Writing
    <3> QED BY <2>2, <3>1 DEF Window
  <2> QED BY <2>3, <2>4, <2>5 DEF LockInv
<1>7. CASE set_addr_ro(p)
  <2>1. pc[p] = "set_ro" /\ rw' = FALSE /\ pc' = [pc EXCEPT ![p] = "unlock_calls"]
        /\ UNCHANGED <<calltable_lock, pidlist_lock>>
    BY <1>7 DEF set_addr_ro, At, Go
  <2>2. pc' \in [Procs -> Labels] /\ moves("unlock_calls")
    BY <1>1, <2>1 DEF Labels, InCalls
  <2>3. LocksExclusive'
    BY <2>1, <2>2 DEF LockInv, LocksExclusive, InPids, InCalls
  <2>4. \A q \in Procs : pc'[q] \notin Writing
    <3> SUFFICES ASSUME NEW q \in Procs, q # p, pc[q] \in Writing PROVE FALSE
      BY <2>2 DEF Writing
    <3>1. calltable_lock = q /\ calltable_lock = p
      BY <2>1 DEF LockInv, LocksExclusive, InCalls, Writing
    <3> QED BY <3>1
  <2>5. Window'
    BY <2>1, <2>4 DEF Window
  <2> QED BY <2>2, <2>3, <2>5 DEF LockInv
<1> QED BY <1>2, <1>3, <1>4, <1>5, <1>6, <1>7

\* Every other step in the kernel stays on its side of both locks: it goes
\* from one of the labels "from" to one of the labels "to".
LEMMA Between ==
    ASSUME LockInv, NEW p \in Procs, NEW from, NEW to,
           pc[p] \in from, \E l \in to : pc' = [pc EXCEPT ![p] = l], to \subseteq Labels,
           \A a \in from, b \in to : SameSide(a, b),
           UNCHANGED <<rw, pidlist_lock, calltable_lock>>
    PROVE  LockInv'
<1>1. PICK l \in to : pc' = [pc EXCEPT ![p] = l]
  OBVIOUS
<1> QED BY <1>1, MoveAside

LEMMA Sides ==
    /\ {"black", "list", "mode", "return", "lock_pids", "change_black", "look", "look_black",
        "look_list", "forward", "idle", "flag", "lock_calls", "destroy_all", "set_all"}
         \subseteq Labels
    /\ Writing \subseteq Labels /\ "unlock_pids" \in Labels
    /\ \A a \in Labels \ (InPids \union InCalls), b \in Labels \ (InPids \union InCalls) :
         SameSide(a, b)
    /\ \A a \in Writing, b \in Writing : SameSide(a, b)
    /\ SameSide("in_pids", "unlock_pids")
BY DEF Labels, InPids, InCalls, Writing, SameSide

\* Outside of both critical sections.
Free == Labels \ (InPids \union InCalls)

LEMMA FreeSteps ==
    ASSUME LockInv, NEW p \in Procs,
           \/ check_pid_from_list(p) \/ ReadMode(p) \/ SearchList(p)
           \/ SaveOriginal(p) \/ FlagIntercepted(p) \/ DestroyForAll(p) \/ SetMonitored(p)
           \/ ChangeBlackList(p) \/ InterceptorMode(p) \/ InterceptorLog(p) \/ Forward(p)
           \/ orig_exit_group(p) \/ Leave(p)
    PROVE  LockInv'
<1>1. CASE UNCHANGED <<pc, rw, pidlist_lock, calltable_lock>>
  BY <1>1, Stay
<1>2. CASE ~UNCHANGED <<pc, rw, pidlist_lock, calltable_lock>>
  <2>1. pc[p] \in Free
    BY DEF check_pid_from_list, ReadMode, SearchList, SaveOriginal, FlagIntercepted,
           DestroyForAll, SetMonitored, ChangeBlackList, InterceptorMode, InterceptorLog,
           Forward, orig_exit_group, Leave, At, Free, Labels, InPids, InCalls
  <2>2. UNCHANGED <<rw, pidlist_lock, calltable_lock>>
    BY <1>2 DEF check_pid_from_list, ReadMode, SearchList, SaveOriginal, FlagIntercepted,
           DestroyForAll, SetMonitored, ChangeBlackList, InterceptorMode, InterceptorLog,
           Forward, orig_exit_group, Leave, Oops, callTable
  <2>3. \E l \in Free : pc' = [pc EXCEPT ![p] = l]
    <3>1. {"mode", "return", "black", "list", "change_black", "lock_pids", "flag", "lock_calls",
           "set_all", "look_black", "look_list", "forward", "look", "idle"} \subseteq Free
      BY DEF Free, Labels, InPids, InCalls
    <3>2. CASE check_pid_from_list(p) \/ ReadMode(p) \/ SearchList(p)
      BY <1>2, <3>1, <3>2 DEF check_pid_from_list, ReadMode, SearchList, Go, Return, GoWith,
           Oops, callTable, process
    <3>3. CASE SaveOriginal(p) \/ FlagIntercepted(p) \/ DestroyForAll(p) \/ SetMonitored(p)
               \/ ChangeBlackList(p)
      BY <3>1, <3>3 DEF SaveOriginal, FlagIntercepted, DestroyForAll, SetMonitored,
           ChangeBlackList, Go
    <3>4. CASE InterceptorMode(p) \/ InterceptorLog(p) \/ Forward(p)
      BY <1>2, <3>1, <3>4 DEF InterceptorMode, InterceptorLog, Forward, Go, GoWith, Oops,
           callTable, process
    <3>5. CASE orig_exit_group(p) \/ Leave(p)
      BY <3>1, <3>5 DEF orig_exit_group, Leave
    <3> QED BY <3>2, <3>3, <3>4, <3>5
  <2> QED BY <2>1, <2>2, <2>3, Sides, Between DEF Free
<1> QED BY <1>1, <1>2

\* The stores under calltable_lock, the clearing of monitored, which also
\* happens outside, and the list operation under pidlist_lock.
LEMMA GuardedSteps ==
    ASSUME LockInv, NEW p \in Procs,
           \/ SwitchToInterceptor(p) \/ ReleaseList(p) \/ RestoreOriginal(p)
           \/ ClearIntercepted(p) \/ ClearMonitored(p) \/ ForgetOriginal(p) \/ ChangeList(p)
    PROVE  LockInv'
<1>1. UNCHANGED <<rw, pidlist_lock, calltable_lock>>
  BY DEF SwitchToInterceptor, ReleaseList, RestoreOriginal, ClearIntercepted, ClearMonitored,
         ForgetOriginal, ChangeList, callTable
<1>2. CASE \/ SwitchToInterceptor(p) \/ ReleaseList(p) \/ RestoreOriginal(p)
           \/ ClearIntercepted(p) \/ ForgetOriginal(p)
           \/ (At(p, "unmonitor") /\ Go(p, "forget"))
  <2>1. pc[p] \in Writing /\ \E l \in Writing : pc' = [pc EXCEPT ![p] = l]
    BY <1>2 DEF SwitchToInterceptor, ReleaseList, RestoreOriginal, ClearIntercepted,
           ForgetOriginal, At, Go, Writing
  <2> QED BY <1>1, <2>1, Sides, Between
<1>3. CASE At(p, "clear_all") /\ Go(p, "destroy_all")
  <2>1. "clear_all" \in Free /\ "destroy_all" \in Free
    BY DEF Free, Labels, InPids, InCalls
  <2>2. pc[p] \in Free /\ \E l \in Free : pc' = [pc EXCEPT ![p] = l]
    BY <1>3, <2>1 DEF At, Go
  <2> QED BY <1>1, <2>2, Sides, Between DEF Free
<1>4. CASE ChangeList(p)
  <2>1. pc[p] = "in_pids" /\ pc' = [pc EXCEPT ![p] = "unlock_pids"]
    <3>1. pc[p] = "in_pids"
      BY <1>4 DEF ChangeList, At
    <3>2. Go(p, "unlock_pids") \/ GoWith(p, "unlock_pids", "ENOMEM")
      BY <1>4 DEF ChangeList
    <3> QED BY <3>1, <3>2 DEF Go, GoWith
  <2> QED BY <1>1, <2>1, Sides, MoveAside
<1> QED BY <1>2, <1>3, <1>4 DEF ClearMonitored

LEMMA LockInit == Init => LockInv
<1> SUFFICES ASSUME Init PROVE LockInv
  OBVIOUS
<1>1. pc = [p \in Procs |-> "idle"] /\ rw = FALSE
      /\ pidlist_lock = NoProc /\ calltable_lock = NoProc /\ NoProc \notin Procs
  BY DEF Init, Fresh, NoProc
<1>2. LocksExclusive
  BY <1>1 DEF LocksExclusive, InPids, InCalls
<1>3. Window
  BY <1>1 DEF Window, Writing
<1> QED BY <1>1, <1>2, <1>3 DEF LockInv, Labels

LEMMA LockNext == LockInv /\ [Next]_vars => LockInv'
<1> SUFFICES ASSUME LockInv, [Next]_vars PROVE LockInv'
  OBVIOUS
<1>1. CASE \E p \in Procs : Enter(p)
  BY <1>1, EnterLocks
<1>2. CASE \E p \in Procs : Continue(p)
  <2>1. PICK p \in Procs : Continue(p)
    BY <1>2
  <2> QED BY <2>1, LockSteps, FreeSteps, GuardedSteps DEF Continue
<1>3. CASE \E p \in Procs : Fork(p)
  BY <1>3, Stay DEF Fork, callTable, process
<1>4. CASE TearList \/ Halted \/ UNCHANGED vars
  BY <1>4, Stay DEF TearList, Halted, Oops, callTable, process, vars
<1> QED BY <1>1, <1>2, <1>3, <1>4 DEF Next

\* Both spinlocks exclude: a process is inside a critical section exactly
\* while it holds the lock, on every path of my_syscall and my_exit_group.
THEOREM LocksHeldInside == Spec => []LocksExclusive
<1>1. LockInv => LocksExclusive
  BY DEF LockInv
<1> QED BY <1>1, LockInit, LockNext, PTL DEF Spec

\* sys_call_table is write protected unless calltable_lock is held.
THEOREM ProtectedUnlessHeld == Spec => []WriteProtected
<1>1. LockInv => WriteProtected
  <2> SUFFICES ASSUME LockInv, rw PROVE calltable_lock # NoProc
    BY DEF WriteProtected
  <2>1. PICK p \in Procs : pc[p] \in Writing
    BY DEF LockInv, Window
  <2>2. calltable_lock = p
    BY <2>1 DEF LockInv, LocksExclusive, Writing, InCalls
  <2> QED BY <2>2 DEF NoProc
<1> QED BY <1>1, LockInit, LockNext, PTL DEF Spec

\* No store to sys_call_table meets a read-only page: set_addr_ro of one
\* request never comes between set_addr_rw and the store of another.
THEOREM StoresMeetWritablePages == Spec => WritesAllowed
<1>1. LockInv /\ [Next]_vars => [sys_call_table' # sys_call_table => rw]_vars
  <2> SUFFICES ASSUME LockInv, Next, sys_call_table' # sys_call_table PROVE rw
    BY DEF vars, callTable
  <2>1. \E p \in Procs : SwitchToInterceptor(p) \/ RestoreOriginal(p)
    BY DEF Next, Enter, Continue, my_syscall, SystemCall, SystemCallNull, my_exit_group, Start,
       Oops, check_pid_from_list, ReadMode, SearchList, SaveOriginal, FlagIntercepted,
       ReleaseList, ClearIntercepted, ClearMonitored, ForgetOriginal, DestroyForAll,
       SetMonitored, ChangeBlackList, ChangeList, InterceptorMode, InterceptorLog, Forward,
       LockPids, UnlockPids, LockCalls, UnlockCalls, set_addr_rw, set_addr_ro,
       orig_exit_group, Leave, Fork, TearList, Halted, callTable, vars
  <2>2. \E p \in Procs : pc[p] \in Writing
    BY <2>1 DEF SwitchToInterceptor, RestoreOriginal, At, Writing
  <2> QED BY <2>2 DEF LockInv, Window
<1> QED BY <1>1, LockInit, LockNext, PTL DEF Spec, WritesAllowed

-----------------------------------------------------------------------------
(* The calls.                                                              *)

CallsTyped == call \in [Procs -> Calls] /\ alive \subseteq Procs /\ status \in {"up", "oops"}

\* A step of p answers code and changes nothing else of its call.
LEMMA Answered ==
    ASSUME call \in [Procs -> Calls], NEW p \in Procs, NEW code \in Codes,
           call' = [call EXCEPT ![p].ret = code]
    PROVE  /\ call' \in [Procs -> Calls]
           /\ \A q \in Procs : /\ call'[q].cmd = call[q].cmd
                               /\ call'[q].pid = call[q].pid
                               /\ call'[q].syscall = call[q].syscall
<1> DEFINE c == [call[p] EXCEPT !.ret = code]
<1>1. call[p] \in Calls
  OBVIOUS
<1>2. c \in Calls /\ c.cmd = call[p].cmd /\ c.pid = call[p].pid /\ c.syscall = call[p].syscall
  BY <1>1 DEF Calls
<1>3. call' = [call EXCEPT ![p] = c]
  OBVIOUS
<1> HIDE DEF c
<1> QED BY <1>2, <1>3

-----------------------------------------------------------------------------
(* What a process that is not root may be about to do.                     *)

\* Where my_syscall only gets for root.
Privileged == InCalls \union {"save", "flag", "lock_calls", "clear_all", "destroy_all", "set_all"}

\* Its request is about a process of its own user.
Own(p) == Cmd(p) \in {"start", "stop"} /\ Pid(p) \in Procs /\ Uid[Pid(p)] = Uid[p]

Allowed(p, l) ==
    ~IsRoot(p) =>
        /\ l \notin Privileged
        /\ l = "owner" => Cmd(p) \in {"start", "stop"}
        /\ l \in {"mode", "black", "list", "change_black"} => Own(p)
        /\ l \in {"lock_pids", "in_pids"} => Own(p) \/ Cmd(p) = "exit"

UserInv == CallsTyped /\ \A p \in Procs : Allowed(p, pc[p])

\* Where anybody may be.
Harmless == {"return", "idle", "forward", "look", "look_black", "look_list", "unlock_pids",
             "set_some", "dying"}

LEMMA HarmlessAllowed == Harmless \subseteq Labels /\ \A p \in Procs, l \in Harmless : Allowed(p, l)
BY DEF Harmless, Labels, InPids, InCalls, Privileged, Allowed

LEMMA PrivilegedIsRoot ==
    ASSUME UserInv, NEW p \in Procs, pc[p] \in Privileged
    PROVE  \A l : Allowed(p, l)
BY DEF UserInv, Allowed

\* A step of p to a label it may go to, on the same request.
LEMMA Keep ==
    ASSUME LockInv, UserInv, NEW p \in Procs, NEW l, Allowed(p, l),
           pc' = [pc EXCEPT ![p] = l],
           call' \in [Procs -> Calls],
           \A q \in Procs : /\ call'[q].cmd = call[q].cmd
                            /\ call'[q].pid = call[q].pid,
           UNCHANGED <<alive, status>>
    PROVE  UserInv'
<1>1. CallsTyped'
  BY DEF UserInv, CallsTyped
<1>2. ASSUME NEW q \in Procs PROVE Allowed(q, pc[q])'
  <2>1. pc'[q] = IF q = p THEN l ELSE pc[q]
    BY DEF LockInv
  <2>2. Allowed(q, pc'[q])
    BY <2>1 DEF UserInv
  <2>3. call'[q].cmd = call[q].cmd /\ call'[q].pid = call[q].pid
    OBVIOUS
  <2> QED BY <2>2, <2>3 DEF Allowed, Own, Cmd, Pid, IsRoot
<1> QED BY <1>1, <1>2 DEF UserInv

\* The same with an answer, or without.
LEMMA KeepGo ==
    ASSUME LockInv, UserInv, NEW p \in Procs, NEW l, Allowed(p, l), UNCHANGED <<alive, status>>,
           Go(p, l) \/ \E code \in Codes : GoWith(p, l, code)
    PROVE  UserInv'
<1>0. call \in [Procs -> Calls]
  BY DEF UserInv, CallsTyped
<1>1. CASE Go(p, l)
  BY <1>0, <1>1, Keep DEF Go
<1>2. CASE \E code \in Codes : GoWith(p, l, code)
  <2>1. PICK code \in Codes : GoWith(p, l, code)
    BY <1>2
  <2>2. pc' = [pc EXCEPT ![p] = l] /\ call' = [call EXCEPT ![p].ret = code]
    BY <2>1 DEF GoWith
  <2> QED BY <1>0, <2>2, Answered, Keep
<1> QED BY <1>1, <1>2

\* A call begins or ends.
LEMMA CallBegins ==
    ASSUME LockInv, UserInv, NEW p \in Procs, NEW l, NEW c \in Calls,
           pc' = [pc EXCEPT ![p] = l], call' = [call EXCEPT ![p] = c],
           alive' \subseteq Procs, status' = status,
           ~IsRoot(p) => \/ l \in Harmless
                         \/ l = "owner" /\ c.cmd \in {"start", "stop"}
                         \/ l = "lock_pids" /\ c.cmd = "exit"
    PROVE  UserInv'
<1>1. CallsTyped'
  BY DEF UserInv, CallsTyped
<1>2. ASSUME NEW q \in Procs, q # p PROVE Allowed(q, pc[q])'
  <2>1. pc'[q] = pc[q] /\ call'[q] = call[q]
    BY <1>2 DEF LockInv, UserInv, CallsTyped
  <2>2. Allowed(q, pc[q])
    BY DEF UserInv
  <2> QED BY <2>1, <2>2 DEF Allowed, Own, Cmd, Pid, IsRoot
<1>3. Allowed(p, pc[p])'
  <2>1. pc'[p] = l /\ call'[p] = c
    BY DEF LockInv, UserInv, CallsTyped
  <2> QED BY <2>1 DEF Allowed, Cmd, IsRoot, Harmless, Privileged, InCalls
<1> QED BY <1>1, <1>2, <1>3 DEF UserInv

LEMMA Still ==
    ASSUME UserInv, UNCHANGED process, alive' \subseteq Procs, status' \in {"up", "oops"}
    PROVE  UserInv'
BY DEF UserInv, CallsTyped, Allowed, Own, Cmd, Pid, IsRoot, process
-----------------------------------------------------------------------------
(* Every step keeps it.                                                    *)

LEMMA NoCallTyped == NoCall \in Calls
BY DEF NoCall, Calls, Codes

LEMMA UserEnter == ASSUME LockInv, UserInv, NEW p \in Procs, Enter(p) PROVE UserInv'
<1>1. CASE my_syscall(p)
  <2>1. PICK r \in Requests :
          Start(p, [r EXCEPT !.ret = Check(p, r)],
                IF Check(p, r) = "ok" THEN FirstStep(r) ELSE "return")
    BY <1>1 DEF my_syscall
  <2> DEFINE c == [r EXCEPT !.ret = Check(p, r)]
             l == IF Check(p, r) = "ok" THEN FirstStep(r) ELSE "return"
  <2>2. Check(p, r) \in {"ok", "EINVAL", "EPERM", "EBUSY"}
    BY DEF Check
  <2>3. c \in Calls /\ c.cmd = r.cmd
    BY <2>2 DEF Requests, Calls, Codes, Cmds
  <2>4. ~IsRoot(p) => \/ l = "return"
                      \/ l = "owner" /\ r.cmd \in {"start", "stop"}
    <3> SUFFICES ASSUME ~IsRoot(p), Check(p, r) = "ok"
                 PROVE  FirstStep(r) = "owner" /\ r.cmd \in {"start", "stop"}
      OBVIOUS
    <3>1. r.cmd \in {"start", "stop"} /\ r.pid # 0
      BY DEF Check, Cmds
    <3> QED BY <3>1 DEF FirstStep
  <2> HIDE DEF c, l
  <2>5. pc' = [pc EXCEPT ![p] = l] /\ call' = [call EXCEPT ![p] = c]
        /\ UNCHANGED <<alive, status>>
    BY <2>1 DEF Start, rest, c, l
  <2> QED BY <2>3, <2>4, <2>5, CallBegins DEF Harmless, UserInv, CallsTyped
<1>2. CASE SystemCall(p)
  <2>1. PICK s \in Asked : Start(p, [NoCall EXCEPT !.cmd = "call", !.syscall = s], "look")
    BY <1>2 DEF SystemCall
  <2> DEFINE c == [NoCall EXCEPT !.cmd = "call", !.syscall = s]
  <2>2. c \in Calls
    BY DEF NoCall, Calls, Codes
  <2> HIDE DEF c
  <2>3. pc' = [pc EXCEPT ![p] = "look"] /\ call' = [call EXCEPT ![p] = c]
        /\ UNCHANGED <<alive, status>>
    BY <2>1 DEF Start, rest, c
  <2> QED BY <2>2, <2>3, CallBegins DEF Harmless, UserInv, CallsTyped
<1>3. CASE my_exit_group(p)
  <2> DEFINE c == [NoCall EXCEPT !.cmd = "exit"]
  <2>1. c \in Calls /\ c.cmd = "exit"
    BY DEF NoCall, Calls, Codes
  <2> HIDE DEF c
  <2>2. pc' = [pc EXCEPT ![p] = "lock_pids"] /\ call' = [call EXCEPT ![p] = c]
        /\ UNCHANGED <<alive, status>>
    BY <1>3 DEF my_exit_group, Start, rest, c
  <2> QED BY <2>1, <2>2, CallBegins DEF Harmless, UserInv, CallsTyped
<1>4. CASE SystemCallNull(p)
  BY <1>4, Still DEF SystemCallNull, Oops, UserInv, CallsTyped
<1> QED BY <1>1, <1>2, <1>3, <1>4 DEF Enter

\* The request of one's own user goes on, and nobody else's does.
LEMMA UserChecks ==
    ASSUME LockInv, UserInv, NEW p \in Procs,
           check_pid_from_list(p) \/ ReadMode(p) \/ SearchList(p) \/ LockPids(p)
    PROVE  UserInv'
<1>0. "EPERM" \in Codes /\ "EBUSY" \in Codes /\ "EINVAL" \in Codes
  BY DEF Codes
<1>1. Allowed(p, pc[p])
  BY DEF UserInv
<1>2. CASE check_pid_from_list(p)
  <2>1. CASE Pid(p) \notin alive
    BY <1>2, <2>1, Still DEF check_pid_from_list, Oops, UserInv, CallsTyped
  <2>2. CASE Pid(p) \in alive
    <3>1. UNCHANGED <<alive, status>> /\ pc[p] = "owner"
      BY <1>2, <2>2 DEF check_pid_from_list, rest, At
    <3>2. CASE Uid[Pid(p)] = Uid[p] \/ IsRoot(p)
      <4>1. Go(p, "mode")
        BY <1>2, <2>2, <3>2 DEF check_pid_from_list
      <4>2. Pid(p) \in Procs
        BY <2>2 DEF UserInv, CallsTyped
      <4>3. Allowed(p, "mode")
        BY <1>1, <3>1, <3>2, <4>2 DEF Allowed, Own, Privileged, InCalls
      <4> QED BY <3>1, <4>1, <4>3, KeepGo
    <3>3. CASE ~(Uid[Pid(p)] = Uid[p] \/ IsRoot(p))
      <4>1. GoWith(p, "return", "EPERM")
        BY <1>2, <2>2, <3>3 DEF check_pid_from_list, Return
      <4> QED BY <1>0, <3>1, <4>1, HarmlessAllowed, KeepGo DEF Harmless
    <3> QED BY <3>2, <3>3
  <2> QED BY <2>1, <2>2
<1>3. CASE ReadMode(p)
  <2>1. PICK l \in {"black", "list"} : Go(p, l)
    BY <1>3 DEF ReadMode
  <2>2. UNCHANGED <<alive, status>> /\ pc[p] = "mode"
    BY <1>3 DEF ReadMode, rest, At
  <2>3. Allowed(p, l)
    BY <1>1, <2>2 DEF Allowed, Privileged, InCalls
  <2> QED BY <2>1, <2>2, <2>3, KeepGo
<1>4. CASE SearchList(p)
  <2>1. UNCHANGED <<alive, status>> /\ pc[p] \in {"black", "list"}
    BY <1>4 DEF SearchList, rest
  <2>2. \/ \E l \in {"change_black", "lock_pids"} : Go(p, l)
        \/ \E code \in Codes : GoWith(p, "return", code)
    BY <1>0, <1>4 DEF SearchList, Return
  <2>3. \A l \in {"change_black", "lock_pids"} : Allowed(p, l)
    BY <1>1, <2>1 DEF Allowed, Privileged, InCalls
  <2> QED BY <2>1, <2>2, <2>3, HarmlessAllowed, KeepGo DEF Harmless
<1>5. CASE LockPids(p)
  <2>1. UNCHANGED <<alive, status>> /\ pc[p] = "lock_pids" /\ Go(p, "in_pids")
    BY <1>5 DEF LockPids, rest, At
  <2>2. Allowed(p, "in_pids")
    BY <1>1, <2>1 DEF Allowed, Privileged, InCalls
  <2> QED BY <2>1, <2>2, KeepGo
<1> QED BY <1>2, <1>3, <1>4, <1>5

\* Steps to where anybody may be.
LEMMA UserHarmless ==
    ASSUME LockInv, UserInv, NEW p \in Procs,
           \/ SetMonitored(p) \/ ChangeBlackList(p) \/ ChangeList(p)
           \/ InterceptorMode(p) \/ InterceptorLog(p) \/ UnlockPids(p)
    PROVE  UserInv'
<1>1. UNCHANGED <<alive, status>>
  BY DEF SetMonitored, ChangeBlackList, ChangeList, InterceptorMode, InterceptorLog,
         UnlockPids, rest
<1>2. {"ENOMEM", "logged", "quiet"} \subseteq Codes
  BY DEF Codes
<1>3. \E l \in Harmless : Go(p, l) \/ \E code \in Codes : GoWith(p, l, code)
  <2>1. CASE SetMonitored(p) \/ ChangeBlackList(p)
    BY <2>1 DEF SetMonitored, ChangeBlackList, Harmless
  <2>2. CASE ChangeList(p)
    <3>1. Go(p, "unlock_pids") \/ GoWith(p, "unlock_pids", "ENOMEM")
      BY <2>2 DEF ChangeList
    <3> QED BY <1>2, <3>1 DEF Harmless
  <2>3. CASE InterceptorMode(p)
    BY <2>3 DEF InterceptorMode, Harmless
  <2>4. CASE InterceptorLog(p)
    BY <1>2, <2>4 DEF InterceptorLog, Harmless
  <2>5. CASE UnlockPids(p)
    BY <2>5 DEF UnlockPids, Harmless
  <2> QED BY <2>1, <2>2, <2>3, <2>4, <2>5
<1> QED BY <1>1, <1>3, HarmlessAllowed, KeepGo

\* Steps that only root gets to.
LEMMA UserPrivileged ==
    ASSUME LockInv, UserInv, NEW p \in Procs,
           \/ SaveOriginal(p) \/ FlagIntercepted(p) \/ SwitchToInterceptor(p)
           \/ ReleaseList(p) \/ RestoreOriginal(p) \/ ClearIntercepted(p)
           \/ ClearMonitored(p) \/ ForgetOriginal(p) \/ DestroyForAll(p)
           \/ LockCalls(p) \/ UnlockCalls(p) \/ set_addr_rw(p) \/ set_addr_ro(p)
    PROVE  UserInv'
<1>1. UNCHANGED <<alive, status>> /\ pc[p] \in Privileged
  BY DEF SaveOriginal, FlagIntercepted, SwitchToInterceptor, ReleaseList, RestoreOriginal,
         ClearIntercepted, ClearMonitored, ForgetOriginal, DestroyForAll, LockCalls,
         UnlockCalls, set_addr_rw, set_addr_ro, rest, At, Privileged, InCalls
<1>2. "ok" \in Codes
  BY DEF Codes
<1>3. \E l : Go(p, l) \/ \E code \in Codes : GoWith(p, l, code)
  <2>1. CASE SaveOriginal(p) \/ FlagIntercepted(p) \/ SwitchToInterceptor(p) \/ ReleaseList(p)
             \/ RestoreOriginal(p) \/ ClearIntercepted(p)
    BY <2>1 DEF SaveOriginal, FlagIntercepted, SwitchToInterceptor, ReleaseList,
         RestoreOriginal, ClearIntercepted
  <2>2. CASE ClearMonitored(p) \/ ForgetOriginal(p) \/ DestroyForAll(p) \/ LockCalls(p)
    BY <2>2 DEF ClearMonitored, ForgetOriginal, DestroyForAll, LockCalls
  <2>3. CASE set_addr_rw(p) \/ set_addr_ro(p)
    BY <2>3 DEF set_addr_rw, set_addr_ro
  <2>4. CASE UnlockCalls(p)
    BY <1>2, <2>4 DEF UnlockCalls, Return
  <2> QED BY <2>1, <2>2, <2>3, <2>4
<1> QED BY <1>1, <1>3, PrivilegedIsRoot, KeepGo

\* The end of a call.
LEMMA UserLeaves ==
    ASSUME LockInv, UserInv, NEW p \in Procs, Leave(p) \/ orig_exit_group(p) \/ Forward(p)
    PROVE  UserInv'
<1>1. CASE Leave(p) \/ orig_exit_group(p)
  <2>1. pc' = [pc EXCEPT ![p] = "idle"] /\ call' = [call EXCEPT ![p] = NoCall]
        /\ alive' \subseteq alive /\ status' = status
    BY <1>1 DEF Leave, orig_exit_group, rest
  <2> QED BY <2>1, NoCallTyped, CallBegins DEF Harmless, UserInv, CallsTyped
<1>2. CASE Forward(p)
  <2>1. CASE Oops
    BY <2>1, Still DEF Oops, UserInv, CallsTyped
  <2>2. CASE ~Oops
    <3>1. UNCHANGED <<alive, status>> /\ \E l \in Harmless : Go(p, l)
      BY <1>2, <2>2 DEF Forward, rest, Harmless
    <3> QED BY <3>1, HarmlessAllowed, KeepGo
  <2> QED BY <2>1, <2>2
<1> QED BY <1>1, <1>2

LEMMA UserInit == Init => UserInv
<1> SUFFICES ASSUME Init PROVE UserInv
  OBVIOUS
<1>1. CallsTyped
  BY NoCallTyped DEF Init, Fresh, CallsTyped
<1>2. \A p \in Procs : pc[p] = "idle"
  BY DEF Init, Fresh
<1> QED BY <1>1, <1>2, HarmlessAllowed DEF UserInv, Harmless

LEMMA UserNext == LockInv /\ UserInv /\ [Next]_vars => UserInv'
<1> SUFFICES ASSUME LockInv, UserInv, [Next]_vars PROVE UserInv'
  OBVIOUS
<1>1. CASE \E p \in Procs : Enter(p)
  BY <1>1, UserEnter
<1>2. CASE \E p \in Procs : Continue(p)
  <2>1. PICK p \in Procs : Continue(p)
    BY <1>2
  <2> QED BY <2>1, UserChecks, UserHarmless, UserPrivileged, UserLeaves DEF Continue
<1>3. CASE \E p \in Procs : Fork(p)
  BY <1>3, Still DEF Fork, UserInv, CallsTyped
<1>4. CASE TearList \/ Halted \/ UNCHANGED vars
  BY <1>4, Still DEF TearList, Halted, Oops, vars, rest, UserInv, CallsTyped
<1> QED BY <1>1, <1>2, <1>3, <1>4 DEF Next

-----------------------------------------------------------------------------
(* The two tables and the locks.                                           *)

TableTyped ==
    /\ sys_call_table \in [Table -> Pointers] /\ rw \in BOOLEAN
    /\ f \in [Table -> Pointers]
    /\ intercepted \in [Table -> BOOLEAN]
    /\ monitored \in [Table -> {0, 1, 2}]
    /\ my_list \in [Table -> [Procs -> Nat]]
    /\ pidlist_lock \in Procs \union {NoProc} /\ calltable_lock \in Procs \union {NoProc}

TableState == <<callTable, table, pidlist_lock>>

\* An assignment outside of the table changes nothing.
LEMMA Put ==
    ASSUME NEW T, NEW g \in [Table -> T], NEW s, NEW v, s \in Table => v \in T
    PROVE  [g EXCEPT ![s] = v] \in [Table -> T]
OBVIOUS

LEMMA ModesKept ==
    ASSUME TableTyped, NEW lists, NEW s \in Table
    PROVE  StillMonitored(lists, s) \in {0, 1, 2}
BY DEF TableTyped, StillMonitored

\* One list operation keeps the types and touches only the list of s, and in
\* it only the nodes of q.
LEMMA ListOperations ==
    ASSUME TableTyped, NEW q, NEW s, add_pid_sysc(q, s) \/ del_pid_sysc(q, s)
    PROVE  /\ my_list' \in [Table -> [Procs -> Nat]]
           /\ monitored' \in [Table -> {0, 1, 2}]
           /\ UNCHANGED <<f, intercepted>>
           /\ \A x \in Table, r \in Procs : my_list'[x][r] # my_list[x][r] => r = q
<1>1. CASE UNCHANGED table
  BY <1>1 DEF table, TableTyped
<1>2. CASE ~UNCHANGED table
  <2>1. PICK n : /\ my_list' = [my_list EXCEPT ![s][q] = n]
                 /\ s \in Table /\ q \in Procs => n \in Nat
    <3>1. CASE add_pid_sysc(q, s)
      <4>1. s \in Table /\ q \in Procs => my_list[s][q] + 1 \in Nat
        BY DEF TableTyped
      <4> QED BY <3>1, <4>1 DEF add_pid_sysc
    <3>2. CASE del_pid_sysc(q, s)
      <4>1. Listed(s, q) /\ my_list' = [my_list EXCEPT ![s][q] = my_list[s][q] - 1]
        BY <1>2, <3>2 DEF del_pid_sysc
      <4>2. s \in Table /\ q \in Procs => my_list[s][q] - 1 \in Nat
        BY <4>1 DEF TableTyped, Listed
      <4> QED BY <4>1, <4>2
    <3> QED BY <3>1, <3>2
  <2>2. my_list' \in [Table -> [Procs -> Nat]]
    <3> DEFINE row == [my_list[s] EXCEPT ![q] = n]
    <3>1. s \in Table => row \in [Procs -> Nat]
      BY <2>1 DEF TableTyped
    <3>2. my_list' = [my_list EXCEPT ![s] = row]
      BY <2>1
    <3> HIDE DEF row
    <3>3. my_list \in [Table -> [Procs -> Nat]]
      BY DEF TableTyped
    <3> QED BY <3>1, <3>2, <3>3, Put, ZenonT(60)
  <2>3. \A x \in Table, r \in Procs : my_list'[x][r] # my_list[x][r] => r = q
    BY <2>1 DEF TableTyped
  <2>4. monitored' \in [Table -> {0, 1, 2}] /\ UNCHANGED <<f, intercepted>>
    <3>1. UNCHANGED <<f, intercepted>>
      BY <1>2 DEF add_pid_sysc, del_pid_sysc
    <3>2. CASE monitored' = monitored
      BY <3>1, <3>2 DEF TableTyped
    <3>3. CASE monitored' # monitored
      <4>1. PICK m : /\ monitored' = [monitored EXCEPT ![s] = m]
                     /\ s \in Table => m \in {0, 1, 2}
        BY <1>2, <3>3, ModesKept DEF add_pid_sysc, del_pid_sysc
      <4> QED BY <3>1, <4>1, Put DEF TableTyped
    <3> QED BY <3>2, <3>3
  <2> QED BY <2>2, <2>3, <2>4
<1> QED BY <1>1, <1>2

LEMMA ListSweep ==
    ASSUME TableTyped, NEW q, del_pid(q)
    PROVE  /\ my_list' \in [Table -> [Procs -> Nat]]
           /\ monitored' \in [Table -> {0, 1, 2}]
           /\ UNCHANGED <<f, intercepted>>
           /\ \A x \in Table, r \in Procs : my_list'[x][r] # my_list[x][r] => r = q
<1>1. my_list' \in [Table -> [Procs -> Nat]] /\ UNCHANGED <<f, intercepted>>
  BY DEF del_pid, TableTyped
<1>2. \A x \in Table, r \in Procs : my_list'[x][r] # my_list[x][r] => r = q
  BY DEF del_pid, TableTyped
<1>3. monitored' \in [Table -> {0, 1, 2}]
  BY ModesKept DEF del_pid, TableTyped
<1> QED BY <1>1, <1>2, <1>3

LEMMA EmptyList ==
    ASSUME TableTyped, NEW s, destroy_list(s)
    PROVE  /\ my_list' \in [Table -> [Procs -> Nat]]
           /\ monitored' \in [Table -> {0, 1, 2}]
           /\ UNCHANGED <<f, intercepted>>
<1>1. [q \in Procs |-> 0] \in [Procs -> Nat]
  OBVIOUS
<1> QED BY <1>1, Put DEF destroy_list, TableTyped

LEMMA TableLocks ==
    ASSUME TableTyped, NEW p \in Procs,
           LockPids(p) \/ UnlockPids(p) \/ LockCalls(p) \/ UnlockCalls(p)
             \/ set_addr_rw(p) \/ set_addr_ro(p)
    PROVE  TableTyped' /\ UNCHANGED <<f, intercepted, my_list, sys_call_table>>
<1>1. UNCHANGED <<table, sys_call_table>> /\ rw' \in BOOLEAN
  BY DEF TableTyped, LockPids, UnlockPids, LockCalls, UnlockCalls, set_addr_rw, set_addr_ro,
     callTable
<1>2. pidlist_lock' \in Procs \union {NoProc} /\ calltable_lock' \in Procs \union {NoProc}
  BY DEF TableTyped, LockPids, UnlockPids, LockCalls, UnlockCalls, set_addr_rw, set_addr_ro,
     callTable
<1> QED BY <1>1, <1>2 DEF TableTyped, table

\* The stores to the two tables.
LEMMA TableStores ==
    ASSUME TableTyped, NEW p \in Procs,
           \/ SaveOriginal(p) \/ FlagIntercepted(p) \/ SwitchToInterceptor(p)
           \/ RestoreOriginal(p) \/ ClearIntercepted(p) \/ ClearMonitored(p)
           \/ ForgetOriginal(p) \/ SetMonitored(p)
    PROVE  TableTyped'
<1> DEFINE s == Syscall(p)
<1>0. "interceptor" \in Pointers /\ "null" \in Pointers
      /\ (s \in Table => sys_call_table[s] \in Pointers /\ f[s] \in Pointers)
  BY DEF TableTyped, Pointers
<1> HIDE DEF s
<1>1. CASE SaveOriginal(p) \/ ForgetOriginal(p)
  <2>1. \E v : (s \in Table => v \in Pointers) /\ f' = [f EXCEPT ![s] = v]
    BY <1>0, <1>1 DEF SaveOriginal, ForgetOriginal, s
  <2>2. f' \in [Table -> Pointers]
    BY <2>1, Put DEF TableTyped
  <2> QED BY <1>1, <2>2 DEF SaveOriginal, ForgetOriginal, TableTyped, callTable
<1>2. CASE FlagIntercepted(p) \/ ClearIntercepted(p)
  <2>1. \E v \in BOOLEAN : intercepted' = [intercepted EXCEPT ![s] = v]
    BY <1>2 DEF FlagIntercepted, ClearIntercepted, s
  <2>2. intercepted' \in [Table -> BOOLEAN]
    BY <2>1, Put DEF TableTyped
  <2> QED BY <1>2, <2>2 DEF FlagIntercepted, ClearIntercepted, TableTyped, callTable
<1>3. CASE SwitchToInterceptor(p) \/ RestoreOriginal(p)
  <2>1. \E v : (s \in Table => v \in Pointers) /\ sys_call_table' = [sys_call_table EXCEPT ![s] = v]
    BY <1>0, <1>3 DEF SwitchToInterceptor, RestoreOriginal, s
  <2>2. sys_call_table' \in [Table -> Pointers]
    BY <2>1, Put DEF TableTyped
  <2> QED BY <1>3, <2>2 DEF SwitchToInterceptor, RestoreOriginal, TableTyped, table
<1>4. CASE ClearMonitored(p) \/ SetMonitored(p)
  <2>1. \E v \in {0, 1, 2} : monitored' = [monitored EXCEPT ![s] = v]
    BY <1>4 DEF ClearMonitored, SetMonitored, s
  <2>2. monitored' \in [Table -> {0, 1, 2}]
    BY <2>1, Put DEF TableTyped
  <2> QED BY <1>4, <2>2 DEF ClearMonitored, SetMonitored, TableTyped, callTable
<1> QED BY <1>1, <1>2, <1>3, <1>4

LEMMA TableLists ==
    ASSUME TableTyped, NEW p \in Procs,
           ReleaseList(p) \/ DestroyForAll(p) \/ ChangeBlackList(p) \/ ChangeList(p)
    PROVE  TableTyped'
<1>1. \/ UNCHANGED table
      \/ destroy_list(Syscall(p))
      \/ \E q, s : add_pid_sysc(q, s) \/ del_pid_sysc(q, s)
      \/ del_pid(p)
  BY DEF ReleaseList, DestroyForAll, ChangeBlackList, ChangeList
<1>2. UNCHANGED <<callTable, pidlist_lock>>
  BY DEF ReleaseList, DestroyForAll, ChangeBlackList, ChangeList
<1>3. CASE UNCHANGED table
  BY <1>2, <1>3 DEF TableTyped, table, callTable
<1>4. CASE ~UNCHANGED table
  <2>1. /\ my_list' \in [Table -> [Procs -> Nat]]
        /\ monitored' \in [Table -> {0, 1, 2}]
        /\ UNCHANGED <<f, intercepted>>
    BY <1>1, <1>4, ListOperations, ListSweep, EmptyList
  <2> QED BY <1>2, <2>1 DEF TableTyped, callTable
<1> QED BY <1>3, <1>4

\* Everything else leaves the tables and the locks alone.
LEMMA TableKept ==
    ASSUME NEW p \in Procs,
           \/ Enter(p) \/ Fork(p) \/ check_pid_from_list(p) \/ ReadMode(p) \/ SearchList(p)
           \/ InterceptorMode(p) \/ InterceptorLog(p) \/ Forward(p) \/ orig_exit_group(p) \/ Leave(p)
    PROVE  UNCHANGED TableState
<1>1. CASE Enter(p)
  BY <1>1 DEF Enter, my_syscall, SystemCall, SystemCallNull, my_exit_group, Start, Oops, TableState
<1>2. CASE Fork(p) \/ orig_exit_group(p) \/ Leave(p)
  BY <1>2 DEF Fork, orig_exit_group, Leave, TableState
<1>3. CASE check_pid_from_list(p) \/ ReadMode(p) \/ SearchList(p)
  BY <1>3 DEF check_pid_from_list, ReadMode, SearchList, Oops, TableState
<1>4. CASE InterceptorMode(p) \/ InterceptorLog(p) \/ Forward(p)
  BY <1>4 DEF InterceptorMode, InterceptorLog, Forward, Oops, TableState
<1> QED BY <1>1, <1>2, <1>3, <1>4

LEMMA TableSame == TableTyped /\ UNCHANGED TableState => TableTyped'
BY DEF TableTyped, TableState, callTable, table

LEMMA TableInit == Init => TableTyped
<1> SUFFICES ASSUME Init PROVE TableTyped
  OBVIOUS
<1>1. /\ sys_call_table \in [Table -> Pointers] /\ f \in [Table -> Pointers]
      /\ intercepted \in [Table -> BOOLEAN] /\ monitored \in [Table -> {0, 1, 2}]
  BY DEF Init, Fresh, Pointers
<1>2. my_list \in [Table -> [Procs -> Nat]]
  BY DEF Init, Fresh
<1> QED BY <1>1, <1>2 DEF Init, Fresh, TableTyped

LEMMA TableNext == TableTyped /\ [Next]_vars => TableTyped'
<1> SUFFICES ASSUME TableTyped, [Next]_vars PROVE TableTyped'
  OBVIOUS
<1>1. CASE \E p \in Procs : Enter(p) \/ Fork(p)
  BY <1>1, TableKept, TableSame
<1>2. CASE \E p \in Procs : Continue(p)
  <2>1. PICK p \in Procs : Continue(p)
    BY <1>2
  <2> QED BY <2>1, TableLocks, TableStores, TableLists, TableKept, TableSame DEF Continue
<1>3. CASE TearList \/ Halted \/ UNCHANGED vars
  BY <1>3, TableSame DEF TearList, Halted, Oops, vars, TableState
<1> QED BY <1>1, <1>2, <1>3 DEF Next

\* Every step of every process keeps the types.
THEOREM InterceptorTyped == Spec => []TypeOK
<1>1. LockInv /\ UserInv /\ TableTyped => TypeOK
  BY DEF LockInv, UserInv, CallsTyped, TableTyped, TypeOK
<1> QED BY <1>1, LockInit, LockNext, UserInit, UserNext, TableInit, TableNext, PTL DEF Spec

-----------------------------------------------------------------------------
(* Nobody but root touches an interception, or a list for another user.    *)

\* A step of q moves only q.
LEMMA OnlyMover ==
    ASSUME LockInv, NEW p \in Procs, NEW q \in Procs, Enter(q) \/ Continue(q), pc'[p] # pc[p]
    PROVE  p = q
<1>1. pc' = pc \/ \E l : pc' = [pc EXCEPT ![q] = l]
  <2>1. CASE Enter(q)
    BY <2>1 DEF Enter, my_syscall, SystemCall, SystemCallNull, my_exit_group, Start, Oops, process
  <2>2. CASE check_pid_from_list(q) \/ ReadMode(q) \/ SearchList(q)
    BY <2>2 DEF check_pid_from_list, ReadMode, SearchList, Go, Return, GoWith, Oops, process
  <2>3. CASE \/ SaveOriginal(q) \/ FlagIntercepted(q) \/ SwitchToInterceptor(q)
             \/ ReleaseList(q) \/ RestoreOriginal(q) \/ ClearIntercepted(q)
    BY <2>3 DEF SaveOriginal, FlagIntercepted, SwitchToInterceptor, ReleaseList,
       RestoreOriginal, ClearIntercepted, Go
  <2>4. CASE \/ ClearMonitored(q) \/ ForgetOriginal(q) \/ DestroyForAll(q) \/ SetMonitored(q)
             \/ ChangeBlackList(q)
    BY <2>4 DEF ClearMonitored, ForgetOriginal, DestroyForAll, SetMonitored, ChangeBlackList, Go
  <2>5. CASE ChangeList(q)
    <3>1. Go(q, "unlock_pids") \/ GoWith(q, "unlock_pids", "ENOMEM")
      BY <2>5 DEF ChangeList
    <3> QED BY <3>1 DEF Go, GoWith
  <2>6. CASE InterceptorMode(q) \/ InterceptorLog(q) \/ Forward(q)
    BY <2>6 DEF InterceptorMode, InterceptorLog, Forward, Go, GoWith, Oops, process
  <2>7. CASE LockPids(q) \/ UnlockPids(q) \/ LockCalls(q) \/ UnlockCalls(q)
    BY <2>7 DEF LockPids, UnlockPids, LockCalls, UnlockCalls, Go, Return, GoWith
  <2>8. CASE set_addr_rw(q) \/ set_addr_ro(q) \/ orig_exit_group(q) \/ Leave(q)
    BY <2>8 DEF set_addr_rw, set_addr_ro, orig_exit_group, Leave, Go
  <2> QED BY <2>1, <2>2, <2>3, <2>4, <2>5, <2>6, <2>7, <2>8 DEF Continue
<1> QED BY <1>1 DEF LockInv

\* What a process that is not root changes in its step.
LEMMA OwnStep ==
    ASSUME UserInv, TableTyped, NEW p \in Procs, ~IsRoot(p), Enter(p) \/ Continue(p)
    PROVE  /\ UNCHANGED <<sys_call_table, rw, f, intercepted>>
           /\ \A s \in Table, q \in Procs : my_list'[s][q] # my_list[s][q] => Uid[q] = Uid[p]
<1>0. Allowed(p, pc[p])
  BY DEF UserInv
<1>1. CASE UNCHANGED TableState
  BY <1>1 DEF TableState, callTable, table
<1>2. CASE \/ SaveOriginal(p) \/ FlagIntercepted(p) \/ SwitchToInterceptor(p)
           \/ ReleaseList(p) \/ RestoreOriginal(p) \/ ClearIntercepted(p)
           \/ ClearMonitored(p) \/ ForgetOriginal(p) \/ DestroyForAll(p)
           \/ LockCalls(p) \/ UnlockCalls(p) \/ set_addr_rw(p) \/ set_addr_ro(p)
  <2>1. pc[p] \in Privileged
    BY <1>2 DEF SaveOriginal, FlagIntercepted, SwitchToInterceptor, ReleaseList, RestoreOriginal,
       ClearIntercepted, ClearMonitored, ForgetOriginal, DestroyForAll, LockCalls, UnlockCalls,
       set_addr_rw, set_addr_ro, At, Privileged, InCalls
  <2> QED BY <1>0, <2>1 DEF Allowed
<1>3. CASE LockPids(p) \/ UnlockPids(p) \/ SetMonitored(p)
  BY <1>3 DEF LockPids, UnlockPids, SetMonitored, callTable, table
<1>4. CASE ChangeBlackList(p) \/ ChangeList(p)
  <2>1. pc[p] \in {"change_black", "in_pids"} /\ UNCHANGED <<sys_call_table, rw>>
    BY <1>4 DEF ChangeBlackList, ChangeList, At, callTable
  <2>2. CASE UNCHANGED table
    BY <2>1, <2>2 DEF table
  <2>3. CASE del_pid(p)
    BY <2>1, <2>3, ListSweep
  <2>4. CASE /\ add_pid_sysc(Pid(p), Syscall(p)) \/ del_pid_sysc(Pid(p), Syscall(p))
             /\ pc[p] = "in_pids" => Cmd(p) # "exit"
    <3>1. Own(p)
      BY <1>0, <2>1, <2>4 DEF Allowed
    <3> QED BY <2>1, <2>4, <3>1, ListOperations DEF Own
  <2> QED BY <1>4, <2>2, <2>3, <2>4 DEF ChangeBlackList, ChangeList, At
<1> QED BY <1>1, <1>2, <1>3, <1>4, TableKept DEF Continue

\* Whatever requests overlap: a process that is not root never changes an
\* entry, its protection, its saved original or its flag, and puts on or takes
\* off the lists only processes of its own user.
THEOREM OthersLeftAlone == Spec => OthersUntouched
<1> DEFINE A == \A p \in Procs : pc'[p] # pc[p] /\ ~IsRoot(p) =>
                  /\ UNCHANGED <<sys_call_table, rw, f, intercepted>>
                  /\ \A s \in Table, q \in Procs :
                       my_list'[s][q] # my_list[s][q] => Uid[q] = Uid[p]
<1>1. LockInv /\ UserInv /\ TableTyped /\ [Next]_vars => [A]_vars
  <2> SUFFICES ASSUME LockInv, UserInv, TableTyped, Next,
                      NEW p \in Procs, pc'[p] # pc[p], ~IsRoot(p)
               PROVE  /\ UNCHANGED <<sys_call_table, rw, f, intercepted>>
                      /\ \A s \in Table, q \in Procs :
                           my_list'[s][q] # my_list[s][q] => Uid[q] = Uid[p]
    OBVIOUS
  <2>1. PICK q \in Procs : Enter(q) \/ Continue(q)
    BY DEF Next, Fork, TearList, Halted, Oops, process, vars
  <2>2. p = q
    BY <2>1, OnlyMover
  <2> QED BY <2>1, <2>2, OwnStep
<1> HIDE DEF A
<1>2. Spec => [][A]_vars
  BY <1>1, LockInit, LockNext, UserInit, UserNext, TableInit, TableNext, PTL DEF Spec
<1> QED BY <1>2 DEF OthersUntouched, A

-----------------------------------------------------------------------------
(* The originals.                                                         *)

OneAdministrator == \A p, q \in Procs : IsRoot(p) /\ IsRoot(q) => p = q

\* The entry of s in both tables: free, with its original saved, and switched.
Off(s) == sys_call_table[s] = "original" /\ f[s] = "null" /\ ~intercepted[s]
Saved(s) == sys_call_table[s] = "original" /\ f[s] = "original"
On(s) == sys_call_table[s] = "interceptor" /\ f[s] = "original" /\ intercepted[s]

\* Where an intercept or a release has tested the flag and is not done.
Working == {"save", "flag", "lock_calls", "set_rw", "switch",
            "destroy", "restore", "unflag", "unmonitor", "forget"}

\* What a request finds in the entry it works on.
Expected(p) ==
    LET s == Syscall(p)
    IN  /\ s \in Table
        /\ Cmd(p) \in {"intercept", "release"}
        /\ Cmd(p) = "intercept" =>
             \/ pc[p] = "save" /\ Off(s)
             \/ pc[p] = "flag" /\ Saved(s) /\ ~intercepted[s]
             \/ pc[p] \in {"lock_calls", "set_rw", "switch"} /\ Saved(s) /\ intercepted[s]
        /\ Cmd(p) = "release" =>
             \/ pc[p] \in {"lock_calls", "set_rw", "destroy", "restore"} /\ On(s)
             \/ pc[p] = "unflag" /\ Saved(s) /\ intercepted[s]
             \/ pc[p] \in {"unmonitor", "forget"} /\ Saved(s) /\ ~intercepted[s]

\* Every entry is settled, but for the one a request works on.
Settled(s) == Off(s) \/ On(s)

OriginalInv ==
    /\ \A p \in Procs : pc[p] \in Working => Expected(p)
    /\ \A s \in Table : Settled(s) \/ \E p \in Procs : pc[p] \in Working /\ Syscall(p) = s

Entries == <<sys_call_table, f, intercepted>>

Known == LockInv /\ UserInv /\ TableTyped /\ OriginalInv

\* Who works is root: nobody else works.
LEMMA OneWorks ==
    ASSUME OneAdministrator, Known, NEW p \in Procs, NEW q \in Procs,
           pc[p] \in Working \/ IsRoot(p), pc[q] \in Working \/ IsRoot(q)
    PROVE  p = q
<1>1. \A r \in Procs : pc[r] \in Working => IsRoot(r)
  BY DEF Known, UserInv, Allowed, Privileged, InCalls, Working
<1> QED BY <1>1 DEF OneAdministrator

\* A step of p that does not work leaves what it leaves.
LEMMA Aside ==
    ASSUME Known, NEW p \in Procs, NEW l, pc[p] \notin Working, l \notin Working,
           pc' = [pc EXCEPT ![p] = l], \A q \in Procs \ {p} : call'[q] = call[q],
           UNCHANGED Entries
    PROVE  OriginalInv'
<1>1. \A q \in Procs : pc'[q] = IF q = p THEN l ELSE pc[q]
  BY DEF Known, LockInv
<1>2. \A s : (Settled(s) <=> Settled(s)') /\ (Saved(s) <=> Saved(s)')
             /\ (Off(s) <=> Off(s)') /\ (On(s) <=> On(s)')
  BY DEF Settled, Off, On, Saved, Entries
<1>3. ASSUME NEW q \in Procs, pc'[q] \in Working PROVE Expected(q)'
  <2>1. q # p /\ pc'[q] = pc[q] /\ call'[q] = call[q] /\ pc[q] \in Working
    BY <1>1, <1>3
  <2>2. Expected(q)
    BY <2>1 DEF Known, OriginalInv
  <2> QED BY <1>2, <2>1, <2>2 DEF Expected, Cmd, Syscall, Entries
<1>4. ASSUME NEW s \in Table
      PROVE  Settled(s)' \/ \E q \in Procs : pc'[q] \in Working /\ Syscall(q)' = s
  <2>1. CASE Settled(s)
    BY <1>2, <2>1
  <2>2. CASE \E q \in Procs : pc[q] \in Working /\ Syscall(q) = s
    <3>1. PICK q \in Procs : pc[q] \in Working /\ Syscall(q) = s
      BY <2>2
    <3>2. q # p /\ pc'[q] = pc[q] /\ call'[q] = call[q]
      BY <1>1, <3>1
    <3> QED BY <3>1, <3>2 DEF Syscall
  <2> QED BY <2>1, <2>2 DEF Known, OriginalInv
<1> QED BY <1>3, <1>4 DEF OriginalInv

LEMMA AsideStill == ASSUME Known, UNCHANGED <<process, Entries>> PROVE OriginalInv'
BY DEF Known, OriginalInv, Expected, Settled, Off, On, Saved, Cmd, Syscall, process, Entries

\* A step of p that works: it finds what it expects, and leaves what it
\* expects next or a settled entry.
LEMMA Advance ==
    ASSUME OneAdministrator, Known, NEW p \in Procs, NEW l,
           pc[p] \in Working, Go(p, l),
           \A s \in Table : s # Syscall(p) => /\ sys_call_table'[s] = sys_call_table[s]
                                              /\ f'[s] = f[s]
                                              /\ intercepted'[s] = intercepted[s],
           l \in Working => Expected(p)',
           l \notin Working => Settled(Syscall(p))'
    PROVE  OriginalInv'
<1>1. \A q \in Procs : pc'[q] = (IF q = p THEN l ELSE pc[q]) /\ call'[q] = call[q]
  BY DEF Known, LockInv, Go
<1>2. \A q \in Procs : pc[q] \in Working => q = p
  BY OneWorks
<1>3. \A q \in Procs : pc'[q] \in Working => Expected(q)'
  BY <1>1, <1>2
<1>4. ASSUME NEW s \in Table
      PROVE  Settled(s)' \/ \E q \in Procs : pc'[q] \in Working /\ Syscall(q)' = s
  <2>1. CASE s = Syscall(p)
    <3>1. CASE l \in Working
      BY <1>1, <2>1, <3>1 DEF Syscall
    <3>2. CASE l \notin Working
      <4>1. Syscall(p)' = s
        BY <1>1, <2>1 DEF Syscall
      <4> QED BY <3>2, <4>1
    <3> QED BY <3>1, <3>2
  <2>2. CASE s # Syscall(p)
    <3>1. Settled(s)
      BY <1>2, <2>2 DEF Known, OriginalInv
    <3> QED BY <2>2, <3>1 DEF Settled, Off, On
  <2> QED BY <2>1, <2>2
<1> QED BY <1>3, <1>4 DEF OriginalInv
-----------------------------------------------------------------------------
(* The steps that work.                                                    *)

\* What p finds, in one place.
LEMMA Finds ==
    ASSUME Known, NEW p \in Procs, pc[p] \in Working
    PROVE  Expected(p) /\ Syscall(p) \in Table
BY DEF Known, OriginalInv, Expected

LEMMA InterceptWorks ==
    ASSUME OneAdministrator, Known, NEW p \in Procs,
           SaveOriginal(p) \/ FlagIntercepted(p) \/ SwitchToInterceptor(p)
    PROVE  OriginalInv'
<1> DEFINE s == Syscall(p)
<1>0. DOMAIN sys_call_table = Table /\ DOMAIN f = Table /\ DOMAIN intercepted = Table
  BY DEF Known, TableTyped
<1>1. CASE SaveOriginal(p)
  <2>1. pc[p] = "save" /\ Go(p, "flag") /\ f' = [f EXCEPT ![s] = sys_call_table[s]]
        /\ UNCHANGED <<sys_call_table, intercepted>>
    BY <1>1 DEF SaveOriginal, At, callTable
  <2>2. s \in Table /\ Cmd(p) = "intercept" /\ Off(s)
    BY <2>1, Finds DEF Working, Expected
  <2>3. pc'[p] = "flag" /\ Saved(s)' /\ ~intercepted'[s] /\ call' = call
    BY <1>0, <2>1, <2>2 DEF Known, LockInv, Go, Off, Saved, Syscall
  <2>4. Expected(p)'
    BY <2>2, <2>3 DEF Expected, Cmd, Syscall
  <2> QED BY <1>0, <2>1, <2>4, Advance DEF Working
<1>2. CASE FlagIntercepted(p)
  <2>1. pc[p] = "flag" /\ Go(p, "lock_calls") /\ intercepted' = [intercepted EXCEPT ![s] = TRUE]
        /\ UNCHANGED <<sys_call_table, f>>
    BY <1>2 DEF FlagIntercepted, At, callTable
  <2>2. s \in Table /\ Cmd(p) = "intercept" /\ Saved(s)
    BY <2>1, Finds DEF Working, Expected
  <2>3. pc'[p] = "lock_calls" /\ Saved(s)' /\ intercepted'[s] /\ call' = call
    BY <1>0, <2>1, <2>2 DEF Known, LockInv, Go, Saved, Syscall
  <2>4. Expected(p)'
    BY <2>2, <2>3 DEF Expected, Cmd, Syscall
  <2> QED BY <1>0, <2>1, <2>4, Advance DEF Working
<1>3. CASE SwitchToInterceptor(p)
  <2>1. pc[p] = "switch" /\ Go(p, "set_ro")
        /\ sys_call_table' = [sys_call_table EXCEPT ![s] = "interceptor"]
        /\ UNCHANGED <<intercepted, f>>
    BY <1>3 DEF SwitchToInterceptor, At, table
  <2>2. s \in Table /\ Saved(s) /\ intercepted[s]
    BY <2>1, Finds DEF Working, Expected
  <2>3. Settled(s)'
    BY <1>0, <2>1, <2>2 DEF Go, Saved, Settled, On, Syscall
  <2> QED BY <1>0, <2>1, <2>3, Advance DEF Working
<1> QED BY <1>1, <1>2, <1>3

LEMMA ReleaseWorks ==
    ASSUME OneAdministrator, Known, NEW p \in Procs,
           \/ ReleaseList(p) \/ RestoreOriginal(p) \/ ClearIntercepted(p)
           \/ (At(p, "unmonitor") /\ ClearMonitored(p)) \/ ForgetOriginal(p)
    PROVE  OriginalInv'
<1> DEFINE s == Syscall(p)
<1>0. DOMAIN sys_call_table = Table /\ DOMAIN f = Table /\ DOMAIN intercepted = Table
  BY DEF Known, TableTyped
<1>1. CASE ReleaseList(p) \/ (At(p, "unmonitor") /\ ClearMonitored(p))
  <2>1. PICK l \in {"restore", "forget"} :
          /\ Go(p, l) /\ UNCHANGED Entries
          /\ pc[p] = IF l = "restore" THEN "destroy" ELSE "unmonitor"
    BY <1>1 DEF ReleaseList, ClearMonitored, At, destroy_list, callTable, Entries
  <2>2. Expected(p)
    BY <2>1, Finds DEF Working
  <2>3. pc'[p] = l /\ call' = call
    BY <2>1 DEF Known, LockInv, Go
  <2>4. Expected(p)'
    BY <2>1, <2>2, <2>3 DEF Expected, Cmd, Syscall, Entries, Saved, On, Off
  <2> QED BY <2>1, <2>4, Advance DEF Working, Entries
<1>2. CASE RestoreOriginal(p)
  <2>1. pc[p] = "restore" /\ Go(p, "unflag")
        /\ sys_call_table' = [sys_call_table EXCEPT ![s] = f[s]]
        /\ UNCHANGED <<f, intercepted>>
    BY <1>2 DEF RestoreOriginal, At, table
  <2>2. s \in Table /\ Cmd(p) = "release" /\ On(s)
    BY <2>1, Finds DEF Working, Expected
  <2>3. pc'[p] = "unflag" /\ Saved(s)' /\ intercepted'[s] /\ call' = call
    BY <1>0, <2>1, <2>2 DEF Known, LockInv, Go, On, Saved, Syscall
  <2>4. Expected(p)'
    BY <2>2, <2>3 DEF Expected, Cmd, Syscall
  <2> QED BY <1>0, <2>1, <2>4, Advance DEF Working
<1>3. CASE ClearIntercepted(p)
  <2>1. pc[p] = "unflag" /\ Go(p, "unmonitor")
        /\ intercepted' = [intercepted EXCEPT ![s] = FALSE]
        /\ UNCHANGED <<f, sys_call_table>>
    BY <1>3 DEF ClearIntercepted, At, callTable
  <2>2. s \in Table /\ Cmd(p) = "release" /\ Saved(s)
    BY <2>1, Finds DEF Working, Expected
  <2>3. pc'[p] = "unmonitor" /\ Saved(s)' /\ ~intercepted'[s] /\ call' = call
    BY <1>0, <2>1, <2>2 DEF Known, LockInv, Go, Saved, Syscall
  <2>4. Expected(p)'
    BY <2>2, <2>3 DEF Expected, Cmd, Syscall
  <2> QED BY <1>0, <2>1, <2>4, Advance DEF Working
<1>4. CASE ForgetOriginal(p)
  <2>1. pc[p] = "forget" /\ Go(p, "set_ro") /\ f' = [f EXCEPT ![s] = "null"]
        /\ UNCHANGED <<intercepted, sys_call_table>>
    BY <1>4 DEF ForgetOriginal, At, callTable
  <2>2. s \in Table /\ Saved(s) /\ ~intercepted[s]
    BY <2>1, Finds DEF Working, Expected
  <2>3. Settled(s)'
    BY <1>0, <2>1, <2>2 DEF Go, Saved, Settled, Off, Syscall
  <2>4. \A x \in Table : x # Syscall(p) => /\ sys_call_table'[x] = sys_call_table[x]
                                            /\ f'[x] = f[x]
                                            /\ intercepted'[x] = intercepted[x]
    BY <1>0, <2>1
  <2>5. pc[p] \in Working /\ "set_ro" \notin Working /\ Go(p, "set_ro")
    BY <2>1 DEF Working
  <2> QED BY <2>3, <2>4, <2>5, Advance
<1> QED BY <1>1, <1>2, <1>3, <1>4

LEMMA LockWorks ==
    ASSUME OneAdministrator, Known, NEW p \in Procs, LockCalls(p) \/ set_addr_rw(p)
    PROVE  OriginalInv'
<1>1. PICK l \in {"set_rw", "switch", "destroy"} :
        /\ Go(p, l) /\ UNCHANGED Entries /\ pc[p] \in {"lock_calls", "set_rw"}
        /\ l # "set_rw" => l = IF Cmd(p) = "intercept" THEN "switch" ELSE "destroy"
  BY DEF LockCalls, set_addr_rw, At, table, Entries
<1>2. Expected(p)
  BY <1>1, Finds DEF Working
<1>3. pc'[p] = l /\ call' = call
  BY <1>1 DEF Known, LockInv, Go
<1>4. Expected(p)'
  BY <1>1, <1>2, <1>3 DEF Expected, Cmd, Syscall, Entries, Saved, On, Off
<1> QED BY <1>1, <1>4, Advance DEF Working, Entries

-----------------------------------------------------------------------------
(* The steps that do not.                                                  *)

LEMMA RequestBegins ==
    ASSUME OneAdministrator, Known, NEW p \in Procs, my_syscall(p)
    PROVE  OriginalInv'
<1>1. PICK r \in Requests :
        Start(p, [r EXCEPT !.ret = Check(p, r)],
              IF Check(p, r) = "ok" THEN FirstStep(r) ELSE "return")
  BY DEF my_syscall
<1> DEFINE c == [r EXCEPT !.ret = Check(p, r)]
           l == IF Check(p, r) = "ok" THEN FirstStep(r) ELSE "return"
<1>2. c.cmd = r.cmd /\ c.syscall = r.syscall
  BY DEF Requests
<1>3. l \in Working =>
        /\ IsRoot(p) /\ r.syscall \in Table
        /\ \/ l = "save" /\ r.cmd = "intercept" /\ ~intercepted[r.syscall]
           \/ l = "lock_calls" /\ r.cmd = "release" /\ intercepted[r.syscall]
  <2> SUFFICES ASSUME Check(p, r) = "ok", FirstStep(r) \in Working
               PROVE  /\ IsRoot(p) /\ r.syscall \in Table
                      /\ \/ FirstStep(r) = "save" /\ r.cmd = "intercept" /\ ~intercepted[r.syscall]
                         \/ /\ FirstStep(r) = "lock_calls" /\ r.cmd = "release"
                            /\ intercepted[r.syscall]
    BY DEF Working
  <2>1. r.cmd \in {"intercept", "release"}
    BY DEF FirstStep, Working
  <2> QED BY <2>1 DEF Check, FirstStep
<1> HIDE DEF c, l
<1>4. /\ pc[p] = "idle" /\ pc' = [pc EXCEPT ![p] = l] /\ call' = [call EXCEPT ![p] = c]
      /\ UNCHANGED Entries
  BY <1>1 DEF Start, At, callTable, table, Entries, c, l
<1>5. call \in [Procs -> Calls] /\ pc \in [Procs -> Labels]
  BY DEF Known, LockInv, UserInv, CallsTyped
<1>6. CASE l \notin Working
  <2>1. \A q \in Procs \ {p} : call'[q] = call[q]
    BY <1>4, <1>5
  <2> QED BY <1>4, <1>6, <2>1, Aside DEF Working
<1>7. CASE l \in Working
  <2>1. \A q \in Procs : pc[q] \notin Working
    BY <1>3, <1>4, <1>7, OneWorks DEF Working
  <2>2. \A s \in Table : Settled(s) /\ Settled(s)'
    BY <1>4, <2>1 DEF Known, OriginalInv, Settled, Off, On, Entries
  <2>3. pc'[p] = l /\ call'[p] = c /\ \A q \in Procs \ {p} : pc'[q] = pc[q]
    BY <1>4, <1>5
  <2>4. (l = "save" => Off(r.syscall)) /\ (l = "lock_calls" => On(r.syscall))
    BY <1>3, <1>7, <2>2 DEF Settled, Off, On
  <2>5. Expected(p)'
    BY <1>2, <1>3, <1>4, <1>7, <2>3, <2>4 DEF Expected, Cmd, Syscall, Entries, Off, On
  <2> QED BY <2>1, <2>2, <2>3, <2>5 DEF OriginalInv
<1> QED BY <1>6, <1>7

\* Every other step.
LEMMA Idles ==
    ASSUME Known, NEW p \in Procs,
           \/ SystemCall(p) \/ my_exit_group(p) \/ SystemCallNull(p)
           \/ check_pid_from_list(p) \/ ReadMode(p) \/ SearchList(p)
           \/ (At(p, "clear_all") /\ ClearMonitored(p)) \/ DestroyForAll(p) \/ SetMonitored(p)
           \/ ChangeBlackList(p) \/ ChangeList(p)
           \/ InterceptorMode(p) \/ InterceptorLog(p) \/ Forward(p)
           \/ LockPids(p) \/ UnlockPids(p) \/ UnlockCalls(p) \/ set_addr_ro(p)
           \/ orig_exit_group(p) \/ Leave(p)
    PROVE  OriginalInv'
<1> DEFINE idles == /\ pc[p] \notin Working /\ UNCHANGED Entries
                    /\ \E l : l \notin Working /\ pc' = [pc EXCEPT ![p] = l]
                    /\ call' = call \/ \E c : call' = [call EXCEPT ![p] = c]
<1>0. call \in [Procs -> Calls]
  BY DEF Known, UserInv, CallsTyped
<1>1. CASE UNCHANGED <<process, Entries>>
  BY <1>1, AsideStill
<1>2. CASE idles
  <2>1. \A q \in Procs \ {p} : call'[q] = call[q]
    BY <1>0, <1>2
  <2> QED BY <1>2, <2>1, Aside
<1>3. CASE SystemCall(p) \/ my_exit_group(p)
  <2>1. idles
    BY <1>3 DEF SystemCall, my_exit_group, Start, At, Entries, callTable, table, Working
  <2> QED BY <1>2, <2>1
<1>4. CASE SystemCallNull(p)
  BY <1>1, <1>4 DEF SystemCallNull, Oops, Entries, callTable, table
<1>5. CASE check_pid_from_list(p) \/ Forward(p)
  <2>1. CASE Oops
    BY <1>1, <2>1 DEF Oops, Entries, callTable, table
  <2>2. CASE ~Oops
    <3>1. pc[p] \notin Working /\ UNCHANGED Entries
      BY <1>5, <2>2 DEF check_pid_from_list, Forward, At, Entries, callTable, table, Working
    <3>2. \E l : l \notin Working /\ (Go(p, l) \/ \E code : GoWith(p, l, code))
      BY <1>5, <2>2 DEF check_pid_from_list, Forward, Return, Working
    <3> QED BY <1>2, <3>1, <3>2 DEF Go, GoWith
  <2> QED BY <2>1, <2>2
<1>6. CASE ReadMode(p) \/ SearchList(p) \/ InterceptorMode(p) \/ InterceptorLog(p)
  <2>1. pc[p] \notin Working /\ UNCHANGED Entries
    BY <1>6 DEF ReadMode, SearchList, InterceptorMode, InterceptorLog, At, Entries, callTable,
       table, Working
  <2>2. \E l : l \notin Working /\ (Go(p, l) \/ \E code : GoWith(p, l, code))
    BY <1>6 DEF ReadMode, SearchList, InterceptorMode, InterceptorLog, Return, Working
  <2> QED BY <1>2, <2>1, <2>2 DEF Go, GoWith
<1>7. CASE \/ (At(p, "clear_all") /\ ClearMonitored(p)) \/ DestroyForAll(p) \/ SetMonitored(p)
           \/ ChangeBlackList(p) \/ ChangeList(p)
  <2>1. pc[p] \notin Working
    BY <1>7 DEF DestroyForAll, SetMonitored, ChangeBlackList, ChangeList, At, Working
  <2>2. UNCHANGED Entries
    <3>1. UNCHANGED sys_call_table
      BY <1>7 DEF ClearMonitored, DestroyForAll, SetMonitored, ChangeBlackList, ChangeList, callTable
    <3>2. UNCHANGED <<f, intercepted>>
      BY <1>7 DEF ClearMonitored, DestroyForAll, SetMonitored, ChangeBlackList, ChangeList,
         destroy_list, add_pid_sysc, del_pid_sysc, del_pid, table
    <3> QED BY <3>1, <3>2 DEF Entries
  <2>3. \E l : l \notin Working /\ (Go(p, l) \/ \E code : GoWith(p, l, code))
    <3>1. CASE ChangeList(p)
      <4>1. Go(p, "unlock_pids") \/ GoWith(p, "unlock_pids", "ENOMEM")
        BY <3>1 DEF ChangeList
      <4> QED BY <4>1 DEF Working
    <3>2. CASE ~ChangeList(p)
      BY <1>7, <3>2 DEF ClearMonitored, DestroyForAll, SetMonitored, ChangeBlackList, At, Working
    <3> QED BY <3>1, <3>2
  <2> QED BY <1>2, <2>1, <2>2, <2>3 DEF Go, GoWith
<1>8. CASE LockPids(p) \/ UnlockPids(p) \/ UnlockCalls(p) \/ set_addr_ro(p)
  <2>1. pc[p] \notin Working /\ UNCHANGED Entries
    BY <1>8 DEF LockPids, UnlockPids, UnlockCalls, set_addr_ro, At, Entries, callTable, table,
       Working
  <2>2. \E l : l \notin Working /\ (Go(p, l) \/ \E code : GoWith(p, l, code))
    BY <1>8 DEF LockPids, UnlockPids, UnlockCalls, set_addr_ro, Return, Working
  <2> QED BY <1>2, <2>1, <2>2 DEF Go, GoWith
<1>9. CASE orig_exit_group(p) \/ Leave(p)
  <2>1. idles
    BY <1>9 DEF orig_exit_group, Leave, At, Entries, callTable, table, Working
  <2> QED BY <1>2, <2>1
<1> QED BY <1>3, <1>4, <1>5, <1>6, <1>7, <1>8, <1>9

LEMMA OriginalInit == Init => OriginalInv
BY DEF Init, Fresh, OriginalInv, Working, Settled, Off

LEMMA OriginalNext ==
    ASSUME OneAdministrator PROVE Known /\ [Next]_vars => OriginalInv'
<1> SUFFICES ASSUME Known, [Next]_vars PROVE OriginalInv'
  OBVIOUS
<1>1. CASE \E p \in Procs : Enter(p)
  BY <1>1, RequestBegins, Idles DEF Enter
<1>2. CASE \E p \in Procs : Continue(p)
  <2>1. PICK p \in Procs : Continue(p)
    BY <1>2
  <2>2. CASE ClearMonitored(p)
    <3>1. At(p, "unmonitor") \/ At(p, "clear_all")
      BY <2>2 DEF ClearMonitored
    <3> QED BY <2>2, <3>1, ReleaseWorks, Idles
  <2>3. CASE ~ClearMonitored(p)
    BY <2>1, <2>3, InterceptWorks, ReleaseWorks, LockWorks, Idles DEF Continue
  <2> QED BY <2>2, <2>3
<1>3. CASE (\E p \in Procs : Fork(p)) \/ TearList \/ Halted \/ UNCHANGED vars
  BY <1>3, AsideStill DEF Fork, TearList, Halted, Oops, vars, callTable, table, Entries
<1> QED BY <1>1, <1>2, <1>3 DEF Next

\* As long as one process administers the module, whatever others do at the
\* same time: the interceptor never becomes its own original, no entry is lost,
\* and entry, flag and saved pointer agree between requests.
THEOREM OriginalsAreKept == ASSUME OneAdministrator PROVE Spec => []OriginalKept
<1>1. LockInv /\ UserInv /\ TableTyped /\ OriginalInv => OriginalKept
  <2> SUFFICES ASSUME Known, NEW s \in Table
               PROVE  /\ f[s] # "interceptor" /\ sys_call_table[s] # "null"
                      /\ (\A p \in Procs : Cmd(p) \in {"intercept", "release"} => Syscall(p) # s) =>
                           /\ intercepted[s] <=> sys_call_table[s] = "interceptor"
                           /\ intercepted[s] <=> f[s] = "original"
    BY DEF OriginalKept, Known
  <2>1. CASE Settled(s)
    BY <2>1 DEF Settled, Off, On
  <2>2. CASE \E p \in Procs : pc[p] \in Working /\ Syscall(p) = s
    BY <2>2, Finds DEF Expected, Off, On, Saved
  <2> QED BY <2>1, <2>2 DEF Known, OriginalInv
<1>2. OriginalInv /\ LockInv /\ UserInv /\ TableTyped /\ [Next]_vars => OriginalInv'
  BY OriginalNext DEF Known
<1> QED BY <1>1, <1>2, LockInit, LockNext, UserInit, UserNext, TableInit, TableNext, OriginalInit,
       PTL DEF Spec

=============================================================================
