---------------------- MODULE InterceptorServiceProofs ----------------------
(***************************************************************************)
(* Calls made one after the other keep the lists in order and implement    *)
(* MonitorService, for any number of processes and system calls.  The      *)
(* invariant says for each point of each request how far the entry of its  *)
(* system call is on the way from what the service showed before the       *)
(* request to what it must show after it.                                  *)
(***************************************************************************)
EXTENDS InterceptorRefinement, InterceptorProofs, FiniteSetTheorems

\* No system call has the number NR_syscalls, which the checks let pass and the
\* loop of del_pid does not visit.
Serially == InKernel = 1 /\ NR_syscalls \notin Asked

-----------------------------------------------------------------------------
(* What an entry shows.                                                    *)

\* Whether t is intercepted: flag, pointer and saved pointer agree.
Switched(t, on) ==
    /\ intercepted[t] = on
    /\ sys_call_table[t] = IF on THEN "interceptor" ELSE "original"
    /\ f[t] = IF on THEN "original" ELSE "null"

\* Of the pids in live the list says that those in who are monitored; it is a
\* black list when all is true.
Nodes(t, all, who, live) ==
    \A q \in Procs : /\ my_list[t][q] \in {0, 1}
                     /\ Listed(t, q) <=> q \in live /\ (IF all THEN q \notin who ELSE q \in who)

\* The list with its monitored field.
Lists(t, all, who, live) ==
    /\ Nodes(t, all, who, live)
    /\ monitored[t] = 2 <=> all
    /\ monitored[t] # 2 => (monitored[t] = 1 <=> \E q \in Procs : Listed(t, q))

Shows(t, on, all, who, live) == Switched(t, on) /\ Lists(t, all, who, live)

\* What the service showed last.
SeenOn(t) == t \in seen.intercepted
SeenAll(t) == t \in seen.all
SeenWho(t) == IF t \in Numbers THEN seen.watched[t] ELSE {}

SeenOK ==
    /\ seen \in [intercepted : SUBSET (Numbers \intersect Asked), all : SUBSET Numbers,
                 watched : [Numbers -> SUBSET alive], alive : {alive}]
    /\ \A t \in Numbers \ seen.intercepted : t \notin seen.all /\ seen.watched[t] = {}

AsSeen(t) == Shows(t, SeenOn(t), SeenAll(t), SeenWho(t), alive)

-----------------------------------------------------------------------------
(* How far a request is.                                                   *)

Request(p) == [call[p] EXCEPT !.ret = "none"]
Asks(p, cmd) == Cmd(p) = cmd
Others(p) == \A t \in Table \ {Syscall(p)} : AsSeen(t)
Untouched == \A t \in Table : AsSeen(t)

\* The request passed the checks before the first change.
Passed(p) ==
    /\ Syscall(p) \in Numbers \intersect Asked /\ Cmd(p) \in Cmds
    /\ Request(p) \in Requests
    /\ Pid(p) = 0 \/ Pid(p) \in alive
    /\ Cmd(p) \in {"intercept", "release"} \/ Pid(p) = 0 => IsRoot(p)
    /\ (Cmd(p) = "intercept") # SeenOn(Syscall(p))
    /\ call[p].ret = "ok"

\* A start or stop for one pid that passed all checks.
OneAllowed(p) ==
    /\ Passed(p) /\ Cmd(p) \in {"start", "stop"} /\ Pid(p) # 0
    /\ Uid[Pid(p)] = Uid[p] \/ IsRoot(p)

Changes(p) == OneAllowed(p) /\ (Cmd(p) = "start") = (Pid(p) \notin SeenWho(Syscall(p)))

\* What the entry shows when the request is done.
Aim(p, on, all, who) == Shows(Syscall(p), on, all, who, alive)
Done(p) ==
    LET s == Syscall(p)
        q == Pid(p)
    IN  /\ Others(p)
        /\ CASE Cmd(p) = "intercept"        -> Aim(p, TRUE, FALSE, {})
             [] Cmd(p) = "release"          -> Aim(p, FALSE, FALSE, {})
             [] Cmd(p) = "start" /\ q = 0   -> Aim(p, TRUE, TRUE, alive)
             [] Cmd(p) = "start" /\ q # 0   -> Aim(p, TRUE, SeenAll(s), SeenWho(s) \union {q})
             [] Cmd(p) = "stop" /\ q = 0    -> Aim(p, TRUE, FALSE, {})
             [] Cmd(p) = "stop" /\ q # 0    -> Aim(p, TRUE, SeenAll(s), SeenWho(s) \ {q})

\* The pid is in the list, and monitored is not yet 1.
Added(p) ==
    LET s == Syscall(p)
    IN  /\ Others(p) /\ Switched(s, TRUE) /\ ~SeenAll(s)
        /\ Nodes(s, FALSE, SeenWho(s) \union {Pid(p)}, alive)

\* The exiting process has left all lists.
Swept(p) ==
    \A t \in Table : Shows(t, SeenOn(t), SeenAll(t), SeenWho(t) \ {p}, alive \ {p})

Emptied(p) == Others(p) /\ Lists(Syscall(p), FALSE, {}, alive)
Pointing(p, on, to, saved) ==
    LET s == Syscall(p)
    IN  intercepted[s] = on /\ sys_call_table[s] = to /\ f[s] = saved

\* A call that returns has the answer of the service and its effect.
Served(p) ==
    IF Cmd(p) = "call"
    THEN /\ Untouched /\ SeenOn(Syscall(p)) /\ Pid(p) = 0
         /\ call[p].ret = IF p \in SeenWho(Syscall(p)) THEN "logged" ELSE "quiet"
    ELSE /\ Request(p) \in Requests
         /\ call[p].ret = Service!Code(p, Request(p))
         /\ IF call[p].ret = "ok" THEN Passed(p) /\ Done(p) ELSE Untouched

\* With a failing kmalloc nothing is changed.
Failed == KmallocFails /\ Untouched

\* The one call in progress, by what its process does next.
Stage(p) ==
    LET s == Syscall(p)
    IN  /\ p \in alive /\ Cmd(p) # "none"
        /\ pc[p] = "owner" => Untouched /\ Passed(p) /\ Cmd(p) \in {"start", "stop"} /\ Pid(p) # 0
        /\ pc[p] = "mode" => Untouched /\ OneAllowed(p)
        /\ pc[p] = "black" => Untouched /\ OneAllowed(p) /\ monitored[s] = 2
        /\ pc[p] = "list" => Untouched /\ OneAllowed(p) /\ monitored[s] # 2
        /\ pc[p] = "change_black" => Untouched /\ Changes(p) /\ monitored[s] = 2
        /\ pc[p] \in {"lock_pids", "in_pids"} =>
              Untouched /\ (Cmd(p) = "exit" \/ (Changes(p) /\ monitored[s] # 2))
        /\ pc[p] = "unlock_pids" =>
              \/ Cmd(p) = "exit" /\ Swept(p)
              \/ Cmd(p) = "start" /\ Changes(p) /\ Added(p)
              \/ Cmd(p) = "start" /\ call[p].ret = "ENOMEM" /\ Failed
              \/ Cmd(p) = "stop" /\ Changes(p) /\ Done(p)
        /\ pc[p] = "set_some" => Cmd(p) = "start" /\ Changes(p) /\ Added(p)
        /\ pc[p] = "dying" => Cmd(p) = "exit" /\ Swept(p)
        /\ pc[p] \in {"save", "flag", "switch"} => Cmd(p) = "intercept"
        /\ pc[p] \in {"destroy", "restore", "unflag", "unmonitor", "forget"} => Cmd(p) = "release"
        /\ pc[p] \in {"lock_calls", "set_rw", "set_ro", "unlock_calls"} => Cmd(p) \in {"intercept", "release"}
        /\ pc[p] = "save" => Passed(p) /\ Untouched
        /\ pc[p] = "flag" => Passed(p) /\ Emptied(p) /\ Pointing(p, FALSE, "original", "original")
        /\ pc[p] \in {"lock_calls", "set_rw", "switch"} /\ Cmd(p) = "intercept" =>
              Passed(p) /\ Emptied(p) /\ Pointing(p, TRUE, "original", "original")
        /\ pc[p] \in {"lock_calls", "set_rw", "destroy"} /\ Cmd(p) = "release" => Passed(p) /\ Untouched
        /\ pc[p] = "restore" => Passed(p) /\ Emptied(p) /\ Pointing(p, TRUE, "interceptor", "original")
        /\ pc[p] = "unflag" => Passed(p) /\ Emptied(p) /\ Pointing(p, TRUE, "original", "original")
        /\ pc[p] \in {"unmonitor", "forget"} => Passed(p) /\ Emptied(p) /\ Pointing(p, FALSE, "original", "original")
        /\ pc[p] \in {"set_ro", "unlock_calls"} => Passed(p) /\ Done(p)
        /\ pc[p] \in {"clear_all", "destroy_all", "set_all"} => Passed(p) /\ Cmd(p) \in {"start", "stop"} /\ Pid(p) = 0
        /\ pc[p] = "clear_all" => Cmd(p) = "stop" /\ Untouched
        /\ pc[p] = "destroy_all" => Others(p) /\ Switched(s, TRUE)
        /\ pc[p] = "set_all" => Cmd(p) = "start" /\ Emptied(p) /\ Switched(s, TRUE)
        /\ pc[p] \in {"look", "look_black", "look_list", "forward"} =>
              Cmd(p) = "call" /\ Pid(p) = 0 /\ Untouched /\ SeenOn(s)
        /\ pc[p] = "look_black" => monitored[s] = 2
        /\ pc[p] = "look_list" => monitored[s] # 2
        /\ pc[p] = "forward" => call[p].ret = IF p \in SeenWho(s) THEN "logged" ELSE "quiet"
        /\ pc[p] = "return" => Served(p) \/ Failed

SerialInv ==
    /\ status = "up"
    /\ \A t \in Table : sys_call_table[t] # "null"
    /\ SeenOK
    /\ \A p, q \in Procs : pc[p] # "idle" /\ pc[q] # "idle" => p = q
    /\ \A p \in Procs : pc[p] # "idle" => Stage(p)
    /\ Quiet => Untouched

-----------------------------------------------------------------------------
(* Steps of the one call in progress.                                      *)

LEMMA Busy ==
    ASSUME HNext, NEW p \in Procs, pc'[p] # "idle"
    PROVE  UNCHANGED seen
BY DEF HNext, Quiet

\* A step of the call from one point to the next needs only the new stage.
LEMMA Goes ==
    ASSUME TypeOK, SerialInv, NEW p \in Procs, pc[p] # "idle",
           NEW l \in Labels \ {"idle"}, pc' = [pc EXCEPT ![p] = l], UNCHANGED <<alive, status, seen>>,
           \A t \in Table : sys_call_table'[t] # "null",
           Stage(p)'
    PROVE  SerialInv'
<1>1. \A q \in Procs : pc'[q] # "idle" => q = p
  BY DEF TypeOK, SerialInv
<1>2. pc'[p] = l /\ ~Quiet'
  BY DEF TypeOK, Quiet
<1>3. SeenOK'
  BY DEF SerialInv, SeenOK
<1> QED BY <1>1, <1>2, <1>3 DEF SerialInv

\* What stays true while the tables and the call do.
LEMMA Same ==
    ASSUME NEW p, UNCHANGED <<sys_call_table, table, alive, seen>>, call'[p] = call[p]
    PROVE  /\ Untouched' = Untouched /\ Others(p)' = Others(p)
           /\ Passed(p)' = Passed(p) /\ OneAllowed(p)' = OneAllowed(p)
           /\ Changes(p)' = Changes(p) /\ Done(p)' = Done(p) /\ Added(p)' = Added(p)
           /\ Swept(p)' = Swept(p) /\ Emptied(p)' = Emptied(p) /\ Failed' = Failed
           /\ \A on, to, saved : Pointing(p, on, to, saved)' = Pointing(p, on, to, saved)
           /\ \A t, on : Switched(t, on)' = Switched(t, on)
           /\ \A t : /\ monitored'[t] = monitored[t] /\ SeenOn(t)' = SeenOn(t)
                  /\ SeenWho(t)' = SeenWho(t) /\ SeenAll(t)' = SeenAll(t)
<1>1. \A t, on, all, who, live : Shows(t, on, all, who, live)' = Shows(t, on, all, who, live)
  BY DEF Shows, Switched, Lists, Nodes, Listed, table
<1>2. \A t, all, who, live : /\ Nodes(t, all, who, live)' = Nodes(t, all, who, live)
                             /\ Lists(t, all, who, live)' = Lists(t, all, who, live)
  BY DEF Lists, Nodes, Listed, table
<1>3. \A t : /\ monitored'[t] = monitored[t] /\ SeenOn(t)' = SeenOn(t)
             /\ SeenWho(t)' = SeenWho(t) /\ SeenAll(t)' = SeenAll(t)
  BY DEF table, SeenOn, SeenWho, SeenAll
<1>4. \A t : AsSeen(t)' = AsSeen(t)
  BY <1>1, <1>3 DEF AsSeen
<1>5. Untouched' = Untouched /\ Failed' = Failed
  BY <1>4 DEF Untouched, Failed
<1>6. Others(p)' = Others(p)
  BY <1>4 DEF Others, Syscall
<1>7. /\ \A t, on : Switched(t, on)' = Switched(t, on)
      /\ \A on, to, saved : Pointing(p, on, to, saved)' = Pointing(p, on, to, saved)
  BY DEF Switched, Pointing, Syscall, table
<1>8. Passed(p)' = Passed(p) /\ OneAllowed(p)' = OneAllowed(p) /\ Changes(p)' = Changes(p)
  <2>1. Passed(p)' = Passed(p)
    BY <1>3 DEF Passed, Syscall, Cmd, Pid, Request, IsRoot
  <2>2. OneAllowed(p)' = OneAllowed(p)
    BY <2>1 DEF OneAllowed, Cmd, Pid, IsRoot
  <2> QED BY <1>3, <2>1, <2>2 DEF Changes, Cmd, Pid, Syscall
<1>9. Emptied(p)' = Emptied(p) /\ Added(p)' = Added(p) /\ Swept(p)' = Swept(p)
  <2>1. Swept(p)' = Swept(p)
    BY <1>1, <1>3 DEF Swept
  <2>2. Emptied(p)' = Emptied(p)
    BY <1>2, <1>6 DEF Emptied, Syscall
  <2>3. Added(p)' = Added(p)
    BY <1>2, <1>3, <1>6, <1>7 DEF Added, Syscall, Pid
  <2> QED BY <2>1, <2>2, <2>3
<1>10. Done(p)' = Done(p)
  BY <1>1, <1>3, <1>6 DEF Done, Aim, Syscall, Cmd, Pid
<1> QED BY <1>3, <1>5, <1>6, <1>7, <1>8, <1>9, <1>10

\* The steps that neither change the tables nor answer.
LEMMA Reading ==
    ASSUME TypeOK, SerialInv, HNext, NEW p \in Procs,
           \/ ReadMode(p) \/ InterceptorMode(p)
           \/ LockPids(p) \/ LockCalls(p) \/ set_addr_rw(p) \/ set_addr_ro(p)
    PROVE  SerialInv'
<1>1. PICK l \in Labels \ {"idle"} : pc' = [pc EXCEPT ![p] = l] /\ UNCHANGED call
  BY DEF ReadMode, InterceptorMode, LockPids, LockCalls, set_addr_rw, set_addr_ro, Go,
     Labels, InPids, InCalls
<1>2. pc'[p] = l /\ call'[p] = call[p]
  BY <1>1 DEF TypeOK
<1>3. UNCHANGED <<sys_call_table, table, alive, status, seen>>
  BY <1>2, Busy DEF ReadMode, InterceptorMode, LockPids, LockCalls, set_addr_rw, set_addr_ro,
     callTable, rest
<1>4. pc[p] # "idle" /\ Stage(p)
  BY DEF ReadMode, InterceptorMode, LockPids, LockCalls, set_addr_rw, set_addr_ro, At, SerialInv
<1> DEFINE s == Syscall(p)
<1>5. /\ UNCHANGED <<Syscall(p), Cmd(p), Pid(p)>>
  BY <1>2 DEF Syscall, Cmd, Pid
<1>6. Stage(p)'
  <2>1. CASE ReadMode(p)
    <3>1. pc[p] = "mode" /\ l = IF monitored[s] = 2 THEN "black" ELSE "list"
      BY <1>1, <1>2, <2>1 DEF ReadMode, At, Go, TypeOK
    <3>2. Untouched' /\ OneAllowed(p)'
      BY <1>2, <1>3, <1>4, <1>5, <3>1, Same DEF Stage
    <3>3. monitored'[Syscall(p)'] = monitored[s] /\ p \in alive' /\ Cmd(p)' # "none"
      BY <1>3, <1>4, <1>5 DEF table, Stage
    <3>4. CASE monitored[s] = 2
      BY <1>2, <1>5, <3>1, <3>2, <3>3, <3>4 DEF Stage
    <3>5. CASE monitored[s] # 2
      BY <1>2, <1>5, <3>1, <3>2, <3>3, <3>5 DEF Stage
    <3> QED BY <3>4, <3>5
  <2>2. CASE InterceptorMode(p)
    <3>1. pc[p] = "look" /\ l = IF monitored[s] = 2 THEN "look_black" ELSE "look_list"
      BY <1>1, <1>2, <2>2 DEF InterceptorMode, At, Go, TypeOK
    <3>2. Untouched' /\ Cmd(p)' = "call" /\ Pid(p)' = 0 /\ SeenOn(s)'
      BY <1>2, <1>3, <1>4, <1>5, <3>1, Same DEF Stage
    <3>3. monitored'[Syscall(p)'] = monitored[s] /\ p \in alive' /\ Cmd(p)' # "none"
      BY <1>3, <1>4, <1>5 DEF table, Stage
    <3>4. CASE monitored[s] = 2
      BY <1>2, <1>5, <3>1, <3>2, <3>3, <3>4 DEF Stage
    <3>5. CASE monitored[s] # 2
      BY <1>2, <1>5, <3>1, <3>2, <3>3, <3>5 DEF Stage
    <3> QED BY <3>4, <3>5
  <2>3. CASE LockPids(p)
    <3>1. pc[p] = "lock_pids" /\ l = "in_pids"
      BY <1>1, <1>2, <2>3 DEF LockPids, At, Go, TypeOK
    <3>2. Untouched' /\ Changes(p)' = Changes(p) /\ monitored'[Syscall(p)'] = monitored[s]
      BY <1>2, <1>3, <1>4, <1>5, <3>1, Same DEF Stage
    <3> QED BY <1>2, <1>3, <1>4, <1>5, <3>1, <3>2 DEF Stage
  <2>4. CASE LockCalls(p)
    <3>1. pc[p] = "lock_calls" /\ l = "set_rw"
      BY <1>1, <1>2, <2>4 DEF LockCalls, At, Go, TypeOK
    <3>2. /\ Untouched' = Untouched /\ Passed(p)' = Passed(p) /\ Emptied(p)' = Emptied(p)
          /\ Pointing(p, TRUE, "original", "original")' = Pointing(p, TRUE, "original", "original")
      BY <1>2, <1>3, Same
    <3> QED BY <1>2, <1>3, <1>4, <1>5, <3>1, <3>2 DEF Stage
  <2>5. CASE set_addr_rw(p)
    <3>1. pc[p] = "set_rw" /\ l = IF Cmd(p) = "intercept" THEN "switch" ELSE "destroy"
      BY <1>1, <1>2, <2>5 DEF set_addr_rw, At, Go, TypeOK
    <3>2. /\ Untouched' = Untouched /\ Passed(p)' = Passed(p) /\ Emptied(p)' = Emptied(p)
          /\ Pointing(p, TRUE, "original", "original")' = Pointing(p, TRUE, "original", "original")
      BY <1>2, <1>3, Same
    <3>3. p \in alive' /\ Cmd(p) \in {"intercept", "release"}
      BY <1>3, <1>4, <3>1 DEF Stage
    <3>4. CASE Cmd(p) = "intercept"
      BY <1>2, <1>4, <1>5, <3>1, <3>2, <3>3, <3>4 DEF Stage
    <3>5. CASE Cmd(p) = "release"
      BY <1>2, <1>4, <1>5, <3>1, <3>2, <3>3, <3>5 DEF Stage
    <3> QED BY <3>3, <3>4, <3>5
  <2>6. CASE set_addr_ro(p)
    <3>1. pc[p] = "set_ro" /\ l = "unlock_calls"
      BY <1>1, <1>2, <2>6 DEF set_addr_ro, At, Go, TypeOK
    <3> QED BY <1>2, <1>3, <1>4, <1>5, <3>1, Same DEF Stage
  <2> QED BY <2>1, <2>2, <2>3, <2>4, <2>5, <2>6
<1> QED BY <1>1, <1>3, <1>4, <1>6, Goes DEF SerialInv

-----------------------------------------------------------------------------
(* The answers.                                                            *)

\* An answer changes only the answer.
LEMMA Answering ==
    ASSUME TypeOK, NEW p \in Procs, NEW l, NEW code, GoWith(p, l, code)
    PROVE  /\ pc'[p] = l /\ call'[p] = [call[p] EXCEPT !.ret = code] /\ call'[p].ret = code
           /\ UNCHANGED <<Cmd(p), Syscall(p), Pid(p), Request(p)>>
<1>1. pc'[p] = l /\ call'[p] = [call[p] EXCEPT !.ret = code]
  BY DEF TypeOK, GoWith
<1>2. call[p] \in Calls
  BY DEF TypeOK
<1> QED BY <1>1, <1>2 DEF Calls, Cmd, Syscall, Pid, Request

\* What the service answers to a request that passed the first checks.
LEMMA PassedCode ==
    ASSUME TypeOK, SeenOK, NEW p \in Procs, Passed(p)
    PROVE  LET c == Service!Code(p, Request(p))
           IN  /\ Cmd(p) \in {"intercept", "release"} \/ Pid(p) = 0 => c = "ok"
               /\ Cmd(p) \in {"start", "stop"} /\ Pid(p) # 0
                    /\ ~(Uid[Pid(p)] = Uid[p] \/ IsRoot(p)) => c = "EPERM"
               /\ OneAllowed(p) /\ Changes(p) => c = "ok"
               /\ OneAllowed(p) /\ ~Changes(p) => c = IF Cmd(p) = "start" THEN "EBUSY" ELSE "EINVAL"
<1> DEFINE r == Request(p)
           s == Syscall(p)
<1>1. r.cmd = Cmd(p) /\ r.syscall = s /\ r.pid = Pid(p)
  BY DEF Request, Cmd, Syscall, Pid, TypeOK, Calls
<1>2. s \in Numbers /\ seen.alive = alive /\ seen.watched[s] \subseteq alive /\ alive \subseteq Procs
  BY DEF Passed, SeenOK, TypeOK
<1>3. Service!Valid(r)
  BY <1>1, <1>2 DEF Passed, Service!Valid
<1>4. Service!Permitted(p, r) <=> IsRoot(p) \/ (Cmd(p) \in {"start", "stop"} /\ Pid(p) # 0
                                               /\ Uid[Pid(p)] = Uid[p])
  BY <1>1 DEF Service!Permitted, IsRoot
<1>5. SeenWho(s) = seen.watched[s] /\ 0 \notin seen.watched[s]
  <2>1. SeenWho(s) = seen.watched[s]
    BY <1>2 DEF SeenWho
  <2>2. 0 \notin Procs
    BY ProcsAssumption
  <2> HIDE DEF s
  <2> QED BY <1>2, <2>1, <2>2
<1> HIDE DEF r, s
<1>6. /\ s \in seen.intercepted <=> Cmd(p) # "intercept"
      /\ Cmd(p) \in Cmds
      /\ Cmd(p) \in {"intercept", "release"} \/ Pid(p) = 0 => IsRoot(p)
  BY DEF Passed, SeenOn, s
<1>7. CASE Cmd(p) \in {"intercept", "release"} \/ Pid(p) = 0
  <2>1. Service!Code(p, r) = "ok"
    BY <1>1, <1>3, <1>4, <1>5, <1>6, <1>7 DEF Service!Code, Cmds
  <2> QED BY <1>7, <2>1 DEF OneAllowed, r
<1>8. CASE Cmd(p) \in {"start", "stop"} /\ Pid(p) # 0
  <2>1. CASE ~(Uid[Pid(p)] = Uid[p] \/ IsRoot(p))
    <3>1. Service!Code(p, r) = "EPERM"
      <4>1. ~Service!Permitted(p, r) /\ r.cmd \notin {"intercept", "release"} /\ r.cmd # "intercept"
        BY <1>1, <1>4, <1>8, <2>1
      <4>2. r.syscall \in seen.intercepted
        BY <1>1, <1>6, <4>1
      <4> QED BY <1>3, <4>1, <4>2 DEF Service!Code
    <3> QED BY <1>8, <2>1, <3>1 DEF OneAllowed, r
  <2>2. CASE Uid[Pid(p)] = Uid[p] \/ IsRoot(p)
    <3>1. Service!Code(p, r) = IF (Cmd(p) = "start") = (Pid(p) \notin SeenWho(s)) THEN "ok"
                               ELSE IF Cmd(p) = "start" THEN "EBUSY" ELSE "EINVAL"
      BY <1>1, <1>3, <1>4, <1>5, <1>6, <1>8, <2>2 DEF Service!Code
    <3> QED BY <1>8, <2>2, <3>1 DEF OneAllowed, Changes, r, s
  <2> QED BY <2>1, <2>2
<1> QED BY <1>6, <1>7, <1>8 DEF Cmds

\* An answer that the call returns with.
LEMMA ServedNow ==
    ASSUME TypeOK, SerialInv, HNext, NEW p \in Procs, NEW code, GoWith(p, "return", code),
           pc[p] # "idle", Cmd(p) \in Cmds \union {"unknown"},
           UNCHANGED <<sys_call_table, table, alive, status>>,
           Request(p) \in Requests, code = Service!Code(p, Request(p)),
           IF code = "ok" THEN call[p].ret = "ok" /\ Passed(p) /\ Done(p) ELSE Untouched
    PROVE  SerialInv'
<1>1. /\ pc'[p] = "return" /\ call'[p] = [call[p] EXCEPT !.ret = code] /\ call'[p].ret = code
      /\ UNCHANGED <<Cmd(p), Syscall(p), Pid(p), Request(p)>>
  BY Answering
<1>2. UNCHANGED seen
  BY <1>1, Busy
<1>3. Stage(p)
  BY DEF SerialInv
<1>4. Untouched' = Untouched
  <2>1. \A t : AsSeen(t)' = AsSeen(t)
    BY <1>2 DEF AsSeen, SeenOn, SeenAll, SeenWho, Shows, Switched, Lists, Nodes, Listed, table
  <2> QED BY <2>1 DEF Untouched
<1>5. Served(p)'
  <2>1. Request(p)' \in Requests /\ call'[p].ret = (Service!Code(p, Request(p)))'
    BY <1>1, <1>2 DEF Service!Code, Service!Valid, Service!Permitted
  <2>2. CASE code = "ok"
    <3>1. call'[p] = call[p]
      BY <1>1, <2>2 DEF TypeOK, Calls
    <3>2. Passed(p)' /\ Done(p)'
      BY <1>2, <2>2, <3>1, Same
    <3> QED BY <1>1, <2>1, <2>2, <3>2 DEF Served, Cmds
  <2>3. CASE code # "ok"
    BY <1>1, <1>4, <2>1, <2>3 DEF Served, Cmds
  <2> QED BY <2>2, <2>3
<1>6. Stage(p)'
  BY <1>1, <1>3, <1>5 DEF Stage
<1>7. pc' = [pc EXCEPT ![p] = "return"] /\ "return" \in Labels \ {"idle"}
  BY DEF GoWith, Labels
<1> QED BY <1>2, <1>6, <1>7, Goes DEF SerialInv, table

\* What the lists say of one pid.
LEMMA Membership ==
    ASSUME Untouched, NEW t \in Table, NEW q \in Procs
    PROVE  /\ Listed(t, q) <=> q \in alive /\ (IF SeenAll(t) THEN q \notin SeenWho(t) ELSE q \in SeenWho(t))
           /\ (monitored[t] = 2 <=> SeenAll(t))
           /\ Switched(t, SeenOn(t))
BY DEF Untouched, AsSeen, Shows, Lists, Nodes

LEMMA OwnerChecked ==
    ASSUME TypeOK, SerialInv, HNext, NEW p \in Procs, check_pid_from_list(p)
    PROVE  SerialInv'
<1>1. /\ pc[p] = "owner" /\ Untouched /\ Passed(p) /\ Cmd(p) \in {"start", "stop"} /\ Pid(p) # 0
      /\ Stage(p)
  BY DEF check_pid_from_list, At, SerialInv, Stage
<1>2. Pid(p) \in alive /\ Request(p) \in Requests /\ call[p].ret = "ok"
  BY <1>1 DEF Passed
<1>3. UNCHANGED <<sys_call_table, table, alive, status>>
  BY <1>2 DEF check_pid_from_list, callTable, rest
<1>4. CASE Uid[Pid(p)] = Uid[p] \/ IsRoot(p)
  <2>1. Go(p, "mode")
    BY <1>2, <1>4 DEF check_pid_from_list
  <2>2. pc' = [pc EXCEPT ![p] = "mode"] /\ "mode" \in Labels \ {"idle"} /\ call' = call /\ pc'[p] = "mode"
    BY <2>1 DEF Go, TypeOK, Labels
  <2>3. UNCHANGED seen
    BY <2>2, Busy
  <2>4. Untouched' /\ OneAllowed(p)'
    BY <1>1, <1>3, <1>4, <2>2, <2>3, Same DEF OneAllowed
  <2>5. Stage(p)'
    BY <1>1, <1>3, <2>2, <2>4 DEF Stage, Cmd
  <2> QED BY <1>1, <1>3, <2>2, <2>3, <2>5, Goes DEF SerialInv
<1>5. CASE ~(Uid[Pid(p)] = Uid[p] \/ IsRoot(p))
  <2>1. GoWith(p, "return", "EPERM")
    BY <1>2, <1>5 DEF check_pid_from_list, Return
  <2>2. Service!Code(p, Request(p)) = "EPERM"
    BY <1>1, <1>5, PassedCode DEF SerialInv
  <2> QED BY <1>1, <1>2, <1>3, <2>1, <2>2, ServedNow DEF Cmds
<1> QED BY <1>4, <1>5

LEMMA ListSearched ==
    ASSUME TypeOK, SerialInv, HNext, NEW p \in Procs, SearchList(p)
    PROVE  SerialInv'
<1> DEFINE s == Syscall(p)
           q == Pid(p)
           black == pc[p] = "black"
<1>1. /\ pc[p] \in {"black", "list"} /\ Untouched /\ OneAllowed(p) /\ (monitored[s] = 2) = black
      /\ Stage(p)
  BY DEF SearchList, SerialInv, Stage
<1>2. /\ q \in alive /\ q \in Procs /\ s \in Table /\ Request(p) \in Requests /\ call[p].ret = "ok"
      /\ Cmd(p) \in {"start", "stop"} /\ Passed(p)
  BY <1>1 DEF Passed, OneAllowed, Numbers, TypeOK
<1>3. UNCHANGED <<sys_call_table, table, alive, status>>
  BY DEF SearchList, callTable, rest
<1>4. Listed(s, q) <=> IF black THEN q \notin SeenWho(s) ELSE q \in SeenWho(s)
  BY <1>1, <1>2, Membership
<1>5. Listed(s, q) \in BOOLEAN /\ black \in BOOLEAN
  BY DEF Listed
<1>6. /\ Listed(s, q) = black <=> q \notin SeenWho(s)
      /\ Listed(s, q) # black <=> q \in SeenWho(s)
  <2>1. CASE black
    BY <1>4, <1>5, <2>1
  <2>2. CASE ~black
    BY <1>4, <1>5, <2>2
  <2> QED BY <2>1, <2>2
<1>7. /\ Cmd(p) = "start" => (Changes(p) <=> q \notin SeenWho(s))
      /\ Cmd(p) = "stop" => (Changes(p) <=> q \in SeenWho(s))
  BY <1>1 DEF Changes
<1> HIDE DEF s, q, black
<1>8. CASE Changes(p)
  <2>1. Go(p, IF black THEN "change_black" ELSE "lock_pids")
    <3>1. ~ (Cmd(p) = "start" /\ Listed(s, q) # black) /\ ~ (Cmd(p) = "stop" /\ Listed(s, q) = black)
      BY <1>2, <1>6, <1>7, <1>8
    <3> QED BY <3>1 DEF SearchList, s, q, black
  <2>2. PICK l \in {"change_black", "lock_pids"} :
            pc' = [pc EXCEPT ![p] = l] /\ call' = call /\ l = IF black THEN "change_black" ELSE "lock_pids"
    BY <2>1 DEF Go
  <2>3. pc'[p] = l /\ l \in Labels \ {"idle"}
    BY <2>2 DEF TypeOK, Labels
  <2>4. UNCHANGED seen
    BY <2>3, Busy
  <2>5. Untouched' /\ Changes(p)' /\ monitored'[Syscall(p)'] = monitored[s] /\ p \in alive'
        /\ Cmd(p)' = Cmd(p)
    BY <1>1, <1>3, <1>8, <2>2, <2>4, Same DEF Syscall, Cmd, table, s, Stage
  <2>6. Stage(p)'
    <3>1. CASE l = "change_black"
      BY <1>1, <1>2, <2>2, <2>3, <2>5, <3>1 DEF Stage
    <3>2. CASE l = "lock_pids"
      BY <1>1, <1>2, <2>2, <2>3, <2>5, <3>2 DEF Stage
    <3> QED BY <3>1, <3>2
  <2> QED BY <1>1, <1>3, <2>2, <2>3, <2>4, <2>6, Goes DEF SerialInv
<1>9. CASE ~Changes(p)
  <2>1. GoWith(p, "return", IF Cmd(p) = "start" THEN "EBUSY" ELSE "EINVAL")
    <3>1. CASE Cmd(p) = "start"
      <4>1. Listed(s, q) # black
        BY <1>6, <1>7, <1>9, <3>1
      <4> QED BY <3>1, <4>1 DEF SearchList, Return, s, q, black
    <3>2. CASE Cmd(p) = "stop"
      <4>1. Listed(s, q) = black
        BY <1>6, <1>7, <1>9, <3>2
      <4> QED BY <3>2, <4>1 DEF SearchList, Return, s, q, black
    <3> QED BY <1>2, <3>1, <3>2
  <2>2. Service!Code(p, Request(p)) = IF Cmd(p) = "start" THEN "EBUSY" ELSE "EINVAL"
    BY <1>1, <1>2, <1>9, PassedCode DEF SerialInv
  <2>3. (IF Cmd(p) = "start" THEN "EBUSY" ELSE "EINVAL") # "ok"
    OBVIOUS
  <2> QED BY <1>1, <1>2, <1>3, <2>1, <2>2, <2>3, ServedNow DEF Cmds
<1> QED BY <1>8, <1>9

\* An intercepted call is logged as the service says, and finds the original.
LEMMA CallLogged ==
    ASSUME TypeOK, SerialInv, HNext, NEW p \in Procs, InterceptorLog(p)
    PROVE  SerialInv'
<1> DEFINE s == Syscall(p)
           code == IF p \in SeenWho(s) THEN "logged" ELSE "quiet"
<1>1. /\ pc[p] \in {"look_black", "look_list"} /\ Untouched /\ Cmd(p) = "call" /\ Pid(p) = 0
      /\ SeenOn(s) /\ (monitored[s] = 2) = (pc[p] = "look_black") /\ p \in alive /\ Stage(p)
  BY DEF InterceptorLog, SerialInv, Stage
<1>2. s \in Table
  BY <1>1 DEF SeenOn, SerialInv, SeenOK, Numbers
<1>3. Listed(s, p) = (pc[p] = "look_list") <=> p \in SeenWho(s)
  <2>1. Listed(s, p) \in BOOLEAN
    BY DEF Listed
  <2>2. CASE pc[p] = "look_black"
    BY <1>1, <1>2, <2>1, <2>2, Membership
  <2>3. CASE pc[p] = "look_list"
    BY <1>1, <1>2, <2>1, <2>3, Membership
  <2> QED BY <1>1, <2>2, <2>3
<1>4. UNCHANGED <<sys_call_table, table, alive, status>>
  BY DEF InterceptorLog, callTable, rest
<1>5. GoWith(p, "forward", code)
  BY <1>3 DEF InterceptorLog
<1> HIDE DEF code
<1>6. pc'[p] = "forward" /\ call'[p].ret = code /\ UNCHANGED <<Cmd(p), Syscall(p), Pid(p)>>
  BY <1>5, Answering
<1>7. UNCHANGED seen
  BY <1>6, Busy
<1>8. Untouched'
  <2>1. \A t : AsSeen(t)' = AsSeen(t)
    BY <1>4, <1>7 DEF AsSeen, SeenOn, SeenAll, SeenWho, Shows, Switched, Lists, Nodes, Listed, table
  <2> QED BY <1>1, <2>1 DEF Untouched
<1>9. Stage(p)'
  <2>1. SeenOn(s)' /\ code = IF p \in SeenWho(s)' THEN "logged" ELSE "quiet"
    BY <1>1, <1>6, <1>7 DEF SeenOn, SeenWho, code
  <2> QED BY <1>1, <1>4, <1>6, <1>8, <2>1 DEF Stage
<1>10. pc' = [pc EXCEPT ![p] = "forward"] /\ "forward" \in Labels \ {"idle"}
  BY <1>5 DEF GoWith, Labels
<1> QED BY <1>1, <1>4, <1>7, <1>9, <1>10, Goes DEF SerialInv

LEMMA CallForwarded ==
    ASSUME TypeOK, SerialInv, HNext, NEW p \in Procs, Forward(p)
    PROVE  SerialInv'
<1> DEFINE s == Syscall(p)
<1>1. /\ pc[p] = "forward" /\ Untouched /\ Cmd(p) = "call" /\ Pid(p) = 0 /\ SeenOn(s) /\ Stage(p)
      /\ call[p].ret = IF p \in SeenWho(s) THEN "logged" ELSE "quiet"
  BY DEF Forward, At, SerialInv, Stage
<1>2. f[s] = "original"
  <2>1. s \in Table
    BY <1>1 DEF SeenOn, SerialInv, SeenOK, Numbers
  <2> QED BY <1>1, <2>1 DEF Untouched, AsSeen, Shows, Switched
<1>3. Go(p, "return") /\ UNCHANGED <<sys_call_table, table, alive, status>>
  BY <1>2 DEF Forward, callTable, rest
<1>4. pc' = [pc EXCEPT ![p] = "return"] /\ pc'[p] = "return" /\ call' = call /\ "return" \in Labels \ {"idle"}
  BY <1>3 DEF Go, TypeOK, Labels
<1>5. UNCHANGED seen
  BY <1>4, Busy
<1>6. Served(p)'
  <2>1. Untouched'
    BY <1>1, <1>3, <1>4, <1>5, Same
  <2> QED BY <1>1, <1>4, <1>5, <2>1 DEF Served, Cmd, Syscall, Pid, SeenOn, SeenWho
<1>7. Stage(p)'
  BY <1>1, <1>3, <1>4, <1>6 DEF Stage, Cmd
<1> QED BY <1>1, <1>3, <1>4, <1>5, <1>7, Goes DEF SerialInv

\* The ends of the critical sections.
LEMMA PidsUnlocked ==
    ASSUME TypeOK, SerialInv, HNext, NEW p \in Procs, UnlockPids(p)
    PROVE  SerialInv'
<1> DEFINE s == Syscall(p)
<1>1. pc[p] = "unlock_pids" /\ Stage(p)
  BY DEF UnlockPids, At, SerialInv
<1>2. UNCHANGED <<sys_call_table, table, alive, status>>
  BY DEF UnlockPids, callTable, rest
<1>3. PICK l \in {"dying", "set_some", "return"} :
         /\ l = CASE Cmd(p) = "exit" -> "dying"
                  [] Cmd(p) = "start" /\ call[p].ret = "ok" -> "set_some"
                  [] OTHER -> "return"
         /\ pc' = [pc EXCEPT ![p] = l] /\ call' = call
  BY DEF UnlockPids, Go
<1>4. pc'[p] = l /\ l \in Labels \ {"idle"}
  BY <1>3 DEF TypeOK, Labels
<1>5. UNCHANGED seen
  BY <1>4, Busy
<1>6. /\ Swept(p)' = Swept(p) /\ Changes(p)' = Changes(p) /\ Added(p)' = Added(p)
      /\ Untouched' = Untouched /\ Passed(p)' = Passed(p) /\ Done(p)' = Done(p) /\ Failed' = Failed
      /\ Cmd(p)' = Cmd(p) /\ p \in alive' /\ Cmd(p) # "none"
  BY <1>1, <1>2, <1>3, <1>5, Same DEF Cmd, Stage
<1>7. Stage(p)'
  <2>1. CASE Cmd(p) = "exit"
    <3>1. l = "dying" /\ Swept(p)
      BY <1>1, <1>3, <2>1 DEF Stage
    <3> QED BY <1>4, <1>6, <2>1, <3>1 DEF Stage
  <2>2. CASE Cmd(p) = "start" /\ Changes(p) /\ Added(p)
    <3>1. l = "set_some"
      BY <1>3, <2>2 DEF Changes, OneAllowed, Passed
    <3> QED BY <1>4, <1>6, <2>2, <3>1 DEF Stage
  <2>3. CASE Cmd(p) = "start" /\ call[p].ret = "ENOMEM" /\ Failed
    <3>1. l = "return"
      BY <1>3, <2>3
    <3> QED BY <1>4, <1>6, <2>3, <3>1 DEF Stage
  <2>4. CASE Cmd(p) = "stop" /\ Changes(p) /\ Done(p)
    <3>1. l = "return" /\ Passed(p) /\ OneAllowed(p)
      BY <1>3, <2>4 DEF Changes, OneAllowed
    <3>2. Service!Code(p, Request(p)) = "ok"
      BY <2>4, <3>1, PassedCode DEF SerialInv
    <3>3. Served(p)
      BY <2>4, <3>1, <3>2 DEF Served, Passed
    <3>4. Served(p)'
      <4>1. Request(p)' = Request(p) /\ call'[p] = call[p]
        BY <1>3 DEF Request
      <4>2. (Service!Code(p, Request(p)))' = Service!Code(p, Request(p))
        BY <1>2, <1>5, <4>1 DEF Service!Code, Service!Valid, Service!Permitted
      <4> QED BY <1>6, <2>4, <3>3, <4>1, <4>2 DEF Served
    <3> QED BY <1>4, <1>6, <3>1, <3>4 DEF Stage
  <2> QED BY <1>1, <2>1, <2>2, <2>3, <2>4 DEF Stage
<1> QED BY <1>1, <1>2, <1>3, <1>4, <1>5, <1>7, Goes DEF SerialInv

LEMMA CallsUnlocked ==
    ASSUME TypeOK, SerialInv, HNext, NEW p \in Procs, UnlockCalls(p)
    PROVE  SerialInv'
<1>1. /\ pc[p] = "unlock_calls" /\ Passed(p) /\ Done(p) /\ Cmd(p) \in {"intercept", "release"}
  BY DEF UnlockCalls, At, SerialInv, Stage
<1>2. GoWith(p, "return", "ok") /\ UNCHANGED <<sys_call_table, table, alive, status>>
  BY DEF UnlockCalls, Return, rest
<1>3. Service!Code(p, Request(p)) = "ok"
  BY <1>1, PassedCode DEF SerialInv
<1> QED BY <1>1, <1>2, <1>3, ServedNow DEF Cmds, Passed

-----------------------------------------------------------------------------
(* The stores to the entry of the call.                                    *)

\* A step that touches only the entry of its system call.
LEMMA Works ==
    ASSUME TypeOK, SerialInv, HNext, NEW p \in Procs, NEW l \in Labels \ {"idle"},
           pc[p] # "idle", Go(p, l), UNCHANGED <<alive, status>>,
           \A t \in Table : sys_call_table'[t] # "null",
           \A t \in Table \ {Syscall(p)} :
               /\ sys_call_table'[t] = sys_call_table[t] /\ f'[t] = f[t]
               /\ intercepted'[t] = intercepted[t]
               /\ monitored'[t] = monitored[t] /\ my_list'[t] = my_list[t]
    PROVE  /\ pc'[p] = l /\ call' = call /\ seen' = seen
           /\ p \in alive' /\ Cmd(p)' # "none"
           /\ UNCHANGED <<Cmd(p), Syscall(p), Pid(p), Request(p), SeenOn(Syscall(p)),
                          SeenAll(Syscall(p)), SeenWho(Syscall(p))>>
           /\ Others(p) => Others(p)'
           /\ Passed(p)' = Passed(p) /\ OneAllowed(p)' = OneAllowed(p) /\ Changes(p)' = Changes(p)
           /\ Stage(p)' => SerialInv'
<1>1. pc' = [pc EXCEPT ![p] = l] /\ pc'[p] = l /\ call' = call
  BY DEF Go, TypeOK
<1>2. seen' = seen
  BY <1>1, Busy
<1>3. UNCHANGED <<Cmd(p), Syscall(p), Pid(p), Request(p)>>
  BY <1>1 DEF Cmd, Syscall, Pid, Request
<1>4. \A t : SeenOn(t)' = SeenOn(t) /\ SeenAll(t)' = SeenAll(t) /\ SeenWho(t)' = SeenWho(t)
  BY <1>2 DEF SeenOn, SeenAll, SeenWho
<1>5. p \in alive /\ Cmd(p) # "none"
  BY DEF SerialInv, Stage
<1>6. Others(p) => Others(p)'
  <2>1. ASSUME NEW t \in Table \ {Syscall(p)}, AsSeen(t) PROVE AsSeen(t)'
    BY <1>4, <2>1 DEF AsSeen, Shows, Switched, Lists, Nodes, Listed
  <2> QED BY <1>3, <2>1 DEF Others
<1>7. Passed(p)' = Passed(p)
  BY <1>3, <1>4, <1>1 DEF Passed, IsRoot
<1>8. OneAllowed(p)' = OneAllowed(p)
  BY <1>3, <1>7 DEF OneAllowed, IsRoot
<1>9. Changes(p)' = Changes(p)
  BY <1>3, <1>4, <1>8 DEF Changes
<1>10. Stage(p)' => SerialInv'
  BY <1>1, <1>2, Goes
<1> QED BY <1>1, <1>2, <1>3, <1>4, <1>5, <1>6, <1>7, <1>8, <1>9, <1>10

\* An entry of a request that passed the checks, before the first change.
LEMMA Before ==
    ASSUME SerialInv, NEW p \in Procs, Passed(p), Untouched
    PROVE  LET s == Syscall(p)
           IN  /\ s \in Table /\ Others(p)
               /\ Cmd(p) = "intercept" => Emptied(p) /\ Switched(s, FALSE)
               /\ Cmd(p) # "intercept" => Switched(s, TRUE)
               /\ Lists(s, SeenAll(s), SeenWho(s), alive)
<1>1. Syscall(p) \in Numbers /\ Syscall(p) \in Table /\ (Cmd(p) = "intercept") = ~SeenOn(Syscall(p))
  BY DEF Passed, Numbers, SeenOn
<1>2. AsSeen(Syscall(p)) /\ Others(p)
  BY <1>1 DEF Untouched, Others
<1>3. CASE Cmd(p) = "intercept"
  <2>1. ~SeenOn(Syscall(p))
    BY <1>1, <1>3
  <2>2. SeenAll(Syscall(p)) = FALSE /\ SeenWho(Syscall(p)) = {}
    BY <1>1, <2>1 DEF SerialInv, SeenOK, SeenOn, SeenAll, SeenWho
  <2>3. SeenOn(Syscall(p)) = FALSE
    BY <2>1 DEF SeenOn
  <2> QED BY <1>1, <1>2, <1>3, <2>2, <2>3 DEF AsSeen, Shows, Emptied
<1>4. CASE Cmd(p) # "intercept"
  <2>1. SeenOn(Syscall(p)) = TRUE
    BY <1>1, <1>4 DEF SeenOn
  <2> QED BY <1>1, <1>2, <1>4, <2>1 DEF AsSeen, Shows
<1> QED BY <1>3, <1>4

\* A store to a pointer or the flag of the entry leaves the list empty.
LEMMA StillEmpty ==
    ASSUME NEW p, Emptied(p), Others(p)', UNCHANGED <<monitored, my_list, alive, Syscall(p)>>
    PROVE  Emptied(p)'
BY DEF Emptied, Lists, Nodes, Listed

LEMMA Intercepting ==
    ASSUME TypeOK, SerialInv, HNext, NEW p \in Procs,
           SaveOriginal(p) \/ FlagIntercepted(p) \/ SwitchToInterceptor(p)
    PROVE  SerialInv'
<1> DEFINE s == Syscall(p)
<1>1. /\ pc[p] \in {"save", "flag", "switch"} /\ Stage(p) /\ Cmd(p) = "intercept" /\ Passed(p)
      /\ s \in Table
  BY DEF SaveOriginal, FlagIntercepted, SwitchToInterceptor, At, SerialInv, Stage, Passed, Numbers
<1>2. Emptied(p) /\ Others(p) /\ sys_call_table[s] = "original"
  BY <1>1, Before DEF Stage, Switched, Emptied, Pointing
<1>3. UNCHANGED <<monitored, my_list, alive, status>>
  BY DEF SaveOriginal, FlagIntercepted, SwitchToInterceptor, table, rest
<1>4. CASE SaveOriginal(p)
  <2>1. Go(p, "flag") /\ "flag" \in Labels \ {"idle"} /\ pc[p] = "save"
    BY <1>4 DEF SaveOriginal, At, Labels
  <2>2. UNCHANGED <<sys_call_table, intercepted>> /\ f' = [f EXCEPT ![s] = "original"]
    BY <1>2, <1>4 DEF SaveOriginal, callTable
  <2>3. /\ pc'[p] = "flag" /\ p \in alive' /\ Cmd(p)' # "none" /\ Cmd(p)' = Cmd(p)
        /\ Syscall(p)' = s /\ Others(p)' /\ Passed(p)' /\ (Stage(p)' => SerialInv')
    BY <1>1, <1>2, <1>3, <2>1, <2>2, Works DEF TypeOK, SerialInv
  <2>4. Emptied(p)'
    BY <1>2, <1>3, <2>3, StillEmpty
  <2>5. Pointing(p, FALSE, "original", "original")'
    <3>1. intercepted[s] = FALSE
      BY <1>1, <2>1, Before DEF Stage, Switched
    <3> QED BY <1>1, <1>2, <2>2, <2>3, <3>1 DEF Pointing, TypeOK
  <2> QED BY <1>1, <2>3, <2>4, <2>5 DEF Stage
<1>5. CASE FlagIntercepted(p)
  <2>1. Go(p, "lock_calls") /\ "lock_calls" \in Labels \ {"idle"} /\ pc[p] = "flag"
    BY <1>5 DEF FlagIntercepted, At, Labels
  <2>2. UNCHANGED <<sys_call_table, f>> /\ intercepted' = [intercepted EXCEPT ![s] = TRUE]
    BY <1>5 DEF FlagIntercepted, callTable
  <2>3. /\ pc'[p] = "lock_calls" /\ p \in alive' /\ Cmd(p)' # "none" /\ Cmd(p)' = Cmd(p)
        /\ Syscall(p)' = s /\ Others(p)' /\ Passed(p)' /\ (Stage(p)' => SerialInv')
    BY <1>1, <1>2, <1>3, <2>1, <2>2, Works DEF TypeOK, SerialInv
  <2>4. Emptied(p)'
    BY <1>2, <1>3, <2>3, StillEmpty
  <2>5. Pointing(p, TRUE, "original", "original")'
    <3>1. Pointing(p, FALSE, "original", "original")
      BY <1>1, <2>1 DEF Stage
    <3> QED BY <1>1, <2>2, <2>3, <3>1 DEF Pointing, TypeOK
  <2> QED BY <1>1, <2>3, <2>4, <2>5 DEF Stage
<1>6. CASE SwitchToInterceptor(p)
  <2>1. Go(p, "set_ro") /\ "set_ro" \in Labels \ {"idle"} /\ pc[p] = "switch"
    BY <1>6 DEF SwitchToInterceptor, At, InCalls, Labels
  <2>2. UNCHANGED <<intercepted, f>> /\ sys_call_table' = [sys_call_table EXCEPT ![s] = "interceptor"]
    BY <1>6 DEF SwitchToInterceptor, table
  <2>3. /\ pc'[p] = "set_ro" /\ p \in alive' /\ Cmd(p)' # "none" /\ Cmd(p)' = Cmd(p)
        /\ Syscall(p)' = s /\ Others(p)' /\ Passed(p)' /\ (Stage(p)' => SerialInv')
    BY <1>1, <1>2, <1>3, <2>1, <2>2, Works DEF TypeOK, SerialInv
  <2>4. Emptied(p)'
    BY <1>2, <1>3, <2>3, StillEmpty
  <2>5. Switched(s, TRUE)'
    <3>1. Pointing(p, TRUE, "original", "original")
      BY <1>1, <2>1 DEF Stage
    <3>2. /\ sys_call_table'[s] = "interceptor" /\ intercepted'[s] = intercepted[s] /\ f'[s] = f[s]
      BY <1>1, <2>2 DEF TypeOK
    <3> QED BY <2>3, <3>1, <3>2 DEF Pointing, Switched
  <2>6. Done(p)'
    BY <1>1, <2>3, <2>4, <2>5 DEF Done, Aim, Shows, Emptied
  <2> QED BY <1>1, <2>3, <2>6 DEF Stage
<1> QED BY <1>4, <1>5, <1>6

\* An emptied list is empty whatever it was.
LEMMA DestroyedList ==
    ASSUME TypeOK, NEW s \in Table, destroy_list(s)
    PROVE  /\ \A live : Lists(s, FALSE, {}, live)'
           /\ UNCHANGED <<f, intercepted>>
           /\ \A t \in Table \ {s} : monitored'[t] = monitored[t] /\ my_list'[t] = my_list[t]
<1>1. \A q \in Procs : my_list'[s][q] = 0
  BY DEF destroy_list, TypeOK
<1>2. monitored'[s] = 0
  BY DEF destroy_list, TypeOK
<1>3. \A live : Lists(s, FALSE, {}, live)'
  BY <1>1, <1>2 DEF Lists, Nodes, Listed
<1>4. UNCHANGED <<f, intercepted>>
      /\ \A t \in Table \ {s} : monitored'[t] = monitored[t] /\ my_list'[t] = my_list[t]
  BY DEF destroy_list, TypeOK
<1> QED BY <1>3, <1>4

LEMMA DestroyedHere ==
    ASSUME TypeOK, NEW p \in Procs, Syscall(p) \in Table, destroy_list(Syscall(p)), call' = call
    PROVE  /\ UNCHANGED <<f, intercepted>> /\ Lists(Syscall(p), FALSE, {}, alive)'
           /\ \A t \in Table \ {Syscall(p)} : monitored'[t] = monitored[t] /\ my_list'[t] = my_list[t]
<1>1. PICK x \in Table : x = Syscall(p)
  OBVIOUS
<1>2. Syscall(p)' = x /\ Lists(x, FALSE, {}, alive)'
  BY <1>1, DestroyedList DEF Syscall
<1>3. Lists(Syscall(p), FALSE, {}, alive)'
  BY <1>2 DEF Lists, Nodes, Listed
<1> QED BY <1>1, <1>3, DestroyedList

LEMMA Releasing ==
    ASSUME TypeOK, SerialInv, HNext, NEW p \in Procs,
           \/ ReleaseList(p) \/ RestoreOriginal(p) \/ ClearIntercepted(p)
           \/ (ClearMonitored(p) /\ pc[p] = "unmonitor") \/ ForgetOriginal(p)
    PROVE  SerialInv'
<1> DEFINE s == Syscall(p)
<1>1. /\ pc[p] \in {"destroy", "restore", "unflag", "unmonitor", "forget"} /\ Stage(p)
      /\ Cmd(p) = "release" /\ Passed(p) /\ s \in Table
  BY DEF ReleaseList, RestoreOriginal, ClearIntercepted, ForgetOriginal, At, SerialInv,
     Stage, Passed, Numbers
<1>2. Others(p)
  BY <1>1, Before DEF Stage, Emptied
<1>3. CASE ReleaseList(p)
  <2>1. Go(p, "restore") /\ "restore" \in Labels \ {"idle"} /\ pc[p] = "destroy"
        /\ UNCHANGED <<sys_call_table, alive, status>> /\ destroy_list(s)
    BY <1>3 DEF ReleaseList, At, InCalls, Labels, callTable, rest
  <2>2. Syscall(p)' = s
    BY <2>1 DEF Go, Syscall
  <2>3. /\ UNCHANGED <<f, intercepted>> /\ Lists(s, FALSE, {}, alive)'
        /\ \A t \in Table \ {s} : monitored'[t] = monitored[t] /\ my_list'[t] = my_list[t]
    BY <1>1, <2>1, DestroyedHere DEF Go
  <2>4. /\ pc'[p] = "restore" /\ p \in alive' /\ Cmd(p)' # "none" /\ Cmd(p)' = Cmd(p)
        /\ Others(p)' /\ Passed(p)' /\ (Stage(p)' => SerialInv')
    BY <1>1, <1>2, <2>1, <2>3, Works DEF TypeOK, SerialInv
  <2>5. Pointing(p, TRUE, "interceptor", "original")'
    <3>1. Switched(s, TRUE)
      BY <1>1, <2>1, Before DEF Stage
    <3> QED BY <2>1, <2>2, <2>3, <3>1 DEF Pointing, Switched
  <2> QED BY <1>1, <2>3, <2>4, <2>5 DEF Stage, Emptied
<1>4. CASE ~ReleaseList(p)
  <2>1. /\ UNCHANGED <<my_list, alive, status>> /\ Emptied(p) /\ f[s] = "original"
        /\ pc[p] \in {"restore", "unflag", "unmonitor", "forget"}
    <3>1. UNCHANGED <<my_list, alive, status>> /\ pc[p] \in {"restore", "unflag", "unmonitor", "forget"}
      BY <1>4 DEF RestoreOriginal, ClearIntercepted, ClearMonitored, ForgetOriginal, table, rest, At
    <3> QED BY <1>1, <3>1 DEF Stage, Pointing
  <2>2. UNCHANGED monitored
    <3>1. CASE ClearMonitored(p)
      <4>1. monitored' = [monitored EXCEPT ![s] = 0]
        BY <3>1 DEF ClearMonitored
      <4>2. monitored[s] = 0
        <5>1. Lists(s, FALSE, {}, alive)
          BY <2>1 DEF Emptied
        <5>2. \A q \in Procs : ~Listed(s, q)
          BY <5>1 DEF Lists, Nodes
        <5>3. monitored[s] # 2 /\ monitored[s] # 1 /\ monitored[s] \in {0, 1, 2}
          BY <1>1, <5>1, <5>2 DEF Lists, TypeOK
        <5> QED BY <5>3
      <4> QED BY <4>1, <4>2 DEF TypeOK
    <3> QED BY <1>4, <3>1 DEF RestoreOriginal, ClearIntercepted, ForgetOriginal, table
  <2>3. CASE RestoreOriginal(p)
    <3>1. Go(p, "unflag") /\ "unflag" \in Labels \ {"idle"} /\ pc[p] = "restore"
      BY <2>3 DEF RestoreOriginal, At, InCalls, Labels
    <3>2. UNCHANGED <<intercepted, f>> /\ sys_call_table' = [sys_call_table EXCEPT ![s] = "original"]
      BY <2>1, <2>3 DEF RestoreOriginal, table
    <3>3. /\ pc'[p] = "unflag" /\ p \in alive' /\ Cmd(p)' # "none" /\ Cmd(p)' = Cmd(p)
          /\ Syscall(p)' = s /\ Others(p)' /\ Passed(p)' /\ (Stage(p)' => SerialInv')
      BY <1>1, <1>2, <2>1, <2>2, <3>1, <3>2, Works DEF TypeOK, SerialInv
    <3>4. Emptied(p)'
      BY <2>1, <2>2, <3>3, StillEmpty
    <3>5. Pointing(p, TRUE, "original", "original")'
      <4>1. Pointing(p, TRUE, "interceptor", "original")
        BY <1>1, <3>1 DEF Stage
      <4> QED BY <1>1, <3>2, <3>3, <4>1 DEF Pointing, TypeOK
    <3> QED BY <1>1, <3>3, <3>4, <3>5 DEF Stage
  <2>4. CASE ClearIntercepted(p)
    <3>1. Go(p, "unmonitor") /\ "unmonitor" \in Labels \ {"idle"} /\ pc[p] = "unflag"
      BY <2>4 DEF ClearIntercepted, At, InCalls, Labels
    <3>2. UNCHANGED <<sys_call_table, f>> /\ intercepted' = [intercepted EXCEPT ![s] = FALSE]
      BY <2>1, <2>4 DEF ClearIntercepted, callTable
    <3>3. /\ pc'[p] = "unmonitor" /\ p \in alive' /\ Cmd(p)' # "none" /\ Cmd(p)' = Cmd(p)
          /\ Syscall(p)' = s /\ Others(p)' /\ Passed(p)' /\ (Stage(p)' => SerialInv')
      BY <1>1, <1>2, <2>1, <2>2, <3>1, <3>2, Works DEF TypeOK, SerialInv
    <3>4. Emptied(p)'
      BY <2>1, <2>2, <3>3, StillEmpty
    <3>5. Pointing(p, FALSE, "original", "original")'
      <4>1. Pointing(p, TRUE, "original", "original")
        BY <1>1, <3>1 DEF Stage
      <4> QED BY <1>1, <3>2, <3>3, <4>1 DEF Pointing, TypeOK
    <3> QED BY <1>1, <3>3, <3>4, <3>5 DEF Stage
  <2>5. CASE ClearMonitored(p) /\ pc[p] = "unmonitor"
    <3>1. Go(p, "forget") /\ "forget" \in Labels \ {"idle"}
      BY <2>5 DEF ClearMonitored, At, InCalls, Labels
    <3>2. UNCHANGED <<sys_call_table, f, intercepted>>
      BY <2>5 DEF ClearMonitored, callTable
    <3>3. /\ pc'[p] = "forget" /\ p \in alive' /\ Cmd(p)' # "none" /\ Cmd(p)' = Cmd(p)
          /\ Syscall(p)' = s /\ Others(p)' /\ Passed(p)' /\ (Stage(p)' => SerialInv')
      BY <1>1, <1>2, <2>1, <2>2, <2>5, <3>1, <3>2, Works DEF SerialInv
    <3>4. Emptied(p)'
      BY <2>1, <2>2, <3>3, StillEmpty
    <3>5. Pointing(p, FALSE, "original", "original")'
      <4>1. Pointing(p, FALSE, "original", "original")
        BY <1>1, <2>5 DEF Stage
      <4> QED BY <3>2, <3>3, <4>1 DEF Pointing
    <3> QED BY <1>1, <3>3, <3>4, <3>5 DEF Stage
  <2>6. CASE ForgetOriginal(p)
    <3>1. Go(p, "set_ro") /\ "set_ro" \in Labels \ {"idle"} /\ pc[p] = "forget"
      BY <2>6 DEF ForgetOriginal, At, InCalls, Labels
    <3>2. UNCHANGED <<sys_call_table, intercepted>> /\ f' = [f EXCEPT ![s] = "null"]
      BY <2>6 DEF ForgetOriginal, callTable
    <3>3. /\ pc'[p] = "set_ro" /\ p \in alive' /\ Cmd(p)' # "none" /\ Cmd(p)' = Cmd(p)
          /\ Syscall(p)' = s /\ Others(p)' /\ Passed(p)' /\ (Stage(p)' => SerialInv')
      BY <1>1, <1>2, <2>1, <2>2, <3>1, <3>2, Works DEF TypeOK, SerialInv
    <3>4. Emptied(p)'
      BY <2>1, <2>2, <3>3, StillEmpty
    <3>5. Switched(s, FALSE)'
      <4>1. Pointing(p, FALSE, "original", "original")
        BY <1>1, <3>1 DEF Stage
      <4>2. /\ f'[s] = "null" /\ intercepted'[s] = intercepted[s]
            /\ sys_call_table'[s] = sys_call_table[s]
        BY <1>1, <3>2 DEF TypeOK
      <4> QED BY <3>3, <4>1, <4>2 DEF Pointing, Switched
    <3>6. Done(p)'
      BY <1>1, <3>3, <3>4, <3>5 DEF Done, Aim, Shows, Emptied
    <3> QED BY <1>1, <3>3, <3>6 DEF Stage
  <2> QED BY <1>4, <2>3, <2>4, <2>5, <2>6
<1> QED BY <1>3, <1>4

-----------------------------------------------------------------------------
(* The list operations.                                                    *)

LEMMA NodeAdded ==
    ASSUME TypeOK, NEW s \in Table, NEW q \in Procs, NEW all, NEW who, NEW live, q \in live,
           Nodes(s, all, who, live), ~Listed(s, q), add_pid_sysc(q, s)
    PROVE  /\ Nodes(s, all, IF all THEN who \ {q} ELSE who \union {q}, live)'
           /\ UNCHANGED <<f, intercepted, monitored>>
           /\ \A t \in Table \ {s} : my_list'[t] = my_list[t]
<1>1. my_list[s][q] = 0
  BY DEF Nodes, Listed
<1>2. /\ my_list'[s][q] = 1 /\ \A x \in Procs \ {q} : my_list'[s][x] = my_list[s][x]
      /\ \A t \in Table \ {s} : my_list'[t] = my_list[t]
  BY <1>1 DEF add_pid_sysc, TypeOK
<1>3. Nodes(s, all, IF all THEN who \ {q} ELSE who \union {q}, live)'
  BY <1>2 DEF Nodes, Listed
<1> QED BY <1>2, <1>3 DEF add_pid_sysc

LEMMA NodeRemoved ==
    ASSUME TypeOK, NEW s \in Table, NEW q \in Procs, NEW all, NEW who, NEW live,
           Lists(s, all, who, live), Listed(s, q), del_pid_sysc(q, s)
    PROVE  /\ Lists(s, all, IF all THEN who \union {q} ELSE who \ {q}, live)'
           /\ UNCHANGED <<f, intercepted>>
           /\ \A t \in Table \ {s} : monitored'[t] = monitored[t] /\ my_list'[t] = my_list[t]
<1> DEFINE lists == [my_list EXCEPT ![s][q] = my_list[s][q] - 1]
<1>1. my_list[s][q] = 1
  BY DEF Lists, Nodes, Listed
<1>2. my_list' = lists /\ monitored' = [monitored EXCEPT ![s] = StillMonitored(lists, s)]
      /\ UNCHANGED <<f, intercepted>>
  BY DEF del_pid_sysc
<1>3. /\ lists[s][q] = 0 /\ \A x \in Procs \ {q} : lists[s][x] = my_list[s][x]
      /\ \A t \in Table \ {s} : lists[t] = my_list[t]
  BY <1>1 DEF TypeOK
<1> HIDE DEF lists
<1>4. /\ monitored'[s] = StillMonitored(lists, s)
      /\ \A t \in Table \ {s} : monitored'[t] = monitored[t]
  BY <1>2 DEF TypeOK
<1>5. Nodes(s, all, IF all THEN who \union {q} ELSE who \ {q}, live)'
  BY <1>2, <1>3 DEF Lists, Nodes, Listed
<1>6. monitored[s] # 2 => monitored[s] = 1
  BY DEF Lists
<1>7. /\ monitored'[s] = 2 <=> monitored[s] = 2
      /\ monitored'[s] # 2 => (monitored'[s] = 1 <=> \E x \in Procs : lists[s][x] # 0)
  BY <1>4, <1>6 DEF StillMonitored
<1>8. \A x \in Procs : lists[s][x] # 0 <=> lists[s][x] > 0
  BY <1>1, <1>3 DEF Lists, Nodes
<1>9. Lists(s, all, IF all THEN who \union {q} ELSE who \ {q}, live)'
  BY <1>2, <1>5, <1>7, <1>8 DEF Lists, Listed
<1> QED BY <1>2, <1>3, <1>4, <1>9

LEMMA NodesSwept ==
    ASSUME TypeOK, NEW p \in Procs, del_pid(p), NEW t \in Table, NEW all, NEW who, NEW live,
           Lists(t, all, who, live), t \notin Visited => ~all /\ who = {}
    PROVE  Lists(t, all, who \ {p}, live \ {p})'
<1> DEFINE lists == [x \in Table |-> IF x \in Visited THEN [my_list[x] EXCEPT ![p] = 0] ELSE my_list[x]]
<1>1. /\ my_list' = lists
      /\ monitored' = [x \in Table |-> IF x \in Visited /\ Listed(x, p)
                                       THEN StillMonitored(lists, x) ELSE monitored[x]]
  BY DEF del_pid
<1>2. lists[t] = IF t \in Visited THEN [my_list[t] EXCEPT ![p] = 0] ELSE my_list[t]
  OBVIOUS
<1> HIDE DEF lists
<1>3. monitored'[t] = IF t \in Visited /\ Listed(t, p) THEN StillMonitored(lists, t) ELSE monitored[t]
  BY <1>1
<1>4. /\ \A x \in Procs \ {p} : lists[t][x] = my_list[t][x]
      /\ lists[t][p] = 0
  <2>1. CASE t \in Visited
    BY <1>2, <2>1 DEF TypeOK
  <2>2. CASE t \notin Visited
    BY <1>2, <2>2 DEF Lists, Nodes, Listed
  <2> QED BY <2>1, <2>2
<1>5. Nodes(t, all, who \ {p}, live \ {p})'
  BY <1>1, <1>4 DEF Lists, Nodes, Listed
<1>6. CASE t \in Visited /\ Listed(t, p)
  <2>1. monitored[t] # 2 => monitored[t] = 1
    BY <1>6 DEF Lists
  <2>2. /\ monitored'[t] = 2 <=> monitored[t] = 2
        /\ monitored'[t] # 2 => (monitored'[t] = 1 <=> \E x \in Procs : lists[t][x] # 0)
    BY <1>3, <1>6, <2>1 DEF StillMonitored
  <2>3. \A x \in Procs : lists[t][x] # 0 <=> lists[t][x] > 0
    BY <1>4 DEF Lists, Nodes
  <2> QED BY <1>1, <1>5, <2>2, <2>3 DEF Lists, Listed
<1>7. CASE ~(t \in Visited /\ Listed(t, p))
  <2>1. ~Listed(t, p)
    BY <1>7 DEF Lists, Nodes
  <2>2. \A x \in Procs : lists[t][x] > 0 <=> my_list[t][x] > 0
    BY <1>4, <2>1 DEF Listed
  <2>3. monitored'[t] = monitored[t]
    BY <1>3, <1>7
  <2> QED BY <1>1, <1>5, <2>2, <2>3 DEF Lists, Listed
<1> QED BY <1>6, <1>7

\* A request that is done returns with "ok".
LEMMA ServedOk ==
    ASSUME TypeOK, SerialInv, NEW p \in Procs, Passed(p), Passed(p)', call' = call, seen' = seen,
           Cmd(p) \in {"intercept", "release"} \/ Pid(p) = 0 \/ Changes(p), Done(p)'
    PROVE  Served(p)'
<1>1. Service!Code(p, Request(p)) = "ok" /\ call[p].ret = "ok" /\ Request(p) \in Requests
  BY PassedCode DEF SerialInv, Changes, Passed
<1>2. Request(p)' = Request(p) /\ (Service!Code(p, Request(p)))' = Service!Code(p, Request(p))
  <2>1. Request(p)' = Request(p)
    BY DEF Request
  <2>2. seen'.alive = seen.alive
    OBVIOUS
  <2> QED BY <2>1, <2>2 DEF Service!Code, Service!Valid, Service!Permitted
<1>3. Cmd(p)' # "call"
  BY DEF Passed, Cmds
<1> QED BY <1>1, <1>2, <1>3 DEF Served

\* Start and stop for all pids.
LEMMA ForAllPids ==
    ASSUME TypeOK, SerialInv, HNext, NEW p \in Procs,
           \/ DestroyForAll(p) \/ (ClearMonitored(p) /\ pc[p] = "clear_all")
           \/ (SetMonitored(p) /\ pc[p] = "set_all")
    PROVE  SerialInv'
<1> DEFINE s == Syscall(p)
<1>1. /\ pc[p] \in {"destroy_all", "clear_all", "set_all"} /\ Stage(p) /\ Passed(p)
      /\ Cmd(p) \in {"start", "stop"} /\ Pid(p) = 0 /\ s \in Table
  BY DEF DestroyForAll, At, SerialInv, Stage, Passed, Numbers
<1>2. Others(p) /\ Switched(s, TRUE)
  <2>1. CASE pc[p] = "clear_all"
    <3>1. Untouched /\ Cmd(p) # "intercept"
      BY <1>1, <2>1 DEF Stage
    <3> QED BY <1>1, <3>1, Before
  <2>2. CASE pc[p] # "clear_all"
    BY <1>1, <2>2 DEF Stage, Emptied
  <2> QED BY <2>1, <2>2
<1>3. UNCHANGED <<sys_call_table, alive, status>>
  BY DEF DestroyForAll, ClearMonitored, SetMonitored, callTable, rest
<1>4. CASE DestroyForAll(p)
  <2>1. PICK l \in {"set_all", "return"} :
          Go(p, l) /\ l = (IF Cmd(p) = "start" THEN "set_all" ELSE "return")
    BY <1>4 DEF DestroyForAll
  <2>2. l \in Labels \ {"idle"} /\ pc[p] = "destroy_all" /\ destroy_list(s) /\ call' = call
    BY <1>4, <2>1 DEF DestroyForAll, At, Labels, Go
  <2>3. /\ UNCHANGED <<f, intercepted>> /\ Lists(s, FALSE, {}, alive)'
        /\ \A t \in Table \ {s} : monitored'[t] = monitored[t] /\ my_list'[t] = my_list[t]
    BY <1>1, <2>2, DestroyedHere
  <2>4. /\ pc'[p] = l /\ seen' = seen /\ p \in alive' /\ Cmd(p)' # "none" /\ Cmd(p)' = Cmd(p)
        /\ Pid(p)' = Pid(p) /\ Syscall(p)' = s /\ Others(p)' /\ Passed(p)' /\ (Stage(p)' => SerialInv')
    BY <1>1, <1>2, <1>3, <2>1, <2>2, <2>3, Works DEF SerialInv
  <2>5. Switched(s, TRUE)'
    BY <1>2, <1>3, <2>3, <2>4 DEF Switched
  <2>6. CASE Cmd(p) = "start"
    BY <1>1, <2>1, <2>3, <2>4, <2>5, <2>6 DEF Stage, Emptied
  <2>7. CASE Cmd(p) = "stop"
    <3>1. Done(p)'
      BY <1>1, <2>3, <2>4, <2>5, <2>7 DEF Done, Aim, Shows
    <3>2. Served(p)'
      BY <1>1, <2>2, <2>4, <3>1, ServedOk
    <3>3. pc'[p] = "return"
      BY <2>1, <2>4, <2>7
    <3> QED BY <2>4, <3>2, <3>3 DEF Stage
  <2> QED BY <1>1, <2>6, <2>7
<1>5. CASE ClearMonitored(p) /\ pc[p] = "clear_all"
  <2>1. Go(p, "destroy_all") /\ "destroy_all" \in Labels \ {"idle"} /\ Cmd(p) = "stop"
    BY <1>1, <1>5 DEF ClearMonitored, At, Labels, Stage
  <2>2. UNCHANGED <<f, intercepted, my_list>> /\ monitored' = [monitored EXCEPT ![s] = 0]
    BY <1>5 DEF ClearMonitored
  <2>3. /\ pc'[p] = "destroy_all" /\ p \in alive' /\ Cmd(p)' # "none" /\ Cmd(p)' = Cmd(p)
        /\ Pid(p)' = Pid(p) /\ Syscall(p)' = s /\ Others(p)' /\ Passed(p)' /\ (Stage(p)' => SerialInv')
    BY <1>1, <1>2, <1>3, <1>5, <2>1, <2>2, Works DEF TypeOK, SerialInv
  <2>4. Switched(s, TRUE)'
    BY <1>2, <1>3, <2>2, <2>3 DEF Switched
  <2> QED BY <1>1, <2>3, <2>4 DEF Stage
<1>6. CASE SetMonitored(p) /\ pc[p] = "set_all"
  <2>1. Go(p, "return") /\ "return" \in Labels \ {"idle"} /\ Cmd(p) = "start" /\ Emptied(p)
        /\ call' = call
    BY <1>1, <1>6 DEF SetMonitored, Labels, Stage, Go
  <2>2. UNCHANGED <<f, intercepted, my_list>> /\ monitored' = [monitored EXCEPT ![s] = 2]
    BY <1>6 DEF SetMonitored, At
  <2>3. /\ pc'[p] = "return" /\ seen' = seen /\ p \in alive' /\ Cmd(p)' # "none" /\ Cmd(p)' = Cmd(p)
        /\ Pid(p)' = Pid(p) /\ Syscall(p)' = s /\ Others(p)' /\ Passed(p)' /\ (Stage(p)' => SerialInv')
    BY <1>1, <1>2, <1>3, <1>6, <2>1, <2>2, Works DEF TypeOK, SerialInv
  <2>4. Switched(s, TRUE)'
    BY <1>2, <1>3, <2>2, <2>3 DEF Switched
  <2>5. monitored'[s] = 2
    BY <1>1, <2>2 DEF TypeOK
  <2>6. Lists(s, TRUE, alive, alive)'
    BY <1>3, <2>1, <2>2, <2>3, <2>5 DEF Emptied, Lists, Nodes, Listed
  <2>7. Done(p)'
    BY <1>1, <2>1, <2>3, <2>4, <2>6 DEF Done, Aim, Shows
  <2>8. Served(p)'
    BY <1>1, <2>1, <2>3, <2>7, ServedOk
  <2> QED BY <2>3, <2>8 DEF Stage
<1> QED BY <1>4, <1>5, <1>6

\* The last store of a start for one pid.
LEMMA OneStarted ==
    ASSUME TypeOK, SerialInv, HNext, NEW p \in Procs, SetMonitored(p), pc[p] = "set_some"
    PROVE  SerialInv'
<1> DEFINE s == Syscall(p)
<1>1. Stage(p) /\ Cmd(p) = "start" /\ Changes(p) /\ Added(p) /\ Passed(p) /\ Pid(p) # 0
  BY DEF SerialInv, Stage, Changes, OneAllowed
<1>2. s \in Table /\ Others(p) /\ Switched(s, TRUE) /\ ~SeenAll(s) /\ Pid(p) \in Procs /\ Pid(p) \in alive
      /\ Nodes(s, FALSE, SeenWho(s) \union {Pid(p)}, alive)
  BY <1>1 DEF Added, Passed, Numbers, TypeOK
<1>3. UNCHANGED <<sys_call_table, alive, status, f, intercepted, my_list>> /\ call' = call
      /\ Go(p, "return") /\ "return" \in Labels \ {"idle"} /\ monitored' = [monitored EXCEPT ![s] = 1]
  BY DEF SetMonitored, At, callTable, rest, Labels, Go
<1>4. /\ pc'[p] = "return" /\ seen' = seen /\ p \in alive' /\ Cmd(p)' # "none" /\ Cmd(p)' = Cmd(p)
      /\ Pid(p)' = Pid(p) /\ Syscall(p)' = s /\ Others(p)' /\ Passed(p)' /\ (Stage(p)' => SerialInv')
      /\ SeenAll(s)' = SeenAll(s) /\ SeenWho(s)' = SeenWho(s)
  BY <1>1, <1>2, <1>3, Works DEF TypeOK, SerialInv
<1>5. Switched(s, TRUE)'
  BY <1>2, <1>3, <1>4 DEF Switched
<1>6. monitored'[s] = 1 /\ Listed(s, Pid(p))
  BY <1>2, <1>3 DEF TypeOK, Nodes
<1>7. Lists(s, FALSE, SeenWho(s) \union {Pid(p)}, alive)'
  BY <1>2, <1>3, <1>4, <1>6 DEF Lists, Nodes, Listed
<1>8. SeenAll(s) = FALSE
  BY <1>2 DEF SeenAll
<1>9. Done(p)'
  BY <1>1, <1>4, <1>5, <1>7, <1>8 DEF Done, Aim, Shows
<1>10. Served(p)'
  BY <1>1, <1>3, <1>4, <1>9, ServedOk
<1> QED BY <1>4, <1>10 DEF Stage

\* Where the list is a black list, start takes the pid off it and stop puts it on.
LEMMA BlackListChanged ==
    ASSUME TypeOK, SerialInv, HNext, NEW p \in Procs, ChangeBlackList(p)
    PROVE  SerialInv'
<1> DEFINE s == Syscall(p)
           q == Pid(p)
<1>1. /\ pc[p] = "change_black" /\ Untouched /\ Changes(p) /\ monitored[s] = 2 /\ Stage(p)
      /\ Passed(p) /\ Cmd(p) \in {"start", "stop"} /\ q # 0
  BY DEF ChangeBlackList, At, SerialInv, Stage, Changes, OneAllowed
<1>2. /\ s \in Table /\ Others(p) /\ Switched(s, TRUE) /\ q \in alive /\ q \in Procs
      /\ Lists(s, SeenAll(s), SeenWho(s), alive)
  BY <1>1, Before DEF Passed, TypeOK
<1>3. SeenAll(s) = TRUE
  BY <1>1, <1>2 DEF Lists, SeenAll
<1>4. UNCHANGED <<sys_call_table, alive, status>> /\ call' = call
      /\ Go(p, "return") /\ "return" \in Labels \ {"idle"}
  BY DEF ChangeBlackList, callTable, rest, Labels, Go
<1>5. CASE UNCHANGED table /\ KmallocFails
  <2>1. /\ pc'[p] = "return" /\ seen' = seen /\ p \in alive' /\ Cmd(p)' # "none"
        /\ (Stage(p)' => SerialInv')
    BY <1>1, <1>4, <1>5, Works DEF table, SerialInv
  <2>2. Failed'
    BY <1>1, <1>4, <1>5, <2>1, Same DEF Failed
  <2> QED BY <2>1, <2>2 DEF Stage
<1>6. CASE ~ (UNCHANGED table /\ KmallocFails)
  <2> DEFINE who == IF Cmd(p) = "start" THEN SeenWho(s) \union {q} ELSE SeenWho(s) \ {q}
  <2>0. PICK w : w = who
    OBVIOUS
  <2>1. PICK x \in Table, y \in Procs : x = s /\ y = q /\ w = who
    BY <1>2, <2>0
  <2>2. PICK v : v = SeenWho(s)
    OBVIOUS
  <2>3. PICK a : a = alive
    OBVIOUS
  <2>4. Lists(x, TRUE, v, a) /\ y \in a /\ (Listed(x, y) <=> y \notin v)
    BY <1>2, <1>3, <2>1, <2>2, <2>3 DEF Lists, Nodes
  <2>5. /\ Lists(x, TRUE, w, a)'
        /\ UNCHANGED <<f, intercepted>>
        /\ \A t \in Table \ {x} : monitored'[t] = monitored[t] /\ my_list'[t] = my_list[t]
    <3>1. CASE Cmd(p) = "start"
      <4>1. Listed(x, y) /\ w = v \union {y}
        BY <1>1, <2>1, <2>2, <2>4, <3>1 DEF Changes
      <4>2. del_pid_sysc(y, x)
        BY <2>1, <3>1 DEF ChangeBlackList
      <4> QED BY <2>4, <4>1, <4>2, NodeRemoved
    <3>2. CASE Cmd(p) = "stop"
      <4>1. ~Listed(x, y) /\ w = v \ {y}
        BY <1>1, <2>1, <2>2, <2>4, <3>2 DEF Changes
      <4>2. add_pid_sysc(y, x)
        BY <1>6, <2>1, <3>2 DEF ChangeBlackList
      <4>3. Nodes(x, TRUE, v, a)
        BY <2>4 DEF Lists
      <4>4. /\ Nodes(x, TRUE, w, a)' /\ UNCHANGED <<f, intercepted, monitored>>
            /\ \A t \in Table \ {x} : my_list'[t] = my_list[t]
        BY <2>4, <4>1, <4>2, <4>3, NodeAdded
      <4> QED BY <1>1, <2>1, <4>4 DEF Lists
    <3> QED BY <1>1, <3>1, <3>2
  <2>6. /\ pc'[p] = "return" /\ seen' = seen /\ p \in alive' /\ Cmd(p)' # "none" /\ Cmd(p)' = Cmd(p)
        /\ Pid(p)' = q /\ Syscall(p)' = s /\ Others(p)' /\ Passed(p)' /\ (Stage(p)' => SerialInv')
        /\ SeenAll(s)' = SeenAll(s) /\ SeenWho(s)' = SeenWho(s)
    BY <1>1, <1>2, <1>4, <2>1, <2>5, Works DEF SerialInv
  <2>7. Switched(s, TRUE)'
    BY <1>2, <1>4, <2>5, <2>6 DEF Switched
  <2>8. Aim(p, TRUE, SeenAll(s), who)'
    <3>1. Shows(x, TRUE, TRUE, w, a)'
      BY <2>1, <2>5, <2>6, <2>7 DEF Shows, Switched
    <3>2. who' = w /\ alive' = a /\ Syscall(p)' = x /\ SeenAll(s)' = TRUE
      BY <1>3, <1>4, <2>1, <2>3, <2>6
    <3> HIDE DEF who
    <3> QED BY <3>1, <3>2 DEF Aim, Shows, Switched, Lists, Nodes, Listed
  <2>9. Done(p)'
    BY <1>1, <2>6, <2>8 DEF Done
  <2>10. Served(p)'
    BY <1>1, <1>4, <2>6, <2>9, ServedOk
  <2> QED BY <2>6, <2>10 DEF Stage
<1> QED BY <1>5, <1>6

\* Where it is none, start adds the pid and stop removes it.
LEMMA ListChanged ==
    ASSUME TypeOK, SerialInv, HNext, NEW p \in Procs, ChangeList(p), Cmd(p) \in {"start", "stop"},
           Go(p, "unlock_pids"),
           \/ Cmd(p) = "start" /\ add_pid_sysc(Pid(p), Syscall(p))
           \/ Cmd(p) = "stop" /\ del_pid_sysc(Pid(p), Syscall(p))
    PROVE  SerialInv'
<1> DEFINE s == Syscall(p)
           q == Pid(p)
<1>1. /\ pc[p] = "in_pids" /\ Untouched /\ Changes(p) /\ monitored[s] # 2 /\ Stage(p) /\ Passed(p)
      /\ q # 0
  BY DEF ChangeList, At, SerialInv, Stage, Changes, OneAllowed
<1>2. /\ s \in Table /\ Others(p) /\ Switched(s, TRUE) /\ q \in alive /\ q \in Procs
      /\ Lists(s, SeenAll(s), SeenWho(s), alive)
  BY <1>1, Before DEF Passed, TypeOK
<1>3. SeenAll(s) = FALSE
  BY <1>1, <1>2 DEF Lists, SeenAll
<1>4. UNCHANGED <<sys_call_table, alive, status>> /\ call' = call /\ "unlock_pids" \in Labels \ {"idle"}
  BY DEF ChangeList, callTable, rest, Labels, InPids, Go
<1>0. PICK v, a : v = SeenWho(s) /\ a = alive
  OBVIOUS
<1>5. PICK x \in Table, y \in Procs : x = s /\ y = q /\ v = SeenWho(s) /\ a = alive
  BY <1>0, <1>2
<1>6. Lists(x, FALSE, v, a) /\ y \in a /\ (Listed(x, y) <=> y \in v)
  BY <1>2, <1>3, <1>5 DEF Lists, Nodes
<1>7. CASE Cmd(p) = "start"
  <2>1. ~Listed(x, y) /\ add_pid_sysc(y, x) /\ Nodes(x, FALSE, v, a)
    BY <1>1, <1>5, <1>6, <1>7 DEF Changes, Lists
  <2>2. /\ Nodes(x, FALSE, v \union {y}, a)' /\ UNCHANGED <<f, intercepted, monitored>>
        /\ \A t \in Table \ {x} : my_list'[t] = my_list[t]
    BY <1>6, <2>1, NodeAdded
  <2>3. /\ pc'[p] = "unlock_pids" /\ p \in alive' /\ Cmd(p)' # "none" /\ Cmd(p)' = Cmd(p)
        /\ Pid(p)' = q /\ Syscall(p)' = s /\ Others(p)' /\ Changes(p)' /\ (Stage(p)' => SerialInv')
        /\ SeenAll(s)' = SeenAll(s) /\ SeenWho(s)' = SeenWho(s)
    BY <1>1, <1>2, <1>4, <1>5, <2>2, Works DEF SerialInv
  <2>4. Switched(s, TRUE)'
    BY <1>2, <1>4, <2>2, <2>3 DEF Switched
  <2>5. Nodes(s, FALSE, SeenWho(s) \union {q}, alive)'
    BY <1>4, <1>5, <2>2, <2>3 DEF Nodes, Listed
  <2>6. Added(p)'
    BY <1>3, <2>3, <2>4, <2>5 DEF Added
  <2> QED BY <1>7, <2>3, <2>6 DEF Stage
<1>8. CASE Cmd(p) = "stop"
  <2>1. Listed(x, y) /\ del_pid_sysc(y, x)
    BY <1>1, <1>5, <1>6, <1>8 DEF Changes
  <2>2. /\ Lists(x, FALSE, v \ {y}, a)' /\ UNCHANGED <<f, intercepted>>
        /\ \A t \in Table \ {x} : monitored'[t] = monitored[t] /\ my_list'[t] = my_list[t]
    BY <1>6, <2>1, NodeRemoved
  <2>3. /\ pc'[p] = "unlock_pids" /\ p \in alive' /\ Cmd(p)' # "none" /\ Cmd(p)' = Cmd(p)
        /\ Pid(p)' = q /\ Syscall(p)' = s /\ Others(p)' /\ Changes(p)' /\ (Stage(p)' => SerialInv')
        /\ SeenAll(s)' = SeenAll(s) /\ SeenWho(s)' = SeenWho(s)
    BY <1>1, <1>2, <1>4, <1>5, <2>2, Works DEF SerialInv
  <2>4. Switched(s, TRUE)'
    BY <1>2, <1>4, <2>2, <2>3 DEF Switched
  <2>5. Lists(s, FALSE, SeenWho(s) \ {q}, alive)'
    BY <1>4, <1>5, <2>2, <2>3 DEF Lists, Nodes, Listed
  <2>6. Aim(p, TRUE, SeenAll(s), SeenWho(s) \ {q})'
    BY <1>3, <2>3, <2>4, <2>5 DEF Aim, Shows
  <2>7. Done(p)'
    BY <1>1, <1>8, <2>3, <2>6 DEF Done
  <2> QED BY <1>8, <2>3, <2>7 DEF Stage
<1> QED BY <1>7, <1>8

\* The exit leaves every list it may be in.
LEMMA ListsSwept ==
    ASSUME TypeOK, SerialInv, Serially, HNext, NEW p \in Procs, ChangeList(p), Cmd(p) = "exit"
    PROVE  SerialInv'
<1>1. pc[p] = "in_pids" /\ Untouched /\ Stage(p) /\ p \in alive
  BY DEF ChangeList, At, SerialInv, Stage
<1>2. /\ UNCHANGED <<sys_call_table, alive, status, f, intercepted, call>> /\ del_pid(p)
      /\ pc' = [pc EXCEPT ![p] = "unlock_pids"] /\ "unlock_pids" \in Labels \ {"idle"}
  BY DEF ChangeList, callTable, rest, Labels, InPids, Go, GoWith, del_pid
<1>3. pc'[p] = "unlock_pids"
  BY <1>2 DEF TypeOK
<1>4. seen' = seen
  BY <1>3, Busy
<1>5. ASSUME NEW t \in Table
      PROVE  Shows(t, SeenOn(t), SeenAll(t), SeenWho(t) \ {p}, alive \ {p})'
  <2>1. AsSeen(t)
    BY <1>1 DEF Untouched
  <2>2. PICK on, all, who, live : /\ on = SeenOn(t) /\ all = SeenAll(t) /\ who = SeenWho(t)
                                  /\ live = alive
    OBVIOUS
  <2>3. Switched(t, on) /\ Lists(t, all, who, live)
    BY <2>1, <2>2 DEF AsSeen, Shows
  <2>4. t \notin Visited => ~all /\ who = {}
    <3>1. t \notin Visited => t = 0 \/ t = NR_syscalls
      BY <1>5, NumbersAssumption DEF Visited, Table
    <3>2. t \notin Visited => t \notin seen.intercepted
      BY <3>1 DEF SerialInv, SeenOK, Serially, Numbers, MY_CUSTOM_SYSCALL
    <3>3. t \notin seen.intercepted => t \notin seen.all
      BY DEF SerialInv, SeenOK
    <3>4. t \notin seen.intercepted => SeenWho(t) = {}
      BY DEF SerialInv, SeenOK, SeenWho
    <3> QED BY <2>2, <3>2, <3>3, <3>4 DEF SeenAll
  <2>5. Lists(t, all, who \ {p}, live \ {p})'
    BY <1>2, <2>3, <2>4, NodesSwept
  <2>6. Switched(t, on)'
    BY <1>2, <2>3 DEF Switched
  <2>7. /\ SeenOn(t)' = on /\ SeenAll(t)' = all /\ SeenWho(t)' = who /\ alive' = live
    BY <1>2, <1>4, <2>2 DEF SeenOn, SeenAll, SeenWho
  <2> QED BY <2>5, <2>6, <2>7 DEF Shows
<1>6. Swept(p)'
  BY <1>5 DEF Swept
<1>7. Stage(p)'
  BY <1>1, <1>2, <1>3, <1>6 DEF Stage, Cmd
<1> QED BY <1>1, <1>2, <1>4, <1>7, Goes DEF SerialInv

LEMMA ListStep ==
    ASSUME TypeOK, SerialInv, Serially, HNext, NEW p \in Procs, ChangeList(p)
    PROVE  SerialInv'
<1>1. CASE Cmd(p) = "start" /\ KmallocFails /\ UNCHANGED table /\ GoWith(p, "unlock_pids", "ENOMEM")
  <2>1. pc[p] = "in_pids" /\ Untouched /\ Stage(p) /\ p \in alive
    BY DEF ChangeList, At, SerialInv, Stage
  <2>2. /\ pc'[p] = "unlock_pids" /\ call'[p].ret = "ENOMEM" /\ Cmd(p)' = Cmd(p)
    BY <1>1, Answering
  <2>3. seen' = seen
    BY <2>2, Busy
  <2>4. UNCHANGED <<sys_call_table, alive, status>>
    BY DEF ChangeList, callTable, rest
  <2>5. Failed'
    <3>1. \A t : AsSeen(t)' = AsSeen(t)
      BY <1>1, <2>3, <2>4
         DEF AsSeen, SeenOn, SeenAll, SeenWho, Shows, Switched, Lists, Nodes, Listed, table
    <3> QED BY <1>1, <2>1, <3>1 DEF Failed, Untouched
  <2>6. Stage(p)'
    BY <1>1, <2>1, <2>2, <2>4, <2>5 DEF Stage
  <2>7. pc' = [pc EXCEPT ![p] = "unlock_pids"] /\ "unlock_pids" \in Labels \ {"idle"}
    BY <1>1 DEF GoWith, Labels, InPids
  <2> QED BY <2>1, <2>3, <2>4, <2>6, <2>7, Goes DEF SerialInv
<1>2. CASE Cmd(p) = "exit"
  BY <1>2, ListsSwept
<1>3. CASE \/ Cmd(p) = "start" /\ add_pid_sysc(Pid(p), Syscall(p)) /\ Go(p, "unlock_pids")
           \/ Cmd(p) = "stop" /\ del_pid_sysc(Pid(p), Syscall(p)) /\ Go(p, "unlock_pids")
  BY <1>3, ListChanged
<1> QED BY <1>1, <1>2, <1>3 DEF ChangeList

-----------------------------------------------------------------------------
(* Between calls.                                                          *)

\* The lists are in order: the facts of ListsInOrder and ExitsForgotten.
Tidy(t) ==
    /\ Switched(t, intercepted[t])
    /\ intercepted[t] => t \in Numbers \intersect Asked
    /\ ~intercepted[t] => monitored[t] = 0
    /\ \A q \in Procs : my_list[t][q] \in {0, 1} /\ (Listed(t, q) => q \in alive)
    /\ monitored[t] # 2 => (monitored[t] = 1 <=> \E q \in Procs : Listed(t, q))

\* What an entry shows determines the View of it.
LEMMA ShownTidy ==
    ASSUME TypeOK, NEW t \in Table, NEW on \in BOOLEAN, NEW all \in BOOLEAN, NEW who, who \subseteq alive,
           Shows(t, on, all, who, alive), on => t \in Numbers \intersect Asked,
           ~on => ~all /\ who = {}
    PROVE  Tidy(t) /\ intercepted[t] = on /\ (monitored[t] = 2 <=> all) /\ Watched(t) = who
<1>1. /\ Switched(t, on) /\ Nodes(t, all, who, alive) /\ (monitored[t] = 2 <=> all)
      /\ monitored[t] # 2 => (monitored[t] = 1 <=> \E q \in Procs : Listed(t, q))
  BY DEF Shows, Lists
<1>2. intercepted[t] = on
  BY <1>1 DEF Switched
<1>3. Watched(t) = who
  BY <1>1 DEF Nodes, Watched, TypeOK
<1>4. ~on => monitored[t] = 0
  <2>1. ASSUME ~on PROVE monitored[t] = 0
    <3>1. \A q \in Procs : ~Listed(t, q)
      BY <1>1, <2>1 DEF Nodes
    <3>2. monitored[t] # 2 /\ monitored[t] # 1 /\ monitored[t] \in {0, 1, 2}
      BY <1>1, <2>1, <3>1 DEF TypeOK
    <3> QED BY <3>2
  <2> QED BY <2>1
<1> QED BY <1>1, <1>2, <1>3, <1>4 DEF Tidy, Nodes

\* When a call returns, View is what AsSeen says.
Orderly == (\A t \in Table : Tidy(t)) /\ seen = View
LEMMA ViewShown == TypeOK /\ Orderly => SeenOK /\ Untouched
<1> SUFFICES ASSUME TypeOK, Orderly PROVE SeenOK /\ Untouched
  OBVIOUS
<1> USE DEF Orderly
<1>1. \A t \in Table : /\ SeenOn(t) = intercepted[t] /\ (SeenAll(t) <=> monitored[t] = 2)
                       /\ SeenWho(t) = Watched(t)
  <2> TAKE t \in Table
  <2>1. CASE t \in Numbers
    BY <2>1 DEF View, SeenOn, SeenAll, SeenWho, TypeOK
  <2>2. CASE t \notin Numbers
    <3>1. ~intercepted[t] /\ monitored[t] = 0
      BY <2>2 DEF Tidy
    <3>2. \A q \in Procs : ~Listed(t, q)
      BY <3>1 DEF Tidy
    <3>3. Watched(t) = {}
      BY <3>1, <3>2 DEF Watched, TypeOK
    <3> QED BY <2>2, <3>1, <3>3 DEF View, SeenOn, SeenAll, SeenWho, TypeOK
  <2> QED BY <2>1, <2>2
<1>2. SeenOK
  <2>1. /\ seen.intercepted \subseteq Numbers \intersect Asked /\ seen.all \subseteq Numbers
        /\ seen.watched \in [Numbers -> SUBSET alive] /\ seen.alive = alive
    <3>1. \A t : Watched(t) \subseteq alive
      BY DEF Watched
    <3>2. \A t \in Numbers : t \in Table
      BY DEF Numbers
    <3> QED BY <3>1, <3>2 DEF View, Tidy
  <2>2. seen \in [intercepted : SUBSET (Numbers \intersect Asked), all : SUBSET Numbers,
                  watched : [Numbers -> SUBSET alive], alive : {alive}]
    BY <2>1 DEF View
  <2>3. ASSUME NEW t \in Numbers \ seen.intercepted PROVE t \notin seen.all /\ seen.watched[t] = {}
    <3>1. t \in Table /\ ~intercepted[t]
      BY <1>1, <2>3 DEF SeenOn, Numbers
    <3>2. monitored[t] = 0 /\ \A q \in Procs : ~Listed(t, q)
      BY <3>1 DEF Tidy
    <3>3. Watched(t) = {}
      BY <3>2 DEF Watched, TypeOK
    <3> QED BY <1>1, <2>3, <3>1, <3>2, <3>3 DEF SeenAll, SeenWho
  <2> QED BY <2>2, <2>3 DEF SeenOK
<1>3. ASSUME NEW t \in Table PROVE AsSeen(t)
  <2>1. Switched(t, SeenOn(t))
    BY <1>1, <1>3 DEF Tidy
  <2>2. Nodes(t, SeenAll(t), SeenWho(t), alive)
    BY <1>1, <1>3 DEF Tidy, Nodes, Watched
  <2> QED BY <1>1, <1>3, <2>1, <2>2 DEF AsSeen, Shows, Lists, Tidy
<1> QED BY <1>2, <1>3 DEF Untouched

\* The state between calls is in order, whatever led to it.
LEMMA Returns ==
    ASSUME TypeOK', Quiet', status' = "up", \A t \in Table : Tidy(t)', HNext
    PROVE  SerialInv'
<1>1. Orderly'
  BY DEF HNext, Orderly
<1>2. (SeenOK /\ Untouched)'
  BY <1>1, ViewShown, PTL
<1> QED BY <1>2 DEF SerialInv, Quiet, Tidy, Switched

\* What the entry of a request shows that is done.
Fits(p, on, all, who) ==
    LET s == Syscall(p)
        q == Pid(p)
    IN  /\ Aim(p, on, all, who) /\ who \subseteq alive /\ (~on => ~all /\ who = {})
        /\ on <=> Cmd(p) # "release"
        /\ Cmd(p) \in {"intercept", "release"} => ~all /\ who = {}
        /\ Cmd(p) = "start" => IF q = 0 THEN all /\ who = alive
                               ELSE (all <=> SeenAll(s)) /\ who = SeenWho(s) \union {q}
        /\ Cmd(p) = "stop" => IF q = 0 THEN ~all /\ who = {}
                              ELSE (all <=> SeenAll(s)) /\ who = SeenWho(s) \ {q}

LEMMA DoneShows ==
    ASSUME SeenOK, NEW p \in Procs, Passed(p), Done(p)
    PROVE  \E on \in BOOLEAN, all \in BOOLEAN : \E who : Fits(p, on, all, who)
<1> DEFINE s == Syscall(p)
           q == Pid(p)
<1>1. /\ Cmd(p) \in {"intercept", "release", "start", "stop"} /\ (q # 0 => q \in alive)
      /\ SeenWho(s) \subseteq alive /\ SeenAll(s) \in BOOLEAN
  BY DEF Passed, Cmds, SeenOK, SeenWho, SeenAll
<1>2. CASE Cmd(p) = "intercept"
  <2>1. Aim(p, TRUE, FALSE, {})
    BY <1>2 DEF Done
  <2>2. Fits(p, TRUE, FALSE, {})
    BY <1>1, <1>2, <2>1 DEF Fits
  <2> QED BY <1>1, <2>2
<1>3. CASE Cmd(p) = "release"
  <2>1. Aim(p, FALSE, FALSE, {})
    BY <1>3 DEF Done
  <2>2. Fits(p, FALSE, FALSE, {})
    BY <1>1, <1>3, <2>1 DEF Fits
  <2> QED BY <1>1, <2>2
<1>4. CASE Cmd(p) = "start" /\ q = 0
  <2>1. Aim(p, TRUE, TRUE, alive)
    BY <1>4 DEF Done
  <2>2. Fits(p, TRUE, TRUE, alive)
    BY <1>1, <1>4, <2>1 DEF Fits
  <2> QED BY <1>1, <2>2
<1>5. CASE Cmd(p) = "stop" /\ q = 0
  <2>1. Aim(p, TRUE, FALSE, {})
    BY <1>5 DEF Done
  <2>2. Fits(p, TRUE, FALSE, {})
    BY <1>1, <1>5, <2>1 DEF Fits
  <2> QED BY <1>1, <2>2
<1>6. CASE Cmd(p) = "start" /\ q # 0
  <2>1. Aim(p, TRUE, SeenAll(s), SeenWho(s) \union {q})
    BY <1>6 DEF Done
  <2>2. Fits(p, TRUE, SeenAll(s), SeenWho(s) \union {q})
    BY <1>1, <1>6, <2>1 DEF Fits
  <2> QED BY <1>1, <2>2
<1>7. CASE Cmd(p) = "stop" /\ q # 0
  <2>1. Aim(p, TRUE, SeenAll(s), SeenWho(s) \ {q})
    BY <1>7 DEF Done
  <2>2. Fits(p, TRUE, SeenAll(s), SeenWho(s) \ {q})
    BY <1>1, <1>7, <2>1 DEF Fits
  <2> QED BY <1>1, <2>2
<1> QED BY <1>1, <1>2, <1>3, <1>4, <1>5, <1>6, <1>7

LEMMA SeenTidy ==
    ASSUME TypeOK, SeenOK, NEW t \in Table, AsSeen(t)
    PROVE  Tidy(t) /\ intercepted[t] = SeenOn(t) /\ (monitored[t] = 2 <=> SeenAll(t))
           /\ Watched(t) = SeenWho(t)
<1>1. /\ SeenWho(t) \subseteq alive /\ (SeenOn(t) => t \in Numbers \intersect Asked)
      /\ (~SeenOn(t) => ~SeenAll(t) /\ SeenWho(t) = {})
      /\ SeenOn(t) \in BOOLEAN /\ SeenAll(t) \in BOOLEAN
  BY DEF SeenOK, SeenOn, SeenAll, SeenWho
<1> QED BY <1>1, ShownTidy DEF AsSeen

\* A call that returns leaves its entry as it should be, and the others as they were.
LEMMA Leaving ==
    ASSUME TypeOK, TypeOK', SerialInv, HNext, NEW p \in Procs, Leave(p)
    PROVE  SerialInv'
<1>1. pc[p] = "return" /\ Stage(p) /\ (Served(p) \/ Failed)
  BY DEF Leave, At, SerialInv, Stage
<1>2. pc' = [pc EXCEPT ![p] = "idle"] /\ UNCHANGED <<sys_call_table, table, alive, status>>
  BY DEF Leave, callTable, rest
<1>3. Quiet'
  BY <1>1, <1>2 DEF Quiet, SerialInv, TypeOK
<1>4. ASSUME NEW t \in Table PROVE Tidy(t)
  <2>1. CASE AsSeen(t)
    BY <1>4, <2>1, SeenTidy DEF SerialInv
  <2>2. CASE ~AsSeen(t)
    <3>1. Served(p) /\ ~Untouched /\ Passed(p) /\ Done(p)
      BY <1>1, <1>4, <2>2 DEF Failed, Served, Untouched
    <3>2. t = Syscall(p)
      BY <1>4, <2>2, <3>1 DEF Done, Others
    <3>0. PICK on \in BOOLEAN, all \in BOOLEAN : \E who : Fits(p, on, all, who)
      BY <3>1, DoneShows DEF SerialInv
    <3>3. PICK who : Shows(t, on, all, who, alive) /\ who \subseteq alive /\ (~on => ~all /\ who = {})
      BY <3>0, <3>2 DEF Fits, Aim
    <3> QED BY <1>4, <3>1, <3>2, <3>3, ShownTidy DEF Passed
  <2> QED BY <2>1, <2>2
<1>5. ASSUME NEW t \in Table PROVE Tidy(t)'
  BY <1>2, <1>4, <1>5 DEF Tidy, Switched, Listed, table
<1> QED BY <1>2, <1>3, <1>5, Returns DEF SerialInv

LEMMA Exiting ==
    ASSUME TypeOK, TypeOK', SerialInv, HNext, NEW p \in Procs, orig_exit_group(p)
    PROVE  SerialInv'
<1>1. pc[p] = "dying" /\ Swept(p)
  BY DEF orig_exit_group, At, SerialInv, Stage
<1>2. /\ pc' = [pc EXCEPT ![p] = "idle"] /\ alive' = alive \ {p}
      /\ UNCHANGED <<sys_call_table, table, status>>
  BY DEF orig_exit_group, callTable
<1>3. Quiet'
  BY <1>1, <1>2 DEF Quiet, SerialInv, TypeOK
<1>4. ASSUME NEW t \in Table PROVE Tidy(t)'
  <2>1. /\ Switched(t, SeenOn(t)) /\ SeenOn(t) \in BOOLEAN
        /\ Lists(t, SeenAll(t), SeenWho(t) \ {p}, alive \ {p})
    BY <1>1, <1>4 DEF Swept, Shows, SeenOn
  <2>2. intercepted[t] = SeenOn(t) /\ (SeenOn(t) => t \in Numbers \intersect Asked)
    BY <2>1 DEF Switched, SerialInv, SeenOK, SeenOn
  <2>3. ~intercepted[t] => monitored[t] = 0
    <3>1. ASSUME ~intercepted[t] PROVE monitored[t] = 0
      <4>1. ~SeenAll(t) /\ SeenWho(t) = {}
        BY <2>2, <3>1 DEF SerialInv, SeenOK, SeenOn, SeenAll, SeenWho
      <4>2. \A q \in Procs : ~Listed(t, q)
        BY <2>1, <4>1 DEF Lists, Nodes
      <4>3. monitored[t] # 2 /\ monitored[t] # 1 /\ monitored[t] \in {0, 1, 2}
        BY <1>4, <2>1, <4>1, <4>2 DEF Lists, TypeOK
      <4> QED BY <4>3
    <3> QED BY <3>1
  <2>4. /\ \A q \in Procs : my_list[t][q] \in {0, 1} /\ (Listed(t, q) => q \in alive \ {p})
        /\ monitored[t] # 2 => (monitored[t] = 1 <=> \E q \in Procs : Listed(t, q))
    BY <2>1 DEF Lists, Nodes
  <2> QED BY <1>2, <2>1, <2>2, <2>3, <2>4 DEF Tidy, Switched, Listed, table
<1> QED BY <1>2, <1>3, <1>4, Returns DEF SerialInv

LEMMA Forking ==
    ASSUME TypeOK, TypeOK', SerialInv, HNext, NEW p \in Procs, Fork(p)
    PROVE  SerialInv'
<1>1. Quiet /\ Quiet' /\ Untouched /\ UNCHANGED <<sys_call_table, table, status>>
  BY DEF Fork, HNext, Quiet, SerialInv, callTable, process
<1>2. alive \subseteq alive'
  BY DEF Fork
<1>3. ASSUME NEW t \in Table PROVE Tidy(t)'
  <2>1. Tidy(t)
    BY <1>1, <1>3, SeenTidy DEF SerialInv, Untouched
  <2> QED BY <1>1, <1>2, <2>1 DEF Tidy, Switched, Listed, table
<1> QED BY <1>1, <1>3, Returns DEF SerialInv

-----------------------------------------------------------------------------
(* New calls.                                                              *)

\* A call starts only when no other is in progress.
LEMMA Starts ==
    ASSUME TypeOK, SerialInv, Serially, HNext, NEW p \in Procs, NEW c, NEW l \in Labels \ {"idle"},
           Start(p, c, l)
    PROVE  /\ Untouched /\ Untouched' /\ pc'[p] = l /\ call'[p] = c /\ p \in alive
           /\ UNCHANGED <<sys_call_table, table, alive, status, seen>>
           /\ Stage(p)' => SerialInv'
<1> DEFINE busy == {q \in Procs : pc[q] # "idle"}
<1>1. Cardinality(busy) < 1 /\ p \in alive /\ pc' = [pc EXCEPT ![p] = l]
      /\ call' = [call EXCEPT ![p] = c] /\ UNCHANGED <<sys_call_table, table, alive, status>>
  BY DEF Start, Serially, callTable, rest
<1>2. busy = {}
  <2>1. IsFiniteSet(busy)
    BY ProcsAssumption, FS_Subset
  <2> HIDE DEF busy
  <2> QED BY <1>1, <2>1, FS_EmptySet, FS_CardinalityType
<1>3. Quiet /\ Untouched
  BY <1>2 DEF Quiet, SerialInv
<1>4. pc'[p] = l /\ call'[p] = c /\ \A q \in Procs : pc'[q] # "idle" => q = p
  BY <1>1, <1>3 DEF TypeOK, Quiet
<1>5. seen' = seen
  BY <1>4, Busy
<1>6. Untouched'
  <2>1. \A t : AsSeen(t)' = AsSeen(t)
    BY <1>1, <1>5 DEF AsSeen, SeenOn, SeenAll, SeenWho, Shows, Switched, Lists, Nodes, Listed, table
  <2> QED BY <1>3, <2>1 DEF Untouched
<1>7. SeenOK'
  BY <1>1, <1>5 DEF SerialInv, SeenOK
<1>8. ~Quiet'
  BY <1>4 DEF Quiet
<1> QED BY <1>1, <1>3, <1>4, <1>5, <1>6, <1>7, <1>8 DEF SerialInv

\* The checks give the codes of the service, as far as they go.
LEMMA CheckSays ==
    ASSUME TypeOK, SeenOK, Untouched, NEW p \in Procs, NEW r \in Requests
    PROVE  LET c == Check(p, r)
           IN  /\ c # "ok" => c = Service!Code(p, r)
               /\ c = "ok" =>
                    /\ r.syscall \in Numbers \intersect Asked /\ r.cmd \in Cmds
                    /\ r.pid = 0 \/ r.pid \in alive
                    /\ r.cmd \in {"intercept", "release"} \/ r.pid = 0 => IsRoot(p)
                    /\ (r.cmd = "intercept") # SeenOn(r.syscall)
               /\ c \in {"ok", "EINVAL", "EPERM", "EBUSY"}
<1>1. r.syscall \in Asked /\ seen.alive = alive
  BY DEF Requests, SeenOK
<1>2. Service!Valid(r) <=> r.syscall \in Numbers /\ r.cmd \in Cmds /\ (r.pid = 0 \/ r.pid \in alive)
  BY <1>1 DEF Service!Valid
<1>3. CASE ~Service!Valid(r)
  <2>1. Check(p, r) = "EINVAL"
    BY <1>2, <1>3 DEF Check, Numbers
  <2>2. Service!Code(p, r) = "EINVAL"
    BY <1>3 DEF Service!Code
  <2> QED BY <2>1, <2>2
<1>4. CASE Service!Valid(r)
  <2>1. r.syscall \in Numbers /\ r.cmd \in Cmds /\ (r.pid = 0 \/ r.pid \in alive)
    BY <1>2, <1>4
  <2>2. intercepted[r.syscall] <=> r.syscall \in seen.intercepted
    <3>1. AsSeen(r.syscall) /\ r.syscall \in Table
      BY <2>1 DEF Untouched, Numbers
    <3> QED BY <3>1, SeenTidy DEF SeenOn
  <2>3. Service!Permitted(p, r) <=> IsRoot(p) \/ (r.cmd \in {"start", "stop"} /\ r.pid # 0 /\ Uid[r.pid] = Uid[p])
    BY DEF Service!Permitted, IsRoot
  <2>4. Check(p, r) # "ok" => Check(p, r) = Service!Code(p, r)
    <3>1. CASE r.cmd \in {"intercept", "release"} /\ ~IsRoot(p)
      <4>1. Check(p, r) = "EPERM"
        BY <2>1, <3>1 DEF Check, Numbers
      <4>2. Service!Code(p, r) = "EPERM"
        BY <1>4, <2>3, <3>1 DEF Service!Code
      <4> QED BY <4>1, <4>2
    <3>2. CASE r.cmd = "intercept" /\ IsRoot(p) /\ intercepted[r.syscall]
      <4>1. Check(p, r) = "EBUSY"
        BY <2>1, <3>2 DEF Check, Numbers
      <4>2. Service!Code(p, r) = "EBUSY"
        BY <1>4, <2>2, <2>3, <3>2 DEF Service!Code
      <4> QED BY <4>1, <4>2
    <3>3. CASE r.cmd # "intercept" /\ ~(r.cmd = "release" /\ ~IsRoot(p)) /\ ~intercepted[r.syscall]
      <4>1. Check(p, r) = "EINVAL"
        BY <2>1, <3>3 DEF Check, Numbers
      <4>2. Service!Code(p, r) = "EINVAL"
        BY <1>4, <2>2, <2>3, <3>3 DEF Service!Code
      <4> QED BY <4>1, <4>2
    <3>4. CASE r.cmd \in {"start", "stop"} /\ r.pid = 0 /\ ~IsRoot(p) /\ intercepted[r.syscall]
      <4>1. Check(p, r) = "EPERM"
        BY <2>1, <3>4 DEF Check, Numbers
      <4>2. Service!Code(p, r) = "EPERM"
        BY <1>4, <2>2, <2>3, <3>4 DEF Service!Code
      <4> QED BY <4>1, <4>2
    <3>5. CASE ~ \/ r.cmd \in {"intercept", "release"} /\ ~IsRoot(p)
                 \/ r.cmd = "intercept" /\ IsRoot(p) /\ intercepted[r.syscall]
                 \/ r.cmd # "intercept" /\ ~(r.cmd = "release" /\ ~IsRoot(p)) /\ ~intercepted[r.syscall]
                 \/ r.cmd \in {"start", "stop"} /\ r.pid = 0 /\ ~IsRoot(p) /\ intercepted[r.syscall]
      BY <2>1, <3>5 DEF Check, Numbers, Cmds
    <3> QED BY <3>1, <3>2, <3>3, <3>4, <3>5
  <2>5. Check(p, r) = "ok" => /\ r.cmd \in {"intercept", "release"} \/ r.pid = 0 => IsRoot(p)
                              /\ (r.cmd = "intercept") # SeenOn(r.syscall)
    BY <2>1, <2>2 DEF Check, Cmds, SeenOn
  <2>6. Check(p, r) \in {"ok", "EINVAL", "EPERM", "EBUSY"}
    BY DEF Check
  <2> QED BY <1>1, <2>1, <2>4, <2>5, <2>6
<1> QED BY <1>3, <1>4

LEMMA Requesting ==
    ASSUME TypeOK, SerialInv, Serially, HNext, NEW p \in Procs, my_syscall(p)
    PROVE  SerialInv'
<1>1. PICK r \in Requests :
        Start(p, [r EXCEPT !.ret = Check(p, r)], IF Check(p, r) = "ok" THEN FirstStep(r) ELSE "return")
  BY DEF my_syscall
<1> DEFINE code == Check(p, r)
           c == [r EXCEPT !.ret = code]
           l == IF code = "ok" THEN FirstStep(r) ELSE "return"
<1>2. Untouched /\ SeenOK
  <2>1. p \in alive /\ l \in Labels \ {"idle"}
    BY <1>1 DEF Start, FirstStep, Labels
  <2> HIDE DEF l, c
  <2> QED BY <1>1, <2>1, Starts DEF SerialInv, l, c
<1>3. l \in {"save", "lock_calls", "destroy_all", "clear_all", "owner", "return"}
  BY DEF FirstStep
<1>4. l \in Labels \ {"idle"}
  BY <1>3 DEF Labels
<1> HIDE DEF l, c
<1>5. /\ Untouched' /\ pc'[p] = l /\ call'[p] = c /\ p \in alive
      /\ UNCHANGED <<sys_call_table, table, alive, status, seen>>
      /\ Stage(p)' => SerialInv'
  BY <1>1, <1>4, Starts DEF l, c
<1>6. /\ Cmd(p)' = r.cmd /\ Syscall(p)' = r.syscall /\ Pid(p)' = r.pid /\ Request(p)' = r
      /\ call'[p].ret = code /\ r.cmd \in Cmds \union {"unknown"} /\ r.cmd # "none" /\ r.cmd # "call"
  BY <1>5 DEF Cmd, Syscall, Pid, Request, Requests, c, Cmds
<1>7. CASE code # "ok"
  <2>1. l = "return" /\ code = Service!Code(p, r)
    BY <1>2, <1>7, CheckSays DEF l
  <2>2. code = (Service!Code(p, Request(p)))'
    BY <1>5, <1>6, <2>1 DEF Service!Code, Service!Valid, Service!Permitted
  <2>3. Served(p)'
    BY <1>5, <1>6, <1>7, <2>2 DEF Served
  <2> QED BY <1>5, <1>6, <2>1, <2>3 DEF Stage
<1>8. CASE code = "ok"
  <2>1. /\ r.syscall \in Numbers \intersect Asked /\ r.cmd \in Cmds
        /\ r.pid = 0 \/ r.pid \in alive
        /\ r.cmd \in {"intercept", "release"} \/ r.pid = 0 => IsRoot(p)
        /\ (r.cmd = "intercept") # SeenOn(r.syscall)
    BY <1>2, <1>8, CheckSays
  <2>2. SeenOn(r.syscall)' = SeenOn(r.syscall)
    BY <1>5 DEF SeenOn
  <2>3. Passed(p)'
    BY <1>5, <1>6, <1>8, <2>1, <2>2 DEF Passed, IsRoot
  <2>4. l = FirstStep(r)
    BY <1>8 DEF l
  <2>5. CASE r.cmd \in {"intercept", "release"} \/ r.pid # 0
    <3>1. \/ r.cmd = "intercept" /\ l = "save"
          \/ r.cmd = "release" /\ l = "lock_calls"
          \/ r.cmd \in {"start", "stop"} /\ r.pid # 0 /\ l = "owner"
      BY <2>1, <2>4, <2>5 DEF FirstStep, Cmds
    <3> QED BY <1>5, <1>6, <2>3, <3>1 DEF Stage
  <2>6. CASE r.cmd = "stop" /\ r.pid = 0
    <3>1. l = "clear_all"
      BY <2>4, <2>6 DEF FirstStep
    <3> QED BY <1>5, <1>6, <2>3, <2>6, <3>1 DEF Stage
  <2>7. CASE r.cmd = "start" /\ r.pid = 0
    <3>1. l = "destroy_all"
      BY <2>4, <2>7 DEF FirstStep
    <3>2. AsSeen(r.syscall)' /\ r.syscall \in Table /\ SeenOn(r.syscall)'
      BY <1>5, <2>1, <2>2, <2>7 DEF Untouched, Numbers, SeenOn
    <3>3. Switched(Syscall(p), TRUE)'
      BY <1>6, <3>2 DEF AsSeen, Shows, Switched, SeenOn
    <3>4. Others(p)'
      BY <1>5 DEF Others, Untouched
    <3> QED BY <1>5, <1>6, <2>3, <2>7, <3>1, <3>3, <3>4 DEF Stage
  <2> QED BY <2>1, <2>5, <2>6, <2>7 DEF Cmds
<1> QED BY <1>7, <1>8

LEMMA Entering ==
    ASSUME TypeOK, SerialInv, Serially, HNext, NEW p \in Procs, Enter(p)
    PROVE  SerialInv'
<1>1. CASE SystemCall(p)
  <2>1. PICK s \in Table : /\ sys_call_table[s] = "interceptor"
                           /\ Start(p, [NoCall EXCEPT !.cmd = "call", !.syscall = s], "look")
    BY <1>1 DEF SystemCall
  <2>2. "look" \in Labels \ {"idle"}
    BY DEF Labels
  <2>3. /\ Untouched /\ Untouched' /\ pc'[p] = "look" /\ p \in alive
        /\ call'[p] = [NoCall EXCEPT !.cmd = "call", !.syscall = s]
        /\ UNCHANGED <<sys_call_table, table, alive, status, seen>>
        /\ Stage(p)' => SerialInv'
    BY <2>1, <2>2, Starts
  <2>4. Cmd(p)' = "call" /\ Syscall(p)' = s /\ Pid(p)' = 0
    BY <2>3 DEF Cmd, Syscall, Pid, NoCall
  <2>5. SeenOn(s)'
    <3>1. Switched(s, SeenOn(s))
      BY <2>3 DEF Untouched, AsSeen, Shows
    <3>2. SeenOn(s)
      BY <2>1, <3>1 DEF Switched
    <3> QED BY <2>3, <3>2 DEF SeenOn
  <2> QED BY <2>3, <2>4, <2>5 DEF Stage, SeenOn
<1>2. CASE my_exit_group(p)
  <2>1. "lock_pids" \in Labels \ {"idle"} /\ Start(p, [NoCall EXCEPT !.cmd = "exit"], "lock_pids")
    BY <1>2 DEF Labels, my_exit_group
  <2>2. /\ Untouched' /\ pc'[p] = "lock_pids" /\ p \in alive
        /\ call'[p] = [NoCall EXCEPT !.cmd = "exit"]
        /\ UNCHANGED <<sys_call_table, table, alive, status, seen>>
        /\ Stage(p)' => SerialInv'
    BY <2>1, Starts
  <2>3. Cmd(p)' = "exit"
    BY <2>2 DEF Cmd, NoCall
  <2> QED BY <2>2, <2>3 DEF Stage
<1>3. CASE SystemCallNull(p)
  BY <1>3 DEF SystemCallNull, SerialInv
<1> QED BY <1>1, <1>2, <1>3, Requesting DEF Enter

-----------------------------------------------------------------------------
(* The invariant.                                                          *)

LEMMA SerialInit == HInit => SerialInv
<1> SUFFICES ASSUME HInit PROVE SerialInv
  OBVIOUS
<1> USE DEF HInit, Init, Fresh
<1>1. TypeOK
  BY LockInit, UserInit, TableInit DEF LockInv, UserInv, CallsTyped, TableTyped, TypeOK
<1>2. ASSUME NEW t \in Table PROVE Tidy(t)
  BY <1>2 DEF Tidy, Switched, Listed
<1>3. SeenOK /\ Untouched
  BY <1>1, <1>2, ViewShown DEF Orderly
<1>4. \A t \in Table : sys_call_table[t] # "null"
  OBVIOUS
<1> QED BY <1>3, <1>4 DEF SerialInv

LEMMA SerialStep ==
    ASSUME TypeOK, TypeOK', SerialInv, Serially, HNext
    PROVE  SerialInv'
<1>1. CASE \E p \in Procs : Enter(p) \/ Fork(p)
  BY <1>1, Entering, Forking
<1>2. CASE \E p \in Procs : Continue(p)
  <2>1. PICK p \in Procs : Continue(p)
    BY <1>2
  <2>2. CASE ClearMonitored(p) \/ SetMonitored(p)
    <3>1. \/ ClearMonitored(p) /\ pc[p] \in {"unmonitor", "clear_all"}
          \/ SetMonitored(p) /\ pc[p] \in {"set_all", "set_some"}
      BY <2>2 DEF ClearMonitored, SetMonitored, At
    <3> QED BY <3>1, Releasing, ForAllPids, OneStarted
  <2>3. CASE ~(ClearMonitored(p) \/ SetMonitored(p))
    BY <2>1, <2>3, OwnerChecked, Reading, ListSearched, Intercepting, Releasing, ForAllPids,
       BlackListChanged, ListStep, CallLogged, CallForwarded, PidsUnlocked, CallsUnlocked,
       Exiting, Leaving DEF Continue
  <2> QED BY <2>2, <2>3
<1>3. CASE TearList
  BY <1>3 DEF TearList, Conflict, ListsChanged, ListsRead, SerialInv
<1>4. CASE Halted
  BY <1>4 DEF Halted, SerialInv
<1> QED BY <1>1, <1>2, <1>3, <1>4 DEF HNext, Next

LEMMA SerialNext ==
    Serially => (TypeOK /\ TypeOK' /\ SerialInv /\ [HNext]_hvars => SerialInv')
<1> SUFFICES ASSUME Serially, TypeOK, TypeOK', SerialInv, [HNext]_hvars PROVE SerialInv'
  OBVIOUS
<1>1. CASE UNCHANGED hvars
  <2>1. UNCHANGED <<sys_call_table, table, alive, seen, call, pc, status>>
    BY <1>1 DEF hvars, vars, callTable, table, process, rest
  <2>2. ASSUME NEW p \in Procs PROVE Stage(p) => Stage(p)'
    <3>1. call'[p] = call[p]
      BY <2>1
    <3>2. Served(p)' = Served(p)
      BY <2>1, <3>1, Same DEF Served, Cmd, Syscall, Pid, Request, SeenOn, SeenWho,
         Service!Code, Service!Valid, Service!Permitted
    <3>3. /\ UNCHANGED <<Untouched, Others(p), Passed(p), OneAllowed(p), Changes(p), Done(p), Added(p)>>
          /\ UNCHANGED <<Swept(p), Emptied(p), Failed, Served(p)>>
      BY <2>1, <3>1, <3>2, Same
    <3>4. /\ UNCHANGED <<Pointing(p, FALSE, "original", "original"), Pointing(p, TRUE, "original", "original"),
                         Pointing(p, TRUE, "interceptor", "original")>>
          /\ UNCHANGED <<Switched(Syscall(p), TRUE), monitored[Syscall(p)], SeenOn(Syscall(p)),
                         SeenWho(Syscall(p))>>
      BY <2>1, <3>1 DEF Pointing, Switched, Syscall, SeenOn, SeenWho, table
    <3>5. UNCHANGED <<pc[p], p \in alive, Cmd(p), Syscall(p), Pid(p), call[p].ret>>
      BY <2>1, <3>1 DEF Cmd, Syscall, Pid
    <3>6. ASSUME Stage(p) PROVE Stage(p)'
      <4>1. CASE pc[p] \in {"owner", "mode", "black", "list", "change_black"}
        BY <3>3, <3>4, <3>5, <3>6, <4>1 DEF Stage
      <4>2. CASE pc[p] \in {"lock_pids", "in_pids", "unlock_pids", "set_some", "dying"}
        BY <3>3, <3>4, <3>5, <3>6, <4>2 DEF Stage
      <4>3. CASE pc[p] \in {"save", "flag", "lock_calls", "set_rw", "switch"}
        BY <3>3, <3>4, <3>5, <3>6, <4>3 DEF Stage
      <4>4. CASE pc[p] \in {"destroy", "restore", "unflag", "unmonitor", "forget", "set_ro", "unlock_calls"}
        BY <3>3, <3>4, <3>5, <3>6, <4>4 DEF Stage
      <4>5. CASE pc[p] \in {"clear_all", "destroy_all", "set_all"}
        BY <3>3, <3>4, <3>5, <3>6, <4>5 DEF Stage
      <4>6. CASE pc[p] \in {"look", "look_black", "look_list", "forward", "return", "idle"}
        BY <3>3, <3>4, <3>5, <3>6, <4>6 DEF Stage
      <4>7. pc[p] \in Labels
        BY DEF TypeOK
      <4> QED BY <4>1, <4>2, <4>3, <4>4, <4>5, <4>6, <4>7 DEF Labels, InPids, InCalls
    <3> QED BY <3>6
  <2>3. Untouched' = Untouched
    <3>1. \A t : AsSeen(t)' = AsSeen(t)
      BY <2>1 DEF AsSeen, SeenOn, SeenAll, SeenWho, Shows, Switched, Lists, Nodes, Listed, table
    <3> QED BY <3>1 DEF Untouched
  <2> QED BY <2>1, <2>2, <2>3 DEF SerialInv, SeenOK, Quiet
<1> QED BY <1>1, SerialStep

-----------------------------------------------------------------------------
(* The lists.                                                              *)

LEMMA PlainRun == HSpec => Spec
<1>1. HInit => Init
  BY DEF HInit
<1>2. [HNext]_hvars => [Next]_vars
  BY DEF HNext, hvars
<1> QED BY <1>1, <1>2, PTL DEF HSpec, Spec

LEMMA SerialHolds == ASSUME Serially PROVE HSpec => [](TypeOK /\ SerialInv)
<1>1. TypeOK /\ TypeOK' /\ SerialInv /\ [HNext]_hvars => SerialInv'
  BY SerialNext
<1> QED BY <1>1, SerialInit, PlainRun, InterceptorTyped, PTL DEF HSpec

\* Calls made one after the other never oops, and between calls the lists are
\* in order.
THEOREM ListsStayInOrder == ASSUME Serially PROVE HSpec => []ListsInOrder
<1>1. TypeOK /\ SerialInv => ListsInOrder
  <2> SUFFICES ASSUME TypeOK, SerialInv PROVE ListsInOrder
    OBVIOUS
  <2>1. ASSUME Quiet, NEW s \in Table
        PROVE  /\ ~intercepted[s] => monitored[s] = 0
               /\ \A q \in Procs : my_list[s][q] <= 1
               /\ monitored[s] = 1 => \E q \in Procs : Listed(s, q)
               /\ monitored[s] = 0 => \A q \in Procs : ~Listed(s, q)
    <3>1. Tidy(s)
      BY <2>1, SeenTidy DEF SerialInv, Untouched
    <3>2. \A q \in Procs : my_list[s][q] <= 1
      BY <3>1 DEF Tidy
    <3> QED BY <3>1, <3>2 DEF Tidy
  <2> QED BY <2>1 DEF ListsInOrder, Quiet, SerialInv
<1> QED BY <1>1, SerialHolds, PTL

\* A node is made for a pid that the checks found alive, which nobody can make
\* exit before the call is over; a process that exits takes its nodes along.
LEMMA NodesLive ==
    ASSUME TypeOK, TypeOK', SerialInv, SerialInv', ExitsForgotten, HNext
    PROVE  ExitsForgotten'
<1>1. CASE alive \subseteq alive' /\ \A s \in Table, q \in Procs : Listed(s, q)' => Listed(s, q)
  BY <1>1 DEF ExitsForgotten
<1>2. ASSUME NEW p \in Procs, orig_exit_group(p) PROVE ExitsForgotten'
  <2>1. pc[p] = "dying" /\ Swept(p) /\ alive' = alive \ {p} /\ UNCHANGED table
    BY <1>2 DEF orig_exit_group, At, SerialInv, Stage
  <2>2. \A s \in Table, q \in Procs : Listed(s, q) => q \in alive \ {p}
    BY <2>1 DEF Swept, Shows, Lists, Nodes
  <2> QED BY <2>1, <2>2 DEF ExitsForgotten, Listed, table
<1>3. ASSUME NEW p \in Procs, NEW s \in Table, add_pid_sysc(Pid(p), s), Pid(p) \in alive, alive' = alive
      PROVE  ExitsForgotten'
  <2>1. \A t \in Table, q \in Procs : q # Pid(p) => my_list'[t][q] = my_list[t][q]
    BY <1>3 DEF add_pid_sysc, TypeOK
  <2> QED BY <1>3, <2>1 DEF ExitsForgotten, Listed
<1>4. ASSUME NEW p \in Procs, NEW s \in Table, del_pid_sysc(Pid(p), s)
      PROVE  \A t \in Table, q \in Procs : Listed(t, q)' => Listed(t, q)
  <2>1. CASE Listed(s, Pid(p))
    <3>1. my_list' = [my_list EXCEPT ![s][Pid(p)] = my_list[s][Pid(p)] - 1]
      BY <1>4, <2>1 DEF del_pid_sysc
    <3>2. ASSUME NEW t \in Table, NEW q \in Procs PROVE Listed(t, q)' => Listed(t, q)
      <4>1. CASE t = s /\ q = Pid(p)
        BY <2>1, <4>1
      <4>2. CASE ~(t = s /\ q = Pid(p))
        BY <3>1, <4>2 DEF Listed, TypeOK
      <4> QED BY <4>1, <4>2
    <3> QED BY <3>2
  <2>2. CASE ~Listed(s, Pid(p))
    BY <1>4, <2>2 DEF del_pid_sysc, Listed, table
  <2> QED BY <2>1, <2>2
<1>5. ASSUME NEW p \in Procs, ChangeBlackList(p) \/ ChangeList(p) PROVE ExitsForgotten'
  <2>1. alive' = alive
    BY <1>5 DEF ChangeBlackList, ChangeList, rest
  <2>2. Changes(p) => Pid(p) \in alive /\ Syscall(p) \in Table
    BY DEF Changes, OneAllowed, Passed, Numbers
  <2>3. pc[p] \in {"change_black", "in_pids"} /\ (Cmd(p) \in {"start", "stop"} => Changes(p))
    BY <1>5 DEF ChangeBlackList, ChangeList, At, SerialInv, Stage
  <2>4. CASE UNCHANGED table
    BY <1>1, <2>1, <2>4 DEF Listed, table
  <2>5. CASE Cmd(p) \in {"start", "stop"} /\ add_pid_sysc(Pid(p), Syscall(p))
    BY <1>3, <2>1, <2>2, <2>3, <2>5
  <2>6. CASE Cmd(p) \in {"start", "stop"} /\ del_pid_sysc(Pid(p), Syscall(p))
    BY <1>1, <1>4, <2>1, <2>2, <2>3, <2>6
  <2>7. CASE Cmd(p) = "exit" /\ del_pid(p)
    <3>1. \A t \in Table, q \in Procs : my_list'[t][q] \in {0, my_list[t][q]}
      BY <2>7 DEF del_pid, TypeOK
    <3>2. \A t \in Table, q \in Procs : Listed(t, q)' => Listed(t, q)
      BY <3>1 DEF Listed
    <3> QED BY <1>1, <2>1, <3>2
  <2>8. Cmd(p) \in {"start", "stop"} \/ ChangeList(p)
    BY <1>5 DEF ChangeBlackList, At, SerialInv, Stage, Changes, OneAllowed
  <2> QED BY <1>5, <2>4, <2>5, <2>6, <2>7, <2>8 DEF ChangeBlackList, ChangeList
<1>6. ASSUME NEW p \in Procs, ReleaseList(p) \/ DestroyForAll(p) PROVE ExitsForgotten'
  <2>1. alive' = alive /\ destroy_list(Syscall(p))
    BY <1>6 DEF ReleaseList, DestroyForAll, rest
  <2>2. \A t \in Table, q \in Procs : my_list'[t][q] \in {0, my_list[t][q]}
    BY <2>1 DEF destroy_list, TypeOK
  <2> QED BY <1>1, <2>1, <2>2 DEF Listed
<1>7. ASSUME NEW p \in Procs,
             Enter(p) \/ Fork(p) \/ (Continue(p) /\ ~(\/ orig_exit_group(p) \/ ChangeBlackList(p)
                                                      \/ ChangeList(p) \/ ReleaseList(p) \/ DestroyForAll(p)))
      PROVE  alive \subseteq alive' /\ UNCHANGED my_list
  <2>1. CASE Enter(p)
    BY <2>1 DEF Enter, my_syscall, SystemCall, SystemCallNull, my_exit_group, Start, Oops, table, rest
  <2>2. CASE Fork(p)
    BY <2>2 DEF Fork, table
  <2>3. CASE Continue(p) /\ ~(\/ orig_exit_group(p) \/ ChangeBlackList(p)
                              \/ ChangeList(p) \/ ReleaseList(p) \/ DestroyForAll(p))
    BY <2>3 DEF Continue, check_pid_from_list, ReadMode, SearchList, SaveOriginal, FlagIntercepted,
       SwitchToInterceptor, RestoreOriginal, ClearIntercepted, ClearMonitored, ForgetOriginal,
       SetMonitored, InterceptorMode, InterceptorLog, Forward, LockPids, UnlockPids, LockCalls,
       UnlockCalls, set_addr_rw, set_addr_ro, Leave, Oops, table, rest
  <2> QED BY <1>7, <2>1, <2>2, <2>3
<1>8. CASE TearList \/ Halted
  BY <1>1, <1>8 DEF TearList, Halted, Oops, vars, table, rest, Listed
<1> QED BY <1>1, <1>2, <1>5, <1>6, <1>7, <1>8 DEF HNext, Next, Listed

\* A process that exits leaves all lists, in the middle of calls too.
THEOREM DeadAreForgotten == ASSUME Serially PROVE HSpec => []ExitsForgotten
<1>1. HInit => ExitsForgotten
  BY DEF HInit, Init, Fresh, ExitsForgotten, Listed
<1>2. TypeOK /\ TypeOK' /\ SerialInv /\ SerialInv' /\ ExitsForgotten /\ [HNext]_hvars => ExitsForgotten'
  <2>1. UNCHANGED hvars /\ ExitsForgotten => ExitsForgotten'
    BY DEF hvars, vars, table, rest, ExitsForgotten, Listed
  <2> QED BY <2>1, NodesLive
<1> QED BY <1>1, <1>2, SerialHolds, PTL DEF HSpec

-----------------------------------------------------------------------------
(* The steps of MonitorService.                                            *)

ServiceVars == <<seen.intercepted, seen.all, seen.watched, seen.alive, answer>>

\* A call in progress goes on: nothing is shown.
LEMMA GoesOn ==
    ASSUME TypeOK, SerialInv, SerialInv', HNext, NEW p \in Procs, pc'[p] # "idle",
           \A q \in Procs \ {p} : pc'[q] = pc[q]
    PROVE  UNCHANGED ServiceVars
<1>1. seen' = seen
  BY Busy
<1>2. ~ \E q \in Procs : pc[q] = "return" /\ pc'[q] = "idle"
  OBVIOUS
<1> QED BY <1>1, <1>2 DEF HNext, ServiceVars

LEMMA Inside ==
    ASSUME TypeOK, SerialInv', NEW p \in Procs,
           Enter(p) \/ (Continue(p) /\ ~Leave(p) /\ ~orig_exit_group(p))
    PROVE  pc'[p] # "idle" /\ \A q \in Procs \ {p} : pc'[q] = pc[q]
<1>0. ~Oops
  BY DEF Oops, SerialInv
<1>1. ASSUME NEW l, l # "idle", pc' = [pc EXCEPT ![p] = l]
      PROVE  pc'[p] # "idle" /\ \A q \in Procs \ {p} : pc'[q] = pc[q]
  BY <1>1 DEF TypeOK
<1>2. CASE Enter(p)
  <2>1. \E l : l # "idle" /\ pc' = [pc EXCEPT ![p] = l]
    BY <1>0, <1>2 DEF Enter, my_syscall, SystemCall, SystemCallNull, my_exit_group, Start, FirstStep
  <2> QED BY <1>1, <2>1
<1>3. CASE Continue(p) /\ ~Leave(p) /\ ~orig_exit_group(p)
  <2>1. CASE check_pid_from_list(p) \/ ReadMode(p) \/ SearchList(p)
             \/ SaveOriginal(p) \/ FlagIntercepted(p) \/ SwitchToInterceptor(p)
             \/ ReleaseList(p) \/ RestoreOriginal(p) \/ ClearIntercepted(p)
    <3>1. \E l : l # "idle" /\ pc' = [pc EXCEPT ![p] = l]
      BY <1>0, <2>1 DEF check_pid_from_list, ReadMode, SearchList, SaveOriginal, FlagIntercepted,
         SwitchToInterceptor, ReleaseList, RestoreOriginal, ClearIntercepted, Return, Go, GoWith
    <3> QED BY <1>1, <3>1
  <2>2. CASE ClearMonitored(p) \/ ForgetOriginal(p)
             \/ DestroyForAll(p) \/ SetMonitored(p) \/ ChangeBlackList(p) \/ ChangeList(p)
    <3>1. \E l : l # "idle" /\ pc' = [pc EXCEPT ![p] = l]
      BY <2>2 DEF ClearMonitored, ForgetOriginal, DestroyForAll, SetMonitored, ChangeBlackList,
         ChangeList, Go, GoWith
    <3> QED BY <1>1, <3>1
  <2>3. CASE InterceptorMode(p) \/ InterceptorLog(p) \/ Forward(p)
             \/ LockPids(p) \/ UnlockPids(p) \/ LockCalls(p) \/ UnlockCalls(p)
             \/ set_addr_rw(p) \/ set_addr_ro(p)
    <3>1. \E l : l # "idle" /\ pc' = [pc EXCEPT ![p] = l]
      BY <1>0, <2>3 DEF InterceptorMode, InterceptorLog, Forward, LockPids, UnlockPids, LockCalls,
         UnlockCalls, set_addr_rw, set_addr_ro, Return, Go, GoWith
    <3> QED BY <1>1, <3>1
  <2> QED BY <1>3, <2>1, <2>2, <2>3 DEF Continue
<1> QED BY <1>2, <1>3

\* What is shown when no call is in progress any more.
LEMMA Shown ==
    ASSUME HNext, Quiet'
    PROVE  /\ seen'.intercepted = {t \in Numbers : intercepted'[t]}
           /\ seen'.all = {t \in Numbers : monitored'[t] = 2}
           /\ seen'.watched = [t \in Numbers |-> Watched(t)']
           /\ seen'.alive = alive'
BY DEF HNext, View

LEMMA SeenFields ==
    ASSUME SeenOK
    PROVE  /\ seen.intercepted \subseteq Numbers /\ seen.all \subseteq Numbers
           /\ seen.watched = [t \in Numbers |-> SeenWho(t)] /\ seen.alive = alive
           /\ \A t \in Numbers : (SeenOn(t) <=> t \in seen.intercepted) /\ (SeenAll(t) <=> t \in seen.all)
                                 /\ SeenWho(t) = seen.watched[t]
BY DEF SeenOK, SeenOn, SeenAll, SeenWho

\* An entry that has not changed is shown as before.
LEMMA ShownAgain ==
    ASSUME TypeOK, SeenOK, UNCHANGED <<table, alive>>, NEW t \in Numbers, AsSeen(t)
    PROVE  (intercepted'[t] <=> SeenOn(t)) /\ (monitored'[t] = 2 <=> SeenAll(t)) /\ Watched(t)' = SeenWho(t)
<1>1. t \in Table
  BY DEF Numbers
<1>2. Watched(t)' = Watched(t)
  BY DEF Watched, Listed, table
<1> QED BY <1>1, <1>2, SeenTidy DEF table

LEMMA AllShownAgain ==
    ASSUME TypeOK, SerialInv, HNext, Quiet', UNCHANGED <<table, alive>>, Untouched
    PROVE  UNCHANGED <<seen.intercepted, seen.all, seen.watched, seen.alive>>
<1>1. \A t \in Numbers : /\ (intercepted'[t] <=> SeenOn(t)) /\ (monitored'[t] = 2 <=> SeenAll(t))
                         /\ Watched(t)' = SeenWho(t)
  BY ShownAgain DEF Untouched, SerialInv, Numbers
<1>2. seen'.intercepted = seen.intercepted
  BY <1>1, Shown, SeenFields DEF SerialInv
<1>3. seen'.all = seen.all
  BY <1>1, Shown, SeenFields DEF SerialInv
<1>4. seen'.watched = seen.watched
  BY <1>1, Shown, SeenFields DEF SerialInv
<1> QED BY <1>2, <1>3, <1>4, Shown, SeenFields DEF SerialInv

\* A new process is monitored where all are.
LEMMA ForkServed ==
    ASSUME TypeOK, SerialInv, HNext, NEW p \in Procs, Fork(p)
    PROVE  Service!Fork(p) /\ p \in Procs \ seen.alive
<1>1. Quiet /\ Quiet' /\ Untouched /\ UNCHANGED table /\ p \notin alive /\ alive' = alive \union {p}
  BY DEF Fork, HNext, Quiet, SerialInv, process
<1>2. answer' = answer
  BY <1>1 DEF HNext, Quiet
<1>3. seen.alive = alive /\ seen'.alive = alive'
  BY <1>1, Shown, SeenFields DEF SerialInv
<1>4. ASSUME NEW t \in Numbers
      PROVE  /\ (intercepted'[t] <=> SeenOn(t)) /\ (monitored'[t] = 2 <=> SeenAll(t))
             /\ Watched(t)' = IF SeenAll(t) THEN SeenWho(t) \union {p} ELSE SeenWho(t)
  <2>1. AsSeen(t) /\ t \in Table
    BY <1>1 DEF Untouched, Numbers
  <2>2. /\ intercepted[t] = SeenOn(t) /\ (monitored[t] = 2 <=> SeenAll(t)) /\ Watched(t) = SeenWho(t)
        /\ ~Listed(t, p)
    BY <1>1, <2>1, SeenTidy DEF SerialInv, Tidy
  <2>3. Watched(t)' = {q \in alive' : IF monitored[t] = 2 THEN ~Listed(t, q) ELSE Listed(t, q)}
    BY <1>1 DEF Watched, Listed, table
  <2>4. Watched(t)' = IF monitored[t] = 2 THEN Watched(t) \union {p} ELSE Watched(t)
    BY <1>1, <2>2, <2>3 DEF Watched
  <2> QED BY <1>1, <2>2, <2>4 DEF table
<1>5. seen'.intercepted = seen.intercepted
  BY <1>1, <1>4, Shown, SeenFields DEF SerialInv
<1>6. seen'.all = seen.all
  BY <1>1, <1>4, Shown, SeenFields DEF SerialInv
<1>7. seen'.watched = [t \in Numbers |-> IF t \in seen.all THEN seen.watched[t] \union {p} ELSE seen.watched[t]]
  <2>1. \A t \in Numbers : Watched(t)' = IF t \in seen.all THEN seen.watched[t] \union {p} ELSE seen.watched[t]
    BY <1>4, SeenFields DEF SerialInv
  <2> QED BY <1>1, <2>1, Shown
<1> QED BY <1>1, <1>2, <1>3, <1>5, <1>6, <1>7 DEF Service!Fork

\* What exits is no longer monitored.
LEMMA ExitServed ==
    ASSUME TypeOK, SerialInv, HNext, NEW p \in Procs, orig_exit_group(p)
    PROVE  Service!Exit(p) /\ p \in seen.alive
<1>1. /\ pc[p] = "dying" /\ Swept(p) /\ p \in alive
      /\ pc' = [pc EXCEPT ![p] = "idle"] /\ alive' = alive \ {p} /\ UNCHANGED table
  BY DEF orig_exit_group, At, SerialInv, Stage
<1>2. Quiet'
  BY <1>1 DEF Quiet, SerialInv, TypeOK
<1>3. answer' = answer
  BY <1>1 DEF HNext, SerialInv
<1>4. seen.alive = alive /\ seen'.alive = alive'
  BY <1>2, Shown, SeenFields DEF SerialInv
<1>5. ASSUME NEW t \in Numbers
      PROVE  /\ (intercepted'[t] <=> SeenOn(t)) /\ (monitored'[t] = 2 <=> SeenAll(t))
             /\ Watched(t)' = SeenWho(t) \ {p}
  <2>1. Switched(t, SeenOn(t)) /\ Lists(t, SeenAll(t), SeenWho(t) \ {p}, alive \ {p})
    BY <1>1 DEF Swept, Shows, Numbers
  <2>2. SeenWho(t) \subseteq alive
    BY SeenFields DEF SerialInv, SeenOK
  <2>3. Watched(t)' = {q \in alive \ {p} : IF monitored[t] = 2 THEN ~Listed(t, q) ELSE Listed(t, q)}
    BY <1>1 DEF Watched, Listed, table
  <2>4. Watched(t)' = SeenWho(t) \ {p}
    BY <2>1, <2>2, <2>3 DEF Lists, Nodes, TypeOK
  <2> QED BY <1>1, <2>1, <2>4 DEF Switched, Lists, table
<1>6. seen'.intercepted = seen.intercepted
  BY <1>2, <1>5, Shown, SeenFields DEF SerialInv
<1>7. seen'.all = seen.all
  BY <1>2, <1>5, Shown, SeenFields DEF SerialInv
<1>8. seen'.watched = [t \in Numbers |-> seen.watched[t] \ {p}]
  <2>1. \A t \in Numbers : Watched(t)' = seen.watched[t] \ {p}
    BY <1>5, SeenFields DEF SerialInv
  <2> QED BY <1>2, <2>1, Shown
<1> QED BY <1>1, <1>3, <1>4, <1>6, <1>7, <1>8 DEF Service!Exit

\* What a call answers when it returns.
LEMMA Replies ==
    ASSUME TypeOK, SerialInv, HNext, NEW p \in Procs, Leave(p)
    PROVE  /\ Quiet' /\ p \in seen.alive /\ UNCHANGED <<table, alive>>
           /\ answer' = [proc |-> p, cmd |-> Cmd(p), syscall |-> Syscall(p), pid |-> Pid(p),
                         ret |-> call[p].ret]
<1>1. /\ pc[p] = "return" /\ p \in alive /\ UNCHANGED <<table, alive>>
      /\ pc' = [pc EXCEPT ![p] = "idle"]
  BY DEF Leave, At, SerialInv, Stage, rest
<1>2. Quiet' /\ \A q \in Procs : pc[q] = "return" => q = p
  BY <1>1 DEF Quiet, SerialInv, TypeOK
<1>3. p = CHOOSE q \in Procs : pc[q] = "return"
  BY <1>1, <1>2
<1>4. pc'[p] = "idle"
  BY <1>1 DEF TypeOK
<1> QED BY <1>1, <1>2, <1>3, <1>4, SeenFields DEF HNext, SerialInv

\* An intercepted call is a step of the service.
LEMMA CallServed ==
    ASSUME TypeOK, SerialInv, ~KmallocFails, HNext, NEW p \in Procs, Leave(p), Cmd(p) = "call"
    PROVE  \E s \in seen.intercepted : Service!Run(p, s)
<1>1. Stage(p) /\ Served(p)
  BY DEF Leave, At, SerialInv, Stage, Failed
<1> DEFINE s == Syscall(p)
<1>2. /\ Untouched /\ s \in seen.intercepted /\ Pid(p) = 0
      /\ call[p].ret = IF p \in SeenWho(s) THEN "logged" ELSE "quiet"
  BY <1>1 DEF Served, SeenOn
<1>3. SeenWho(s) = seen.watched[s]
  BY <1>2, SeenFields DEF SerialInv
<1>4. answer' = [proc |-> p, cmd |-> "call", syscall |-> s, pid |-> 0,
                 ret |-> IF p \in seen.watched[s] THEN "logged" ELSE "quiet"]
  BY <1>2, <1>3, Replies
<1>5. UNCHANGED <<seen.intercepted, seen.all, seen.watched, seen.alive>>
  BY <1>2, Replies, AllShownAgain
<1>6. Service!Run(p, s)
  BY <1>4, <1>5 DEF Service!Run
<1> QED BY <1>2, <1>6

\* The entries of a request that is done are shown with its effect.
LEMMA DoneServed ==
    ASSUME TypeOK, SerialInv, HNext, Quiet', UNCHANGED <<table, alive>>, NEW p \in Procs, Passed(p), Done(p)
    PROVE  Service!Do(Request(p)) /\ seen'.alive = seen.alive
<1>0. PICK s \in Numbers : s = Syscall(p)
  BY DEF Passed
<1> DEFINE q == Pid(p)
<1>0a. PICK on \in BOOLEAN, all \in BOOLEAN : \E who : Fits(p, on, all, who)
  BY DoneShows DEF SerialInv
<1>1. PICK who : Fits(p, on, all, who)
  BY <1>0a
<1>2. /\ s \in Numbers /\ s \in Table /\ s \in Asked /\ Cmd(p) \in Cmds
      /\ Cmd(p) # "intercept" => SeenOn(s)
  BY <1>0 DEF Passed, Numbers, SeenOn
<1>3. (intercepted'[s] <=> on) /\ (monitored'[s] = 2 <=> all) /\ Watched(s)' = who
  <2>1. Shows(s, on, all, who, alive) /\ who \subseteq alive /\ (~on => ~all /\ who = {})
    BY <1>0, <1>1 DEF Fits, Aim
  <2>2. intercepted[s] = on /\ (monitored[s] = 2 <=> all) /\ Watched(s) = who
    BY <1>2, <2>1, ShownTidy
  <2>3. Watched(s)' = Watched(s)
    BY DEF Watched, Listed, table
  <2> QED BY <2>2, <2>3 DEF table
<1>4. \A t \in Numbers \ {s} : /\ (intercepted'[t] <=> SeenOn(t)) /\ (monitored'[t] = 2 <=> SeenAll(t))
                               /\ Watched(t)' = SeenWho(t)
  BY <1>0, ShownAgain DEF Done, Others, Numbers, SerialInv
<1>5. Request(p).cmd = Cmd(p) /\ Request(p).syscall = s /\ Request(p).pid = q
  BY <1>0 DEF Request, Cmd, Syscall, Pid, TypeOK, Calls
<1> HIDE DEF q
<1>6. seen'.intercepted = IF on THEN seen.intercepted \union {s} ELSE seen.intercepted \ {s}
  <2>1. seen'.intercepted = {t \in Numbers : intercepted'[t]} /\ seen.intercepted \subseteq Numbers
    BY Shown, SeenFields DEF SerialInv
  <2>2. ASSUME NEW t \in Numbers
        PROVE  intercepted'[t] <=> IF t = s THEN on ELSE t \in seen.intercepted
    BY <1>3, <1>4, SeenFields DEF SerialInv
  <2> QED BY <1>2, <2>1, <2>2
<1>7. seen'.all = IF all THEN seen.all \union {s} ELSE seen.all \ {s}
  <2>1. seen'.all = {t \in Numbers : monitored'[t] = 2} /\ seen.all \subseteq Numbers
    BY Shown, SeenFields DEF SerialInv
  <2>2. ASSUME NEW t \in Numbers PROVE monitored'[t] = 2 <=> IF t = s THEN all ELSE t \in seen.all
    BY <1>3, <1>4, SeenFields DEF SerialInv
  <2> HIDE DEF Numbers
  <2> QED BY <1>2, <2>1, <2>2
<1>8. seen'.watched = [seen.watched EXCEPT ![s] = who]
  <2>1. \A t \in Numbers : Watched(t)' = IF t = s THEN who ELSE seen.watched[t]
    BY <1>3, <1>4, SeenFields DEF SerialInv
  <2>2. seen'.watched = [t \in Numbers |-> IF t = s THEN who ELSE seen.watched[t]]
    BY <2>1, Shown
  <2> QED BY <2>2, SeenFields DEF SerialInv
<1>9. seen'.alive = seen.alive /\ seen.alive = alive /\ SeenWho(s) = seen.watched[s]
      /\ (SeenAll(s) <=> s \in seen.all) /\ (SeenOn(s) <=> s \in seen.intercepted)
  BY <1>2, Shown, SeenFields DEF SerialInv
<1>10. CASE Cmd(p) = "intercept"
  <2>1. on /\ ~all /\ who = {} /\ ~SeenOn(s) /\ ~SeenAll(s) /\ SeenWho(s) = {}
    <3>1. on /\ ~all /\ who = {} /\ ~SeenOn(s)
      BY <1>0, <1>1, <1>10 DEF Fits, Passed, SeenOn
    <3> QED BY <1>2, <1>9, <3>1 DEF SerialInv, SeenOK
  <2>2. seen'.intercepted = seen.intercepted \union {s} /\ seen'.all = seen.all
    BY <1>6, <1>7, <1>9, <2>1
  <2>3. seen'.watched = seen.watched
    BY <1>2, <1>8, <1>9, <2>1, SeenFields DEF SerialInv
  <2> QED BY <1>5, <1>9, <1>10, <2>2, <2>3 DEF Service!Do
<1>11. CASE Cmd(p) = "release"
  <2>1. ~on /\ ~all /\ who = {}
    BY <1>1, <1>11 DEF Fits
  <2> QED BY <1>5, <1>6, <1>7, <1>8, <1>9, <1>11, <2>1 DEF Service!Do, Service!Watch
<1>12. CASE Cmd(p) = "start"
  <2>1. on /\ (all <=> IF q = 0 THEN TRUE ELSE s \in seen.all)
        /\ who = seen.watched[s] \union (IF q = 0 THEN seen.alive ELSE {q})
    <3>1. seen.watched[s] \subseteq alive
      BY <1>2 DEF SerialInv, SeenOK
    <3>2. on /\ (IF q = 0 THEN all /\ who = alive ELSE (all <=> SeenAll(s)) /\ who = SeenWho(s) \union {q})
      BY <1>0, <1>1, <1>12 DEF Fits, q
    <3> QED BY <1>9, <3>1, <3>2
  <2>2. seen'.intercepted = seen.intercepted
    BY <1>2, <1>6, <1>9, <1>12, <2>1
  <2>3. seen'.all = IF q = 0 THEN seen.all \union {s} ELSE seen.all
    BY <1>7, <2>1
  <2> QED BY <1>5, <1>8, <1>9, <1>12, <2>1, <2>2, <2>3 DEF Service!Do, Service!Watch, Service!Whom
<1>13. CASE Cmd(p) = "stop"
  <2>1. on /\ (all <=> IF q = 0 THEN FALSE ELSE s \in seen.all)
        /\ who = seen.watched[s] \ (IF q = 0 THEN seen.alive ELSE {q})
    <3>1. seen.watched[s] \subseteq alive
      BY <1>2 DEF SerialInv, SeenOK
    <3>2. on /\ (IF q = 0 THEN ~all /\ who = {} ELSE (all <=> SeenAll(s)) /\ who = SeenWho(s) \ {q})
      BY <1>0, <1>1, <1>13 DEF Fits, q
    <3> QED BY <1>9, <3>1, <3>2
  <2>2. seen'.intercepted = seen.intercepted
    BY <1>2, <1>6, <1>9, <1>13, <2>1
  <2>3. seen'.all = IF q = 0 THEN seen.all \ {s} ELSE seen.all
    BY <1>7, <2>1
  <2> QED BY <1>5, <1>8, <1>9, <1>13, <2>1, <2>2, <2>3 DEF Service!Do, Service!Watch, Service!Whom
<1> QED BY <1>2, <1>10, <1>11, <1>12, <1>13 DEF Cmds

LEMMA RequestServed ==
    ASSUME TypeOK, SerialInv, ~KmallocFails, HNext, NEW p \in Procs, Leave(p), Cmd(p) # "call"
    PROVE  Request(p) \in Requests /\ Service!Serve(p, Request(p))
<1>1. Stage(p) /\ Served(p)
  BY DEF Leave, At, SerialInv, Stage, Failed
<1> DEFINE r == Request(p)
<1>2. /\ r \in Requests /\ call[p].ret = Service!Code(p, r)
      /\ IF call[p].ret = "ok" THEN Passed(p) /\ Done(p) ELSE Untouched
  BY <1>1 DEF Served
<1>3. r.cmd = Cmd(p) /\ r.syscall = Syscall(p) /\ r.pid = Pid(p)
  BY DEF Request, Cmd, Syscall, Pid, TypeOK, Calls
<1> HIDE DEF r
<1>4. answer' = [proc |-> p, cmd |-> r.cmd, syscall |-> r.syscall, pid |-> r.pid,
                 ret |-> Service!Code(p, r)]
  BY <1>2, <1>3, Replies
<1>5. CASE call[p].ret = "ok"
  <2>1. Service!Do(r) /\ seen'.alive = seen.alive
    BY <1>2, <1>5, Replies, DoneServed DEF r
  <2> QED BY <1>2, <1>4, <1>5, <2>1 DEF Service!Serve, r
<1>6. CASE call[p].ret # "ok"
  <2>1. UNCHANGED <<seen.intercepted, seen.all, seen.watched, seen.alive>>
    BY <1>2, <1>6, Replies, AllShownAgain
  <2> QED BY <1>2, <1>4, <1>6, <2>1 DEF Service!Serve, r
<1> QED BY <1>5, <1>6

LEMMA ServiceInit == HInit => Service!Init
<1> SUFFICES ASSUME HInit PROVE Service!Init
  OBVIOUS
<1>1. \A t \in Numbers : ~intercepted[t] /\ monitored[t] = 0 /\ Watched(t) = {}
  BY DEF HInit, Init, Fresh, Watched, Listed, Numbers
<1>2. seen.intercepted = {} /\ seen.all = {} /\ seen.watched = [t \in Numbers |-> {}] /\ seen.alive = Procs
  BY <1>1 DEF HInit, Init, View
<1> QED BY <1>2 DEF HInit, Service!Init

LEMMA ServiceStep ==
    ASSUME TypeOK, SerialInv, SerialInv', ~KmallocFails, HNext
    PROVE  Service!Next \/ UNCHANGED ServiceVars
<1>1. ASSUME NEW p \in Procs, Fork(p) PROVE Service!Next
  BY <1>1, ForkServed DEF Service!Next
<1>2. ASSUME NEW p \in Procs, orig_exit_group(p) PROVE Service!Next
  BY <1>2, ExitServed DEF Service!Next
<1>3. ASSUME NEW p \in Procs, Leave(p) PROVE Service!Next
  <2>1. p \in seen.alive
    BY <1>3, Replies
  <2>2. CASE Cmd(p) = "call"
    BY <1>3, <2>1, <2>2, CallServed DEF Service!Next
  <2>3. CASE Cmd(p) # "call"
    BY <1>3, <2>1, <2>3, RequestServed DEF Service!Next
  <2> QED BY <2>2, <2>3
<1>4. ASSUME NEW p \in Procs, Enter(p) \/ (Continue(p) /\ ~Leave(p) /\ ~orig_exit_group(p))
      PROVE  UNCHANGED ServiceVars
  <2>1. pc'[p] # "idle" /\ \A q \in Procs \ {p} : pc'[q] = pc[q]
    BY <1>4, Inside
  <2> QED BY <2>1, GoesOn
<1>5. ~TearList /\ ~Halted
  BY DEF TearList, Halted, Oops, SerialInv
<1> QED BY <1>1, <1>2, <1>3, <1>4, <1>5 DEF HNext, Next

\* Calls made one after the other are a run of MonitorService, unless kmalloc
\* fails: the lists and black lists, the flags and the saved pointers keep the
\* promised set of monitored processes, and every request has its answer.
THEOREM InterceptorImplementsService ==
    ASSUME Serially, ~KmallocFails
    PROVE  HSpec => ImplementsService
<1>1. TypeOK /\ SerialInv /\ SerialInv' /\ [HNext]_hvars => [Service!Next]_(Service!vars)
  <2> SUFFICES ASSUME TypeOK, SerialInv, SerialInv', [HNext]_hvars
               PROVE  Service!Next \/ UNCHANGED ServiceVars
    BY DEF ServiceVars, Service!vars
  <2>1. CASE UNCHANGED hvars
    BY <2>1 DEF hvars, ServiceVars
  <2> QED BY <2>1, ServiceStep
<1> QED BY <1>1, ServiceInit, SerialHolds, PTL DEF HSpec, ImplementsService, Service!Spec
=============================================================================
