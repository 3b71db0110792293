------------------------ MODULE InterceptorTestProofs ------------------------
(***************************************************************************)
(* Theorems about the test program and the loading and unloading of the    *)
(* module, for every set of processes and owners and every two system      *)
(* calls to intercept: what is left when the module is gone, why the       *)
(* machine crashes if it does, that no original is lost, and that every    *)
(* request of the test gets the answer it expects.                         *)
(*                                                                         *)
(* The invariant says who may be where in the module at which line of the  *)
(* script (WhereInv); how far the loader is, what it has done to the two   *)
(* hooks and who is recorded meanwhile (LoadInv); which call is            *)
(* intercepted at which line (EntriesInv); that who is in the interceptor  *)
(* unrecorded finds an original (LookInv); who holds calltable_lock and    *)
(* has the pages writable (HeldInv); and whom the lists name once they are *)
(* destroyed (ListsInv). For the answers it also says which calls are      *)
(* intercepted for certain (FlagInv), when there is a black list           *)
(* (MarkInv), how often the lists name init and the guest (CountInv) and   *)
(* how far the request of the line is on the way to its answer (StandInv). *)
(***************************************************************************)
EXTENDS InterceptorTest, InterceptorProofs

-----------------------------------------------------------------------------
(* The script.                                                             *)

Lines == 37

\* The lines at which there is a guest.
GuestLines == (12..23) \union (29..30) \union (33..34)

\* What may be intercepted when the test comes to line k.
MayBeOn(k) ==
    (IF k = 8 THEN {NR_exit} ELSE IF k \in 10..36 THEN {NR_open} ELSE {}) \ {MY_CUSTOM_SYSCALL}

\* Neither of the two system calls is the one my_syscall stands for.
TestedCalls == MY_CUSTOM_SYSCALL \notin {NR_exit, NR_open}

Valid(s) == s \in Table \ {MY_CUSTOM_SYSCALL}

\* How many nodes of NR_open name q when the test comes to line k, up to line 34.
Named(q, k) ==
    IF (q = Guest /\ k \in {19, 20, 21, 34}) \/ (q = Init_pid /\ k \in 28..31) THEN 1 ELSE 0

\* The answer that line k expects, and what it leaves.
AnswerOK(k, x) ==
    /\ x.cmd = "unknown" => x.ret = "EINVAL"
    /\ x.cmd \in {"intercept", "release"} =>
         x.ret = IF ~Valid(x.syscall) THEN "EINVAL"
                 ELSE IF x.by = Guest THEN "EPERM"
                 ELSE IF x.cmd = "intercept" /\ x.syscall \in MayBeOn(k) THEN "EBUSY" ELSE "ok"
    /\ x.cmd = "release" /\ x.by = Tester /\ Valid(x.syscall) =>
         x.syscall \in MayBeOn(k) \ MayBeOn(k + 1)
    /\ x.cmd \in {"start", "stop"} =>
         /\ x.syscall = NR_open /\ k \in 12..35
         /\ k <= 33 \/ (x.by = Tester /\ x.pid = Guest)
         /\ x.ret = IF x.pid = -2 \/ (x.pid = Guest /\ k \notin GuestLines) THEN "EINVAL"
                    ELSE IF x.by = Guest /\ x.pid # Guest THEN "EPERM"
                    ELSE IF x.pid = 0 THEN "ok"
                    ELSE IF Named(x.pid, k) = (IF x.cmd = "start" THEN 0 ELSE 1) THEN "ok"
                    ELSE IF x.cmd = "start" THEN "EBUSY" ELSE "EINVAL"
    /\ x.cmd = "call" => x.syscall = NR_open /\ k = 20 /\ x.ret = "logged"
    /\ x.cmd = "exit" => k \in {23, 30, 34}
    /\ k \in {25, 26} <=> x.by = Tester /\ x.pid = 0 /\ x.cmd \in {"start", "stop"}
    /\ k = 25 => x.cmd = "start"
    /\ k = 26 => x.cmd = "stop"
    /\ k <= 33 => \A q \in {Guest, Init_pid} :
         Named(q, k + 1) = IF x.cmd \in {"start", "stop"} /\ x.pid = q /\ x.ret = "ok"
                           THEN (IF x.cmd = "start" THEN 1 ELSE 0) ELSE Named(q, k)
    /\ MayBeOn(k + 1) \ (IF x.by = Tester /\ x.cmd = "intercept" THEN {x.syscall} ELSE {})
          \subseteq MayBeOn(k)

\* What line k of the script may be.
LineOK(k, x) ==
    /\ x.by = Guest /\ x.cmd # "fork" <=> k \in GuestLines
    /\ x.cmd = "fork" => x.by = Guest /\ k + 1 \in GuestLines
    /\ x.cmd \in {"call", "exit"} => x.by = Guest
    /\ x.cmd \notin {"fork", "exit"} => (k \in GuestLines <=> k + 1 \in GuestLines)
    /\ x.cmd = "insmod" <=> k = 1
    /\ x.cmd = "rmmod" <=> k = Lines
    /\ x.cmd \in {"insmod", "rmmod", "unknown"} => x.by = Tester
    /\ x.cmd \in Cmds \union {"unknown", "call", "exit", "fork", "insmod", "rmmod"}
    /\ x.by \in {Tester, Guest}
    /\ x.cmd \in {"start", "stop"} => x.pid \in {-2, 0, Init_pid, Guest}
    /\ x.cmd \in {"intercept", "release"} => x.pid = x.by
    /\ MayBeOn(k) \ (IF x.by = Tester /\ x.cmd = "release" THEN {x.syscall} ELSE {})
          \subseteq MayBeOn(k + 1)
    /\ x.by = Tester /\ x.cmd = "intercept" /\ x.syscall \in Table \ {MY_CUSTOM_SYSCALL}
          => x.syscall \in MayBeOn(k + 1)
    /\ TestedCalls => AnswerOK(k, x)

Script == Len(main) = Lines /\ \A k \in 1..Lines : LineOK(k, main[k])

Commands == {"intercept", "release", "start", "stop", "unknown", "call", "exit", "fork", "insmod",
             "rmmod"}
Answers == {"none", "ok", "EPERM", "EINVAL", "EBUSY", "logged"}
StepType == [by : Int, cmd : Commands, syscall : Int, pid : Int, ret : Answers]

\* xs are the lines of the script after line n, up to line m.
Part(xs, n, m) ==
    /\ xs \in Seq(StepType) /\ n + Len(xs) = m
    /\ \A i \in 1..Len(xs) : LineOK(n + i, xs[i])

LEMMA PartsMeet ==
    ASSUME NEW xs, NEW ys, NEW n \in Nat, NEW m \in Nat, NEW l \in Nat, Part(xs, n, m), Part(ys, m, l)
    PROVE  Part(xs \o ys, n, l)
<1> DEFINE zs == xs \o ys
<1>1. /\ xs \in Seq(StepType) /\ ys \in Seq(StepType)
      /\ n + Len(xs) = m /\ m + Len(ys) = l
      /\ \A i \in 1..Len(xs) : LineOK(n + i, xs[i])
      /\ \A i \in 1..Len(ys) : LineOK(m + i, ys[i])
  BY DEF Part
<1>2. /\ zs \in Seq(StepType) /\ Len(zs) = Len(xs) + Len(ys)
      /\ \A i \in 1..Len(zs) : zs[i] = IF i <= Len(xs) THEN xs[i] ELSE ys[i - Len(xs)]
  BY <1>1
<1>3. Len(xs) \in Nat /\ Len(ys) \in Nat
  BY <1>1
<1> HIDE DEF zs
<1>4. n + Len(zs) = l
  BY <1>1, <1>2, <1>3
<1>5. ASSUME NEW i \in 1..Len(zs) PROVE LineOK(n + i, zs[i])
  <2>1. CASE i <= Len(xs)
    <3>1. i \in 1..Len(xs) /\ zs[i] = xs[i]
      BY <1>2, <1>3, <2>1
    <3> QED BY <1>1, <3>1
  <2>2. CASE i > Len(xs)
    <3> DEFINE j == i - Len(xs)
    <3>1. j \in 1..Len(ys) /\ m + j = n + i
      <4>1. \A u, v \in Nat : \A k \in 1..u + v : k > u => k - u \in 1..v /\ (n + u) + (k - u) = n + k
        OBVIOUS
      <4>2. i \in 1..Len(xs) + Len(ys)
        BY <1>2
      <4> QED BY <1>1, <1>3, <2>2, <4>1, <4>2
    <3>2. zs[i] = ys[j]
      BY <1>2, <1>3, <2>2
    <3> HIDE DEF j
    <3>3. LineOK(m + j, ys[j])
      BY <1>1, <3>1
    <3> QED BY <3>1, <3>2, <3>3
  <2> QED BY <1>3, <2>1, <2>2
<1> QED BY <1>2, <1>4, <1>5 DEF Part, zs

-----------------------------------------------------------------------------
(* Who is where.                                                           *)

Looking == {"look", "look_black", "look_list", "forward"}
Dying == {"lock_pids", "in_pids", "unlock_pids", "dying"}
ForOne == {"owner", "mode", "black", "list", "change_black", "lock_pids", "in_pids",
           "unlock_pids", "set_some"}
ForAll == {"clear_all", "destroy_all", "set_all"}
Done == {"set_ro", "unlock_calls", "return"}

\* The labels of each command.
Route(c, l) ==
    CASE c.cmd = "call" -> l \in Looking \union {"return"}
      [] c.cmd = "exit" -> l \in Dying
      [] c.cmd \in {"start", "stop"} -> l \in ForOne \union ForAll \union {"return"}
      [] c.cmd \in {"intercept", "release"} -> l \in Working \union Done
      [] c.cmd = "unknown" -> l = "return"
      [] OTHER -> FALSE

Asks(p) ==
    /\ Cmd(p) = Now.cmd /\ Pid(p) = Now.pid /\ Syscall(p) = Now.syscall
    /\ Now.cmd \in Cmds \union {"unknown"}

\* What each process may be in the module for.
Business(p) ==
    \/ p \in {Tester, Guest} /\ Now.by = p /\ Asks(p)
    \/ p = Guest /\ Now.by = p /\ Cmd(p) = "call" /\ Now.cmd = "call"
    \/ p = Guest /\ Now.by = p /\ Cmd(p) = "exit" /\ Now.cmd = "exit"
    \/ p \in Bystanders /\ Cmd(p) = "call"
    \/ p \in Bystanders \ {Init_pid} /\ Cmd(p) = "exit"
    \/ p \in Bystanders \ {Init_pid} /\ Cmd(p) \in {"start", "stop"} /\ Pid(p) = p

Place(p) ==
    pc[p] # "idle" =>
        /\ p \in alive
        /\ Business(p) /\ Route(call[p], pc[p])
        /\ pc[p] \in Privileged => IsRoot(p) /\ Syscall(p) \in Table \ {MY_CUSTOM_SYSCALL}
        /\ pc[p] \in ForAll => Pid(p) = 0
        /\ pc[p] = "owner" => Pid(p) \in {p, Init_pid}

WhereInv ==
    /\ pc \in [Procs -> Labels] /\ call \in [Procs -> Calls]
    /\ line \in 1..Lines + 1
    /\ alive \subseteq Procs /\ {Tester, Init_pid} \subseteq alive
    /\ Guest \in alive => line \in GuestLines
    /\ \A p \in Procs : Place(p)

-----------------------------------------------------------------------------
(* Loading.                                                                *)

Loading == {"init_lock", "init_rw", "save_custom", "hijack_custom", "save_exit", "hijack_exit",
            "init_ro", "init_unlock", "init_lock_pids", "init_lists", "init_unlock_pids",
            "init_calltable_lock", "init_pidlist_lock"}
Unloading == {"exit_lock", "exit_rw", "restore_custom", "restore_exit", "exit_destroy",
              "exit_ro", "exit_unlock"}
Fresh_heads == {"out", "init_lock", "init_rw", "save_custom", "hijack_custom", "save_exit",
            "hijack_exit", "init_ro", "init_unlock", "init_lock_pids", "init_lists"}

Unsaved(e) == {"out", "init_lock", "init_rw", "save_custom"}
              \union IF e = "custom" THEN {} ELSE {"hijack_custom", "save_exit"}
Unhooked(e) ==
    Unsaved(e) \union (IF e = "custom" THEN {"hijack_custom", "restore_exit"} ELSE {"hijack_exit"})
               \union {"exit_destroy", "exit_ro", "exit_unlock", "gone"}

LoadInv ==
    /\ loader \in Loading \union Unloading \union {"out", "live", "gone"}
    /\ loader \in Loading \union {"out"} => line = 1
    /\ loader \in Unloading => line = Lines
    /\ loader = "gone" => line >= Lines
    /\ line > Lines => loader = "gone"
    /\ hook = [e \in Hooks |-> IF loader \in Unhooked(e) THEN "original" ELSE "module"]
    /\ DOMAIN saved = Hooks
    /\ \A e \in Hooks : loader \notin Unsaved(e) => saved[e] = "original"
    /\ heads \/ loader \in Fresh_heads
    /\ loader = "out" => \A p \in Procs : pc[p] = "idle"
    /\ overlap \subseteq Procs
    /\ loader \notin {"out", "live"} => \A p \in Procs : pc[p] # "idle" => p \in overlap

-----------------------------------------------------------------------------
(* The originals.                                                          *)

\* What may be intercepted, or half way to it, now.
Scope == IF pc[Tester] = "idle" THEN MayBeOn(line)
         ELSE IF pc[Tester] \in Done THEN MayBeOn(line + 1)
         ELSE MayBeOn(line) \union MayBeOn(line + 1)

EntriesInv ==
    /\ DOMAIN sys_call_table = Table /\ DOMAIN f = Table /\ DOMAIN intercepted = Table
    /\ pc[Tester] \in Working => Expected(Tester)
    /\ \A s \in Table : /\ Settled(s) \/ (pc[Tester] \in Working /\ Syscall(Tester) = s)
                        /\ Off(s) \/ s \in Scope

LookInv ==
    \A p \in Procs : pc[p] \in Looking /\ p \notin overlap =>
        Syscall(p) \in Table /\ f[Syscall(p)] = "original"

-----------------------------------------------------------------------------
(* What is left.                                                           *)

LoaderHolds == {"init_rw", "save_custom", "hijack_custom", "save_exit", "hijack_exit",
                "init_ro", "init_unlock", "exit_rw", "restore_custom", "restore_exit",
                "exit_destroy", "exit_ro", "exit_unlock"}
LoaderWrites == LoaderHolds \ {"init_rw", "init_unlock", "exit_rw", "exit_unlock"}

HeldInv ==
    /\ calltable_lock = IF pc[Tester] \in InCalls THEN Tester
                        ELSE IF loader \in LoaderHolds THEN Loader ELSE NoProc
    /\ rw = (pc[Tester] \in Writing \/ loader \in LoaderWrites)

ListsInv ==
    /\ my_list \in [Table -> [Procs -> Nat]]
    /\ loader \in {"exit_ro", "exit_unlock", "gone"} =>
          \A s \in Table, q \in {Tester, Guest, Init_pid} : ~Listed(s, q)

-----------------------------------------------------------------------------
(* The lines of the script, one by one.                                    *)

LEMMA Numbers ==
    /\ {Tester, Guest, Init_pid} \subseteq Nat \ {0} /\ {NR_exit, NR_open, MY_CUSTOM_SYSCALL} \subseteq Nat
    /\ Tester # Guest /\ Init_pid \notin {Tester, Guest} /\ NR_exit # NR_open
    /\ {Tester, Guest, Init_pid} \subseteq Procs
    /\ Uid[Tester] = 0 /\ Uid[Guest] # 0 /\ Uid[Init_pid] = 0
    /\ NR_syscalls \in Nat /\ {NR_exit, NR_open} \subseteq Table
<1>1. NR_syscalls \in Nat /\ Procs \subseteq Nat \ {0}
  BY ProcsAssumption, NumbersAssumption
<1>2. {NR_exit, NR_open} \subseteq Table /\ Table \subseteq Nat
  BY <1>1, TestAssumption DEF Table
<1>3. MY_CUSTOM_SYSCALL \in Nat
  BY DEF MY_CUSTOM_SYSCALL
<1>4. {Tester, Guest, Init_pid} \subseteq Nat \ {0}
  BY <1>1, TestAssumption
<1>5. {NR_exit, NR_open, MY_CUSTOM_SYSCALL} \subseteq Nat
  BY <1>2, <1>3
<1> QED BY <1>1, <1>2, <1>4, <1>5, TestAssumption

LEMMA Given ==
    /\ {"EPERM", "ok", "EBUSY", "EINVAL", "logged", "none"} \subseteq Answers
    /\ {NR_open, NR_exit, MY_CUSTOM_SYSCALL, -1, -2, Init_pid, Guest, Tester} \subseteq Int
    /\ -1 \notin Table
<1>1. {NR_open, NR_exit, MY_CUSTOM_SYSCALL, Init_pid, Guest, Tester} \subseteq Int
  BY Numbers
<1> QED BY <1>1 DEF Answers, Table

MayBe ==
    /\ \A k \in (1..7) \union {9, 37, 38} : MayBeOn(k) = {}
    /\ MayBeOn(8) = {NR_exit}
    /\ \A k \in 10..36 : MayBeOn(k) = {NR_open}

\* The facts about the two system calls that the answers rest on.
LEMMA AnswerFacts ==
    ASSUME TestedCalls
    PROVE  /\ Valid(NR_open) /\ Valid(NR_exit) /\ ~Valid(MY_CUSTOM_SYSCALL) /\ ~Valid(-1)
           /\ NR_exit # NR_open /\ MayBe
<1>1. Valid(NR_open) /\ Valid(NR_exit) /\ ~Valid(MY_CUSTOM_SYSCALL) /\ ~Valid(-1)
  BY Numbers, Given DEF Valid, TestedCalls
<1>2. MayBe
  BY DEF MayBe, MayBeOn, TestedCalls
<1> QED BY <1>1, <1>2, Numbers

LEMMA StepTyped ==
    ASSUME NEW by \in {Tester, Guest}, NEW cmd \in Commands, NEW syscall \in Int, NEW pid \in Int,
           NEW ret \in Answers
    PROVE  Step(by, cmd, syscall, pid, ret) \in StepType
<1>1. by \in Int
  BY Numbers
<1> QED BY <1>1 DEF Step, StepType

\* What the guest asks for.
LEMMA GuestStep ==
    ASSUME NEW k \in Nat, k \in GuestLines, k + 1 \in GuestLines, NEW syscall \in Int, NEW pid \in Int,
           NEW ret \in Answers, NEW cmd \in {"intercept", "release", "start", "stop", "call"},
           cmd \in {"start", "stop"} => pid \in {-2, 0, Init_pid, Guest},
           cmd \in {"intercept", "release"} => pid = Guest,
           TestedCalls => AnswerOK(k, Step(Guest, cmd, syscall, pid, ret))
    PROVE  LET x == Step(Guest, cmd, syscall, pid, ret) IN x \in StepType /\ LineOK(k, x)
<1> DEFINE x == Step(Guest, cmd, syscall, pid, ret)
<1>1. /\ x.by = Guest /\ x.cmd = cmd /\ x.syscall = syscall /\ x.pid = pid
  BY DEF Step
<1>2. k \in 12..22 \cup 29..29 \cup 33..33
  BY DEF GuestLines
<1>3. MayBeOn(k) = MayBeOn(k + 1)
  BY <1>2 DEF MayBeOn
<1>4. cmd \in Commands
  BY DEF Commands
<1>5. x \in StepType /\ (TestedCalls => AnswerOK(k, x))
  BY <1>4, StepTyped
<1> HIDE DEF x
<1>6. LineOK(k, x)
  BY <1>1, <1>2, <1>3, <1>5, Numbers DEF LineOK, Cmds, Lines
<1> QED BY <1>5, <1>6 DEF x

\* What the tester asks for, and what may be intercepted after it.
LEMMA TesterStep ==
    ASSUME NEW k \in 2..36, k \notin GuestLines, k + 1 \notin GuestLines, NEW syscall \in Int,
           NEW pid \in Int, NEW ret \in Answers,
           NEW cmd \in {"intercept", "release", "start", "stop", "unknown"},
           cmd \in {"start", "stop"} => pid \in {-2, 0, Init_pid, Guest},
           cmd \in {"intercept", "release"} => pid = Tester,
           MayBeOn(k) \ (IF cmd = "release" THEN {syscall} ELSE {}) \subseteq MayBeOn(k + 1),
           cmd = "intercept" /\ syscall \in Table \ {MY_CUSTOM_SYSCALL} => syscall \in MayBeOn(k + 1),
           TestedCalls => AnswerOK(k, Step(Tester, cmd, syscall, pid, ret))
    PROVE  LET x == Step(Tester, cmd, syscall, pid, ret) IN x \in StepType /\ LineOK(k, x)
<1> DEFINE x == Step(Tester, cmd, syscall, pid, ret)
<1>1. /\ x.by = Tester /\ x.cmd = cmd /\ x.syscall = syscall /\ x.pid = pid
  BY DEF Step
<1>2. cmd \in Commands /\ k # 1 /\ k # Lines
  BY DEF Commands, Lines
<1>3. x \in StepType /\ (TestedCalls => AnswerOK(k, x))
  BY <1>2, StepTyped
<1> HIDE DEF x
<1>4. LineOK(k, x)
  BY <1>1, <1>2, <1>3, Numbers DEF LineOK, Cmds
<1> QED BY <1>3, <1>4 DEF x

\* The lines that load and unload, and begin and end a guest.
LEMMA OtherStep ==
    ASSUME NEW k \in Nat, NEW by, NEW cmd,
           \/ by = Tester /\ cmd = "insmod" /\ k = 1
           \/ by = Tester /\ cmd = "rmmod" /\ k = 37
           \/ by = Guest /\ cmd = "fork" /\ k \in {11, 28, 32}
           \/ by = Guest /\ cmd = "exit" /\ k \in {23, 30, 34}
    PROVE  Other(by, cmd) \in StepType /\ LineOK(k, Other(by, cmd))
<1> DEFINE x == Other(by, cmd)
<1>1. x.by = by /\ x.cmd = cmd
  BY DEF Other, Step
<1>2. cmd \in Commands /\ "none" \in Answers /\ by \in {Tester, Guest}
  BY DEF Commands, Answers
<1>3. x \in StepType
  BY <1>2, StepTyped DEF Other
<1> HIDE DEF x
<1>4. MayBeOn(k) \subseteq MayBeOn(k + 1)
  BY DEF MayBeOn
<1>5. ASSUME TestedCalls PROVE AnswerOK(k, x)
  <2>1. k \in {1, 11, 23, 28, 30, 32, 34, 37} /\ k \notin {25, 26}
    OBVIOUS
  <2>2. MayBeOn(k + 1) \subseteq MayBeOn(k)
    BY <1>5, <2>1, AnswerFacts DEF MayBe
  <2>3. cmd \in {"insmod", "rmmod", "fork", "exit"}
    OBVIOUS
  <2>4. k <= 33 => \A q : Named(q, k + 1) = Named(q, k)
    BY <2>1, Numbers DEF Named
  <2> QED BY <1>1, <2>1, <2>2, <2>3, <2>4 DEF AnswerOK
<1>6. LineOK(k, x)
  <2>1. CASE by = Tester
    BY <1>1, <1>4, <1>5, <2>1, Numbers DEF LineOK, Cmds, GuestLines, Lines
  <2>2. CASE by = Guest
    BY <1>1, <1>4, <1>5, <2>2, Numbers DEF LineOK, Cmds, GuestLines, Lines
  <2> QED BY <1>2, <2>1, <2>2
<1> QED BY <1>3, <1>6 DEF x

LEMMA One ==
    ASSUME NEW x \in StepType, NEW n \in Nat, LineOK(n + 1, x)
    PROVE  Part(<<x>>, n, n + 1)
<1>1. <<x>> \in Seq(StepType) /\ Len(<<x>>) = 1 /\ <<x>>[1] = x
  OBVIOUS
<1>2. \A i \in 1..1 : i = 1
  OBVIOUS
<1> QED BY <1>1, <1>2 DEF Part

\* x may be line k.
Fits(k, x) == x \in StepType /\ LineOK(k, x)

LEMMA GuestMay == \A k \in (12..22) \union {29, 33} : k \in GuestLines /\ k + 1 \in GuestLines
BY DEF GuestLines

LEMMA TesterMay ==
    /\ \A k \in (2..10) \union (24..27) \union {31, 35, 36} :
         k \in 2..36 /\ k \notin GuestLines /\ k + 1 \notin GuestLines
    /\ \A k \in 2..6 : MayBeOn(k) = {} /\ MayBeOn(k + 1) = {}
    /\ MayBeOn(7) = {} /\ MayBeOn(8) = {NR_exit} \ {MY_CUSTOM_SYSCALL} /\ MayBeOn(9) = {}
    /\ \A k \in 10..36 : MayBeOn(k) = {NR_open} \ {MY_CUSTOM_SYSCALL}
    /\ MayBeOn(37) = {}
BY DEF GuestLines, MayBeOn

\* The parts of the script.
Opening ==
    <<Other(Tester, "insmod"), Step(Tester, "unknown", 0, 0, "EINVAL"),
      do_intercept(Tester, MY_CUSTOM_SYSCALL, "EINVAL"),
      do_release(Tester, MY_CUSTOM_SYSCALL, "EINVAL"), do_intercept(Tester, -1, "EINVAL"),
      do_release(Tester, -1, "EINVAL"), do_intercept(Tester, NR_exit, "ok"),
      do_release(Tester, NR_exit, "ok")>>
Intercepts ==
    <<do_intercept(Tester, NR_open, "ok"), do_intercept(Tester, NR_open, "EBUSY")>>
Starts ==
    <<do_start(Tester, NR_open, -2, "EINVAL"), do_start(Tester, NR_open, 0, "ok"),
      do_stop(Tester, NR_open, 0, "ok"), do_start(Tester, NR_open, Init_pid, "ok")>>
GuestStops ==
    <<do_stop(Guest, NR_open, Init_pid, "EPERM")>>
Stops ==
    <<do_stop(Tester, NR_open, Init_pid, "ok")>>
GuestStarts ==
    <<do_start(Guest, NR_open, Guest, "ok")>>
Releases ==
    <<do_stop(Tester, NR_open, Guest, "EINVAL"), do_release(Tester, NR_open, "ok")>>
Closing ==
    <<Other(Tester, "rmmod")>>

\* The answers of the parts.
LEMMA OpeningAnswers ==
    ASSUME TestedCalls
    PROVE  /\ AnswerOK(2, Step(Tester, "unknown", 0, 0, "EINVAL"))
           /\ AnswerOK(3, do_intercept(Tester, MY_CUSTOM_SYSCALL, "EINVAL"))
           /\ AnswerOK(4, do_release(Tester, MY_CUSTOM_SYSCALL, "EINVAL"))
           /\ AnswerOK(5, do_intercept(Tester, -1, "EINVAL"))
           /\ AnswerOK(6, do_release(Tester, -1, "EINVAL"))
           /\ AnswerOK(7, do_intercept(Tester, NR_exit, "ok"))
           /\ AnswerOK(8, do_release(Tester, NR_exit, "ok"))
<1>1. AnswerOK(2, Step(Tester, "unknown", 0, 0, "EINVAL"))
  BY AnswerFacts, Numbers DEF AnswerOK, Step, Named, MayBe
<1>2. AnswerOK(3, do_intercept(Tester, MY_CUSTOM_SYSCALL, "EINVAL"))
  BY AnswerFacts, Numbers DEF AnswerOK, do_intercept, Step, Named, MayBe
<1>3. AnswerOK(4, do_release(Tester, MY_CUSTOM_SYSCALL, "EINVAL"))
  BY AnswerFacts, Numbers DEF AnswerOK, do_release, Step, Named, MayBe
<1>4. AnswerOK(5, do_intercept(Tester, -1, "EINVAL"))
  BY AnswerFacts, Numbers DEF AnswerOK, do_intercept, Step, Named, MayBe
<1>5. AnswerOK(6, do_release(Tester, -1, "EINVAL"))
  BY AnswerFacts, Numbers DEF AnswerOK, do_release, Step, Named, MayBe
<1>6. AnswerOK(7, do_intercept(Tester, NR_exit, "ok"))
  BY AnswerFacts, Numbers DEF AnswerOK, do_intercept, Step, Named, MayBe
<1>7. AnswerOK(8, do_release(Tester, NR_exit, "ok"))
  BY AnswerFacts, Numbers DEF AnswerOK, do_release, Step, Named, MayBe
<1> QED BY <1>1, <1>2, <1>3, <1>4, <1>5, <1>6, <1>7

LEMMA FirstPart == Part(Opening, 0, 8)
<1> DEFINE t == Opening
<1>1. Fits(1, Other(Tester, "insmod"))
  BY OtherStep DEF Fits
<1>2. Fits(2, Step(Tester, "unknown", 0, 0, "EINVAL"))
  BY Given, TesterStep, TesterMay, OpeningAnswers DEF Fits
<1>3. Fits(3, do_intercept(Tester, MY_CUSTOM_SYSCALL, "EINVAL"))
  BY Given, TesterStep, TesterMay, OpeningAnswers DEF Fits, do_intercept, MY_CUSTOM_SYSCALL, Table
<1>4. Fits(4, do_release(Tester, MY_CUSTOM_SYSCALL, "EINVAL"))
  BY Given, TesterStep, TesterMay, OpeningAnswers DEF Fits, do_release
<1>5. Fits(5, do_intercept(Tester, -1, "EINVAL"))
  BY Given, TesterStep, TesterMay, OpeningAnswers DEF Fits, do_intercept, MY_CUSTOM_SYSCALL, Table
<1>6. Fits(6, do_release(Tester, -1, "EINVAL"))
  BY Given, TesterStep, TesterMay, OpeningAnswers DEF Fits, do_release
<1>7. Fits(7, do_intercept(Tester, NR_exit, "ok"))
  BY Given, TesterStep, TesterMay, OpeningAnswers DEF Fits, do_intercept, MY_CUSTOM_SYSCALL, Table
<1>8. Fits(8, do_release(Tester, NR_exit, "ok"))
  BY Given, TesterStep, TesterMay, OpeningAnswers DEF Fits, do_release
<1>9. /\ Len(t) = 8 /\ t \in Seq(StepType)
      /\ Fits(1, t[1]) /\ Fits(2, t[2]) /\ Fits(3, t[3]) /\ Fits(4, t[4])
      /\ Fits(5, t[5]) /\ Fits(6, t[6]) /\ Fits(7, t[7]) /\ Fits(8, t[8])
  BY <1>1, <1>2, <1>3, <1>4, <1>5, <1>6, <1>7, <1>8 DEF Opening, Fits
<1> HIDE DEF t
<1>10. ASSUME NEW i \in 1..8 PROVE LineOK(0 + i, t[i])
  BY <1>9 DEF Fits
<1> QED BY <1>9, <1>10 DEF Part, t

LEMMA InterceptAnswers ==
    ASSUME TestedCalls
    PROVE  /\ AnswerOK(9, do_intercept(Tester, NR_open, "ok"))
           /\ AnswerOK(10, do_intercept(Tester, NR_open, "EBUSY"))
<1>1. AnswerOK(9, do_intercept(Tester, NR_open, "ok"))
  BY AnswerFacts, Numbers DEF AnswerOK, do_intercept, Step, Named, MayBe
<1>2. AnswerOK(10, do_intercept(Tester, NR_open, "EBUSY"))
  BY AnswerFacts, Numbers DEF AnswerOK, do_intercept, Step, Named, MayBe
<1> QED BY <1>1, <1>2

LEMMA InterceptPart == Part(Intercepts, 8, 10)
<1> DEFINE t == Intercepts
<1>1. Fits(9, do_intercept(Tester, NR_open, "ok"))
  BY Given, TesterStep, TesterMay, InterceptAnswers DEF Fits, do_intercept, MY_CUSTOM_SYSCALL, Table
<1>2. Fits(10, do_intercept(Tester, NR_open, "EBUSY"))
  BY Given, TesterStep, TesterMay, InterceptAnswers DEF Fits, do_intercept, MY_CUSTOM_SYSCALL, Table
<1>3. /\ Len(t) = 2 /\ t \in Seq(StepType)
      /\ Fits(9, t[1]) /\ Fits(10, t[2])
  BY <1>1, <1>2 DEF Intercepts, Fits
<1> HIDE DEF t
<1>4. ASSUME NEW i \in 1..2 PROVE LineOK(8 + i, t[i])
  BY <1>3 DEF Fits
<1> QED BY <1>3, <1>4 DEF Part, t

LEMMA NonrootAnswers ==
    ASSUME TestedCalls
    PROVE  /\ AnswerOK(12, do_intercept(Guest, NR_open, "EPERM"))
           /\ AnswerOK(13, do_release(Guest, NR_open, "EPERM"))
           /\ AnswerOK(14, do_start(Guest, NR_open, 0, "EPERM"))
           /\ AnswerOK(15, do_stop(Guest, NR_open, 0, "EPERM"))
           /\ AnswerOK(16, do_start(Guest, NR_open, Init_pid, "EPERM"))
           /\ AnswerOK(17, do_stop(Guest, NR_open, Init_pid, "EPERM"))
           /\ AnswerOK(18, do_start(Guest, NR_open, Guest, "ok"))
           /\ AnswerOK(19, do_start(Guest, NR_open, Guest, "EBUSY"))
           /\ AnswerOK(20, do_monitor(Guest, NR_open))
           /\ AnswerOK(21, do_stop(Guest, NR_open, Guest, "ok"))
           /\ AnswerOK(22, do_stop(Guest, NR_open, Guest, "EINVAL"))
<1>1. AnswerOK(12, do_intercept(Guest, NR_open, "EPERM"))
  BY AnswerFacts, Numbers DEF AnswerOK, do_intercept, Step, Named, MayBe
<1>2. AnswerOK(13, do_release(Guest, NR_open, "EPERM"))
  BY AnswerFacts, Numbers DEF AnswerOK, do_release, Step, Named, MayBe
<1>3. AnswerOK(14, do_start(Guest, NR_open, 0, "EPERM"))
  BY AnswerFacts, Numbers DEF AnswerOK, do_start, GuestLines, Step, Named, MayBe
<1>4. AnswerOK(15, do_stop(Guest, NR_open, 0, "EPERM"))
  BY AnswerFacts, Numbers DEF AnswerOK, do_stop, GuestLines, Step, Named, MayBe
<1>5. AnswerOK(16, do_start(Guest, NR_open, Init_pid, "EPERM"))
  BY AnswerFacts, Numbers DEF AnswerOK, do_start, GuestLines, Step, Named, MayBe
<1>6. AnswerOK(17, do_stop(Guest, NR_open, Init_pid, "EPERM"))
  BY AnswerFacts, Numbers DEF AnswerOK, do_stop, GuestLines, Step, Named, MayBe
<1>7. AnswerOK(18, do_start(Guest, NR_open, Guest, "ok"))
  BY AnswerFacts, Numbers DEF AnswerOK, do_start, GuestLines, Step, Named, MayBe
<1>8. AnswerOK(19, do_start(Guest, NR_open, Guest, "EBUSY"))
  BY AnswerFacts, Numbers DEF AnswerOK, do_start, GuestLines, Step, Named, MayBe
<1>9. AnswerOK(20, do_monitor(Guest, NR_open))
  BY AnswerFacts, Numbers DEF AnswerOK, do_monitor, Step, Named, MayBe
<1>10. AnswerOK(21, do_stop(Guest, NR_open, Guest, "ok"))
  BY AnswerFacts, Numbers DEF AnswerOK, do_stop, GuestLines, Step, Named, MayBe
<1>11. AnswerOK(22, do_stop(Guest, NR_open, Guest, "EINVAL"))
  BY AnswerFacts, Numbers DEF AnswerOK, do_stop, GuestLines, Step, Named, MayBe
<1> QED BY <1>1, <1>2, <1>3, <1>4, <1>5, <1>6, <1>7, <1>8, <1>9, <1>10, <1>11

LEMMA NonrootPart == Part(do_nonroot(NR_open), 11, 22)
<1> DEFINE t == do_nonroot(NR_open)
<1>1. Fits(12, do_intercept(Guest, NR_open, "EPERM"))
  <2>1. TestedCalls => AnswerOK(12, do_intercept(Guest, NR_open, "EPERM"))
    BY NonrootAnswers
  <2> QED BY <2>1, Given, GuestStep, GuestMay DEF Fits, do_intercept
<1>2. Fits(13, do_release(Guest, NR_open, "EPERM"))
  BY Given, GuestStep, GuestMay, NonrootAnswers DEF Fits, do_release
<1>3. Fits(14, do_start(Guest, NR_open, 0, "EPERM"))
  BY Given, GuestStep, GuestMay, NonrootAnswers DEF Fits, do_start
<1>4. Fits(15, do_stop(Guest, NR_open, 0, "EPERM"))
  BY Given, GuestStep, GuestMay, NonrootAnswers DEF Fits, do_stop
<1>5. Fits(16, do_start(Guest, NR_open, Init_pid, "EPERM"))
  BY Given, GuestStep, GuestMay, NonrootAnswers DEF Fits, do_start
<1>6. Fits(17, do_stop(Guest, NR_open, Init_pid, "EPERM"))
  BY Given, GuestStep, GuestMay, NonrootAnswers DEF Fits, do_stop
<1>7. Fits(18, do_start(Guest, NR_open, Guest, "ok"))
  BY Given, GuestStep, GuestMay, NonrootAnswers DEF Fits, do_start
<1>8. Fits(19, do_start(Guest, NR_open, Guest, "EBUSY"))
  BY Given, GuestStep, GuestMay, NonrootAnswers DEF Fits, do_start
<1>9. Fits(20, do_monitor(Guest, NR_open))
  BY Given, GuestStep, GuestMay, NonrootAnswers DEF Fits, do_monitor
<1>10. Fits(21, do_stop(Guest, NR_open, Guest, "ok"))
  BY Given, GuestStep, GuestMay, NonrootAnswers DEF Fits, do_stop
<1>11. Fits(22, do_stop(Guest, NR_open, Guest, "EINVAL"))
  BY Given, GuestStep, GuestMay, NonrootAnswers DEF Fits, do_stop
<1>12. /\ Len(t) = 11 /\ t \in Seq(StepType)
      /\ Fits(12, t[1]) /\ Fits(13, t[2]) /\ Fits(14, t[3]) /\ Fits(15, t[4])
      /\ Fits(16, t[5]) /\ Fits(17, t[6]) /\ Fits(18, t[7]) /\ Fits(19, t[8])
      /\ Fits(20, t[9]) /\ Fits(21, t[10]) /\ Fits(22, t[11])
  BY <1>1, <1>2, <1>3, <1>4, <1>5, <1>6, <1>7, <1>8, <1>9, <1>10, <1>11 DEF do_nonroot, Fits
<1> HIDE DEF t
<1>13. ASSUME NEW i \in 1..11 PROVE LineOK(11 + i, t[i])
  BY <1>12 DEF Fits
<1> QED BY <1>12, <1>13 DEF Part, t

LEMMA StartAnswers ==
    ASSUME TestedCalls
    PROVE  /\ AnswerOK(24, do_start(Tester, NR_open, -2, "EINVAL"))
           /\ AnswerOK(25, do_start(Tester, NR_open, 0, "ok"))
           /\ AnswerOK(26, do_stop(Tester, NR_open, 0, "ok"))
           /\ AnswerOK(27, do_start(Tester, NR_open, Init_pid, "ok"))
<1>1. AnswerOK(24, do_start(Tester, NR_open, -2, "EINVAL"))
  BY AnswerFacts, Numbers DEF AnswerOK, do_start, GuestLines, Step, Named, MayBe
<1>2. AnswerOK(25, do_start(Tester, NR_open, 0, "ok"))
  BY AnswerFacts, Numbers DEF AnswerOK, do_start, GuestLines, Step, Named, MayBe
<1>3. AnswerOK(26, do_stop(Tester, NR_open, 0, "ok"))
  BY AnswerFacts, Numbers DEF AnswerOK, do_stop, GuestLines, Step, Named, MayBe
<1>4. AnswerOK(27, do_start(Tester, NR_open, Init_pid, "ok"))
  BY AnswerFacts, Numbers DEF AnswerOK, do_start, GuestLines, Step, Named, MayBe
<1> QED BY <1>1, <1>2, <1>3, <1>4

LEMMA StartPart == Part(Starts, 23, 27)
<1> DEFINE t == Starts
<1>1. Fits(24, do_start(Tester, NR_open, -2, "EINVAL"))
  BY Given, TesterStep, TesterMay, StartAnswers DEF Fits, do_start
<1>2. Fits(25, do_start(Tester, NR_open, 0, "ok"))
  BY Given, TesterStep, TesterMay, StartAnswers DEF Fits, do_start
<1>3. Fits(26, do_stop(Tester, NR_open, 0, "ok"))
  BY Given, TesterStep, TesterMay, StartAnswers DEF Fits, do_stop
<1>4. Fits(27, do_start(Tester, NR_open, Init_pid, "ok"))
  BY Given, TesterStep, TesterMay, StartAnswers DEF Fits, do_start
<1>5. /\ Len(t) = 4 /\ t \in Seq(StepType)
      /\ Fits(24, t[1]) /\ Fits(25, t[2]) /\ Fits(26, t[3]) /\ Fits(27, t[4])
  BY <1>1, <1>2, <1>3, <1>4 DEF Starts, Fits
<1> HIDE DEF t
<1>6. ASSUME NEW i \in 1..4 PROVE LineOK(23 + i, t[i])
  BY <1>5 DEF Fits
<1> QED BY <1>5, <1>6 DEF Part, t

LEMMA LaterAnswers ==
    ASSUME TestedCalls
    PROVE  /\ AnswerOK(29, do_stop(Guest, NR_open, Init_pid, "EPERM"))
           /\ AnswerOK(31, do_stop(Tester, NR_open, Init_pid, "ok"))
           /\ AnswerOK(33, do_start(Guest, NR_open, Guest, "ok"))
           /\ AnswerOK(35, do_stop(Tester, NR_open, Guest, "EINVAL"))
           /\ AnswerOK(36, do_release(Tester, NR_open, "ok"))
<1>1. AnswerOK(29, do_stop(Guest, NR_open, Init_pid, "EPERM"))
  BY AnswerFacts, Numbers DEF AnswerOK, do_stop, GuestLines, Step, Named, MayBe
<1>2. AnswerOK(31, do_stop(Tester, NR_open, Init_pid, "ok"))
  BY AnswerFacts, Numbers DEF AnswerOK, do_stop, GuestLines, Step, Named, MayBe
<1>3. AnswerOK(33, do_start(Guest, NR_open, Guest, "ok"))
  BY AnswerFacts, Numbers DEF AnswerOK, do_start, GuestLines, Step, Named, MayBe
<1>4. AnswerOK(35, do_stop(Tester, NR_open, Guest, "EINVAL"))
  BY AnswerFacts, Numbers DEF AnswerOK, do_stop, GuestLines, Step, Named, MayBe
<1>5. AnswerOK(36, do_release(Tester, NR_open, "ok"))
  BY AnswerFacts, Numbers DEF AnswerOK, do_release, Step, Named, MayBe
<1> QED BY <1>1, <1>2, <1>3, <1>4, <1>5

LEMMA StopInitPart == Part(GuestStops, 28, 29)
<1> DEFINE t == GuestStops
<1>1. Fits(29, do_stop(Guest, NR_open, Init_pid, "EPERM"))
  BY Given, GuestStep, GuestMay, LaterAnswers DEF Fits, do_stop
<1>2. /\ Len(t) = 1 /\ t \in Seq(StepType)
      /\ Fits(29, t[1])
  BY <1>1 DEF GuestStops, Fits
<1> HIDE DEF t
<1>3. ASSUME NEW i \in 1..1 PROVE LineOK(28 + i, t[i])
  BY <1>2 DEF Fits
<1> QED BY <1>2, <1>3 DEF Part, t

LEMMA StopPart == Part(Stops, 30, 31)
<1> DEFINE t == Stops
<1>1. Fits(31, do_stop(Tester, NR_open, Init_pid, "ok"))
  BY Given, TesterStep, TesterMay, LaterAnswers DEF Fits, do_stop
<1>2. /\ Len(t) = 1 /\ t \in Seq(StepType)
      /\ Fits(31, t[1])
  BY <1>1 DEF Stops, Fits
<1> HIDE DEF t
<1>3. ASSUME NEW i \in 1..1 PROVE LineOK(30 + i, t[i])
  BY <1>2 DEF Fits
<1> QED BY <1>2, <1>3 DEF Part, t

LEMMA StartSelfPart == Part(GuestStarts, 32, 33)
<1> DEFINE t == GuestStarts
<1>1. Fits(33, do_start(Guest, NR_open, Guest, "ok"))
  BY Given, GuestStep, GuestMay, LaterAnswers DEF Fits, do_start
<1>2. /\ Len(t) = 1 /\ t \in Seq(StepType)
      /\ Fits(33, t[1])
  BY <1>1 DEF GuestStarts, Fits
<1> HIDE DEF t
<1>3. ASSUME NEW i \in 1..1 PROVE LineOK(32 + i, t[i])
  BY <1>2 DEF Fits
<1> QED BY <1>2, <1>3 DEF Part, t

LEMMA ReleasePart == Part(Releases, 34, 36)
<1> DEFINE t == Releases
<1>1. Fits(35, do_stop(Tester, NR_open, Guest, "EINVAL"))
  BY Given, TesterStep, TesterMay, LaterAnswers DEF Fits, do_stop
<1>2. Fits(36, do_release(Tester, NR_open, "ok"))
  BY Given, TesterStep, TesterMay, LaterAnswers DEF Fits, do_release
<1>3. /\ Len(t) = 2 /\ t \in Seq(StepType)
      /\ Fits(35, t[1]) /\ Fits(36, t[2])
  BY <1>1, <1>2 DEF Releases, Fits
<1> HIDE DEF t
<1>4. ASSUME NEW i \in 1..2 PROVE LineOK(34 + i, t[i])
  BY <1>3 DEF Fits
<1> QED BY <1>3, <1>4 DEF Part, t

LEMMA LastPart == Part(Closing, 36, 37)
<1> DEFINE t == Closing
<1>1. Fits(37, Other(Tester, "rmmod"))
  BY OtherStep DEF Fits
<1>2. /\ Len(t) = 1 /\ t \in Seq(StepType)
      /\ Fits(37, t[1])
  BY <1>1 DEF Closing, Fits
<1> HIDE DEF t
<1>3. ASSUME NEW i \in 1..1 PROVE LineOK(36 + i, t[i])
  BY <1>2 DEF Fits
<1> QED BY <1>2, <1>3 DEF Part, t

-----------------------------------------------------------------------------
(* The script as a whole.                                                  *)

LEMMA GuestPart ==
    ASSUME NEW n \in {10, 27, 31}, NEW m \in {22, 29, 33}, NEW steps, Part(steps, n + 1, m)
    PROVE  Part(do_as_guest(steps), n, m + 1)
<1> DEFINE fork == Other(Guest, "fork")
           exit == Other(Guest, "exit")
<1>1. fork \in StepType /\ LineOK(n + 1, fork)
  BY OtherStep
<1>2. exit \in StepType /\ LineOK(m + 1, exit)
  BY OtherStep
<1> HIDE DEF fork, exit
<1>3. Part(<<fork>>, n, n + 1) /\ Part(<<exit>>, m, m + 1)
  BY <1>1, <1>2, One
<1>4. Part(<<fork>> \o steps, n, m)
  BY <1>3, PartsMeet
<1> QED BY <1>3, <1>4, PartsMeet DEF do_as_guest, fork, exit

LEMMA OpenPart == Part(test_syscall(NR_open), 8, 36)
<1> DEFINE a == Intercepts
           b == do_as_guest(do_nonroot(NR_open))
           c == Starts
           d == do_as_guest(GuestStops)
           e == Stops
           g == do_as_guest(GuestStarts)
           h == Releases
<1>1. Part(a, 8, 10) /\ Part(c, 23, 27) /\ Part(e, 30, 31) /\ Part(h, 34, 36)
  BY InterceptPart, StartPart, StopPart, ReleasePart
<1>2. Part(b, 10, 23) /\ Part(d, 27, 30) /\ Part(g, 31, 34)
  BY NonrootPart, StopInitPart, StartSelfPart, GuestPart
<1>3. test_syscall(NR_open) = a \o b \o c \o d \o e \o g \o h
  BY DEF test_syscall, Intercepts, Starts, GuestStops, Stops, GuestStarts, Releases
<1> HIDE DEF a, b, c, d, e, g, h
<1>4. Part(a \o b, 8, 23)
  BY <1>1, <1>2, PartsMeet
<1>5. Part(a \o b \o c, 8, 27)
  BY <1>1, <1>4, PartsMeet
<1>6. Part(a \o b \o c \o d, 8, 30)
  BY <1>2, <1>5, PartsMeet
<1>7. Part(a \o b \o c \o d \o e, 8, 31)
  BY <1>1, <1>6, PartsMeet
<1>8. Part(a \o b \o c \o d \o e \o g, 8, 34)
  BY <1>2, <1>7, PartsMeet
<1>9. Part(a \o b \o c \o d \o e \o g \o h, 8, 36)
  BY <1>1, <1>8, PartsMeet
<1> QED BY <1>3, <1>9

\* The script, as far as the crashes and what is left of it go.
LEMMA ScriptHolds == Script
<1> DEFINE a == Opening
           b == test_syscall(NR_open)
           c == Closing
<1>1. Part(a, 0, 8) /\ Part(b, 8, 36) /\ Part(c, 36, 37) /\ main = a \o b \o c
  BY FirstPart, OpenPart, LastPart DEF main, Opening, Closing
<1> HIDE DEF a, b, c
<1>2. Part(a \o b, 0, 36)
  BY <1>1, PartsMeet
<1>3. Part(main, 0, 37)
  BY <1>1, <1>2, PartsMeet
<1>4. main \in Seq(StepType) /\ 0 + Len(main) = 37 /\ \A i \in 1..Len(main) : LineOK(0 + i, main[i])
  BY <1>3 DEF Part
<1>5. Len(main) = 37
  BY <1>4
<1>6. \A i \in 1..37 : 0 + i = i
  OBVIOUS
<1> QED BY <1>4, <1>5, <1>6 DEF Script, Lines

-----------------------------------------------------------------------------
(* Where a process in the module goes.                                     *)

\* Where a process in the module goes from where it is.
Follows(p, l) ==
    \/ pc[p] = "owner" /\ l \in {"mode", "return"}
    \/ pc[p] = "mode" /\ l \in {"black", "list"}
    \/ pc[p] \in {"black", "list"} /\ l \in {"return", "change_black", "lock_pids"}
    \/ pc[p] = "lock_pids" /\ l = "in_pids"
    \/ pc[p] = "in_pids" /\ l = "unlock_pids"
    \/ pc[p] = "unlock_pids" /\ (IF Cmd(p) = "exit" THEN l = "dying" ELSE l \in {"set_some", "return"})
    \/ pc[p] = "look" /\ l \in {"look_black", "look_list"}
    \/ pc[p] \in {"look_black", "look_list"} /\ l = "forward"
    \/ pc[p] = "forward" /\ l \in {"look", "return"}
    \/ pc[p] = "save" /\ l = "flag"
    \/ pc[p] = "flag" /\ l = "lock_calls"
    \/ pc[p] = "lock_calls" /\ l = "set_rw"
    \/ pc[p] = "set_rw" /\ l = IF Cmd(p) = "intercept" THEN "switch" ELSE "destroy"
    \/ pc[p] = "destroy" /\ l = "restore"
    \/ pc[p] = "restore" /\ l = "unflag"
    \/ pc[p] = "unflag" /\ l = "unmonitor"
    \/ pc[p] = "unmonitor" /\ l = "forget"
    \/ pc[p] \in {"switch", "forget"} /\ l = "set_ro"
    \/ pc[p] = "set_ro" /\ l = "unlock_calls"
    \/ pc[p] = "clear_all" /\ l = "destroy_all"
    \/ pc[p] = "destroy_all" /\ l \in {"set_all", "return"}
    \/ pc[p] \in {"set_all", "set_some", "change_black", "unlock_calls"} /\ l = "return"
    \/ pc[p] \in {"return", "dying"} /\ l = "idle"

SameCall(p) == Cmd(p)' = Cmd(p) /\ Pid(p)' = Pid(p) /\ Syscall(p)' = Syscall(p)

\* A step of p in the module.
Goes(p, l) ==
    /\ l \in Labels /\ Follows(p, l) /\ pc' = [pc EXCEPT ![p] = l]
    /\ status = "up" /\ status' = "up"
    /\ call' \in [Procs -> Calls] /\ \A q \in Procs \ {p} : call'[q] = call[q]
    /\ l # "idle" => SameCall(p)
    /\ alive' = IF pc[p] = "dying" THEN alive \ {p} ELSE alive

Placed == pc \in [Procs -> Labels] /\ call \in [Procs -> Calls]

LEMMA GoesTo ==
    ASSUME Placed, NEW p \in Procs, NEW l \in Labels, l # "idle", Follows(p, l), pc[p] # "dying",
           Go(p, l) \/ \E code \in Codes : GoWith(p, l, code),
           UNCHANGED rest, status = "up"
    PROVE  Goes(p, l)
<1>1. CASE Go(p, l)
  <2>1. call' = call /\ pc' = [pc EXCEPT ![p] = l]
    BY <1>1 DEF Go
  <2>2. SameCall(p)
    BY <2>1 DEF SameCall, Cmd, Pid, Syscall
  <2> QED BY <2>1, <2>2 DEF Goes, Placed, rest
<1>2. CASE \E code \in Codes : GoWith(p, l, code)
  <2>1. PICK code \in Codes : GoWith(p, l, code)
    BY <1>2
  <2>2. call' = [call EXCEPT ![p].ret = code] /\ pc' = [pc EXCEPT ![p] = l]
    BY <2>1 DEF GoWith
  <2>3. call' \in [Procs -> Calls] /\ SameCall(p)
    BY <2>2, Answered DEF Placed, SameCall, Cmd, Pid, Syscall
  <2>4. \A q \in Procs \ {p} : call'[q] = call[q]
    BY <2>2 DEF Placed
  <2> QED BY <2>2, <2>3, <2>4 DEF Goes, rest
<1> QED BY <1>1, <1>2

\* It goes on, or it oopses at a pid that is gone or at a lost original.
LEMMA GoesOn ==
    ASSUME Placed, NEW p \in Procs, Continue(p)
    PROVE  \/ \E l : Goes(p, l)
           \/ /\ Oops /\ status = "up"
              /\ \/ pc[p] = "owner" /\ Pid(p) \notin alive
                 \/ pc[p] = "forward" /\ f[Syscall(p)] # "original"
<1> DEFINE to(l) == /\ l \in Labels \ {"idle"} /\ Follows(p, l) /\ pc[p] # "dying"
                    /\ Go(p, l) \/ \E code \in Codes : GoWith(p, l, code)
                    /\ UNCHANGED rest /\ status = "up"
<1>0. ASSUME NEW l, to(l) PROVE Goes(p, l)
  BY <1>0, GoesTo
<1>00. {"ok", "EPERM", "EBUSY", "EINVAL", "ENOMEM", "logged", "quiet"} \subseteq Codes
  BY DEF Codes
<1>1. CASE check_pid_from_list(p)
  <2>1. pc[p] = "owner" /\ status = "up"
    BY <1>1 DEF check_pid_from_list, At
  <2>2. CASE Pid(p) \notin alive
    BY <1>1, <2>1, <2>2 DEF check_pid_from_list
  <2>3. CASE Pid(p) \in alive
    <3>1. to("mode") \/ to("return")
      BY <1>1, <1>00, <2>1, <2>3 DEF check_pid_from_list, Return, Follows, Labels
    <3> QED BY <1>0, <3>1
  <2> QED BY <2>2, <2>3
<1>2. CASE ReadMode(p)
  <2>1. to("black") \/ to("list")
    BY <1>2 DEF ReadMode, At, Follows, Labels
  <2> QED BY <1>0, <2>1
<1>3. CASE SearchList(p)
  <2>1. pc[p] \in {"black", "list"} /\ status = "up" /\ UNCHANGED rest
    BY <1>3 DEF SearchList
  <2>2. \/ Return(p, "EBUSY") \/ Return(p, "EINVAL") \/ Go(p, "change_black") \/ Go(p, "lock_pids")
    BY <1>3 DEF SearchList
  <2>3. to("return") \/ to("change_black") \/ to("lock_pids")
    BY <1>00, <2>1, <2>2 DEF Return, Follows, Labels
  <2> QED BY <1>0, <2>3
<1>4. CASE SaveOriginal(p) \/ FlagIntercepted(p) \/ SwitchToInterceptor(p)
  <2>1. to("flag") \/ to("lock_calls") \/ to("set_ro")
    BY <1>4 DEF SaveOriginal, FlagIntercepted, SwitchToInterceptor, At, Follows, Labels, InCalls
  <2> QED BY <1>0, <2>1
<1>5. CASE ReleaseList(p) \/ RestoreOriginal(p) \/ ClearIntercepted(p) \/ ForgetOriginal(p)
  <2>1. to("restore") \/ to("unflag") \/ to("unmonitor") \/ to("set_ro")
    BY <1>5 DEF ReleaseList, RestoreOriginal, ClearIntercepted, ForgetOriginal, At, Follows, Labels, InCalls
  <2> QED BY <1>0, <2>1
<1>6. CASE ClearMonitored(p) \/ DestroyForAll(p) \/ SetMonitored(p) \/ ChangeBlackList(p)
  <2>1. to("forget") \/ to("destroy_all") \/ to("set_all") \/ to("return")
    BY <1>6 DEF ClearMonitored, DestroyForAll, SetMonitored, ChangeBlackList, At, Follows, Labels, InCalls
  <2> QED BY <1>0, <2>1
<1>7. CASE ChangeList(p)
  <2>1. pc[p] = "in_pids" /\ status = "up" /\ UNCHANGED rest
        /\ (Go(p, "unlock_pids") \/ GoWith(p, "unlock_pids", "ENOMEM"))
    BY <1>7 DEF ChangeList, At
  <2>2. to("unlock_pids")
    BY <1>00, <2>1 DEF Follows, Labels, InPids
  <2> QED BY <1>0, <2>2
<1>8. CASE InterceptorMode(p)
  <2>1. to("look_black") \/ to("look_list")
    BY <1>8 DEF InterceptorMode, At, Follows, Labels
  <2> QED BY <1>0, <2>1
<1>9. CASE InterceptorLog(p)
  <2>1. pc[p] \in {"look_black", "look_list"} /\ status = "up" /\ UNCHANGED rest
        /\ (GoWith(p, "forward", "logged") \/ GoWith(p, "forward", "quiet"))
    BY <1>9 DEF InterceptorLog
  <2>2. to("forward")
    BY <1>00, <2>1 DEF Follows, Labels
  <2> QED BY <1>0, <2>2
<1>10. CASE Forward(p)
  <2>1. pc[p] = "forward" /\ status = "up"
    BY <1>10 DEF Forward, At
  <2>2. CASE Oops /\ f[Syscall(p)] # "original"
    BY <2>1, <2>2
  <2>3. CASE ~(Oops /\ f[Syscall(p)] # "original")
    <3>1. to("look") \/ to("return")
      BY <1>10, <2>1, <2>3 DEF Forward, Follows, Labels
    <3> QED BY <1>0, <3>1
  <2> QED BY <2>2, <2>3
<1>11. CASE LockPids(p) \/ LockCalls(p) \/ set_addr_ro(p)
  <2>1. to("in_pids") \/ to("set_rw") \/ to("unlock_calls")
    BY <1>11 DEF LockPids, LockCalls, set_addr_ro, At, Follows, Labels, InCalls, InPids
  <2> QED BY <1>0, <2>1
<1>12. CASE UnlockPids(p)
  <2>1. pc[p] = "unlock_pids" /\ status = "up" /\ UNCHANGED rest
    BY <1>12 DEF UnlockPids, At
  <2>2. IF Cmd(p) = "exit" THEN Go(p, "dying") ELSE Go(p, "set_some") \/ Go(p, "return")
    BY <1>12 DEF UnlockPids
  <2>3. to("dying") \/ to("set_some") \/ to("return")
    BY <2>1, <2>2 DEF Follows, Labels
  <2> QED BY <1>0, <2>3
<1>13. CASE UnlockCalls(p)
  <2>1. to("return")
    BY <1>13, <1>00 DEF UnlockCalls, Return, At, Follows, Labels
  <2> QED BY <1>0, <2>1
<1>14. CASE set_addr_rw(p)
  <2>1. to("switch") \/ to("destroy")
    BY <1>14 DEF set_addr_rw, At, Follows, Labels, InCalls
  <2> QED BY <1>0, <2>1
<1>15. CASE orig_exit_group(p) \/ Leave(p)
  <2>1. /\ pc[p] \in {"dying", "return"} /\ status = "up" /\ status' = status
        /\ pc' = [pc EXCEPT ![p] = "idle"] /\ call' = [call EXCEPT ![p] = NoCall]
        /\ alive' = IF pc[p] = "dying" THEN alive \ {p} ELSE alive
    BY <1>15 DEF orig_exit_group, Leave, At, rest
  <2>2. call' \in [Procs -> Calls] /\ \A q \in Procs \ {p} : call'[q] = call[q]
    BY <2>1, NoCallTyped DEF Placed
  <2>3. Goes(p, "idle")
    BY <2>1, <2>2 DEF Goes, Follows, Labels
  <2> QED BY <2>3
<1> QED BY <1>1, <1>2, <1>3, <1>4, <1>5, <1>6, <1>7, <1>8, <1>9, <1>10, <1>11, <1>12, <1>13,
           <1>14, <1>15 DEF Continue

-----------------------------------------------------------------------------
(* Each process is where its business takes it.                            *)

LEMMA NowOK ==
    ASSUME line \in 1..Lines + 1
    PROVE  /\ line <= Lines => LineOK(line, Now)
           /\ line > Lines => Now.by = Tester /\ Now.cmd = "none"
<1>1. Len(main) = Lines
  BY ScriptHolds DEF Script
<1>2. CASE line <= Lines
  <2>1. ~Finished /\ line \in 1..Lines
    BY <1>1, <1>2 DEF Finished, Lines
  <2>2. Now = main[line]
    BY <2>1 DEF Now
  <2>3. LineOK(line, main[line])
    BY <2>1, ScriptHolds DEF Script
  <2> QED BY <1>2, <2>2, <2>3 DEF Lines
<1>3. CASE line > Lines
  <2>1. Now = Other(Tester, "none")
    BY <1>1, <1>3 DEF Now, Finished
  <2> QED BY <1>3, <2>1 DEF Lines, Other, Step
<1> QED BY <1>2, <1>3 DEF Lines

\* Who belongs to the test is in the module only for the line it is at.
LEMMA TestAsks ==
    ASSUME WhereInv, NEW p \in {Tester, Guest}, pc[p] # "idle"
    PROVE  /\ Now.by = p /\ line \in 2..Lines - 1
           /\ \/ Asks(p) /\ Now.cmd \in Cmds \union {"unknown"}
              \/ p = Guest /\ Cmd(p) = Now.cmd /\ Now.cmd \in {"call", "exit"}
<1>1. Business(p)
  BY Numbers DEF WhereInv, Place
<1>2. /\ Now.by = p
      /\ \/ Asks(p) /\ Now.cmd \in Cmds \union {"unknown"}
         \/ p = Guest /\ Cmd(p) = Now.cmd /\ Now.cmd \in {"call", "exit"}
  BY <1>1 DEF Business, Bystanders, Asks
<1>3. line \in 1..Lines + 1 /\ Now.cmd \notin {"insmod", "rmmod", "none"}
  BY <1>2 DEF Cmds, WhereInv
<1>4. line # 1 /\ line # Lines /\ ~(line > Lines)
  BY <1>3, NowOK DEF LineOK, Lines
<1> QED BY <1>2, <1>3, <1>4 DEF Lines

\* Only the tester gets to where root's requests go.
LEMMA PrivilegedTester ==
    ASSUME WhereInv, NEW p \in Procs, pc[p] \in Privileged
    PROVE  p = Tester
<1>1. pc[p] # "idle" /\ Business(p) /\ Route(call[p], pc[p]) /\ IsRoot(p)
      /\ (pc[p] \in ForAll => Pid(p) = 0)
  <2>1. pc[p] # "idle"
    BY DEF Privileged, InCalls
  <2> QED BY <2>1 DEF WhereInv, Place
<1>2. p # Guest
  BY <1>1, Numbers DEF IsRoot
<1>3. p \notin Bystanders
  <2> SUFFICES ASSUME p \in Bystanders PROVE FALSE
    OBVIOUS
  <2>1. Cmd(p) \in {"call", "exit"} \/ (Cmd(p) \in {"start", "stop"} /\ Pid(p) = p)
    BY <1>1 DEF Business, Bystanders, Asks, Cmds
  <2>2. CASE Cmd(p) \in {"call", "exit"}
    BY <1>1, <2>2 DEF Route, Cmd, Privileged, InCalls, Looking, Dying
  <2>3. CASE Cmd(p) \in {"start", "stop"} /\ Pid(p) = p
    <3>1. pc[p] \in ForAll
      BY <1>1, <2>3 DEF Route, Cmd, Privileged, InCalls, ForOne, ForAll
    <3>2. p # 0
      BY ProcsAssumption
    <3> QED BY <1>1, <2>3, <3>1, <3>2
  <2> QED BY <2>1, <2>2, <2>3
<1> QED BY <1>2, <1>3 DEF Bystanders

LEMMA PlaceSame ==
    ASSUME NEW q \in Procs, Place(q), pc'[q] = pc[q], call'[q] = call[q], q \in alive => q \in alive',
           line' = line \/ q \in Bystanders
    PROVE  Place(q)'
<1>1. ASSUME Business(q) PROVE Business(q)'
  <2>1. CASE q \in Bystanders
    BY <1>1, <2>1 DEF Business, Bystanders, Cmd, Pid, Asks, Syscall
  <2>2. CASE q \notin Bystanders
    <3>1. line' = line
      BY <2>2
    <3>2. Now' = Now
      BY <3>1 DEF Now, Finished
    <3> QED BY <1>1, <3>2 DEF Business, Cmd, Pid, Syscall, Asks
  <2> QED BY <2>1, <2>2
<1> QED BY <1>1 DEF Place, Route, Cmd, Pid, Syscall, IsRoot

\* A step of p, at the same line.
LEMMA PlaceGoes ==
    ASSUME WhereInv, NEW p \in Procs, NEW l, Goes(p, l), line' = line
    PROVE  Place(p)'
<1>1. pc'[p] = l
  BY DEF Goes, WhereInv
<1> SUFFICES ASSUME l # "idle" PROVE Place(p)'
  BY <1>1 DEF Place
<1>2. pc[p] # "idle" /\ SameCall(p) /\ pc[p] # "dying" /\ alive' = alive
  BY DEF Goes, Follows
<1>3. /\ p \in alive /\ Business(p) /\ Route(call[p], pc[p])
      /\ pc[p] \in Privileged => IsRoot(p) /\ Syscall(p) \in Table \ {MY_CUSTOM_SYSCALL}
      /\ pc[p] \in ForAll => Pid(p) = 0
  BY <1>2 DEF WhereInv, Place
<1>4. Now' = Now
  BY DEF Now, Finished
<1>5. Business(p)'
  BY <1>2, <1>3, <1>4 DEF Business, SameCall, Asks
<1>6. l \in Privileged => pc[p] \in Privileged
  BY DEF Goes, Follows, Privileged, InCalls
<1>7. (l \in ForAll => pc[p] \in ForAll) /\ l # "owner"
  BY DEF Goes, Follows, ForAll
<1>8. Route(call[p], l)
  <2>1. Cmd(p) = call[p].cmd
    BY DEF Cmd
  <2>2. CASE Cmd(p) = "call"
    BY <1>3, <2>1, <2>2 DEF Goes, Follows, Route, Looking
  <2>3. CASE Cmd(p) = "exit"
    BY <1>3, <2>1, <2>3 DEF Goes, Follows, Route, Dying
  <2>4. CASE Cmd(p) \in {"start", "stop"}
    BY <1>3, <2>1, <2>4 DEF Goes, Follows, Route, ForOne, ForAll
  <2>5. CASE Cmd(p) \in {"intercept", "release"}
    BY <1>3, <2>1, <2>5 DEF Goes, Follows, Route, Working, Done
  <2>6. CASE Cmd(p) = "unknown"
    BY <1>3, <2>1, <2>6 DEF Goes, Follows, Route
  <2> QED BY <1>3, <2>1, <2>2, <2>3, <2>4, <2>5, <2>6 DEF Route
<1>9. Route(call'[p], l)
  BY <1>2, <1>8 DEF Route, SameCall, Cmd
<1> QED BY <1>1, <1>2, <1>3, <1>5, <1>6, <1>7, <1>9 DEF Place, SameCall, IsRoot

LEMMA WhereTyped ==
    ASSUME WhereInv
    PROVE  Placed /\ Tester \in Procs /\ Guest \in Procs /\ Init_pid \in Procs
BY Numbers DEF WhereInv, Placed

\* A process goes on; the test stays at its line.
LEMMA WhereGoes ==
    ASSUME WhereInv, NEW p \in Procs, NEW l, Goes(p, l), line' = line
    PROVE  WhereInv'
<1>1. pc' \in [Procs -> Labels] /\ call' \in [Procs -> Calls]
  BY DEF Goes, WhereInv
<1>2. \A q \in Procs \ {p} : pc'[q] = pc[q] /\ call'[q] = call[q]
  BY DEF Goes, WhereInv
<1>3. alive' \subseteq alive /\ \A q : q # p /\ q \in alive => q \in alive'
  BY DEF Goes
<1>4. p \in {Tester, Init_pid} => alive' = alive
  <2> SUFFICES ASSUME p \in {Tester, Init_pid}, pc[p] = "dying" PROVE FALSE
    BY DEF Goes
  <2>1. Business(p) /\ Route(call[p], "dying")
    BY DEF WhereInv, Place
  <2>2. Cmd(p) = "exit"
    BY <2>1 DEF Route, Cmd, Looking, ForOne, ForAll, Working, Done
  <2> QED BY <2>1, <2>2, Numbers DEF Business, Asks, Cmds, Bystanders
<1>5. \A q \in Procs : Place(q)'
  BY <1>2, <1>3, PlaceSame, PlaceGoes DEF WhereInv
<1>6. {Tester, Init_pid} \subseteq alive' /\ alive' \subseteq Procs
  BY <1>3, <1>4 DEF WhereInv
<1> QED BY <1>1, <1>3, <1>5, <1>6 DEF WhereInv

\* A call begins.
LEMMA WhereStarts ==
    ASSUME WhereInv, NEW p \in Procs, NEW c \in Calls, NEW l \in Labels, Start(p, c, l), line' = line,
           Business(p)', Route(c, l),
           l \in Privileged => IsRoot(p) /\ c.syscall \in Table \ {MY_CUSTOM_SYSCALL},
           l \in ForAll => c.pid = 0,
           l = "owner" => c.pid \in {p, Init_pid}
    PROVE  WhereInv'
<1>1. /\ p \in alive /\ alive' = alive /\ pc' = [pc EXCEPT ![p] = l] /\ call' = [call EXCEPT ![p] = c]
  BY DEF Start, rest
<1>2. /\ pc' \in [Procs -> Labels] /\ call' \in [Procs -> Calls]
      /\ \A q \in Procs \ {p} : pc'[q] = pc[q] /\ call'[q] = call[q]
      /\ pc'[p] = l /\ call'[p] = c
  BY <1>1 DEF WhereInv
<1>3. Place(p)'
  BY <1>1, <1>2 DEF Place, Syscall, Pid, IsRoot
<1>4. \A q \in Procs : Place(q)'
  BY <1>1, <1>2, <1>3, PlaceSame DEF WhereInv
<1> QED BY <1>1, <1>2, <1>4 DEF WhereInv

\* The processes stay where they are, and nobody in the module disappears.
LEMMA WhereStays ==
    ASSUME WhereInv, UNCHANGED process, line' = line,
           alive' \subseteq Procs, {Tester, Init_pid} \subseteq alive', Guest \in alive' => Guest \in alive,
           \A q \in Procs : pc[q] # "idle" /\ q \in alive => q \in alive'
    PROVE  WhereInv'
<1>1. ASSUME NEW q \in Procs PROVE Place(q)'
  <2>1. Place(q) /\ pc' = pc /\ call' = call
    BY DEF WhereInv, process
  <2>2. CASE pc[q] = "idle"
    BY <2>1, <2>2 DEF Place
  <2>3. CASE pc[q] # "idle"
    <3>1. q \in alive => q \in alive'
      BY <2>3
    <3> QED BY <2>1, <3>1, PlaceSame
  <2> QED BY <2>2, <2>3
<1> QED BY <1>1 DEF WhereInv, process

\* The test goes to its next line; its processes are not in the module.
LEMMA WhereNextLine ==
    ASSUME WhereInv, line <= Lines, line' = line + 1, pc' \in [Procs -> Labels], call' \in [Procs -> Calls],
           pc'[Tester] = "idle", pc'[Guest] = "idle",
           \A q \in Bystanders : pc'[q] = pc[q] /\ call'[q] = call[q],
           alive \subseteq alive', alive' \subseteq Procs,
           Guest \in alive' => line + 1 \in GuestLines
    PROVE  WhereInv'
<1>1. ASSUME NEW q \in Procs PROVE Place(q)'
  <2>1. CASE q \in {Tester, Guest}
    BY <2>1 DEF Place
  <2>2. CASE q \notin {Tester, Guest}
    <3>1. q \in Bystanders
      BY <2>2 DEF Bystanders
    <3>2. Place(q)
      BY DEF WhereInv
    <3> QED BY <3>1, <3>2, PlaceSame
  <2> QED BY <2>1, <2>2
<1>2. line' \in 1..Lines + 1
  BY DEF WhereInv, Lines
<1> QED BY <1>1, <1>2 DEF WhereInv

LEMMA WhereAnswers ==
    ASSUME WhereInv, NEW p \in Procs, Answer(p), Leave(p), line' = line + 1
    PROVE  WhereInv' /\ p \in {Tester, Guest} /\ line \in 2..Lines - 1 /\ Goes(p, "idle")
<1>1. /\ pc[p] = "return" /\ pc' = [pc EXCEPT ![p] = "idle"] /\ call' = [call EXCEPT ![p] = NoCall]
      /\ alive' = alive /\ p = Now.by /\ status = "up" /\ status' = status
  BY DEF Answer, Leave, At, rest
<1>2. p \in {Tester, Guest}
  <2>1. line \in 1..Lines + 1
    BY DEF WhereInv
  <2> QED BY <1>1, <2>1, NowOK DEF LineOK, Lines
<1>3. /\ line \in 2..Lines - 1
      /\ \/ Now.cmd \in Cmds \union {"unknown"}
         \/ p = Guest /\ Cmd(p) = Now.cmd /\ Now.cmd \in {"call", "exit"}
  BY <1>1, <1>2, TestAsks
<1>4. Cmd(p) # "exit"
  <2>1. Route(call[p], "return")
    BY <1>1 DEF WhereInv, Place
  <2> QED BY <2>1 DEF Route, Cmd, Dying
<1>5. Now.cmd \notin {"fork", "exit"}
  BY <1>3, <1>4 DEF Cmds
<1>6. line \in GuestLines <=> line + 1 \in GuestLines
  BY <1>3, <1>5, NowOK DEF LineOK, Lines
<1>7. /\ pc' \in [Procs -> Labels] /\ call' \in [Procs -> Calls]
      /\ \A q \in Procs \ {p} : pc'[q] = pc[q] /\ call'[q] = call[q]
      /\ pc'[p] = "idle"
  BY <1>1, NoCallTyped DEF WhereInv, Labels
<1>8. \A q \in {Tester, Guest} : pc'[q] = "idle"
  <2> SUFFICES ASSUME NEW q \in {Tester, Guest}, q # p PROVE pc'[q] = "idle"
    BY <1>7
  <2>1. pc[q] = "idle"
    BY <1>1, TestAsks
  <2> QED BY <1>7, <2>1, Numbers
<1>9. WhereInv'
  <2>1. \A q \in Bystanders : pc'[q] = pc[q] /\ call'[q] = call[q]
    BY <1>2, <1>7 DEF Bystanders
  <2>2. line <= Lines
    BY <1>3 DEF Lines
  <2>3. Guest \in alive' => line + 1 \in GuestLines
    BY <1>1, <1>6 DEF WhereInv
  <2>4. alive \subseteq alive' /\ alive' \subseteq Procs
    BY <1>1 DEF WhereInv
  <2> QED BY <1>7, <1>8, <2>1, <2>2, <2>3, <2>4, WhereNextLine
<1>10. Goes(p, "idle")
  BY <1>1, <1>7 DEF Goes, Follows, WhereInv
<1> QED BY <1>2, <1>3, <1>9, <1>10

\* Where p's request r begins: at its first change, or at its answer.
BeginsAt(p, r, l) ==
    /\ \/ l = "return"
       \/ /\ r.syscall \in Table \ {MY_CUSTOM_SYSCALL} /\ IsRoot(p)
          /\ \/ l = "save" /\ r.cmd = "intercept" /\ ~intercepted[r.syscall]
             \/ l = "lock_calls" /\ r.cmd = "release" /\ intercepted[r.syscall]
             \/ l \in {"destroy_all", "clear_all"} /\ r.cmd \in {"start", "stop"} /\ r.pid = 0
       \/ l = "owner" /\ r.cmd \in {"start", "stop"} /\ r.pid \in alive /\ r.pid # 0
    /\ (/\ l = "return" /\ r.cmd = "release" /\ IsRoot(p)
        /\ r.syscall \in Table \ {MY_CUSTOM_SYSCALL})
       => ~intercepted[r.syscall] \/ (r.pid # 0 /\ r.pid \notin alive)

LEMMA Begins ==
    ASSUME NEW p \in Procs, my_syscall(p)
    PROVE  \E r \in Requests, code \in Codes, l \in Labels :
             /\ Start(p, [r EXCEPT !.ret = code], l)
             /\ [r EXCEPT !.ret = code] \in Calls
             /\ [r EXCEPT !.ret = code].cmd = r.cmd
             /\ [r EXCEPT !.ret = code].syscall = r.syscall
             /\ [r EXCEPT !.ret = code].pid = r.pid
             /\ BeginsAt(p, r, l)
<1>1. PICK r \in Requests :
        Start(p, [r EXCEPT !.ret = Check(p, r)],
              IF Check(p, r) = "ok" THEN FirstStep(r) ELSE "return")
  BY DEF my_syscall
<1> DEFINE code == Check(p, r)
           c == [r EXCEPT !.ret = code]
           l == IF code = "ok" THEN FirstStep(r) ELSE "return"
<1>2. code \in {"ok", "EINVAL", "EPERM", "EBUSY"}
  BY DEF Check
<1>3. code \in Codes
  BY <1>2 DEF Codes
<1>4. /\ r.cmd \in Cmds \union {"unknown"} /\ r.syscall \in Asked /\ r.pid \in AskedPids
      /\ c = [cmd |-> r.cmd, syscall |-> r.syscall, pid |-> r.pid, ret |-> code]
  BY DEF Requests
<1>5. c \in Calls /\ c.cmd = r.cmd /\ c.syscall = r.syscall /\ c.pid = r.pid
  BY <1>3, <1>4 DEF Calls
<1>6. code = "ok" =>
        /\ r.cmd \in Cmds /\ r.syscall \in Table \ {MY_CUSTOM_SYSCALL} /\ (r.pid = 0 \/ r.pid \in alive)
        /\ r.cmd \in {"intercept", "release"} => IsRoot(p)
        /\ r.cmd = "intercept" => ~intercepted[r.syscall]
        /\ r.cmd # "intercept" => intercepted[r.syscall]
        /\ r.cmd \in {"start", "stop"} /\ r.pid = 0 => IsRoot(p)
  BY DEF Check
<1>7. code # "ok" /\ r.cmd = "release" /\ IsRoot(p) /\ r.syscall \in Table \ {MY_CUSTOM_SYSCALL}
        => ~intercepted[r.syscall] \/ (r.pid # 0 /\ r.pid \notin alive)
  BY DEF Check, Cmds
<1> HIDE DEF code, c
<1>8. /\ \/ l = "return"
         \/ l = "save" /\ r.cmd = "intercept" /\ IsRoot(p) /\ ~intercepted[r.syscall]
            /\ r.syscall \in Table \ {MY_CUSTOM_SYSCALL}
         \/ l = "lock_calls" /\ r.cmd = "release" /\ IsRoot(p) /\ intercepted[r.syscall]
            /\ r.syscall \in Table \ {MY_CUSTOM_SYSCALL}
         \/ l \in {"destroy_all", "clear_all"} /\ r.cmd \in {"start", "stop"} /\ r.pid = 0 /\ IsRoot(p)
            /\ r.syscall \in Table \ {MY_CUSTOM_SYSCALL}
         \/ l = "owner" /\ r.cmd \in {"start", "stop"} /\ r.pid \in alive /\ r.pid # 0
      /\ l = "return" => code # "ok"
  <2>1. CASE code = "ok"
    <3>1. l = FirstStep(r)
      BY <2>1
    <3>2. CASE r.cmd \in {"intercept", "release"}
      BY <1>6, <2>1, <3>1, <3>2 DEF FirstStep
    <3>3. CASE r.cmd \in {"start", "stop"} /\ r.pid = 0
      BY <1>6, <2>1, <3>1, <3>3 DEF FirstStep
    <3>4. CASE r.cmd \in {"start", "stop"} /\ r.pid # 0
      BY <1>6, <2>1, <3>1, <3>4 DEF FirstStep
    <3> QED BY <1>6, <2>1, <3>2, <3>3, <3>4 DEF Cmds
  <2>2. CASE code # "ok"
    BY <2>2
  <2> QED BY <2>1, <2>2
<1>9. l \in Labels
  BY <1>8 DEF Labels, InCalls
<1>10. Start(p, c, l)
  BY <1>1 DEF code, c
<1> HIDE DEF l
<1> WITNESS r \in Requests, code \in Codes, l \in Labels
<1> QED BY <1>5, <1>7, <1>8, <1>10 DEF BeginsAt, c

LEMMA WhereIdle ==
    ASSUME WhereInv, Now.cmd \notin Cmds \union {"unknown", "call", "exit"}
    PROVE  pc[Tester] = "idle" /\ pc[Guest] = "idle"
BY TestAsks

LEMMA NowLine == ASSUME WhereInv, Now.cmd # "none" PROVE line \in 1..Lines /\ LineOK(line, Now)
<1>1. line \in 1..Lines + 1
  BY DEF WhereInv
<1> QED BY <1>1, NowOK DEF Lines

\* A request, of the test or of a bystander about itself.
LEMMA WhereRequest ==
    ASSUME WhereInv, NEW p \in Procs, Request(p), line' = line,
           \/ p = Now.by /\ Now.cmd \in Cmds \union {"unknown"}
              /\ Cmd(p)' = Now.cmd /\ Syscall(p)' = Now.syscall /\ Pid(p)' = Now.pid
           \/ p \in Bystanders \ {Init_pid} /\ Cmd(p)' \in {"start", "stop"} /\ Pid(p)' = p
    PROVE  WhereInv'
<1>1. my_syscall(p)
  BY DEF Request
<1>2. PICK r \in Requests, code \in Codes, l \in Labels :
             /\ Start(p, [r EXCEPT !.ret = code], l)
             /\ [r EXCEPT !.ret = code] \in Calls
             /\ [r EXCEPT !.ret = code].cmd = r.cmd
             /\ [r EXCEPT !.ret = code].syscall = r.syscall
             /\ [r EXCEPT !.ret = code].pid = r.pid
             /\ BeginsAt(p, r, l)
  BY <1>1, Begins
<1> DEFINE c == [r EXCEPT !.ret = code]
<1>3. Start(p, c, l) /\ c \in Calls /\ c.cmd = r.cmd /\ c.syscall = r.syscall /\ c.pid = r.pid
  BY <1>2
<1> HIDE DEF c
<1>4. call' = [call EXCEPT ![p] = c] /\ call \in [Procs -> Calls] /\ pc[p] = "idle"
  BY <1>3 DEF Start, At, WhereInv
<1>5. call'[p] = c /\ Cmd(p)' = r.cmd /\ Syscall(p)' = r.syscall /\ Pid(p)' = r.pid
  BY <1>3, <1>4 DEF Cmd, Syscall, Pid
<1>6. Now' = Now
  BY DEF Now, Finished
<1>7. p = Now.by => p \in {Tester, Guest}
  <2>1. line \in 1..Lines + 1
    BY DEF WhereInv
  <2> QED BY <2>1, NowOK DEF LineOK, Lines
<1>8. Business(p)'
  BY <1>5, <1>6, <1>7 DEF Business, Asks, Bystanders, Cmd, Syscall, Pid
<1>9. Route(c, l)
  <2>1. r.cmd \in {"start", "stop", "intercept", "release", "unknown"}
    BY <1>2 DEF Requests, Cmds
  <2> QED BY <1>2, <1>3, <2>1 DEF BeginsAt, Route, ForOne, ForAll, Working, Done
<1>10. l = "owner" => c.pid \in {p, Init_pid}
  <2> SUFFICES ASSUME l = "owner" PROVE r.pid \in {p, Init_pid}
    BY <1>3
  <2>1. r.cmd \in {"start", "stop"} /\ r.pid \in alive /\ r.pid # 0
    BY <1>2 DEF BeginsAt
  <2>2. CASE p \in Bystanders \ {Init_pid} /\ Pid(p)' = p
    BY <1>5, <2>2
  <2>3. CASE p = Now.by /\ Now.cmd = r.cmd /\ Now.pid = r.pid
    <3>1. LineOK(line, Now) /\ line \in 1..Lines
      BY <2>1, <2>3, NowLine
    <3>2. r.pid \in {-2, 0, Init_pid, Guest}
      BY <2>1, <2>3, <3>1 DEF LineOK
    <3>3. r.pid # -2
      BY <2>1, ProcsAssumption DEF WhereInv
    <3>4. r.pid = Guest => p = Guest
      <4> SUFFICES ASSUME r.pid = Guest PROVE p = Guest
        OBVIOUS
      <4>1. line \in GuestLines
        BY <2>1 DEF WhereInv
      <4> QED BY <2>3, <3>1, <4>1 DEF LineOK
    <3> QED BY <2>1, <3>2, <3>3, <3>4
  <2> QED BY <1>5, <2>2, <2>3
<1>11. l \in Privileged => IsRoot(p) /\ c.syscall \in Table \ {MY_CUSTOM_SYSCALL}
  BY <1>2, <1>3 DEF BeginsAt, Privileged, InCalls
<1>12. l \in ForAll => c.pid = 0
  BY <1>2, <1>3 DEF BeginsAt, ForAll
<1> QED BY <1>3, <1>8, <1>9, <1>10, <1>11, <1>12, WhereStarts

LEMMA WhereCall ==
    ASSUME WhereInv, NEW p \in Procs, Call(p), line' = line,
           p \in Bystanders \/ (p = Guest /\ Now.by = Guest /\ Now.cmd = "call")
    PROVE  WhereInv'
<1>1. PICK s \in Asked : Start(p, [NoCall EXCEPT !.cmd = "call", !.syscall = s], "look")
  BY DEF Call, SystemCall
<1> DEFINE c == [NoCall EXCEPT !.cmd = "call", !.syscall = s]
<1>2. c \in Calls /\ c.cmd = "call"
  BY DEF NoCall, Calls, Codes
<1>3. Start(p, c, "look")
  BY <1>1
<1> HIDE DEF c
<1>4. call' = [call EXCEPT ![p] = c] /\ call \in [Procs -> Calls]
  BY <1>3 DEF Start, WhereInv
<1>5. Cmd(p)' = "call"
  BY <1>2, <1>4 DEF Cmd
<1>6. Business(p)'
  <2>1. Now' = Now
    BY DEF Now, Finished
  <2> QED BY <1>5, <2>1 DEF Business, Cmd
<1>7. Route(c, "look") /\ "look" \in Labels \ (Privileged \union ForAll)
  BY <1>2 DEF Route, Looking, Labels, Privileged, InCalls, ForAll
<1> QED BY <1>2, <1>3, <1>6, <1>7, WhereStarts

LEMMA WhereExit ==
    ASSUME WhereInv, NEW p \in Procs, exit_group(p), line' = line,
           p \in Bystanders \ {Init_pid} \/ (p = Guest /\ Now.by = Guest /\ Now.cmd = "exit")
    PROVE  WhereInv'
<1>1. CASE my_exit_group(p)
  <2> DEFINE c == [NoCall EXCEPT !.cmd = "exit"]
  <2>1. c \in Calls /\ c.cmd = "exit"
    BY DEF NoCall, Calls, Codes
  <2>2. Start(p, c, "lock_pids")
    BY <1>1 DEF my_exit_group
  <2> HIDE DEF c
  <2>3. call' = [call EXCEPT ![p] = c] /\ call \in [Procs -> Calls]
    BY <2>2 DEF Start, WhereInv
  <2>4. Cmd(p)' = "exit"
    BY <2>1, <2>3 DEF Cmd
  <2>5. Business(p)'
    <3>1. Now' = Now
      BY DEF Now, Finished
    <3> QED BY <2>4, <3>1 DEF Business, Cmd
  <2>6. Route(c, "lock_pids") /\ "lock_pids" \in Labels \ (Privileged \union ForAll)
    BY <2>1 DEF Route, Dying, Labels, Privileged, InCalls, ForAll
  <2> QED BY <2>1, <2>2, <2>5, <2>6, WhereStarts
<1>2. CASE ~my_exit_group(p)
  <2>1. pc[p] = "idle" /\ alive' = alive \ {p} /\ UNCHANGED process
    BY <1>2 DEF exit_group, At
  <2>2. p \notin {Tester, Init_pid}
    BY Numbers DEF Bystanders
  <2> QED BY <2>1, <2>2, WhereStays DEF WhereInv
<1> QED BY <1>1, <1>2

LEMMA WhereOops == ASSUME WhereInv, Oops, line' = line PROVE WhereInv'
BY WhereStays DEF Oops, WhereInv

LEMMA WhereProgram == ASSUME WhereInv, Program PROVE WhereInv'
<1>1. CASE Insert \/ Remove
  <2>1. UNCHANGED <<vars, line>>
    BY <1>1 DEF Insert, Remove, Insmod, Rmmod, test
  <2> QED BY <2>1, WhereStays DEF vars, rest, WhereInv
<1>2. CASE Loaded
  <2>1. UNCHANGED <<pc, call, alive>> /\ line' = line + 1 /\ Now.cmd \in {"insmod", "rmmod"}
    BY <1>2 DEF Loaded, NextLine, vars, process, rest
  <2>2. line \in 1..Lines /\ LineOK(line, Now) /\ pc[Tester] = "idle" /\ pc[Guest] = "idle"
    BY <2>1, NowLine, WhereIdle DEF Cmds
  <2>3. line \in {1, Lines}
    BY <2>1, <2>2 DEF LineOK
  <2>4. Guest \notin alive'
    BY <2>1, <2>3 DEF WhereInv, GuestLines, Lines
  <2> QED BY <2>1, <2>2, <2>4, WhereNextLine DEF WhereInv, Lines
<1>3. CASE Ask
  <2>1. Now.cmd \in Cmds \union {"unknown", "call"} /\ line' = line
    BY <1>3 DEF Ask, test
  <2>2. LineOK(line, Now)
    BY <2>1, NowLine DEF Cmds
  <2>3. Now.by \in Procs
    BY <2>2, Numbers DEF LineOK
  <2>4. CASE Now.cmd \in Cmds \union {"unknown"}
    BY <1>3, <2>1, <2>3, <2>4, WhereRequest DEF Ask, Cmd, Syscall, Pid, Cmds
  <2>5. CASE Now.cmd = "call"
    <3>1. Now.by = Guest
      BY <2>2, <2>5 DEF LineOK
    <3>2. Call(Guest)
      BY <1>3, <2>5, <3>1 DEF Ask, Cmds
    <3> QED BY <2>1, <2>3, <2>5, <3>1, <3>2, WhereCall
  <2> QED BY <2>1, <2>4, <2>5
<1>4. CASE Begin
  <2>1. Now.cmd = "fork" /\ UNCHANGED <<pc, call>> /\ alive' = alive \union {Guest} /\ line' = line + 1
    BY <1>4 DEF Begin, Fork, NextLine, process
  <2>2. line \in 1..Lines /\ LineOK(line, Now) /\ pc[Tester] = "idle" /\ pc[Guest] = "idle"
    BY <2>1, NowLine, WhereIdle DEF Cmds
  <2>3. line + 1 \in GuestLines
    BY <2>1, <2>2 DEF LineOK
  <2> QED BY <2>1, <2>2, <2>3, Numbers, WhereNextLine DEF WhereInv, Lines
<1>5. CASE End
  <2>1. Now.cmd = "exit" /\ LineOK(line, Now) /\ line \in 1..Lines
    BY <1>5, NowLine DEF End
  <2>2. Now.by = Guest
    BY <2>1 DEF LineOK
  <2>3. CASE exit_group(Guest) /\ UNCHANGED test
    BY <2>1, <2>2, <2>3, WhereExit, Numbers DEF test
  <2>4. CASE Guest \notin alive /\ NextLine /\ UNCHANGED vars
    <3>1. UNCHANGED <<pc, call, alive>> /\ line' = line + 1 /\ Guest \notin alive'
      BY <2>4 DEF NextLine, vars, process, rest
    <3>2. pc[Guest] = "idle"
      BY <2>4, Numbers DEF WhereInv, Place
    <3>3. pc[Tester] = "idle"
      BY <2>2, TestAsks, Numbers
    <3> QED BY <2>1, <3>1, <3>2, <3>3, WhereNextLine DEF WhereInv, Lines
  <2> QED BY <1>5, <2>3, <2>4 DEF End
<1> QED BY <1>1, <1>2, <1>3, <1>4, <1>5 DEF Program

LEMMA WhereOthers ==
    ASSUME WhereInv,
           \/ Load /\ UNCHANGED test
           \/ \E p \in Procs : Inside(p)
           \/ \E p \in Bystanders : Bystander(p)
           \/ Tear /\ UNCHANGED test
    PROVE  WhereInv'
<1>1. CASE Load /\ UNCHANGED test
  <2>1. UNCHANGED <<process, alive>>
    BY <1>1 DEF Load, LoaderLocksCalls, LoaderSetsRw, SaveEntry, HijackEntry, RestoreEntry,
       LoaderSetsRo, LoaderUnlocksCalls, LoaderLocksPids, InitLists, LoaderUnlocksPids, SpinLockInit,
       DestroyLists, vars, rest
  <2> QED BY <1>1, <2>1, WhereStays DEF WhereInv, test
<1>2. ASSUME NEW p \in Procs, Inside(p) PROVE WhereInv'
  <2>1. CASE Proceed(p) /\ UNCHANGED test
    <3>1. Continue(p) /\ line' = line
      BY <2>1 DEF Proceed, test
    <3> QED BY <3>1, WhereTyped, GoesOn, WhereGoes, WhereOops
  <2>2. CASE Answer(p)
    BY <2>2, WhereAnswers DEF Answer, NextLine
  <2>3. CASE Crash(p) /\ UNCHANGED test
    BY <2>3, WhereOops DEF Crash, test
  <2> QED BY <1>2, <2>1, <2>2, <2>3 DEF Inside
<1>3. ASSUME NEW p \in Bystanders, Bystander(p) PROVE WhereInv'
  <2>1. line' = line /\ p \in Procs
    BY <1>3 DEF Bystander, test, Bystanders
  <2>2. CASE Call(p)
    BY <2>1, <2>2, WhereCall
  <2>3. CASE p # Init_pid /\ exit_group(p)
    BY <2>1, <2>3, WhereExit
  <2>4. CASE Fork(p)
    <3>1. alive' = alive \union {p} /\ UNCHANGED process /\ p # Guest
      BY <2>4 DEF Fork, Bystanders
    <3> QED BY <2>1, <3>1, WhereStays DEF WhereInv
  <2>5. CASE p # Init_pid /\ Request(p) /\ call'[p].cmd \in {"start", "stop"} /\ call'[p].pid = p
    BY <2>1, <2>5, WhereRequest DEF Cmd, Pid
  <2> QED BY <1>3, <2>2, <2>3, <2>4, <2>5 DEF Bystander
<1>4. CASE Tear /\ UNCHANGED test
  BY <1>4, WhereOops DEF Tear, TearList, test
<1> QED BY <1>1, <1>2, <1>3, <1>4

LEMMA WhereNext == ASSUME WhereInv, [TestNext]_tvars PROVE WhereInv'
<1>1. CASE UNCHANGED tvars
  BY <1>1, WhereStays DEF tvars, system, vars, rest, test, WhereInv
<1> QED BY <1>1, WhereProgram, WhereOthers DEF TestNext

LEMMA WhereInit == TestInit => WhereInv
<1> SUFFICES ASSUME TestInit PROVE WhereInv
  OBVIOUS
<1>1. /\ pc = [p \in Procs |-> "idle"] /\ call = [p \in Procs |-> NoCall]
      /\ alive = Procs \ {Guest} /\ line = 1
  BY DEF TestInit, LoadInit, Fresh
<1> QED BY <1>1, Numbers, NoCallTyped DEF WhereInv, Labels, Lines, Place

-----------------------------------------------------------------------------
(* The entries of sys_call_table.                                          *)

Domains == DOMAIN sys_call_table = Table /\ DOMAIN f = Table /\ DOMAIN intercepted = Table

\* Only a request that works changes an entry.
LEMMA EntriesKept ==
    ASSUME NEW p \in Procs, Continue(p), pc[p] \notin Working
    PROVE  UNCHANGED Entries
<1>1. CASE check_pid_from_list(p) \/ Forward(p) \/ ReadMode(p) \/ SearchList(p) \/ InterceptorMode(p)
           \/ InterceptorLog(p) \/ orig_exit_group(p) \/ Leave(p)
  BY <1>1, TableKept DEF TableState, callTable, table, Entries
<1>2. CASE LockPids(p) \/ UnlockPids(p) \/ LockCalls(p) \/ UnlockCalls(p) \/ set_addr_rw(p) \/ set_addr_ro(p)
  BY <1>2 DEF LockPids, UnlockPids, LockCalls, UnlockCalls, set_addr_rw, set_addr_ro, callTable,
     table, Entries
<1>3. CASE ReleaseList(p) \/ ClearMonitored(p) \/ DestroyForAll(p) \/ SetMonitored(p)
           \/ ChangeBlackList(p) \/ ChangeList(p)
  <2>1. UNCHANGED sys_call_table
    BY <1>3 DEF ReleaseList, ClearMonitored, DestroyForAll, SetMonitored, ChangeBlackList, ChangeList, callTable
  <2>2. UNCHANGED <<f, intercepted>>
    BY <1>3 DEF ReleaseList, ClearMonitored, DestroyForAll, SetMonitored, ChangeBlackList, ChangeList,
       destroy_list, add_pid_sysc, del_pid_sysc, del_pid, table
  <2> QED BY <2>1, <2>2 DEF Entries
<1>4. CASE SaveOriginal(p) \/ FlagIntercepted(p) \/ SwitchToInterceptor(p) \/ RestoreOriginal(p)
           \/ ClearIntercepted(p) \/ ForgetOriginal(p)
  BY <1>4 DEF SaveOriginal, FlagIntercepted, SwitchToInterceptor, RestoreOriginal, ClearIntercepted,
     ForgetOriginal, At, Working
<1> QED BY <1>1, <1>2, <1>3, <1>4 DEF Continue

\* What a step of a request that works leaves of the entry, and where it goes.
Leaves(p, l) ==
    /\ Domains'
    /\ \A s \in Table : s # Syscall(p) => /\ sys_call_table'[s] = sys_call_table[s]
                                          /\ f'[s] = f[s]
                                          /\ intercepted'[s] = intercepted[s]
    /\ l \in Working => Expected(p)'
    /\ l \notin Working => /\ l = "set_ro" /\ Settled(Syscall(p))'
                           /\ Cmd(p) = "release" => Off(Syscall(p))'
    /\ Off(Syscall(p)) \/ pc[p] # "save"
    /\ f'[Syscall(p)] = "original" \/ pc[p] = "forget"

\* The actions at the labels of a request that works.
LEMMA WorkingActions ==
    ASSUME NEW p \in Procs, Continue(p), pc[p] \in Working
    PROVE  \/ SaveOriginal(p) \/ FlagIntercepted(p) \/ SwitchToInterceptor(p)
           \/ RestoreOriginal(p) \/ ClearIntercepted(p) \/ ForgetOriginal(p)
           \/ ReleaseList(p) \/ (At(p, "unmonitor") /\ ClearMonitored(p)) \/ LockCalls(p) \/ set_addr_rw(p)
<1>1. ~(check_pid_from_list(p) \/ ReadMode(p) \/ SearchList(p) \/ DestroyForAll(p) \/ SetMonitored(p)
        \/ ChangeBlackList(p) \/ ChangeList(p) \/ InterceptorMode(p) \/ InterceptorLog(p) \/ Forward(p))
  BY DEF check_pid_from_list, ReadMode, SearchList, DestroyForAll, SetMonitored,
     ChangeBlackList, ChangeList, InterceptorMode, InterceptorLog, Forward, At, Working
<1>2. ~(LockPids(p) \/ UnlockPids(p) \/ UnlockCalls(p) \/ set_addr_ro(p) \/ orig_exit_group(p) \/ Leave(p))
  BY DEF LockPids, UnlockPids, UnlockCalls, set_addr_ro, orig_exit_group, Leave, At, Working
<1>3. ClearMonitored(p) => At(p, "unmonitor")
  BY DEF ClearMonitored, At, Working
<1> QED BY <1>1, <1>2, <1>3 DEF Continue

LEMMA Works ==
    ASSUME Placed, Domains, NEW p \in Procs, pc[p] \in Working, Expected(p), Continue(p)
    PROVE  \E l : Go(p, l) /\ Leaves(p, l)
<1> DEFINE s == Syscall(p)
<1>0. s \in Table
  BY DEF Expected
<1>00. \A l : Go(p, l) => pc'[p] = l /\ call' = call
  BY DEF Go, Placed
<1>1. CASE SaveOriginal(p)
  <2>1. pc[p] = "save" /\ Go(p, "flag") /\ f' = [f EXCEPT ![s] = sys_call_table[s]]
        /\ UNCHANGED <<sys_call_table, intercepted>>
    BY <1>1 DEF SaveOriginal, At, callTable
  <2>2. Cmd(p) = "intercept" /\ Off(s)
    BY <2>1 DEF Working, Expected
  <2>3. pc'[p] = "flag" /\ Saved(s)' /\ ~intercepted'[s] /\ call' = call
    BY <1>0, <1>00, <2>1, <2>2 DEF Domains, Off, Saved, Syscall
  <2>4. Expected(p)'
    BY <1>0, <2>2, <2>3 DEF Expected, Cmd, Syscall
  <2>5. f'[s] = "original"
    BY <1>0, <2>1, <2>2 DEF Domains, Off
  <2>6. Leaves(p, "flag")
    BY <1>0, <2>1, <2>2, <2>4, <2>5 DEF Leaves, Domains, Working
  <2> QED BY <2>1, <2>6
<1>2. CASE FlagIntercepted(p)
  <2>1. pc[p] = "flag" /\ Go(p, "lock_calls") /\ intercepted' = [intercepted EXCEPT ![s] = TRUE]
        /\ UNCHANGED <<sys_call_table, f>>
    BY <1>2 DEF FlagIntercepted, At, callTable
  <2>2. Cmd(p) = "intercept" /\ Saved(s)
    BY <2>1 DEF Working, Expected
  <2>3. pc'[p] = "lock_calls" /\ Saved(s)' /\ intercepted'[s] /\ call' = call
    BY <1>0, <1>00, <2>1, <2>2 DEF Domains, Saved, Syscall
  <2>4. Expected(p)'
    BY <1>0, <2>2, <2>3 DEF Expected, Cmd, Syscall
  <2>6. Leaves(p, "lock_calls")
    BY <1>0, <2>1, <2>2, <2>4 DEF Leaves, Domains, Working, Saved
  <2> QED BY <2>1, <2>6
<1>3. CASE SwitchToInterceptor(p)
  <2>1. pc[p] = "switch" /\ Go(p, "set_ro")
        /\ sys_call_table' = [sys_call_table EXCEPT ![s] = "interceptor"]
        /\ UNCHANGED <<intercepted, f>>
    BY <1>3 DEF SwitchToInterceptor, At, table
  <2>2. Saved(s) /\ intercepted[s] /\ Cmd(p) = "intercept"
    BY <2>1 DEF Working, Expected
  <2>3. Settled(s)'
    BY <1>0, <1>00, <2>1, <2>2 DEF Domains, Saved, Settled, On, Syscall
  <2>6. Leaves(p, "set_ro")
    BY <1>0, <2>1, <2>2, <2>3 DEF Leaves, Domains, Working, Saved
  <2> QED BY <2>1, <2>6
<1>4. CASE RestoreOriginal(p)
  <2>1. pc[p] = "restore" /\ Go(p, "unflag")
        /\ sys_call_table' = [sys_call_table EXCEPT ![s] = f[s]]
        /\ UNCHANGED <<f, intercepted>>
    BY <1>4 DEF RestoreOriginal, At, table
  <2>2. Cmd(p) = "release" /\ On(s)
    BY <2>1 DEF Working, Expected
  <2>3. pc'[p] = "unflag" /\ Saved(s)' /\ intercepted'[s] /\ call' = call
    BY <1>0, <1>00, <2>1, <2>2 DEF Domains, On, Saved, Syscall
  <2>4. Expected(p)'
    BY <1>0, <2>2, <2>3 DEF Expected, Cmd, Syscall
  <2>6. Leaves(p, "unflag")
    BY <1>0, <2>1, <2>2, <2>4 DEF Leaves, Domains, Working, On
  <2> QED BY <2>1, <2>6
<1>5. CASE ClearIntercepted(p)
  <2>1. pc[p] = "unflag" /\ Go(p, "unmonitor")
        /\ intercepted' = [intercepted EXCEPT ![s] = FALSE]
        /\ UNCHANGED <<f, sys_call_table>>
    BY <1>5 DEF ClearIntercepted, At, callTable
  <2>2. Cmd(p) = "release" /\ Saved(s)
    BY <2>1 DEF Working, Expected
  <2>3. pc'[p] = "unmonitor" /\ Saved(s)' /\ ~intercepted'[s] /\ call' = call
    BY <1>0, <1>00, <2>1, <2>2 DEF Domains, Saved, Syscall
  <2>4. Expected(p)'
    BY <1>0, <2>2, <2>3 DEF Expected, Cmd, Syscall
  <2>6. Leaves(p, "unmonitor")
    BY <1>0, <2>1, <2>2, <2>4 DEF Leaves, Domains, Working, Saved
  <2> QED BY <2>1, <2>6
<1>6. CASE ForgetOriginal(p)
  <2>1. pc[p] = "forget" /\ Go(p, "set_ro") /\ f' = [f EXCEPT ![s] = "null"]
        /\ UNCHANGED <<intercepted, sys_call_table>>
    BY <1>6 DEF ForgetOriginal, At, callTable
  <2>2. Saved(s) /\ ~intercepted[s]
    BY <2>1 DEF Working, Expected
  <2>3. Off(s)'
    BY <1>0, <1>00, <2>1, <2>2 DEF Domains, Saved, Off, Syscall
  <2>6. Leaves(p, "set_ro")
    BY <1>0, <2>1, <2>3 DEF Leaves, Domains, Working, Settled
  <2> QED BY <2>1, <2>6
<1>7. CASE ReleaseList(p) \/ (At(p, "unmonitor") /\ ClearMonitored(p)) \/ LockCalls(p) \/ set_addr_rw(p)
  <2>1. PICK l : /\ Go(p, l) /\ UNCHANGED Entries
                 /\ \/ pc[p] = "destroy" /\ l = "restore"
                    \/ pc[p] = "unmonitor" /\ l = "forget"
                    \/ pc[p] = "lock_calls" /\ l = "set_rw"
                    \/ pc[p] = "set_rw" /\ l = IF Cmd(p) = "intercept" THEN "switch" ELSE "destroy"
    BY <1>7 DEF ReleaseList, ClearMonitored, LockCalls, set_addr_rw, At, destroy_list, callTable,
       table, Entries
  <2>2. pc'[p] = l /\ call' = call
    BY <1>00, <2>1
  <2>3. Expected(p)'
    BY <2>1, <2>2 DEF Expected, Cmd, Syscall, Entries, Saved, On, Off
  <2>4. l \in Working /\ pc[p] # "save" /\ f[s] = "original"
    BY <2>1 DEF Working, Expected, Saved, On
  <2>6. Leaves(p, l)
    BY <2>1, <2>3, <2>4 DEF Leaves, Domains, Entries
  <2> QED BY <2>1, <2>6
<1> QED BY <1>1, <1>2, <1>3, <1>4, <1>5, <1>6, <1>7, WorkingActions

LEMMA MayStay ==
    ASSUME WhereInv, line \in 1..Lines
    PROVE  /\ MayBeOn(line) \ (IF Now.by = Tester /\ Now.cmd = "release" THEN {Now.syscall} ELSE {})
                 \subseteq MayBeOn(line + 1)
           /\ Now.by = Tester /\ Now.cmd = "intercept" /\ Now.syscall \in Table \ {MY_CUSTOM_SYSCALL}
                 => Now.syscall \in MayBeOn(line + 1)
<1>1. LineOK(line, Now)
  BY NowOK DEF Lines
<1> QED BY <1>1 DEF LineOK

LEMMA SameEntries ==
    ASSUME UNCHANGED Entries
    PROVE  /\ Domains => Domains'
           /\ \A s : (Off(s) <=> Off(s)') /\ (On(s) <=> On(s)') /\ (Saved(s) <=> Saved(s)')
                     /\ (Settled(s) <=> Settled(s)')
BY DEF Entries, Domains, Off, On, Saved, Settled

\* The tester stays where it is, and the entries are as they were.
LEMMA EntriesSame ==
    ASSUME EntriesInv, UNCHANGED Entries, pc'[Tester] = pc[Tester], call'[Tester] = call[Tester],
           line' = line
    PROVE  EntriesInv'
<1>1. Scope' = Scope
  BY DEF Scope
<1>2. pc[Tester] \in Working => Expected(Tester)'
  BY SameEntries DEF EntriesInv, Expected, Cmd, Syscall, Entries
<1> QED BY <1>1, <1>2, SameEntries DEF EntriesInv, Domains, Syscall

\* The test goes to its next line while the tester is not in the module.
LEMMA EntriesNextLine ==
    ASSUME WhereInv, EntriesInv, UNCHANGED Entries, pc[Tester] = "idle", pc'[Tester] = "idle",
           line \in 1..Lines, line' = line + 1, ~(Now.by = Tester /\ Now.cmd = "release")
    PROVE  EntriesInv'
<1>1. Scope = MayBeOn(line) /\ Scope' = MayBeOn(line + 1)
  BY DEF Scope
<1>2. Scope \subseteq Scope'
  BY <1>1, MayStay
<1> QED BY <1>2, SameEntries DEF EntriesInv, Domains, Working

\* The tester's answer.
LEMMA EntriesAnswer ==
    ASSUME WhereInv, EntriesInv, UNCHANGED Entries, pc[Tester] = "return", pc'[Tester] = "idle",
           line' = line + 1
    PROVE  EntriesInv'
<1>1. Scope = MayBeOn(line + 1) /\ Scope' = MayBeOn(line + 1)
  BY DEF Scope, Done
<1> QED BY <1>1, SameEntries DEF EntriesInv, Domains, Working

\* The tester's request goes on.
LEMMA EntriesGoes ==
    ASSUME WhereInv, EntriesInv, Continue(Tester), NEW l, Goes(Tester, l), pc[Tester] # "return",
           line' = line
    PROVE  EntriesInv'
<1>0. Tester \in Procs /\ Placed /\ Domains
  BY WhereTyped DEF EntriesInv, Domains
<1>1. pc'[Tester] = l
  BY <1>0 DEF Goes, Placed
<1>2. pc[Tester] # "idle"
  BY DEF Goes, Follows
<1>3. line \in 1..Lines /\ Now.by = Tester /\ Cmd(Tester) = Now.cmd /\ Syscall(Tester) = Now.syscall
  <2>1. Now.by = Tester /\ line \in 2..Lines - 1 /\ Asks(Tester)
    BY <1>0, <1>2, TestAsks, Numbers
  <2> QED BY <2>1 DEF Asks, Lines
<1>4. l # "idle"
  <2>1. Route(call[Tester], pc[Tester]) /\ Cmd(Tester) \in Cmds \union {"unknown"}
    BY <1>0, <1>2, TestAsks, Numbers DEF WhereInv, Place, Asks
  <2>2. pc[Tester] # "dying"
    BY <2>1 DEF Route, Cmd, Cmds, Looking, ForOne, ForAll, Working, Done
  <2> QED BY <2>2 DEF Goes, Follows
<1>5. Syscall(Tester)' = Syscall(Tester) /\ Cmd(Tester)' = Cmd(Tester)
  BY <1>4 DEF Goes, SameCall
<1>6. CASE pc[Tester] \in Working
  <2>1. Expected(Tester)
    BY <1>6 DEF EntriesInv
  <2>2. PICK k : Go(Tester, k) /\ Leaves(Tester, k)
    BY <1>0, <1>6, <2>1, Works
  <2>3. k = l
    BY <1>0, <1>1, <2>2 DEF Go, Placed
  <2> DEFINE s == Syscall(Tester)
  <2>4. s \in Table /\ Cmd(Tester) \in {"intercept", "release"}
    BY <2>1 DEF Expected
  <2>5. Scope = MayBeOn(line) \union MayBeOn(line + 1)
    BY <1>6 DEF Scope, Working, Done
  <2>6. \A x \in Table \ {s} : Settled(x) /\ Settled(x)' /\ (Off(x) => Off(x)')
    BY <2>2 DEF EntriesInv, Leaves, Settled, Off, On
  <2>7. s \in Scope
    <3>1. CASE Off(s)
      <4>1. Cmd(Tester) = "intercept"
        BY <2>1, <3>1 DEF Expected, Off, Saved, On
      <4>2. s \in Table \ {MY_CUSTOM_SYSCALL}
        <5>1. pc[Tester] \in Privileged
          BY <1>6 DEF Working, Privileged, InCalls
        <5> QED BY <1>0, <1>2, <5>1 DEF WhereInv, Place
      <4>3. s \in MayBeOn(line + 1)
        BY <1>3, <4>1, <4>2, MayStay
      <4> QED BY <2>5, <4>3
    <3>2. CASE ~Off(s)
      BY <2>4, <3>2 DEF EntriesInv
    <3> QED BY <3>1, <3>2
  <2>8. CASE l \in Working
    <3>1. Scope' = Scope
      BY <1>1, <2>5, <2>8 DEF Scope, Working, Done
    <3>2. Expected(Tester)'
      BY <2>2, <2>3, <2>8 DEF Leaves
    <3>3. Domains'
      BY <2>2 DEF Leaves
    <3>4. \A x \in Table : Off(x)' \/ x \in Scope
      BY <2>6, <2>7 DEF EntriesInv
    <3>5. \A x \in Table : Settled(x)' \/ x = Syscall(Tester)'
      BY <1>5, <2>6
    <3> QED BY <1>1, <2>8, <3>1, <3>2, <3>3, <3>4, <3>5 DEF EntriesInv, Domains
  <2>9. CASE l \notin Working
    <3>1. l = "set_ro" /\ Settled(s)' /\ (Cmd(Tester) = "release" => Off(s)') /\ Domains'
      BY <2>2, <2>3, <2>9 DEF Leaves
    <3>2. Scope' = MayBeOn(line + 1)
      BY <1>1, <3>1 DEF Scope, Done
    <3>3. ASSUME NEW x \in Table PROVE Off(x)' \/ x \in Scope'
      <4>1. CASE x # s
        <5>1. Off(x)' \/ x \in MayBeOn(line) \union MayBeOn(line + 1)
          BY <2>5, <2>6, <4>1 DEF EntriesInv
        <5>2. x \in MayBeOn(line) => x \in MayBeOn(line + 1)
          BY <1>3, <4>1, MayStay
        <5> QED BY <3>2, <5>1, <5>2
      <4>2. CASE x = s /\ Cmd(Tester) = "release"
        BY <1>5, <3>1, <4>2
      <4>3. CASE x = s /\ Cmd(Tester) # "release"
        <5>1. x \in MayBeOn(line) => x \in MayBeOn(line + 1)
          BY <1>3, <4>3, MayStay
        <5> QED BY <2>5, <2>7, <3>2, <4>3, <5>1
      <4> QED BY <4>1, <4>2, <4>3
    <3>4. \A x \in Table : Settled(x)'
      BY <1>5, <2>6, <3>1
    <3> QED BY <1>1, <2>9, <3>1, <3>3, <3>4 DEF EntriesInv, Domains
  <2> QED BY <2>8, <2>9
<1>7. CASE pc[Tester] \notin Working
  <2>1. UNCHANGED Entries
    BY <1>0, <1>7, EntriesKept
  <2>2. l \notin Working
    BY <1>7 DEF Goes, Follows, Working
  <2>3. Scope \subseteq Scope'
    <3>1. CASE pc[Tester] \in Done
      <4>1. l \in Done
        BY <3>1 DEF Goes, Follows, Done
      <4> QED BY <1>1, <1>2, <1>4, <3>1, <4>1 DEF Scope
    <3>2. CASE pc[Tester] \notin Done /\ l \notin Done
      BY <1>1, <1>2, <1>4, <3>2 DEF Scope
    <3>3. CASE pc[Tester] \notin Done /\ l \in Done
      <4>1. Cmd(Tester) # "release"
        BY <1>0, <1>2, <1>7, <3>3 DEF WhereInv, Place, Route, Cmd
      <4>2. MayBeOn(line) \subseteq MayBeOn(line + 1)
        BY <1>3, <4>1, MayStay
      <4>3. Scope' = MayBeOn(line + 1) /\ Scope = MayBeOn(line) \union MayBeOn(line + 1)
        BY <1>1, <1>2, <1>4, <3>3 DEF Scope
      <4> QED BY <4>2, <4>3
    <3> QED BY <3>1, <3>2, <3>3
  <2> QED BY <1>1, <1>7, <2>1, <2>2, <2>3, SameEntries DEF EntriesInv, Domains
<1> QED BY <1>6, <1>7

\* The tester's request begins.
LEMMA EntriesRequest ==
    ASSUME WhereInv, EntriesInv, Request(Tester), line' = line, line \in 1..Lines, Now.by = Tester,
           Cmd(Tester)' = Now.cmd, Syscall(Tester)' = Now.syscall, Pid(Tester)' = Now.pid
    PROVE  EntriesInv'
<1> DEFINE T == Tester
<1>0. T \in Procs /\ Placed /\ Domains
  BY WhereTyped DEF EntriesInv, Domains
<1>1. my_syscall(T)
  BY DEF Request
<1>2. PICK r \in Requests, code \in Codes, l \in Labels :
             /\ Start(T, [r EXCEPT !.ret = code], l)
             /\ [r EXCEPT !.ret = code] \in Calls
             /\ [r EXCEPT !.ret = code].cmd = r.cmd
             /\ [r EXCEPT !.ret = code].syscall = r.syscall
             /\ [r EXCEPT !.ret = code].pid = r.pid
             /\ BeginsAt(T, r, l)
  BY <1>0, <1>1, Begins
<1> DEFINE c == [r EXCEPT !.ret = code]
<1>3. Start(T, c, l) /\ c.cmd = r.cmd /\ c.syscall = r.syscall /\ c.pid = r.pid
  BY <1>2
<1> HIDE DEF c
<1>4. /\ pc[T] = "idle" /\ pc'[T] = l /\ call'[T] = c /\ UNCHANGED Entries
  BY <1>0, <1>3 DEF Start, At, Placed, callTable, table, Entries
<1>5. /\ Cmd(T)' = r.cmd /\ Syscall(T)' = r.syscall
      /\ Now.cmd = r.cmd /\ Now.syscall = r.syscall /\ Now.pid = r.pid
  BY <1>3, <1>4 DEF Cmd, Syscall, Pid
<1>6. \A s \in Table : Settled(s) /\ Settled(s)'
  BY <1>4, SameEntries DEF EntriesInv, Working
<1>7. l \in Working => Expected(T)'
  <2> SUFFICES ASSUME l \in Working PROVE Expected(T)'
    OBVIOUS
  <2>1. /\ r.syscall \in Table
        /\ \/ l = "save" /\ r.cmd = "intercept" /\ ~intercepted[r.syscall]
           \/ l = "lock_calls" /\ r.cmd = "release" /\ intercepted[r.syscall]
    BY <1>2 DEF BeginsAt, Working
  <2>2. (l = "save" => Off(r.syscall)') /\ (l = "lock_calls" => On(r.syscall)')
    BY <1>4, <1>6, <2>1, SameEntries DEF Settled, Off, On
  <2> QED BY <1>4, <1>5, <2>1, <2>2 DEF Expected, Off, On
<1>8. ASSUME NEW s \in Table PROVE Off(s)' \/ s \in Scope'
  <2>1. Off(s) \/ s \in MayBeOn(line)
    BY <1>4 DEF EntriesInv, Scope
  <2>2. CASE Off(s)
    BY <1>4, <2>2, SameEntries
  <2>3. CASE s \in MayBeOn(line) /\ l \notin Done
    BY <1>4, <2>3, <1>2 DEF BeginsAt, Scope, Labels, InCalls
  <2>4. CASE s \in MayBeOn(line) /\ l \in Done
    <3>1. l = "return" /\ Scope' = MayBeOn(line + 1)
      BY <1>2, <1>4, <2>4 DEF BeginsAt, Scope, Done
    <3>2. CASE r.cmd = "release" /\ s = r.syscall
      <4>1. s \in Table \ {MY_CUSTOM_SYSCALL} /\ IsRoot(T)
        BY <2>4, Numbers DEF MayBeOn, IsRoot
      <4>2. r.pid = T /\ T \in alive
        <5>1. LineOK(line, Now)
          BY NowOK DEF Lines
        <5> QED BY <1>5, <3>2, <5>1 DEF LineOK, WhereInv
      <4>3. ~intercepted[s]
        BY <1>2, <3>1, <3>2, <4>1, <4>2 DEF BeginsAt
      <4>4. Off(s)
        BY <1>6, <4>3 DEF Settled, On
      <4> QED BY <1>4, <4>4, SameEntries
    <3>3. CASE ~(r.cmd = "release" /\ s = r.syscall)
      BY <1>5, <2>4, <3>1, <3>3, MayStay
    <3> QED BY <3>2, <3>3
  <2> QED BY <2>1, <2>2, <2>3, <2>4
<1> QED BY <1>0, <1>4, <1>6, <1>7, <1>8, SameEntries DEF EntriesInv, Domains

\* Nobody but the tester changes an entry.
LEMMA EntriesAside ==
    ASSUME WhereInv, EntriesInv, NEW p \in Procs, p # Tester, Enter(p) \/ Continue(p), line' = line
    PROVE  EntriesInv'
<1>1. UNCHANGED Entries
  <2>1. pc[p] \notin Working
    BY PrivilegedTester DEF Working, Privileged, InCalls
  <2> QED BY <2>1, EntriesKept, TableKept DEF TableState, callTable, table, Entries
<1>2. pc'[Tester] = pc[Tester] /\ call'[Tester] = call[Tester]
  <2>0. Placed /\ Tester \in Procs
    BY WhereTyped
  <2>1. CASE Continue(p)
    <3>1. (\E l : Goes(p, l)) \/ Oops
      BY <2>0, <2>1, GoesOn
    <3> QED BY <2>0, <3>1 DEF Goes, Oops, Placed, process
  <2>2. CASE Enter(p)
    <3>1. UNCHANGED process \/ \E l, c : pc' = [pc EXCEPT ![p] = l] /\ call' = [call EXCEPT ![p] = c]
      BY <2>2 DEF Enter, my_syscall, SystemCall, SystemCallNull, my_exit_group, Start, Oops
    <3> QED BY <2>0, <3>1 DEF process, Placed
  <2> QED BY <2>1, <2>2
<1> QED BY <1>1, <1>2, EntriesSame

LEMMA EntriesOops == ASSUME EntriesInv, Oops, line' = line PROVE EntriesInv'
BY EntriesSame DEF Oops, callTable, table, process, Entries

LEMMA EntriesProgram == ASSUME WhereInv, EntriesInv, Program PROVE EntriesInv'
<1>0. Tester # Guest /\ Guest \in Procs /\ Tester \in Procs
  BY Numbers
<1>1. CASE Insert \/ Remove
  <2>1. UNCHANGED <<vars, line>>
    BY <1>1 DEF Insert, Remove, Insmod, Rmmod, test
  <2> QED BY <2>1, EntriesSame DEF vars, process, callTable, table, Entries
<1>2. CASE Loaded
  <2>1. UNCHANGED vars /\ line' = line + 1 /\ Now.cmd \in {"insmod", "rmmod"}
    BY <1>2 DEF Loaded, NextLine
  <2>2. line \in 1..Lines /\ pc[Tester] = "idle"
    BY <2>1, NowLine, WhereIdle DEF Cmds
  <2> QED BY <2>1, <2>2, EntriesNextLine DEF vars, process, callTable, table, Entries
<1>3. CASE Ask
  <2>1. Now.cmd \in Cmds \union {"unknown", "call"} /\ line' = line
    BY <1>3 DEF Ask, test
  <2>2. LineOK(line, Now) /\ line \in 1..Lines
    BY <2>1, NowLine DEF Cmds
  <2>3. Now.by \in {Tester, Guest}
    BY <2>2 DEF LineOK
  <2>4. CASE Now.by = Tester
    <3>1. Now.cmd # "call"
      BY <1>0, <2>2, <2>4 DEF LineOK
    <3>2. /\ Request(Tester) /\ Cmd(Tester)' = Now.cmd /\ Syscall(Tester)' = Now.syscall
          /\ Pid(Tester)' = Now.pid
      BY <1>3, <2>4, <3>1 DEF Ask, Cmd, Syscall, Pid
    <3> QED BY <2>1, <2>2, <2>4, <3>2, EntriesRequest
  <2>5. CASE Now.by = Guest
    <3>1. Request(Guest) \/ Call(Guest)
      BY <1>3, <2>5 DEF Ask
    <3>2. Enter(Guest)
      BY <3>1 DEF Request, Call, Enter
    <3> QED BY <1>0, <2>1, <3>2, EntriesAside
  <2> QED BY <2>3, <2>4, <2>5
<1>4. CASE Begin
  <2>1. Now.cmd = "fork" /\ UNCHANGED <<process, Entries>> /\ line' = line + 1
    BY <1>4 DEF Begin, Fork, NextLine, callTable, table, Entries
  <2>2. line \in 1..Lines /\ pc[Tester] = "idle"
    BY <2>1, NowLine, WhereIdle DEF Cmds
  <2> QED BY <2>1, <2>2, EntriesNextLine DEF process
<1>5. CASE End
  <2>1. Now.cmd = "exit" /\ LineOK(line, Now) /\ line \in 1..Lines
    BY <1>5, NowLine DEF End
  <2>2. Now.by = Guest
    BY <2>1 DEF LineOK
  <2>3. CASE exit_group(Guest) /\ UNCHANGED test
    <3>1. CASE my_exit_group(Guest)
      <4>1. Enter(Guest)
        BY <3>1 DEF Enter
      <4> QED BY <1>0, <2>3, <4>1, EntriesAside DEF test
    <3>2. CASE ~my_exit_group(Guest)
      <4>1. UNCHANGED <<process, Entries>> /\ line' = line
        BY <2>3, <3>2 DEF exit_group, callTable, table, Entries, test
      <4> QED BY <4>1, EntriesSame DEF process
    <3> QED BY <3>1, <3>2
  <2>4. CASE NextLine /\ UNCHANGED vars
    <3>1. line' = line + 1 /\ UNCHANGED <<process, Entries>>
      BY <2>4 DEF NextLine, vars, callTable, table, Entries
    <3>2. pc[Tester] = "idle"
      BY <1>0, <2>2, TestAsks
    <3> QED BY <1>0, <2>1, <2>2, <3>1, <3>2, EntriesNextLine DEF process
  <2> QED BY <1>5, <2>3, <2>4 DEF End
<1> QED BY <1>1, <1>2, <1>3, <1>4, <1>5 DEF Program

LEMMA LoadSteps ==
    ASSUME Load
    PROVE  UNCHANGED <<process, Entries, rest>>
BY DEF Load, LoaderLocksCalls, LoaderSetsRw, SaveEntry, HijackEntry, RestoreEntry,
       LoaderSetsRo, LoaderUnlocksCalls, LoaderLocksPids, InitLists, LoaderUnlocksPids, SpinLockInit,
       DestroyLists, vars, callTable, table, Entries

LEMMA EntriesOthers ==
    ASSUME WhereInv, EntriesInv,
           \/ Load /\ UNCHANGED test
           \/ \E p \in Procs : Inside(p)
           \/ \E p \in Bystanders : Bystander(p)
           \/ Tear /\ UNCHANGED test
    PROVE  EntriesInv'
<1>0. Tester # Guest /\ Tester \in Procs /\ Placed
  BY WhereTyped, Numbers
<1>1. CASE Load /\ UNCHANGED test
  BY <1>1, LoadSteps, EntriesSame DEF test, process
<1>2. ASSUME NEW p \in Procs, Inside(p) PROVE EntriesInv'
  <2>1. CASE Proceed(p) /\ UNCHANGED test /\ p = Tester
    <3>1. Continue(p) /\ line' = line
      BY <2>1 DEF Proceed, test
    <3>2. CASE Oops
      BY <3>1, <3>2, EntriesOops
    <3>3. CASE ~Oops
      <4>1. PICK l : Goes(Tester, l)
        BY <1>0, <2>1, <3>1, <3>3, GoesOn
      <4>2. CASE pc[Tester] # "return"
        BY <2>1, <3>1, <4>1, <4>2, EntriesGoes
      <4>3. CASE pc[Tester] = "return"
        <5>1. ~At(Tester, "return") \/ Answer(Tester)
          BY <1>2, <2>1 DEF Inside, Bystanders, Crash, Oops, Proceed, Goes, process, At
        <5>2. status = "up"
          BY <4>1 DEF Goes
        <5>3. line' = line + 1
          BY <4>3, <5>1, <5>2 DEF At, Answer, NextLine
        <5> QED BY <3>1, <5>3 DEF WhereInv, Lines
      <4> QED BY <4>2, <4>3
    <3> QED BY <3>2, <3>3
  <2>2. CASE Proceed(p) /\ UNCHANGED test /\ p # Tester
    <3>1. Continue(p) /\ line' = line
      BY <2>2 DEF Proceed, test
    <3> QED BY <2>2, <3>1, EntriesAside
  <2>3. CASE Answer(p)
    <3>1. Leave(p) /\ line' = line + 1 /\ p = Now.by
      BY <2>3 DEF Answer, NextLine
    <3>2. p \in {Tester, Guest} /\ line \in 2..Lines - 1 /\ Goes(p, "idle")
      BY <2>3, <3>1, WhereAnswers
    <3>3. UNCHANGED Entries /\ pc[p] = "return" /\ pc'[p] = "idle"
          /\ (p # Tester => pc'[Tester] = pc[Tester])
      BY <1>0, <3>1 DEF Leave, At, callTable, table, Entries, Placed
    <3>4. CASE p = Tester
      BY <3>1, <3>3, <3>4, EntriesAnswer
    <3>5. CASE p # Tester
      <4>1. pc[Tester] = "idle" /\ Now.by # Tester
        BY <1>0, <3>1, <3>5, TestAsks
      <4> QED BY <3>1, <3>2, <3>3, <3>5, <4>1, EntriesNextLine DEF Lines
    <3> QED BY <3>4, <3>5
  <2>4. CASE Crash(p) /\ UNCHANGED test
    BY <2>4, EntriesOops DEF Crash, test
  <2> QED BY <1>2, <2>1, <2>2, <2>3, <2>4 DEF Inside
<1>3. ASSUME NEW p \in Bystanders, Bystander(p) PROVE EntriesInv'
  <2>1. line' = line /\ p \in Procs /\ p # Tester
    BY <1>3 DEF Bystander, test, Bystanders
  <2>2. CASE Call(p) \/ my_exit_group(p) \/ Request(p)
    <3>1. Enter(p)
      BY <2>2 DEF Call, Request, Enter
    <3> QED BY <2>1, <3>1, EntriesAside
  <2>3. CASE UNCHANGED <<process, callTable, table>>
    BY <2>1, <2>3, EntriesSame DEF process, callTable, table, Entries
  <2> QED BY <1>3, <2>2, <2>3 DEF Bystander, exit_group, Fork
<1>4. CASE Tear /\ UNCHANGED test
  BY <1>4, EntriesOops DEF Tear, TearList, test
<1> QED BY <1>1, <1>2, <1>3, <1>4

LEMMA EntriesNext == ASSUME WhereInv, EntriesInv, [TestNext]_tvars PROVE EntriesInv'
<1>1. CASE UNCHANGED tvars
  BY <1>1, EntriesSame DEF tvars, system, vars, callTable, table, process, test, Entries
<1> QED BY <1>1, EntriesProgram, EntriesOthers DEF TestNext

LEMMA EntriesInit == TestInit => EntriesInv
<1> SUFFICES ASSUME TestInit PROVE EntriesInv
  OBVIOUS
<1>1. /\ sys_call_table = [s \in Table |-> "original"] /\ f = [s \in Table |-> "null"]
      /\ intercepted = [s \in Table |-> FALSE] /\ pc = [p \in Procs |-> "idle"] /\ Tester \in Procs
  BY Numbers DEF TestInit, LoadInit, Fresh
<1> QED BY <1>1 DEF EntriesInv, Off, Settled, Working

-----------------------------------------------------------------------------
(* The loader.                                                             *)

\* While the module is being loaded or unloaded, and before and after, the test
\* is not in it; and then no call is intercepted.
LEMMA LoaderAlone ==
    ASSUME WhereInv, EntriesInv, LoadInv, loader # "live"
    PROVE  /\ pc[Tester] = "idle" /\ pc[Guest] = "idle"
           /\ \A s \in Table : Off(s)
<1>1. line = 1 \/ line >= Lines
  <2>1. loader \in Unloading => line = Lines /\ Lines >= Lines
    BY DEF LoadInv, Lines
  <2> QED BY <2>1 DEF LoadInv
<1>2. pc[Tester] = "idle" /\ pc[Guest] = "idle"
  <2>1. ~(line \in 2..Lines - 1)
    BY <1>1 DEF Lines
  <2> QED BY <2>1, TestAsks
<1>3. Scope = {}
  <2>1. line = 1 \/ line = 37 \/ line = 38
    BY <1>1 DEF WhereInv, Lines
  <2>2. MayBeOn(1) = {} /\ MayBeOn(37) = {} /\ MayBeOn(38) = {}
    BY DEF MayBeOn
  <2> QED BY <1>2, <2>1, <2>2 DEF Scope
<1> QED BY <1>2, <1>3 DEF EntriesInv

\* Nobody gets into a module that is not there.
LEMMA NobodyEnters ==
    ASSUME WhereInv, EntriesInv, LoadInv, loader \in {"out", "gone"}, NEW p \in Procs
    PROVE  ~Request(p) /\ ~Call(p) /\ ~(hook["exit_group"] = "module" /\ my_exit_group(p))
<1>1. hook = [e \in Hooks |-> "original"]
  BY DEF LoadInv, Unhooked, Unsaved
<1>2. hook["custom"] = "original" /\ hook["exit_group"] = "original"
  BY <1>1 DEF Hooks
<1>3. \A s \in Table : sys_call_table[s] = "original"
  BY LoaderAlone DEF Off
<1> QED BY <1>2, <1>3 DEF Request, Call, SystemCall

\* While it is being loaded or unloaded everybody in it is recorded.
LEMMA BusyRecords ==
    ASSUME Record, loader \in Loading \union Unloading \/ loader' \in Loading \union Unloading
    PROVE  overlap' = {p \in Procs : pc'[p] # "idle"}
<1>1. \A p \in Procs : Unsettled(p) \/ Unsettled(p)'
  BY DEF Unsettled, Loading, Unloading
<1> QED BY <1>1 DEF Record

\* The module stays as it is.
LEMMA LoadSame ==
    ASSUME WhereInv, LoadInv, Record, UNCHANGED module,
           \/ line' = line
           \/ line' = line + 1 /\ (loader = "live" => line < Lines) /\ loader \in {"live", "gone"},
           loader \in {"out", "gone"} => \A p \in Procs : pc'[p] # "idle" => pc[p] # "idle"
    PROVE  LoadInv'
<1>1. overlap' \subseteq Procs
  BY DEF Record
<1>2. loader' \notin {"out", "live"} => \A p \in Procs : pc'[p] # "idle" => p \in overlap'
  <2>1. CASE loader \in Loading \union Unloading
    BY <2>1, BusyRecords
  <2>2. CASE loader = "gone"
    BY <2>2 DEF LoadInv, Record
  <2>3. CASE loader \in {"out", "live"}
    BY <2>3 DEF module
  <2> QED BY <2>1, <2>2, <2>3 DEF LoadInv
<1>3. UNCHANGED <<loader, hook, saved, heads>>
  BY DEF module
<1>4. /\ loader \in Loading \union {"out"} => line' = 1
      /\ loader \in Unloading => line' = Lines
      /\ loader = "gone" => line' >= Lines
      /\ line' > Lines => loader = "gone"
  <2>1. line \in Nat /\ Lines \in Nat
    BY DEF WhereInv, Lines
  <2>2. CASE line' = line
    BY <2>2 DEF LoadInv
  <2>3. CASE line' = line + 1 /\ (loader = "live" => line < Lines) /\ loader \in {"live", "gone"}
    BY <2>1, <2>3 DEF LoadInv, Loading, Unloading
  <2> QED BY <2>2, <2>3
<1>5. loader = "out" => \A p \in Procs : pc'[p] = "idle"
  BY DEF LoadInv
<1> QED BY <1>1, <1>2, <1>3, <1>4, <1>5 DEF LoadInv

\* The loader goes on.
LEMMA LoadGoes ==
    ASSUME WhereInv, LoadInv, Record, UNCHANGED <<process, line>>,
           loader \in Loading \union Unloading \union {"out", "live"},
           loader' \in Loading \union Unloading \union {"live", "gone"},
           loader \in {"out", "live"} => loader' \in Loading \union Unloading,
           loader' \in {"live", "gone"} => loader \in Loading \union Unloading,
           loader' \in Loading => line = 1,
           loader' \in Unloading \union {"gone"} => line = Lines,
           loader' = "live" => line <= Lines,
           hook' = [e \in Hooks |-> IF loader' \in Unhooked(e) THEN "original" ELSE "module"],
           DOMAIN saved' = Hooks,
           \A e \in Hooks : loader' \notin Unsaved(e) => saved'[e] = "original",
           heads' \/ loader' \in Fresh_heads
    PROVE  LoadInv'
<1>1. overlap' = {p \in Procs : pc'[p] # "idle"}
  BY BusyRecords
<1>2. Lines \in Nat /\ line \in Nat
  BY DEF Lines, WhereInv
<1> QED BY <1>1, <1>2 DEF LoadInv, Loading, Unloading, Lines

\* The entries of the two hooks do not change.
Passes(a, b) ==
    /\ \A e \in Hooks : a \in Unhooked(e) <=> b \in Unhooked(e)
    /\ \A e \in Hooks : a \in Unsaved(e) => b \in Unsaved(e)
    /\ a \in Fresh_heads => b \in Fresh_heads

\* The next step of the loader.
Moves(a, b) ==
    \/ a = "out" /\ b \in Loading
    \/ a \in Loading /\ b \in Loading \union {"live"}
    \/ a = "live" /\ b \in Unloading
    \/ a \in Unloading /\ b \in Unloading \union {"gone"}

LEMMA LoadMoves ==
    ASSUME WhereInv, LoadInv, Record, UNCHANGED <<process, line>>, Moves(loader, loader'),
           loader = "out" => line = 1, loader = "live" => line = Lines,
           hook' = [e \in Hooks |-> IF loader' \in Unhooked(e) THEN "original" ELSE "module"],
           DOMAIN saved' = Hooks,
           \A e \in Hooks : loader' \notin Unsaved(e) => saved'[e] = "original",
           heads' \/ loader' \in Fresh_heads
    PROVE  LoadInv'
<1>1. /\ loader \in Loading \union Unloading \union {"out", "live"}
      /\ loader' \in Loading \union Unloading \union {"live", "gone"}
      /\ loader \in {"out", "live"} => loader' \in Loading \union Unloading
      /\ loader' \in {"live", "gone"} => loader \in Loading \union Unloading
      /\ loader' \in Loading => loader \in Loading \union {"out"}
      /\ loader' \in Unloading \union {"gone"} => loader \in Unloading \union {"live"}
      /\ loader' = "live" => loader \in Loading
  BY DEF Moves, Loading, Unloading
<1>2. 1 <= Lines
  BY DEF Lines
<1>3. loader' \in Loading => line = 1
  BY <1>1 DEF LoadInv
<1>4. loader' \in Unloading \union {"gone"} => line = Lines
  BY <1>1 DEF LoadInv
<1>5. loader' = "live" => line <= Lines
  BY <1>1, <1>2 DEF LoadInv
<1> QED BY <1>1, <1>3, <1>4, <1>5, LoadGoes

LEMMA LoadPasses ==
    ASSUME WhereInv, LoadInv, Record, UNCHANGED <<process, line, hook, saved, heads>>,
           Moves(loader, loader'), Passes(loader, loader'),
           loader = "out" => line = 1, loader = "live" => line = Lines
    PROVE  LoadInv'
<1>1. hook' = [e \in Hooks |-> IF loader' \in Unhooked(e) THEN "original" ELSE "module"]
  BY DEF LoadInv, Passes
<1>2. DOMAIN saved' = Hooks /\ \A e \in Hooks : loader' \notin Unsaved(e) => saved'[e] = "original"
  BY DEF LoadInv, Passes
<1>3. heads' \/ loader' \in Fresh_heads
  BY DEF LoadInv, Passes
<1> QED BY <1>1, <1>2, <1>3, LoadMoves

LEMMA LoadLoader == ASSUME WhereInv, LoadInv, Record, Load, line' = line PROVE LoadInv'
<1>0. UNCHANGED process
  BY LoadSteps
<1>1. CASE LoaderLocksCalls \/ LoaderSetsRw \/ LoaderSetsRo \/ LoaderUnlocksCalls \/ LoaderLocksPids
           \/ LoaderUnlocksPids \/ SpinLockInit \/ DestroyLists
  <2>1. UNCHANGED <<hook, saved, heads>>
    BY <1>1 DEF LoaderLocksCalls, LoaderSetsRw, LoaderSetsRo, LoaderUnlocksCalls, LoaderLocksPids,
       LoaderUnlocksPids, SpinLockInit, DestroyLists
  <2>2. \/ loader = "init_lock" /\ loader' = "init_rw"
        \/ loader = "exit_lock" /\ loader' = "exit_rw"
        \/ loader = "init_rw" /\ loader' = "save_custom"
        \/ loader = "exit_rw" /\ loader' = "restore_custom"
        \/ loader = "init_ro" /\ loader' = "init_unlock"
        \/ loader = "exit_ro" /\ loader' = "exit_unlock"
        \/ loader = "init_unlock" /\ loader' = "init_lock_pids"
        \/ loader = "exit_unlock" /\ loader' = "gone"
        \/ loader = "init_lock_pids" /\ loader' = "init_lists"
        \/ loader = "init_unlock_pids" /\ loader' = "init_calltable_lock"
        \/ loader = "init_calltable_lock" /\ loader' = "init_pidlist_lock"
        \/ loader = "init_pidlist_lock" /\ loader' = "live"
        \/ loader = "exit_destroy" /\ loader' = "exit_ro"
    <3>1. CASE LoaderLocksCalls \/ LoaderSetsRw
      BY <3>1 DEF LoaderLocksCalls, LoaderSetsRw, Loads
    <3>2. CASE LoaderSetsRo \/ LoaderUnlocksCalls
      BY <3>2 DEF LoaderSetsRo, LoaderUnlocksCalls, Loads
    <3>3. CASE LoaderLocksPids \/ LoaderUnlocksPids
      BY <3>3 DEF LoaderLocksPids, LoaderUnlocksPids, Loads
    <3>4. CASE SpinLockInit \/ DestroyLists
      BY <3>4 DEF SpinLockInit, DestroyLists, Loads
    <3> QED BY <1>1, <3>1, <3>2, <3>3, <3>4
  <2>3. Moves(loader, loader') /\ loader \notin {"out", "live"}
    BY <2>2 DEF Moves, Loading, Unloading
  <2>4. Passes(loader, loader')
    BY <2>2 DEF Passes, Hooks, Unhooked, Unsaved, Fresh_heads
  <2> QED BY <1>0, <2>1, <2>3, <2>4, LoadPasses
<1>2. CASE SaveEntry
  <2>1. PICK e \in Hooks : /\ IF e = "custom" THEN Loads("save_custom", "hijack_custom")
                                              ELSE Loads("save_exit", "hijack_exit")
                           /\ saved' = [saved EXCEPT ![e] = hook[e]]
                           /\ UNCHANGED <<hook, heads>>
    BY <1>2 DEF SaveEntry
  <2>2. \/ e = "custom" /\ loader = "save_custom" /\ loader' = "hijack_custom"
        \/ e = "exit_group" /\ loader = "save_exit" /\ loader' = "hijack_exit"
    <3>1. CASE e = "custom"
      BY <2>1, <3>1 DEF Loads
    <3>2. CASE e # "custom"
      BY <2>1, <3>2 DEF Loads, Hooks
    <3> QED BY <3>1, <3>2
  <2>3. Moves(loader, loader') /\ loader \notin {"out", "live"}
    BY <2>2 DEF Moves, Loading, Unloading
  <2>4. \A x \in Hooks : loader \in Unhooked(x) <=> loader' \in Unhooked(x)
    BY <2>2 DEF Hooks, Unhooked, Unsaved
  <2>5. hook' = [x \in Hooks |-> IF loader' \in Unhooked(x) THEN "original" ELSE "module"]
    BY <2>1, <2>4 DEF LoadInv
  <2>6. hook[e] = "original"
    <3>1. loader \in Unhooked(e)
      BY <2>2 DEF Unhooked, Unsaved
    <3> QED BY <3>1 DEF LoadInv
  <2>7. \A x \in Hooks : loader' \notin Unsaved(x) => saved'[x] = "original"
    <3>1. \A x \in Hooks : loader' \notin Unsaved(x) => x = e \/ loader \notin Unsaved(x)
      BY <2>2 DEF Hooks, Unsaved
    <3> QED BY <2>1, <2>6, <3>1 DEF LoadInv
  <2>8. loader' \in Fresh_heads
    BY <2>2 DEF Fresh_heads
  <2> QED BY <1>0, <2>1, <2>3, <2>5, <2>7, <2>8, LoadMoves DEF LoadInv
<1>3. CASE HijackEntry
  <2>1. PICK e \in Hooks : /\ IF e = "custom" THEN Loads("hijack_custom", "save_exit")
                                              ELSE Loads("hijack_exit", "init_ro")
                           /\ hook' = [hook EXCEPT ![e] = "module"]
                           /\ UNCHANGED <<saved, heads>>
    BY <1>3 DEF HijackEntry
  <2>2. \/ e = "custom" /\ loader = "hijack_custom" /\ loader' = "save_exit"
        \/ e = "exit_group" /\ loader = "hijack_exit" /\ loader' = "init_ro"
    <3>1. CASE e = "custom"
      BY <2>1, <3>1 DEF Loads
    <3>2. CASE e # "custom"
      BY <2>1, <3>2 DEF Loads, Hooks
    <3> QED BY <3>1, <3>2
  <2>3. Moves(loader, loader') /\ loader \notin {"out", "live"}
    BY <2>2 DEF Moves, Loading, Unloading
  <2>4. \A x \in Hooks : IF x = e THEN loader' \notin Unhooked(x)
                                  ELSE loader \in Unhooked(x) <=> loader' \in Unhooked(x)
    BY <2>2 DEF Hooks, Unhooked, Unsaved
  <2>5. hook' = [x \in Hooks |-> IF loader' \in Unhooked(x) THEN "original" ELSE "module"]
    BY <2>1, <2>4 DEF LoadInv
  <2>7. \A x \in Hooks : loader' \notin Unsaved(x) => saved'[x] = "original"
    <3>1. \A x \in Hooks : loader' \notin Unsaved(x) => loader \notin Unsaved(x)
      BY <2>2 DEF Hooks, Unsaved
    <3> QED BY <2>1, <3>1 DEF LoadInv
  <2>8. loader' \in Fresh_heads
    BY <2>2 DEF Fresh_heads
  <2> QED BY <1>0, <2>1, <2>3, <2>5, <2>7, <2>8, LoadMoves DEF LoadInv
<1>4. CASE RestoreEntry
  <2>1. PICK e \in Hooks : /\ IF e = "custom" THEN Loads("restore_custom", "restore_exit")
                                              ELSE Loads("restore_exit", "exit_destroy")
                           /\ hook' = [hook EXCEPT ![e] = saved[e]]
                           /\ UNCHANGED <<saved, heads>>
    BY <1>4 DEF RestoreEntry
  <2>2. \/ e = "custom" /\ loader = "restore_custom" /\ loader' = "restore_exit"
        \/ e = "exit_group" /\ loader = "restore_exit" /\ loader' = "exit_destroy"
    <3>1. CASE e = "custom"
      BY <2>1, <3>1 DEF Loads
    <3>2. CASE e # "custom"
      BY <2>1, <3>2 DEF Loads, Hooks
    <3> QED BY <3>1, <3>2
  <2>3. Moves(loader, loader') /\ loader \notin {"out", "live"}
    BY <2>2 DEF Moves, Loading, Unloading
  <2>4. \A x \in Hooks : IF x = e THEN loader' \in Unhooked(x)
                                  ELSE loader \in Unhooked(x) <=> loader' \in Unhooked(x)
    BY <2>2 DEF Hooks, Unhooked, Unsaved
  <2>6. \A x \in Hooks : loader \notin Unsaved(x)
    BY <2>2 DEF Hooks, Unsaved
  <2>7. \A x \in Hooks : saved[x] = "original"
    BY <2>6 DEF LoadInv
  <2>5. hook' = [x \in Hooks |-> IF loader' \in Unhooked(x) THEN "original" ELSE "module"]
    BY <2>1, <2>4, <2>7 DEF LoadInv
  <2>8. heads
    BY <2>2 DEF LoadInv, Fresh_heads
  <2> QED BY <1>0, <2>1, <2>3, <2>5, <2>7, <2>8, LoadMoves DEF LoadInv
<1>5. CASE InitLists
  <2>1. loader = "init_lists" /\ loader' = "init_unlock_pids" /\ heads' = TRUE /\ UNCHANGED <<hook, saved>>
    BY <1>5 DEF InitLists, Loads
  <2>2. Moves(loader, loader')
    BY <2>1 DEF Moves, Loading, Unloading
  <2>3. \A e \in Hooks : /\ loader \in Unhooked(e) <=> loader' \in Unhooked(e)
                         /\ loader \in Unsaved(e) => loader' \in Unsaved(e)
    BY <2>1 DEF Hooks, Unhooked, Unsaved
  <2>4. hook' = [e \in Hooks |-> IF loader' \in Unhooked(e) THEN "original" ELSE "module"]
    BY <2>1, <2>3 DEF LoadInv
  <2>5. DOMAIN saved' = Hooks /\ \A e \in Hooks : loader' \notin Unsaved(e) => saved'[e] = "original"
    BY <2>1, <2>3 DEF LoadInv
  <2> QED BY <1>0, <2>1, <2>2, <2>4, <2>5, LoadMoves
<1> QED BY <1>1, <1>2, <1>3, <1>4, <1>5 DEF Load

\* insmod and rmmod begin.
LEMMA LoadBegins == ASSUME WhereInv, LoadInv, Record, Insert \/ Remove PROVE LoadInv'
<1>1. UNCHANGED <<process, line, hook, saved, heads>>
  BY DEF Insert, Remove, Insmod, Rmmod, test, vars
<1>2. Now.cmd \in {"insmod", "rmmod"} /\ LineOK(line, Now)
  BY NowLine DEF Insert, Remove
<1>3. \/ loader = "out" /\ loader' = "init_lock" /\ line = 1
      \/ loader = "live" /\ loader' = "exit_lock" /\ line = Lines
  BY <1>2 DEF Insert, Remove, Insmod, Rmmod, Loads, LineOK
<1>4. Moves(loader, loader')
  BY <1>3 DEF Moves, Loading, Unloading
<1>5. Passes(loader, loader')
  BY <1>3 DEF Passes, Hooks, Unhooked, Unsaved, Fresh_heads
<1> QED BY <1>1, <1>3, <1>4, <1>5, LoadPasses

\* A process goes on, oopses or stays out.
LEMMA NotEntered ==
    ASSUME Placed, NEW p \in Procs, Continue(p) \/ Oops
    PROVE  \A q \in Procs : pc'[q] # "idle" => pc[q] # "idle"
<1>1. CASE Oops
  BY <1>1 DEF Oops, process
<1>2. CASE ~Oops
  <2>1. PICK l : Goes(p, l)
    BY <1>2, GoesOn
  <2> QED BY <2>1 DEF Goes, Follows, Placed
<1> QED BY <1>1, <1>2

LEMMA LoadProgram == ASSUME WhereInv, EntriesInv, LoadInv, Record, Program PROVE LoadInv'
<1>0. Lines \in Nat /\ Lines = 37
  BY DEF Lines
<1>1. CASE Insert \/ Remove
  BY <1>1, LoadBegins
<1>2. CASE Loaded
  <2>1. UNCHANGED <<process, module>> /\ line' = line + 1
        /\ ((Now.cmd = "insmod" /\ loader = "live") \/ loader = "gone")
    BY <1>2 DEF Loaded, NextLine, vars
  <2>2. loader = "live" => line < Lines
    <3>1. loader = "live" => Now.cmd = "insmod" /\ LineOK(line, Now)
      BY <2>1, NowLine
    <3> QED BY <1>0, <3>1 DEF LineOK
  <2> QED BY <2>1, <2>2, LoadSame DEF process
<1>3. CASE Ask
  <2>1. UNCHANGED module /\ line' = line /\ (Request(Now.by) \/ Call(Now.by))
    BY <1>3 DEF Ask, Request, Call, test
  <2>2. Now.by \in Procs
    <3>1. line \in 1..Lines + 1
      BY DEF WhereInv
    <3> QED BY <3>1, NowOK, Numbers DEF LineOK, Lines
  <2>3. loader \notin {"out", "gone"}
    BY <2>1, <2>2, NobodyEnters
  <2> QED BY <2>1, <2>3, LoadSame
<1>4. CASE Begin
  <2>1. UNCHANGED <<process, module>> /\ line' = line + 1 /\ Now.cmd = "fork"
    BY <1>4 DEF Begin, Fork, NextLine
  <2>2. line \in 1..Lines /\ line # 1 /\ line # Lines
    BY <2>1, NowLine DEF LineOK
  <2>3. loader = "live" /\ line < Lines
    BY <1>0, <2>2 DEF LoadInv
  <2> QED BY <2>1, <2>3, LoadSame DEF process
<1>5. CASE End
  <2>1. Now.cmd = "exit"
    BY <1>5 DEF End
  <2>2. line \in 1..Lines /\ line # 1 /\ line # Lines
    BY <2>1, NowLine DEF LineOK
  <2>3. loader = "live" /\ line < Lines
    BY <1>0, <2>2 DEF LoadInv
  <2>4. UNCHANGED module /\ (line' = line \/ line' = line + 1)
    BY <1>5 DEF End, exit_group, test, NextLine
  <2> QED BY <2>3, <2>4, LoadSame
<1> QED BY <1>1, <1>2, <1>3, <1>4, <1>5 DEF Program

LEMMA LoadOthers ==
    ASSUME WhereInv, EntriesInv, LoadInv, Record,
           \/ Load /\ UNCHANGED test
           \/ \E p \in Procs : Inside(p)
           \/ \E p \in Bystanders : Bystander(p)
           \/ Tear /\ UNCHANGED test
    PROVE  LoadInv'
<1>0. Placed
  BY WhereTyped
<1>1. CASE Load /\ UNCHANGED test
  BY <1>1, LoadLoader DEF test
<1>2. ASSUME NEW p \in Procs, Inside(p) PROVE LoadInv'
  <2>1. CASE (Proceed(p) \/ Crash(p)) /\ UNCHANGED test
    <3>1. UNCHANGED module /\ line' = line /\ (Continue(p) \/ Oops)
      BY <2>1 DEF Proceed, Crash, test
    <3> QED BY <1>0, <3>1, NotEntered, LoadSame
  <2>2. CASE Answer(p)
    <3>1. Leave(p) /\ UNCHANGED module /\ line' = line + 1
      BY <2>2 DEF Answer, NextLine
    <3>2. line \in 2..Lines - 1
      BY <2>2, <3>1, WhereAnswers
    <3>3. Lines = 37 /\ loader = "live" /\ line < Lines
      BY <3>2 DEF LoadInv, Lines
    <3> QED BY <3>1, <3>3, LoadSame
  <2> QED BY <1>2, <2>1, <2>2 DEF Inside
<1>3. ASSUME NEW p \in Bystanders, Bystander(p) PROVE LoadInv'
  <2>1. p \in Procs /\ line' = line
    BY <1>3 DEF Bystander, Bystanders, test
  <2>2. UNCHANGED module
    BY <1>3 DEF Bystander, Call, exit_group, Request
  <2>3. loader \in {"out", "gone"} => UNCHANGED process
    <3>1. loader \in {"out", "gone"} =>
             ~Call(p) /\ ~Request(p) /\ ~(hook["exit_group"] = "module" /\ my_exit_group(p))
      BY <2>1, NobodyEnters
    <3> QED BY <1>3, <3>1 DEF Bystander, exit_group, Fork
  <2> QED BY <2>1, <2>2, <2>3, LoadSame DEF process
<1>4. CASE Tear /\ UNCHANGED test
  <2>1. UNCHANGED <<module, process, line>>
    BY <1>4 DEF Tear, TearList, Oops, test
  <2> QED BY <2>1, LoadSame DEF process
<1> QED BY <1>1, <1>2, <1>3, <1>4

LEMMA LoadNext == ASSUME WhereInv, EntriesInv, LoadInv, [TestNext]_tvars PROVE LoadInv'
<1>1. CASE UNCHANGED tvars
  BY <1>1 DEF tvars, system, vars, process, module, test, LoadInv
<1> QED BY <1>1, LoadProgram, LoadOthers DEF TestNext

LEMMA LoadInits == TestInit => LoadInv
<1> SUFFICES ASSUME TestInit PROVE LoadInv
  OBVIOUS
<1>1. /\ loader = "out" /\ hook = [e \in Hooks |-> "original"] /\ saved = [e \in Hooks |-> "null"]
      /\ pc = [p \in Procs |-> "idle"] /\ line = 1 /\ overlap = {}
  BY DEF TestInit, LoadInit, Fresh
<1>2. \A e \in Hooks : "out" \in Unhooked(e) /\ "out" \in Unsaved(e)
  BY DEF Unhooked, Unsaved
<1> QED BY <1>1, <1>2 DEF LoadInv, Loading, Unloading, Fresh_heads, Lines

-----------------------------------------------------------------------------
(* Who is in the interceptor finds an original.                            *)

\* Nobody new is in the interceptor, and the originals are as they were.
LEMMA LookSame ==
    ASSUME LookInv, Record, UNCHANGED f,
           \A p \in Procs : pc'[p] \in Looking => pc[p] \in Looking /\ Syscall(p)' = Syscall(p)
    PROVE  LookInv'
<1> SUFFICES ASSUME NEW p \in Procs, pc'[p] \in Looking, p \notin overlap'
             PROVE  Syscall(p)' \in Table /\ f'[Syscall(p)'] = "original"
  BY DEF LookInv
<1>1. p \notin overlap
  BY DEF Record, Looking
<1> QED BY <1>1 DEF LookInv

LEMMA LookStays == ASSUME LookInv, Record, UNCHANGED <<process, f>> PROVE LookInv'
BY LookSame DEF process, Syscall

\* A call, a request or an exit begins.
LEMMA LookEnters ==
    ASSUME WhereInv, EntriesInv, LookInv, Record, NEW p \in Procs,
           my_syscall(p) \/ SystemCall(p) \/ my_exit_group(p)
    PROVE  LookInv'
<1>0. Placed /\ Tester \in Procs
  BY WhereTyped
<1>1. UNCHANGED <<f, sys_call_table>>
  BY TableKept DEF TableState, callTable, table, Enter
<1>2. CASE my_syscall(p) \/ my_exit_group(p)
  <2>1. PICK l, c : Start(p, c, l) /\ l \notin Looking
    <3>1. CASE my_syscall(p)
      <4>1. PICK r \in Requests :
              Start(p, [r EXCEPT !.ret = Check(p, r)],
                    IF Check(p, r) = "ok" THEN FirstStep(r) ELSE "return")
        BY <3>1 DEF my_syscall
      <4>2. FirstStep(r) \notin Looking /\ "return" \notin Looking
        BY DEF FirstStep, Looking
      <4> QED BY <4>1, <4>2
    <3>2. CASE my_exit_group(p)
      BY <3>2 DEF my_exit_group, Looking
    <3> QED BY <1>2, <3>1, <3>2
  <2>2. \A q \in Procs : pc'[q] \in Looking => pc'[q] = pc[q] /\ call'[q] = call[q]
    BY <1>0, <2>1 DEF Start, Placed
  <2> QED BY <1>1, <2>2, LookSame DEF Syscall
<1>3. CASE SystemCall(p)
  <2>1. PICK s \in Table : /\ sys_call_table[s] = "interceptor"
                           /\ Start(p, [NoCall EXCEPT !.cmd = "call", !.syscall = s], "look")
    BY <1>3 DEF SystemCall
  <2>2. f[s] = "original"
    <3>1. CASE Settled(s)
      BY <2>1, <3>1 DEF Settled, Off, On
    <3>2. CASE ~Settled(s)
      <4>1. pc[Tester] \in Working /\ Syscall(Tester) = s /\ Expected(Tester)
        BY <3>2 DEF EntriesInv
      <4> QED BY <2>1, <4>1 DEF Expected, Off, Saved, On
    <3> QED BY <3>1, <3>2
  <2>3. /\ \A q \in Procs \ {p} : pc'[q] = pc[q] /\ call'[q] = call[q]
        /\ Syscall(p)' = s
    BY <1>0, <2>1 DEF Start, Placed, Syscall, NoCall
  <2> SUFFICES ASSUME NEW q \in Procs, pc'[q] \in Looking, q \notin overlap'
               PROVE  Syscall(q)' \in Table /\ f'[Syscall(q)'] = "original"
    BY DEF LookInv
  <2>4. CASE q = p
    BY <1>1, <2>2, <2>3, <2>4
  <2>5. CASE q # p
    <3>1. pc[q] \in Looking /\ Syscall(q)' = Syscall(q)
      BY <2>3, <2>5 DEF Syscall
    <3>2. q \notin overlap
      BY DEF Record, Looking
    <3> QED BY <1>1, <3>1, <3>2 DEF LookInv
  <2> QED BY <2>4, <2>5
<1> QED BY <1>2, <1>3

\* A process goes on.
LEMMA LookGoes ==
    ASSUME WhereInv, EntriesInv, LookInv, Record, NEW p \in Procs, Continue(p)
    PROVE  LookInv'
<1>0. Placed /\ Domains /\ Tester \in Procs
  BY WhereTyped DEF EntriesInv, Domains
<1>1. CASE Oops
  BY <1>1, LookStays DEF Oops, table
<1>2. CASE ~Oops
  <2>1. PICK l : Goes(p, l)
    BY <1>0, <1>2, GoesOn
  <2>2. \A q \in Procs : pc'[q] \in Looking => pc[q] \in Looking /\ Syscall(q)' = Syscall(q)
    <3> SUFFICES ASSUME NEW q \in Procs, pc'[q] \in Looking
                 PROVE  pc[q] \in Looking /\ Syscall(q)' = Syscall(q)
      OBVIOUS
    <3>1. CASE q # p
      BY <1>0, <2>1, <3>1 DEF Goes, Placed, Syscall
    <3>2. CASE q = p
      <4>1. l \in Looking
        BY <1>0, <2>1, <3>2 DEF Goes, Placed
      <4> QED BY <2>1, <3>2, <4>1 DEF Goes, Follows, Looking, SameCall
    <3> QED BY <3>1, <3>2
  <2>3. CASE UNCHANGED f
    BY <2>2, <2>3, LookSame
  <2>4. CASE f' # f
    <3>1. pc[p] \in Working
      BY <2>4, EntriesKept DEF Entries
    <3>2. p = Tester
      BY <3>1, PrivilegedTester DEF Working, Privileged, InCalls
    <3>3. Expected(p)
      BY <3>1, <3>2 DEF EntriesInv
    <3>4. PICK k : Go(p, k) /\ Leaves(p, k)
      BY <1>0, <3>1, <3>3, Works
    <3> SUFFICES ASSUME NEW q \in Procs, pc'[q] \in Looking, q \notin overlap'
                 PROVE  Syscall(q)' \in Table /\ f'[Syscall(q)'] = "original"
      BY DEF LookInv
    <3>5. pc[q] \in Looking /\ Syscall(q)' = Syscall(q) /\ q # p
      BY <2>2, <3>1 DEF Looking, Working
    <3>6. q \notin overlap /\ ~Unsettled(q)
      BY DEF Record, Looking
    <3>7. Syscall(q) \in Table /\ f[Syscall(q)] = "original"
      BY <3>5, <3>6 DEF LookInv
    <3>8. pc[p] # "forget"
      <4> SUFFICES ASSUME pc[p] = "forget" PROVE FALSE
        OBVIOUS
      <4>1. Cmd(p) = "release"
        BY <3>3 DEF Expected
      <4> QED BY <3>5, <3>6, <4>1 DEF Unsettled
    <3> QED BY <3>4, <3>5, <3>7, <3>8 DEF Leaves
  <2> QED BY <2>3, <2>4
<1> QED BY <1>1, <1>2

LEMMA LookNext == ASSUME WhereInv, EntriesInv, LookInv, [TestNext]_tvars PROVE LookInv'
<1>1. CASE UNCHANGED tvars
  BY <1>1 DEF tvars, system, vars, process, table, LookInv, Syscall
<1>2. ASSUME Record, Program PROVE LookInv'
  <2>1. CASE Ask
    <3>1. Now.by \in Procs
      <4>1. line \in 1..Lines + 1
        BY DEF WhereInv
      <4> QED BY <4>1, NowOK, Numbers DEF LineOK, Lines
    <3> QED BY <1>2, <2>1, <3>1, LookEnters DEF Ask, Request, Call
  <2>2. CASE my_exit_group(Guest)
    BY <1>2, <2>2, Numbers, LookEnters
  <2>3. CASE UNCHANGED <<process, f>>
    BY <1>2, <2>3, LookStays
  <2>4. CASE Insert \/ Remove \/ Loaded
    <3>1. UNCHANGED vars
      BY <2>4 DEF Insert, Remove, Loaded, Insmod, Rmmod
    <3> QED BY <2>3, <3>1 DEF vars, table
  <2>5. CASE Begin \/ End
    BY <2>2, <2>3, <2>5 DEF Begin, Fork, End, exit_group, vars, table
  <2> QED BY <1>2, <2>1, <2>4, <2>5 DEF Program
<1>3. ASSUME Record, Load PROVE LookInv'
  BY <1>3, LoadSteps, LookStays DEF Entries
<1>4. ASSUME Record, NEW p \in Procs, Inside(p) PROVE LookInv'
  <2>1. CASE Continue(p)
    BY <1>4, <2>1, LookGoes
  <2>2. CASE Oops
    BY <1>4, <2>2, LookStays DEF Oops, table
  <2> QED BY <1>4, <2>1, <2>2 DEF Inside, Proceed, Crash, Answer, Continue
<1>5. ASSUME Record, NEW p \in Bystanders, Bystander(p) PROVE LookInv'
  <2>1. CASE Call(p) \/ Request(p) \/ my_exit_group(p)
    BY <1>5, <2>1, LookEnters DEF Bystanders, Call, Request
  <2>2. CASE UNCHANGED <<process, f>>
    BY <1>5, <2>2, LookStays
  <2> QED BY <1>5, <2>1, <2>2 DEF Bystander, exit_group, Fork, table
<1>6. ASSUME Record, Tear PROVE LookInv'
  BY <1>6, LookStays DEF Tear, TearList, Oops, table
<1> QED BY <1>1, <1>2, <1>3, <1>4, <1>5, <1>6 DEF TestNext

LEMMA LookInit == TestInit => LookInv
BY DEF TestInit, LoadInit, Fresh, LookInv, Looking

-----------------------------------------------------------------------------
(* The crashes.                                                            *)

\* A crash of p's own is one of somebody recorded.
LEMMA Recorded ==
    ASSUME Record, Oops, NEW p \in Procs, pc[p] # "idle", p \in overlap \/ Unsettled(p)
    PROVE  overlap' # {}
<1>1. pc'[p] # "idle"
  BY DEF Oops, process
<1>2. p \in overlap'
  BY <1>1 DEF Record
<1> QED BY <1>2

\* A process goes on without a crash, or it is in the interceptor and recorded.
LEMMA CrashGoes ==
    ASSUME WhereInv, LookInv, Record, NEW p \in Procs, Continue(p)
    PROVE  status = "up" /\ (status' = "up" \/ overlap' # {})
<1>0. Placed
  BY WhereTyped
<1>1. CASE \E l : Goes(p, l)
  BY <1>1 DEF Goes
<1>2. CASE Oops /\ status = "up" /\ pc[p] = "owner" /\ Pid(p) \notin alive
  <2>1. Pid(p) \in {p, Init_pid} /\ p \in alive /\ Init_pid \in alive
    BY <1>2 DEF WhereInv, Place
  <2> QED BY <1>2, <2>1
<1>3. CASE Oops /\ status = "up" /\ pc[p] = "forward" /\ f[Syscall(p)] # "original"
  <2>1. p \in overlap
    BY <1>3 DEF LookInv, Looking
  <2> QED BY <1>3, <2>1, Recorded
<1> QED BY <1>0, <1>1, <1>2, <1>3, GoesOn

LEMMA CrashCrash ==
    ASSUME LoadInv, Record, NEW p \in Procs, Crash(p)
    PROVE  status = "up" /\ overlap' # {}
<1>1. Oops /\ status = "up"
  BY DEF Crash
<1>2. pc[p] # "idle"
  BY DEF Crash, UsesLists, ListsChanged, ListsRead
<1>3. loader \notin {"out", "live"}
  BY <1>2 DEF Crash, LoadInv, Fresh_heads
<1>4. p \in overlap
  BY <1>2, <1>3 DEF LoadInv
<1> QED BY <1>1, <1>2, <1>4, Recorded

LEMMA CrashTear ==
    ASSUME LoadInv, Record, Tear
    PROVE  status = "up" /\ (overlap' # {} \/ \E p, q \in Procs : Conflict(p, q)')
<1>1. Oops /\ status = "up"
  BY DEF Tear, TearList
<1>2. CASE TearList
  <2>1. PICK p \in Procs, q \in Procs : Conflict(p, q)
    BY <1>2 DEF TearList
  <2>2. Conflict(p, q)'
    BY <1>1, <2>1 DEF Oops, process, Conflict, ListsChanged, ListsRead, Cmd, Syscall
  <2> QED BY <1>1, <2>2
<1>3. CASE loader = "exit_destroy" /\ \E p \in Procs : UsesLists(p)
  <2>1. PICK p \in Procs : UsesLists(p)
    BY <1>3
  <2>2. pc[p] # "idle"
    BY <2>1 DEF UsesLists, ListsChanged, ListsRead
  <2>3. p \in overlap
    BY <1>3, <2>2 DEF LoadInv
  <2> QED BY <1>1, <2>2, <2>3, Recorded
<1> QED BY <1>2, <1>3 DEF Tear

\* To begin something never crashes.
LEMMA EnterUp ==
    ASSUME NEW p \in Procs, my_syscall(p) \/ SystemCall(p) \/ my_exit_group(p)
    PROVE  status = "up" /\ status' = "up"
BY DEF my_syscall, SystemCall, my_exit_group, Start, At, rest

LEMMA ExitUp ==
    ASSUME NEW p \in Procs, exit_group(p)
    PROVE  status = "up" /\ status' = "up"
<1>1. CASE my_exit_group(p)
  BY <1>1, EnterUp
<1>2. CASE ~my_exit_group(p)
  BY <1>2 DEF exit_group, At
<1> QED BY <1>1, <1>2

LEMMA ProgramUp == ASSUME WhereInv, Program PROVE status = "up" /\ status' = "up"
<1>1. CASE Insert \/ Remove \/ Loaded
  BY <1>1 DEF Insert, Remove, Loaded, Insmod, Rmmod, Loads, vars, rest
<1>2. CASE Ask
  <2>1. Now.by \in Procs
    <3>1. line \in 1..Lines + 1
      BY DEF WhereInv
    <3> QED BY <3>1, NowOK, Numbers DEF LineOK, Lines
  <2> QED BY <1>2, <2>1, EnterUp DEF Ask, Request, Call
<1>3. CASE Begin
  BY <1>3 DEF Begin, Fork
<1>4. CASE End
  BY <1>4, ExitUp, Numbers DEF End, vars, rest
<1> QED BY <1>1, <1>2, <1>3, <1>4 DEF Program

LEMMA BystanderUp == ASSUME NEW p \in Bystanders, Bystander(p) PROVE status = "up" /\ status' = "up"
<1>1. p \in Procs
  BY DEF Bystanders
<1> QED BY <1>1, EnterUp, ExitUp DEF Bystander, Call, Request, Fork

LEMMA LoadUp == ASSUME Load PROVE status = "up" /\ status' = "up"
<1>1. UNCHANGED rest
  BY LoadSteps
<1>2. status = "up"
  BY DEF Load, LoaderLocksCalls, LoaderSetsRw, SaveEntry, HijackEntry, RestoreEntry, LoaderSetsRo,
     LoaderUnlocksCalls, LoaderLocksPids, InitLists, LoaderUnlocksPids, SpinLockInit, DestroyLists, Loads
<1> QED BY <1>1, <1>2 DEF rest

LEMMA CrashNext ==
    ASSUME WhereInv, LoadInv, LookInv, CrashesExplained, [TestNext]_tvars
    PROVE  CrashesExplained'
<1>1. CASE UNCHANGED tvars
  BY <1>1 DEF tvars, system, vars, process, rest, CrashesExplained, Conflict, ListsChanged, ListsRead,
     Cmd, Syscall
<1>2. ASSUME Record, Program PROVE CrashesExplained'
  BY <1>2, ProgramUp DEF CrashesExplained
<1>3. ASSUME Record, Load PROVE CrashesExplained'
  BY <1>3, LoadUp DEF CrashesExplained
<1>4. ASSUME Record, NEW p \in Procs, Inside(p) PROVE CrashesExplained'
  <2>1. CASE Continue(p)
    BY <1>4, <2>1, CrashGoes DEF CrashesExplained
  <2>2. CASE Crash(p)
    BY <1>4, <2>2, CrashCrash DEF CrashesExplained
  <2> QED BY <1>4, <2>1, <2>2 DEF Inside, Proceed, Answer, Continue
<1>5. ASSUME Record, NEW p \in Bystanders, Bystander(p) PROVE CrashesExplained'
  BY <1>5, BystanderUp DEF CrashesExplained
<1>6. ASSUME Record, Tear PROVE CrashesExplained'
  BY <1>6, CrashTear DEF CrashesExplained
<1> QED BY <1>1, <1>2, <1>3, <1>4, <1>5, <1>6 DEF TestNext

\* The invariant of the test, but for what is left in the end.
TestInv == WhereInv /\ EntriesInv /\ LoadInv /\ LookInv

LEMMA TestInvariant == TestSpec => []TestInv
<1>1. TestInit => TestInv
  BY WhereInit, EntriesInit, LoadInits, LookInit DEF TestInv
<1>2. TestInv /\ [TestNext]_tvars => TestInv'
  BY WhereNext, EntriesNext, LoadNext, LookNext DEF TestInv
<1> QED BY <1>1, <1>2, PTL DEF TestSpec

\* The machine crashes only with a process in the module that was there while it
\* was loaded or unloaded or a call was released, or when two list operations
\* meet: no request dereferences a process that is gone, since the tester asks
\* about init and everybody else about themselves, and nobody else forwards to a
\* lost original.
THEOREM CrashesAreExplained == TestSpec => []CrashesExplained
<1>1. TestInit => CrashesExplained
  BY DEF TestInit, LoadInit, Fresh, CrashesExplained
<1>2. TestInv /\ CrashesExplained /\ [TestNext]_tvars => CrashesExplained'
  BY CrashNext DEF TestInv
<1> QED BY <1>1, <1>2, TestInvariant, PTL DEF TestSpec

-----------------------------------------------------------------------------
(* The lock and the write protection.                                      *)

\* The test stays on its side of calltable_lock and of the write window.
LEMMA HeldStays ==
    ASSUME HeldInv, UNCHANGED <<rw, calltable_lock, loader>>,
           pc'[Tester] \in InCalls <=> pc[Tester] \in InCalls,
           pc'[Tester] \in Writing <=> pc[Tester] \in Writing
    PROVE  HeldInv'
BY DEF HeldInv

Holding == {"lock_calls", "set_rw", "set_ro", "unlock_calls"}

\* Only four places of a request take or give back the lock or the pages.
LEMMA HeldKept ==
    ASSUME NEW p \in Procs, Continue(p), pc[p] \notin Holding
    PROVE  UNCHANGED <<rw, calltable_lock>>
<1>1. CASE check_pid_from_list(p) \/ ReadMode(p) \/ SearchList(p)
           \/ InterceptorMode(p) \/ InterceptorLog(p) \/ Forward(p) \/ orig_exit_group(p) \/ Leave(p)
  BY <1>1, TableKept DEF TableState, callTable
<1>2. CASE LockCalls(p) \/ UnlockCalls(p) \/ set_addr_rw(p) \/ set_addr_ro(p)
  BY <1>2 DEF LockCalls, UnlockCalls, set_addr_rw, set_addr_ro, At, Holding
<1>3. CASE ReleaseList(p) \/ ClearMonitored(p) \/ DestroyForAll(p) \/ SetMonitored(p)
           \/ ChangeBlackList(p) \/ ChangeList(p) \/ LockPids(p) \/ UnlockPids(p)
  BY <1>3 DEF ReleaseList, ClearMonitored, DestroyForAll, SetMonitored, ChangeBlackList, ChangeList,
     LockPids, UnlockPids, callTable
<1>4. CASE SaveOriginal(p) \/ FlagIntercepted(p) \/ SwitchToInterceptor(p) \/ RestoreOriginal(p)
           \/ ClearIntercepted(p) \/ ForgetOriginal(p)
  BY <1>4 DEF SaveOriginal, FlagIntercepted, SwitchToInterceptor, RestoreOriginal, ClearIntercepted,
     ForgetOriginal, callTable
<1> QED BY <1>1, <1>2, <1>3, <1>4 DEF Continue

LEMMA HeldTester ==
    ASSUME WhereInv, EntriesInv, LoadInv, HeldInv, Continue(Tester), UNCHANGED module
    PROVE  HeldInv'
<1>0. Placed /\ Tester \in Procs /\ UNCHANGED loader
  BY WhereTyped DEF module
<1>1. CASE pc[Tester] \notin Holding
  <2>1. UNCHANGED <<rw, calltable_lock>>
    BY <1>0, <1>1, HeldKept
  <2>2. CASE Oops
    BY <1>0, <2>1, <2>2, HeldStays DEF Oops, process
  <2>3. CASE \E l : Goes(Tester, l)
    <3>1. PICK l : Goes(Tester, l)
      BY <2>3
    <3>2. l \in InCalls <=> pc[Tester] \in InCalls
      BY <1>1, <3>1 DEF Goes, Follows, Holding, InCalls
    <3>3. l \in Writing <=> pc[Tester] \in Writing
      BY <1>1, <3>1 DEF Goes, Follows, Holding, Writing
    <3>4. pc'[Tester] = l
      BY <1>0, <3>1 DEF Goes, Placed
    <3> QED BY <1>0, <2>1, <3>2, <3>3, <3>4, HeldStays
  <2> QED BY <1>0, <2>2, <2>3, GoesOn
<1>2. CASE pc[Tester] \in Holding
  <2>1. loader = "live"
    BY <1>2, LoaderAlone DEF Holding
  <2>2. loader \notin LoaderHolds /\ loader \notin LoaderWrites
    BY <2>1 DEF LoaderHolds, LoaderWrites
  <2>3. CASE LockCalls(Tester)
    <3>1. calltable_lock' = Tester /\ pc'[Tester] = "set_rw" /\ UNCHANGED rw /\ pc[Tester] = "lock_calls"
      BY <1>0, <2>3 DEF LockCalls, Go, At, Placed
    <3> QED BY <1>0, <2>2, <3>1 DEF HeldInv, InCalls, Writing
  <2>4. CASE set_addr_rw(Tester)
    <3>1. rw' = TRUE /\ pc'[Tester] \in {"switch", "destroy"} 
          /\ UNCHANGED calltable_lock /\ pc[Tester] = "set_rw"
      BY <1>0, <2>4 DEF set_addr_rw, Go, At, Placed
    <3> QED BY <1>0, <2>2, <3>1 DEF HeldInv, InCalls, Writing
  <2>5. CASE set_addr_ro(Tester)
    <3>1. rw' = FALSE /\ pc'[Tester] = "unlock_calls" 
          /\ UNCHANGED calltable_lock /\ pc[Tester] = "set_ro"
      BY <1>0, <2>5 DEF set_addr_ro, Go, At, Placed
    <3> QED BY <1>0, <2>2, <3>1 DEF HeldInv, InCalls, Writing
  <2>6. CASE UnlockCalls(Tester)
    <3>1. calltable_lock' = NoProc /\ pc'[Tester] = "return" /\ UNCHANGED rw /\ pc[Tester] = "unlock_calls"
      BY <1>0, <2>6 DEF UnlockCalls, Return, GoWith, At, Placed
    <3> QED BY <1>0, <2>2, <3>1 DEF HeldInv, InCalls, Writing
  <2>7. LockCalls(Tester) \/ set_addr_rw(Tester) \/ set_addr_ro(Tester) \/ UnlockCalls(Tester)
    <3>1. ~(check_pid_from_list(Tester) \/ ReadMode(Tester) \/ SearchList(Tester)
            \/ DestroyForAll(Tester) \/ SetMonitored(Tester) \/ ChangeBlackList(Tester)
            \/ ChangeList(Tester) \/ InterceptorMode(Tester) \/ InterceptorLog(Tester)
            \/ Forward(Tester) \/ LockPids(Tester) \/ UnlockPids(Tester))
      BY <1>2 DEF check_pid_from_list, ReadMode, SearchList, DestroyForAll, SetMonitored,
         ChangeBlackList, ChangeList, InterceptorMode, InterceptorLog, Forward, LockPids,
         UnlockPids, At, Holding
    <3>2. ~(SaveOriginal(Tester) \/ FlagIntercepted(Tester) \/ SwitchToInterceptor(Tester)
            \/ ReleaseList(Tester) \/ RestoreOriginal(Tester) \/ ClearIntercepted(Tester)
            \/ ClearMonitored(Tester) \/ ForgetOriginal(Tester)
            \/ orig_exit_group(Tester) \/ Leave(Tester))
      BY <1>2 DEF SaveOriginal, FlagIntercepted, SwitchToInterceptor, ReleaseList, RestoreOriginal,
         ClearIntercepted, ClearMonitored, ForgetOriginal, orig_exit_group, Leave, At, Holding
    <3> QED BY <3>1, <3>2 DEF Continue
  <2> QED BY <2>3, <2>4, <2>5, <2>6, <2>7
<1> QED BY <1>1, <1>2

LEMMA HeldGoes ==
    ASSUME WhereInv, EntriesInv, LoadInv, HeldInv, NEW p \in Procs, Continue(p), UNCHANGED module
    PROVE  HeldInv'
<1>1. CASE p = Tester
  BY <1>1, HeldTester
<1>2. CASE p # Tester
  <2>1. pc[p] \notin Privileged
    BY <1>2, PrivilegedTester
  <2>2. UNCHANGED <<rw, calltable_lock, loader>>
    BY <2>1, HeldKept DEF Holding, Privileged, InCalls, module
  <2>3. pc'[Tester] = pc[Tester]
    BY <1>2, WhereTyped, GoesOn DEF Goes, Placed, Oops, process
  <2> QED BY <2>2, <2>3, HeldStays
<1> QED BY <1>1, <1>2

LEMMA HeldEnters ==
    ASSUME WhereInv, HeldInv, NEW p \in Procs, my_syscall(p) \/ SystemCall(p) \/ my_exit_group(p),
           UNCHANGED loader
    PROVE  HeldInv'
<1>1. UNCHANGED <<rw, calltable_lock>>
  BY TableKept DEF TableState, callTable, Enter
<1>2. PICK c, l : Start(p, c, l) /\ l \notin InCalls /\ l \notin Writing
  <2>1. CASE my_syscall(p)
    <3>1. PICK r \in Requests :
            Start(p, [r EXCEPT !.ret = Check(p, r)],
                  IF Check(p, r) = "ok" THEN FirstStep(r) ELSE "return")
      BY <2>1 DEF my_syscall
    <3>2. /\ FirstStep(r) \notin InCalls /\ "return" \notin InCalls
          /\ FirstStep(r) \notin Writing /\ "return" \notin Writing
      BY DEF FirstStep, InCalls, Writing
    <3> QED BY <3>1, <3>2
  <2>2. CASE SystemCall(p)
    <3>1. PICK s : Start(p, [NoCall EXCEPT !.cmd = "call", !.syscall = s], "look")
      BY <2>2 DEF SystemCall
    <3> QED BY <3>1 DEF InCalls, Writing
  <2>3. CASE my_exit_group(p)
    BY <2>3 DEF my_exit_group, InCalls, Writing
  <2> QED BY <2>1, <2>2, <2>3
<1>3. pc'[Tester] = pc[Tester] \/ (pc[Tester] = "idle" /\ pc'[Tester] = l)
  BY <1>2, WhereTyped DEF Start, At, Placed
<1> QED BY <1>1, <1>2, <1>3, HeldStays DEF InCalls, Writing

LEMMA HeldLoad == ASSUME WhereInv, EntriesInv, LoadInv, HeldInv, Load PROVE HeldInv'
<1>1. loader # "live" /\ UNCHANGED process
  BY LoadSteps DEF Load, LoaderLocksCalls, LoaderSetsRw, SaveEntry, HijackEntry, RestoreEntry,
     LoaderSetsRo, LoaderUnlocksCalls, LoaderLocksPids, InitLists, LoaderUnlocksPids, SpinLockInit,
     DestroyLists, Loads
<1>2. pc[Tester] = "idle" /\ pc'[Tester] = "idle"
  BY <1>1, LoaderAlone DEF process
<1>3. "idle" \notin InCalls /\ "idle" \notin Writing
  BY DEF InCalls, Writing
<1>4. /\ calltable_lock = IF loader \in LoaderHolds THEN Loader ELSE NoProc
      /\ rw = (loader \in LoaderWrites)
  BY <1>2, <1>3 DEF HeldInv
<1> SUFFICES /\ calltable_lock' = IF loader' \in LoaderHolds THEN Loader ELSE NoProc
             /\ rw' = (loader' \in LoaderWrites)
  BY <1>2, <1>3 DEF HeldInv
<1>5. CASE LoaderLocksCalls
  BY <1>4, <1>5 DEF LoaderLocksCalls, Loads, LoaderHolds, LoaderWrites
<1>6. CASE LoaderSetsRw
  BY <1>4, <1>6 DEF LoaderSetsRw, Loads, LoaderHolds, LoaderWrites
<1>7. CASE SaveEntry \/ HijackEntry \/ RestoreEntry
  <2>1. UNCHANGED <<rw, calltable_lock>>
    BY <1>7 DEF SaveEntry, HijackEntry, RestoreEntry, vars, callTable
  <2>2. /\ loader \in {"save_custom", "hijack_custom", "save_exit", "hijack_exit", "restore_custom",
                       "restore_exit"}
        /\ loader' \in {"hijack_custom", "save_exit", "hijack_exit", "init_ro", "restore_exit",
                        "exit_destroy"}
    BY <1>7 DEF SaveEntry, HijackEntry, RestoreEntry, Loads
  <2> QED BY <1>4, <2>1, <2>2 DEF LoaderHolds, LoaderWrites
<1>8. CASE LoaderSetsRo
  <2>1. /\ rw' = FALSE /\ UNCHANGED calltable_lock
        /\ loader \in {"init_ro", "exit_ro"} /\ loader' \in {"init_unlock", "exit_unlock"}
    BY <1>8 DEF LoaderSetsRo, Loads
  <2>2. loader' \notin LoaderWrites /\ loader \in LoaderHolds /\ loader' \in LoaderHolds
    BY <2>1 DEF LoaderHolds, LoaderWrites
  <2>3. calltable_lock' = IF loader' \in LoaderHolds THEN Loader ELSE NoProc
    BY <1>4, <2>1, <2>2
  <2>4. rw' = (loader' \in LoaderWrites)
    <3>1. (loader' \in LoaderWrites) = FALSE
      BY <2>2
    <3> QED BY <2>1, <3>1
  <2> QED BY <2>3, <2>4
<1>9. CASE LoaderUnlocksCalls
  BY <1>4, <1>9 DEF LoaderUnlocksCalls, Loads, LoaderHolds, LoaderWrites
<1>10. CASE LoaderLocksPids \/ InitLists \/ LoaderUnlocksPids \/ DestroyLists
  <2>1. UNCHANGED <<rw, calltable_lock>>
    BY <1>10 DEF LoaderLocksPids, InitLists, LoaderUnlocksPids, DestroyLists, vars, callTable
  <2>2. \/ loader = "init_lock_pids" /\ loader' = "init_lists"
        \/ loader = "init_lists" /\ loader' = "init_unlock_pids"
        \/ loader = "init_unlock_pids" /\ loader' = "init_calltable_lock"
        \/ loader = "exit_destroy" /\ loader' = "exit_ro"
    BY <1>10 DEF LoaderLocksPids, InitLists, LoaderUnlocksPids, DestroyLists, Loads
  <2> QED BY <1>4, <2>1, <2>2 DEF LoaderHolds, LoaderWrites
<1>11. CASE SpinLockInit
  <2>1. /\ rw' = rw /\ (calltable_lock' = NoProc \/ calltable_lock' = calltable_lock)
        /\ loader \in {"init_calltable_lock", "init_pidlist_lock"}
        /\ loader' \in {"init_pidlist_lock", "live"}
    BY <1>11 DEF SpinLockInit, Loads, callTable
  <2> QED BY <1>4, <2>1 DEF LoaderHolds, LoaderWrites
<1> QED BY <1>5, <1>6, <1>7, <1>8, <1>9, <1>10, <1>11 DEF Load

\* Nothing of it happens.
LEMMA HeldSame ==
    ASSUME HeldInv, UNCHANGED <<callTable, process>>, loader' = loader \/ Insmod \/ Rmmod
    PROVE  HeldInv'
<1>1. CASE loader' = loader
  BY <1>1, HeldStays DEF callTable, process
<1>2. CASE Insmod \/ Rmmod
  <2>1. loader \in {"out", "live"} /\ loader' \in {"init_lock", "exit_lock"}
    BY <1>2 DEF Insmod, Rmmod, Loads
  <2> QED BY <2>1 DEF HeldInv, LoaderHolds, LoaderWrites, callTable, process
<1> QED BY <1>1, <1>2

LEMMA HeldNext == ASSUME WhereInv, EntriesInv, LoadInv, HeldInv, [TestNext]_tvars PROVE HeldInv'
<1>1. CASE UNCHANGED tvars
  BY <1>1, HeldSame DEF tvars, system, vars, module
<1>2. ASSUME Program PROVE HeldInv'
  <2>1. CASE Insert \/ Remove \/ Loaded \/ Begin
    BY <2>1, HeldSame DEF Insert, Remove, Loaded, Begin, Fork, Insmod, Rmmod, vars, module
  <2>2. CASE Ask
    <3>1. Now.by \in Procs
      <4>1. line \in 1..Lines + 1
        BY DEF WhereInv
      <4> QED BY <4>1, NowOK, Numbers DEF LineOK, Lines
    <3> QED BY <2>2, <3>1, HeldEnters DEF Ask, Request, Call, module
  <2>3. CASE End
    BY <2>3, HeldSame, HeldEnters, Numbers DEF End, exit_group, module, vars
  <2> QED BY <1>2, <2>1, <2>2, <2>3 DEF Program
<1>3. ASSUME Load PROVE HeldInv'
  BY <1>3, HeldLoad
<1>4. ASSUME NEW p \in Procs, Inside(p) PROVE HeldInv'
  <2>1. CASE Continue(p) /\ UNCHANGED module
    BY <2>1, HeldGoes
  <2>2. CASE Oops /\ UNCHANGED module
    BY <2>2, HeldSame DEF Oops, module
  <2> QED BY <1>4, <2>1, <2>2 DEF Inside, Proceed, Crash, Answer, Continue
<1>5. ASSUME NEW p \in Bystanders, Bystander(p) PROVE HeldInv'
  <2>1. p \in Procs
    BY DEF Bystanders
  <2>2. CASE Call(p) \/ Request(p)
    BY <2>1, <2>2, HeldEnters DEF Call, Request, module
  <2>3. CASE exit_group(p)
    BY <2>1, <2>3, HeldSame, HeldEnters DEF exit_group, module
  <2>4. CASE Fork(p) /\ UNCHANGED module
    BY <2>4, HeldSame DEF Fork, module
  <2> QED BY <1>5, <2>2, <2>3, <2>4 DEF Bystander
<1>6. ASSUME Tear PROVE HeldInv'
  BY <1>6, HeldSame DEF Tear, TearList, Oops, module
<1> QED BY <1>1, <1>2, <1>3, <1>4, <1>5, <1>6 DEF TestNext

LEMMA HeldInit == TestInit => HeldInv
<1> SUFFICES ASSUME TestInit PROVE HeldInv
  OBVIOUS
<1>1. pc[Tester] = "idle" /\ loader = "out" /\ calltable_lock = NoProc /\ rw = FALSE
  BY Numbers DEF TestInit, LoadInit, Fresh
<1> QED BY <1>1 DEF HeldInv, InCalls, Writing, LoaderHolds, LoaderWrites

-----------------------------------------------------------------------------
(* The lists.                                                              *)

Listing == my_list \in [Table -> [Procs -> Nat]]
\* Whom the requests of the test are about.
TheTest == {Tester, Guest, Init_pid}
TablesInv == sys_call_table = [s \in Table |-> sys_call_table[s]]

\* Only the nodes of q in the list of s are other than before: n of them.
OneList(s, q, n) ==
    \A x \in Table, r \in Procs :
        my_list'[x][r] = my_list[x][r] \/ (x = s /\ r = q /\ my_list'[x][r] = n)

LEMMA Nodes ==
    ASSUME Listing, NEW s, NEW q, NEW n, s \in Table /\ q \in Procs => n \in Nat,
           my_list' = [my_list EXCEPT ![s][q] = n]
    PROVE  Listing' /\ OneList(s, q, n)
<1>1. CASE s \in Table
  <2>1. \A x \in Table : my_list'[x] = IF x = s THEN [my_list[s] EXCEPT ![q] = n] ELSE my_list[x]
    BY <1>1 DEF Listing
  <2>2. [my_list[s] EXCEPT ![q] = n] \in [Procs -> Nat]
    BY <1>1 DEF Listing
  <2>3. DOMAIN my_list' = Table /\ my_list' = [x \in Table |-> my_list'[x]]
    BY DEF Listing
  <2>4. Listing'
    BY <2>1, <2>2, <2>3 DEF Listing
  <2> QED BY <1>1, <2>1, <2>4 DEF Listing, OneList
<1>2. CASE s \notin Table
  <2>1. my_list' = my_list
    BY <1>2 DEF Listing
  <2> QED BY <1>2, <2>1 DEF Listing, OneList
<1> QED BY <1>1, <1>2

\* No list gets a node but one of the pid a start or a stop is about.
Grows(p) ==
    /\ Listing'
    /\ \A x \in Table, r \in Procs :
         \/ my_list'[x][r] <= my_list[x][r]
         \/ r = Pid(p) /\ Cmd(p) \in {"start", "stop"} /\ pc[p] # "idle"

LEMMA ListsUsed ==
    ASSUME Listing, NEW p \in Procs,
           ReleaseList(p) \/ DestroyForAll(p) \/ ChangeBlackList(p) \/ ChangeList(p),
           Cmd(p) \in {"start", "stop"} \/ pc[p] # "change_black"
    PROVE  Grows(p)
<1>1. CASE destroy_list(Syscall(p))
  <2>1. my_list' = [my_list EXCEPT ![Syscall(p)] = [q \in Procs |-> 0]]
    BY <1>1 DEF destroy_list
  <2>2. \A x \in Table, r \in Procs : my_list'[x][r] = my_list[x][r] \/ my_list'[x][r] = 0
    BY <2>1 DEF Listing
  <2>3. [q \in Procs |-> 0] \in [Procs -> Nat]
    OBVIOUS
  <2>4. Listing'
    BY <2>1, <2>3 DEF Listing
  <2> QED BY <2>2, <2>4 DEF Listing, Grows
<1>2. CASE del_pid(p)
  <2>1. my_list' = [s \in Table |-> IF s \in Visited THEN [my_list[s] EXCEPT ![p] = 0] ELSE my_list[s]]
    BY <1>2 DEF del_pid
  <2>2. \A x \in Table, r \in Procs : my_list'[x][r] = my_list[x][r] \/ my_list'[x][r] = 0
    BY <2>1 DEF Listing
  <2>3. \A x \in Table : [my_list[x] EXCEPT ![p] = 0] \in [Procs -> Nat] /\ my_list[x] \in [Procs -> Nat]
    BY DEF Listing
  <2>4. Listing'
    BY <2>1, <2>3 DEF Listing
  <2> QED BY <2>2, <2>4 DEF Listing, Grows
<1>3. CASE UNCHANGED table
  BY <1>3 DEF table, Listing, Grows
<1>4. CASE del_pid_sysc(Pid(p), Syscall(p)) /\ ~UNCHANGED table
  <2>1. PICK s, q, n : /\ s = Syscall(p) /\ q = Pid(p) /\ n = my_list[s][q] - 1
                       /\ Listed(s, q) /\ my_list' = [my_list EXCEPT ![s][q] = n]
    BY <1>4 DEF del_pid_sysc
  <2>2. s \in Table /\ q \in Procs => n \in Nat /\ n <= my_list[s][q]
    BY <2>1 DEF Listed, Listing
  <2>3. Listing' /\ OneList(s, q, n)
    BY <2>1, <2>2, Nodes
  <2> QED BY <2>1, <2>2, <2>3 DEF Listing, Grows, OneList
<1>5. CASE add_pid_sysc(Pid(p), Syscall(p)) /\ Cmd(p) \in {"start", "stop"} /\ pc[p] # "idle"
  <2>1. PICK s, q, n : /\ s = Syscall(p) /\ q = Pid(p) /\ n = my_list[s][q] + 1
                       /\ my_list' = [my_list EXCEPT ![s][q] = n]
    BY <1>5 DEF add_pid_sysc
  <2>2. s \in Table /\ q \in Procs => n \in Nat
    BY <2>1 DEF Listing
  <2>3. Listing' /\ OneList(s, q, n)
    BY <2>1, <2>2, Nodes
  <2> QED BY <1>5, <2>1, <2>3 DEF Listing, Grows, OneList
<1>6. CASE ReleaseList(p) \/ DestroyForAll(p)
  BY <1>1, <1>6 DEF ReleaseList, DestroyForAll
<1>7. CASE ChangeBlackList(p)
  <2>1. pc[p] = "change_black" /\ (\/ del_pid_sysc(Pid(p), Syscall(p))
                                   \/ add_pid_sysc(Pid(p), Syscall(p))
                                   \/ UNCHANGED table)
    BY <1>7 DEF ChangeBlackList, At
  <2> QED BY <1>3, <1>4, <1>5, <2>1
<1>8. CASE ChangeList(p)
  <2>1. pc[p] = "in_pids" /\ (\/ del_pid_sysc(Pid(p), Syscall(p))
                              \/ Cmd(p) = "start" /\ add_pid_sysc(Pid(p), Syscall(p))
                              \/ UNCHANGED table
                              \/ del_pid(p))
    BY <1>8 DEF ChangeList, At
  <2> QED BY <1>2, <1>3, <1>4, <1>5, <2>1
<1> QED BY <1>6, <1>7, <1>8

LEMMA ListsGrow ==
    ASSUME WhereInv, Listing, NEW p \in Procs, Continue(p)
    PROVE  Grows(p)
<1>1. CASE ReleaseList(p) \/ DestroyForAll(p) \/ ChangeBlackList(p) \/ ChangeList(p)
  <2>1. pc[p] = "change_black" => Cmd(p) \in {"start", "stop"}
    <3> SUFFICES ASSUME pc[p] = "change_black" PROVE Cmd(p) \in {"start", "stop"}
      OBVIOUS
    <3>1. Route(call[p], "change_black")
      BY DEF WhereInv, Place
    <3> QED BY <3>1 DEF Route, Looking, Dying, Working, Done, Cmd
  <2> QED BY <1>1, <2>1, ListsUsed
<1>2. CASE ~(ReleaseList(p) \/ DestroyForAll(p) \/ ChangeBlackList(p) \/ ChangeList(p))
  <2>1. UNCHANGED my_list
    <3>1. CASE check_pid_from_list(p) \/ ReadMode(p) \/ SearchList(p)
           \/ InterceptorMode(p) \/ InterceptorLog(p) \/ Forward(p) \/ orig_exit_group(p) \/ Leave(p)
      BY <3>1, TableKept DEF TableState, table
    <3>2. CASE LockCalls(p) \/ UnlockCalls(p) \/ set_addr_rw(p) \/ set_addr_ro(p) \/ LockPids(p)
               \/ UnlockPids(p)
      BY <3>2 DEF LockCalls, UnlockCalls, set_addr_rw, set_addr_ro, LockPids, UnlockPids, table
    <3>3. CASE SaveOriginal(p) \/ FlagIntercepted(p) \/ SwitchToInterceptor(p) \/ RestoreOriginal(p)
           \/ ClearIntercepted(p) \/ ForgetOriginal(p) \/ ClearMonitored(p) \/ SetMonitored(p)
      BY <3>3 DEF SaveOriginal, FlagIntercepted, SwitchToInterceptor, RestoreOriginal,
         ClearIntercepted, ForgetOriginal, ClearMonitored, SetMonitored, table
    <3> QED BY <1>2, <3>1, <3>2, <3>3 DEF Continue
  <2> QED BY <2>1 DEF Grows, Listing
<1> QED BY <1>1, <1>2

\* sys_call_table stays a table.
LEMMA TablesGo == ASSUME TablesInv, NEW p \in Procs, Continue(p) PROVE TablesInv'
<1>1. CASE SwitchToInterceptor(p) \/ RestoreOriginal(p)
  <2>1. PICK v : sys_call_table' = [sys_call_table EXCEPT ![Syscall(p)] = v]
    BY <1>1 DEF SwitchToInterceptor, RestoreOriginal
  <2> QED BY <2>1 DEF TablesInv
<1>2. CASE pc[p] \notin Working
  BY <1>2, EntriesKept DEF Entries, TablesInv
<1>3. CASE pc[p] \in Working /\ ~(SwitchToInterceptor(p) \/ RestoreOriginal(p))
  <2>1. UNCHANGED sys_call_table
    BY <1>3, WorkingActions DEF SaveOriginal, FlagIntercepted, ClearIntercepted, ForgetOriginal,
       ReleaseList, ClearMonitored, LockCalls, set_addr_rw, callTable
  <2> QED BY <2>1 DEF TablesInv
<1> QED BY <1>1, <1>2, <1>3

\* The lists have been destroyed.
Emptied == {"exit_ro", "exit_unlock", "gone"}

\* Once the lists are destroyed nobody lists one of the test.
LEMMA ListsGoes ==
    ASSUME WhereInv, EntriesInv, LoadInv, ListsInv, NEW p \in Procs, Continue(p), UNCHANGED loader
    PROVE  ListsInv'
<1>1. Grows(p)
  BY ListsGrow DEF ListsInv, Listing
<1>2. ASSUME loader \in Emptied, NEW s \in Table, NEW q \in TheTest PROVE ~Listed(s, q)'
  <2>1. q \in Procs /\ my_list[s][q] = 0
    BY <1>2, Numbers DEF ListsInv, Listed, TheTest, Emptied
  <2>2. ~(q = Pid(p) /\ Cmd(p) \in {"start", "stop"} /\ pc[p] # "idle")
    <3> SUFFICES ASSUME q = Pid(p), Cmd(p) \in {"start", "stop"}, pc[p] # "idle" PROVE FALSE
      OBVIOUS
    <3>1. p # Tester /\ p # Guest
      BY <1>2, LoaderAlone DEF Emptied
    <3>2. p \in Bystanders \ {Init_pid} /\ Pid(p) = p
      BY <3>1 DEF WhereInv, Place, Business
    <3> QED BY <3>2 DEF TheTest, Bystanders
  <2>3. my_list'[s][q] \in Nat /\ my_list'[s][q] <= 0
    BY <1>1, <2>1, <2>2 DEF Grows, Listing
  <2> QED BY <2>3 DEF Listed
<1> QED BY <1>1, <1>2 DEF Grows, Listing, ListsInv, Emptied, TheTest

LEMMA ListsSame ==
    ASSUME ListsInv, UNCHANGED my_list, loader' = loader \/ loader' \notin Emptied \/ loader \in Emptied
    PROVE  ListsInv'
BY DEF ListsInv, Emptied, Listed

LEMMA ListsLoad == ASSUME ListsInv, TablesInv, Load PROVE ListsInv' /\ TablesInv'
<1>1. TablesInv'
  BY LoadSteps DEF Entries, TablesInv
<1>2. CASE DestroyLists
  <2>1. my_list' = [s \in Table |-> [q \in Procs |-> 0]]
    BY <1>2 DEF DestroyLists
  <2>2. \A s \in Table, q \in TheTest : ~Listed(s, q)'
    BY <2>1, Numbers DEF TheTest, Listed
  <2> QED BY <1>1, <2>1, <2>2 DEF ListsInv, TheTest
<1>3. CASE ~DestroyLists
  <2>1. UNCHANGED my_list
    BY <1>3 DEF Load, LoaderLocksCalls, LoaderSetsRw, SaveEntry, HijackEntry, RestoreEntry, LoaderSetsRo,
       LoaderUnlocksCalls, LoaderLocksPids, InitLists, LoaderUnlocksPids, SpinLockInit, vars, table
  <2>2. loader' \notin Emptied \/ loader \in Emptied
    <3>1. CASE LoaderLocksCalls \/ LoaderSetsRw \/ LoaderSetsRo \/ LoaderUnlocksCalls
      BY <3>1 DEF LoaderLocksCalls, LoaderSetsRw, LoaderSetsRo, LoaderUnlocksCalls, Loads, Emptied
    <3>2. CASE SaveEntry \/ HijackEntry \/ RestoreEntry
      BY <3>2 DEF SaveEntry, HijackEntry, RestoreEntry, Loads, Emptied
    <3>3. CASE LoaderLocksPids \/ InitLists \/ LoaderUnlocksPids \/ SpinLockInit
      BY <3>3 DEF LoaderLocksPids, InitLists, LoaderUnlocksPids, SpinLockInit, Loads, Emptied
    <3> QED BY <1>3, <3>1, <3>2, <3>3 DEF Load
  <2> QED BY <1>1, <2>1, <2>2, ListsSame
<1> QED BY <1>2, <1>3

LEMMA ListsNext ==
    ASSUME WhereInv, EntriesInv, LoadInv, ListsInv, TablesInv, [TestNext]_tvars
    PROVE  ListsInv' /\ TablesInv'
<1>0. ASSUME UNCHANGED <<table, sys_call_table>>, loader' = loader \/ loader' \notin Emptied
      PROVE  ListsInv' /\ TablesInv'
  BY <1>0, ListsSame DEF table, TablesInv
<1>00. ASSUME NEW p \in Procs, my_syscall(p) \/ SystemCall(p) \/ my_exit_group(p)
       PROVE  UNCHANGED <<table, sys_call_table>>
  BY <1>00, TableKept DEF TableState, callTable, Enter
<1>1. CASE UNCHANGED tvars
  BY <1>0, <1>1 DEF tvars, system, vars, module, callTable
<1>2. ASSUME Program PROVE ListsInv' /\ TablesInv'
  <2>1. CASE Insert \/ Remove
    BY <1>0, <2>1 DEF Insert, Remove, Insmod, Rmmod, Loads, vars, callTable, Emptied
  <2>2. CASE Loaded \/ Begin
    BY <1>0, <2>2 DEF Loaded, Begin, Fork, vars, module, callTable
  <2>3. CASE Ask
    <3>1. Now.by \in Procs
      <4>1. line \in 1..Lines + 1
        BY DEF WhereInv
      <4> QED BY <4>1, NowOK, Numbers DEF LineOK, Lines
    <3> QED BY <1>0, <1>00, <2>3, <3>1 DEF Ask, Request, Call, module
  <2>4. CASE End
    <3>1. UNCHANGED <<table, sys_call_table>>
      BY <1>00, <2>4, Numbers DEF End, exit_group, vars, callTable
    <3> QED BY <1>0, <2>4, <3>1 DEF End, exit_group, module
  <2> QED BY <1>2, <2>1, <2>2, <2>3, <2>4 DEF Program
<1>3. ASSUME Load PROVE ListsInv' /\ TablesInv'
  BY <1>3, ListsLoad
<1>4. ASSUME NEW p \in Procs, Inside(p) PROVE ListsInv' /\ TablesInv'
  <2>1. CASE Continue(p) /\ UNCHANGED module
    BY <2>1, ListsGoes, TablesGo DEF module
  <2>2. CASE Oops /\ UNCHANGED module
    BY <1>0, <2>2 DEF Oops, module, callTable
  <2> QED BY <1>4, <2>1, <2>2 DEF Inside, Proceed, Crash, Answer, Continue
<1>5. ASSUME NEW p \in Bystanders, Bystander(p) PROVE ListsInv' /\ TablesInv'
  <2>1. p \in Procs
    BY DEF Bystanders
  <2>2. CASE Call(p) \/ Request(p)
    BY <1>0, <1>00, <2>1, <2>2 DEF Call, Request, module
  <2>3. CASE exit_group(p)
    <3>1. UNCHANGED <<table, sys_call_table>>
      BY <1>00, <2>1, <2>3 DEF exit_group, callTable
    <3> QED BY <1>0, <2>3, <3>1 DEF exit_group, module
  <2>4. CASE Fork(p) /\ UNCHANGED module
    BY <1>0, <2>4 DEF Fork, module, callTable
  <2> QED BY <1>5, <2>2, <2>3, <2>4 DEF Bystander
<1>6. ASSUME Tear PROVE ListsInv' /\ TablesInv'
  BY <1>0, <1>6 DEF Tear, TearList, Oops, module, callTable
<1> QED BY <1>1, <1>2, <1>3, <1>4, <1>5, <1>6 DEF TestNext

LEMMA ListsInit == TestInit => ListsInv /\ TablesInv
<1> SUFFICES ASSUME TestInit PROVE ListsInv /\ TablesInv
  OBVIOUS
<1>1. /\ my_list = [s \in Table |-> [q \in Procs |-> 0]] /\ loader = "out"
      /\ sys_call_table = [s \in Table |-> "original"]
  BY DEF TestInit, LoadInit, Fresh
<1> QED BY <1>1 DEF ListsInv, TablesInv

\* What is left.
LeftInv == HeldInv /\ ListsInv /\ TablesInv

\* Once the module is gone, sys_call_table and the hijacked entries are what
\* they were, protected and unlocked, and none of the test is on a list.
THEOREM UnloadRestores == TestSpec => []TableRestored
<1>1. TestInit => LeftInv
  BY HeldInit, ListsInit DEF LeftInv
<1>2. TestInv /\ LeftInv /\ [TestNext]_tvars => LeftInv'
  BY HeldNext, ListsNext DEF LeftInv, TestInv
<1>3. TestInv /\ LeftInv => TableRestored
  <2> SUFFICES ASSUME TestInv, LeftInv, loader = "gone"
               PROVE  /\ sys_call_table = [s \in Table |-> "original"]
                      /\ hook = [e \in Hooks |-> "original"]
                      /\ ~rw /\ calltable_lock = NoProc
                      /\ \A s \in Table, q \in {Tester, Guest, Init_pid} : ~Listed(s, q)
    BY DEF TableRestored
  <2>1. pc[Tester] = "idle" /\ \A s \in Table : sys_call_table[s] = "original"
    BY LoaderAlone DEF TestInv, Off
  <2>2. hook = [e \in Hooks |-> "original"]
    BY DEF TestInv, LoadInv, Unhooked
  <2>3. ~rw /\ calltable_lock = NoProc
    BY <2>1 DEF LeftInv, HeldInv, InCalls, Writing, LoaderHolds, LoaderWrites
  <2>4. sys_call_table = [s \in Table |-> "original"]
    BY <2>1 DEF LeftInv, TablesInv
  <2> QED BY <2>2, <2>3, <2>4 DEF LeftInv, ListsInv
<1> QED BY <1>1, <1>2, <1>3, TestInvariant, PTL DEF TestSpec

-----------------------------------------------------------------------------
(* The originals.                                                          *)

\* Through loading, the whole script and unloading, no pointer to the interceptor
\* is saved as an original, no entry is null, and when no intercept or release of
\* a call is under way its entry, its flag and its saved pointer agree.
THEOREM OriginalsSurviveTheTest == TestSpec => []OriginalKept
<1>1. TestInv => OriginalKept
  <2> SUFFICES ASSUME TestInv, NEW s \in Table
               PROVE  /\ f[s] # "interceptor" /\ sys_call_table[s] # "null"
                      /\ (\A p \in Procs : Cmd(p) \in {"intercept", "release"} => Syscall(p) # s) =>
                             /\ intercepted[s] <=> sys_call_table[s] = "interceptor"
                             /\ intercepted[s] <=> f[s] = "original"
    BY DEF OriginalKept
  <2>1. CASE Settled(s)
    BY <2>1 DEF Settled, Off, On
  <2>2. CASE ~Settled(s)
    <3>1. pc[Tester] \in Working /\ Syscall(Tester) = s /\ Expected(Tester)
      BY <2>2 DEF TestInv, EntriesInv
    <3>2. Cmd(Tester) \in {"intercept", "release"} /\ Tester \in Procs
      BY <3>1, Numbers DEF Expected, Working, InCalls
    <3>3. f[s] # "interceptor" /\ sys_call_table[s] # "null"
      BY <3>1 DEF Expected, Working, InCalls, Off, On, Saved
    <3> QED BY <3>1, <3>2, <3>3
  <2> QED BY <2>1, <2>2
<1> QED BY <1>1, TestInvariant, PTL

-----------------------------------------------------------------------------
(* The answers.                                                            *)

\* The calls that are intercepted for certain.
Surely == IF pc[Tester] = "idle" THEN MayBeOn(line)
          ELSE IF pc[Tester] \in Done THEN MayBeOn(line + 1)
          ELSE MayBeOn(line) \ IF Cmd(Tester) = "release" THEN {Syscall(Tester)} ELSE {}

FlagInv == \A s \in Surely : intercepted[s]

\* The list of NR_open is a black list between line 25 and line 26 only.
MarkInv ==
    /\ monitored \in [Table -> {0, 1, 2}]
    /\ monitored[NR_open] = 2 => \/ line = 25 /\ pc[Tester] = "return"
                                 \/ line = 26 /\ pc[Tester] \in {"idle", "clear_all"}

\* Where a start or a stop has done what it does to the list.
Late == {"unlock_pids", "set_some", "return"}

\* The nodes of the test are the ones its requests have left.
CountInv ==
    line <= 33 => \A q \in {Guest, Init_pid} :
        my_list[NR_open][q] = Named(q, IF pc[Now.by] \in Late THEN line + 1 ELSE line)

OnList == {"lock_pids", "in_pids", "unlock_pids", "set_some"}

\* How far p's request or call is on the way to the answer of the line, at
\* label l with answer code.
StandsAt(p, l, code) ==
    /\ l \notin {"black", "change_black", "look_black"}
    /\ l = "return" => code = Now.ret
    /\ l \in (Working \union Done \union ForAll \union OnList) \ {"return"} => Now.ret = "ok"
    /\ l \in {"owner", "mode", "list"} \union OnList \union ForAll => code = "ok"
    /\ l \in {"mode", "list"} \union OnList => Pid(p) = IF p = Guest THEN Guest ELSE Init_pid
    /\ l = "forward" => code = "logged"
    /\ l # "idle" /\ Cmd(p) = "call" => Syscall(p) = NR_open
    /\ l = "set_all" => Cmd(p) = "start"
    /\ l = "clear_all" => Cmd(p) = "stop"

Stands(p) == StandsAt(p, pc[p], call[p].ret)

StandInv == \A p \in {Tester, Guest} : Cmd(p) # "exit" => Stands(p)

PassInv == FlagInv /\ MarkInv /\ CountInv /\ StandInv /\ failed = {}

LEMMA NowAnswers ==
    ASSUME TestedCalls, WhereInv, line \in 1..Lines
    PROVE  AnswerOK(line, Now)
BY NowOK DEF LineOK, Lines

LEMMA NowBy == ASSUME WhereInv PROVE Now.by \in {Tester, Guest} /\ line \in 1..Lines + 1
BY NowOK DEF LineOK, Lines, WhereInv

\* What matters stays as it is.
LEMMA PassStays ==
    ASSUME WhereInv, PassInv, UNCHANGED <<line, failed, intercepted>>,
           \A q \in {Tester, Guest} : pc'[q] = pc[q] /\ call'[q] = call[q],
           monitored' \in [Table -> {0, 1, 2}], monitored'[NR_open] = 2 => monitored[NR_open] = 2,
           line <= 33 => \A q \in {Guest, Init_pid} : my_list'[NR_open][q] = my_list[NR_open][q]
    PROVE  PassInv'
<1>1. Now' = Now /\ Now.by \in {Tester, Guest}
  BY NowBy DEF Now, Finished
<1>2. FlagInv'
  BY DEF PassInv, FlagInv, Surely, Cmd, Syscall
<1>3. MarkInv'
  BY DEF PassInv, MarkInv
<1>4. CountInv'
  BY <1>1 DEF PassInv, CountInv
<1>5. StandInv'
  <2> SUFFICES ASSUME NEW p \in {Tester, Guest}, Cmd(p)' # "exit" PROVE Stands(p)'
    BY DEF StandInv
  <2>1. Stands(p) /\ pc'[p] = pc[p] /\ call'[p] = call[p]
    BY DEF PassInv, StandInv, Cmd
  <2> QED BY <1>1, <2>1 DEF Stands, StandsAt, Cmd, Pid, Syscall
<1> QED BY <1>2, <1>3, <1>4, <1>5 DEF PassInv

\* A step that changes neither processes nor table.
LEMMA PassSame ==
    ASSUME WhereInv, PassInv, UNCHANGED <<line, failed, process, table>>
    PROVE  PassInv'
BY PassStays DEF process, table, PassInv, MarkInv

Marks == monitored \in [Table -> {0, 1, 2}]

LEMMA MarkSet ==
    ASSUME Marks, NEW s, NEW n, s \in Table => n \in {0, 1, 2},
           monitored' = [monitored EXCEPT ![s] = n]
    PROVE  Marks' /\ \A x \in Table : monitored'[x] = monitored[x] \/ (x = s /\ monitored'[x] = n)
<1>1. CASE s \in Table
  BY <1>1 DEF Marks
<1>2. CASE s \notin Table
  <2>1. monitored' = monitored
    BY <1>2 DEF Marks
  <2> QED BY <2>1 DEF Marks
<1> QED BY <1>1, <1>2

\* Whose nodes p's request or exit is about.
Whose(p) == IF Cmd(p) = "exit" THEN p ELSE Pid(p)

\* A change of a list touches the nodes of one process only, and makes no list a
\* black list.
LEMMA OneTouched ==
    ASSUME Listing, Marks, NEW p \in Procs, ChangeList(p) \/ (ChangeBlackList(p) /\ Cmd(p) # "exit")
    PROVE  /\ \A x \in Table, r \in Procs : r # Whose(p) => my_list'[x][r] = my_list[x][r]
           /\ Marks' /\ \A x \in Table : monitored'[x] = 2 => monitored[x] = 2
<1> DEFINE Goal == /\ \A x \in Table, r \in Procs : r # Whose(p) => my_list'[x][r] = my_list[x][r]
                   /\ Marks' /\ \A x \in Table : monitored'[x] = 2 => monitored[x] = 2
<1>0. \A lists, s : s \in Table => StillMonitored(lists, s) \in {0, monitored[s]}
  BY DEF StillMonitored
<1>1. CASE UNCHANGED table
  BY <1>1 DEF table, Marks
<1>2. ASSUME NEW s, add_pid_sysc(Pid(p), s), Whose(p) = Pid(p) PROVE Goal
  BY <1>2 DEF add_pid_sysc, Marks, Listing
<1>3. ASSUME NEW s, del_pid_sysc(Pid(p), s), Whose(p) = Pid(p) PROVE Goal
  <2>1. CASE Listed(s, Pid(p))
    <3>1. PICK lists : /\ lists = [my_list EXCEPT ![s][Pid(p)] = my_list[s][Pid(p)] - 1]
                       /\ my_list' = lists
                       /\ monitored' = [monitored EXCEPT ![s] = StillMonitored(lists, s)]
      BY <1>3, <2>1 DEF del_pid_sysc
    <3>2. \A x \in Table, r \in Procs : r # Whose(p) => my_list'[x][r] = my_list[x][r]
      BY <1>3, <3>1 DEF Listing
    <3>3. PICK n : monitored' = [monitored EXCEPT ![s] = n] /\ (s \in Table => n \in {0, monitored[s]})
      BY <1>0, <3>1
    <3>4. Marks' /\ \A x \in Table : monitored'[x] = 2 => monitored[x] = 2
      <4>1. s \in Table => n \in {0, 1, 2}
        BY <3>3 DEF Marks
      <4>2. Marks' /\ \A x \in Table : monitored'[x] = monitored[x] \/ (x = s /\ monitored'[x] = n)
        BY <3>3, <4>1, MarkSet
      <4> QED BY <3>3, <4>2
    <3> QED BY <3>2, <3>4
  <2>2. CASE ~Listed(s, Pid(p))
    BY <1>1, <1>3, <2>2 DEF del_pid_sysc
  <2> QED BY <2>1, <2>2
<1>4. ASSUME del_pid(p), Whose(p) = p PROVE Goal
  <2>1. PICK lists : /\ lists = [s \in Table |-> IF s \in Visited THEN [my_list[s] EXCEPT ![p] = 0]
                                                 ELSE my_list[s]]
                     /\ my_list' = lists
                     /\ monitored' = [s \in Table |-> IF s \in Visited /\ Listed(s, p)
                                         THEN StillMonitored(lists, s) ELSE monitored[s]]
    BY <1>4 DEF del_pid
  <2>2. \A x \in Table, r \in Procs : r # Whose(p) => my_list'[x][r] = my_list[x][r]
    BY <1>4, <2>1 DEF Listing
  <2>3. Marks' /\ \A x \in Table : monitored'[x] = 2 => monitored[x] = 2
    BY <1>0, <2>1 DEF Marks
  <2> QED BY <2>2, <2>3
<1>5. CASE ChangeBlackList(p) /\ Cmd(p) # "exit"
  BY <1>1, <1>2, <1>3, <1>5 DEF ChangeBlackList, Whose
<1>6. CASE ChangeList(p)
  <2>1. CASE Cmd(p) = "exit"
    BY <1>4, <1>6, <2>1 DEF ChangeList, Whose
  <2>2. CASE Cmd(p) # "exit"
    BY <1>1, <1>2, <1>3, <1>6, <2>2 DEF ChangeList, Whose
  <2> QED BY <2>1, <2>2
<1> QED BY <1>5, <1>6

\* The lists and monitored stay.
LEMMA Idling ==
    ASSUME NEW p \in Procs, Continue(p),
           ~(ReleaseList(p) \/ DestroyForAll(p) \/ ChangeBlackList(p) \/ ChangeList(p)
             \/ ClearMonitored(p) \/ SetMonitored(p))
    PROVE  UNCHANGED <<my_list, monitored>>
<1>1. CASE check_pid_from_list(p) \/ ReadMode(p) \/ SearchList(p)
       \/ InterceptorMode(p) \/ InterceptorLog(p) \/ Forward(p) \/ orig_exit_group(p) \/ Leave(p)
  BY <1>1, TableKept DEF TableState, table
<1>2. CASE LockCalls(p) \/ UnlockCalls(p) \/ set_addr_rw(p) \/ set_addr_ro(p) \/ LockPids(p)
           \/ UnlockPids(p)
  BY <1>2 DEF LockCalls, UnlockCalls, set_addr_rw, set_addr_ro, LockPids, UnlockPids, table
<1>3. CASE SaveOriginal(p) \/ FlagIntercepted(p) \/ SwitchToInterceptor(p) \/ RestoreOriginal(p)
       \/ ClearIntercepted(p) \/ ForgetOriginal(p)
  BY <1>3 DEF SaveOriginal, FlagIntercepted, SwitchToInterceptor, RestoreOriginal,
     ClearIntercepted, ForgetOriginal, table
<1> QED BY <1>1, <1>2, <1>3 DEF Continue

\* Bystanders disturb nothing of it: what they do to a list is about themselves.
LEMMA PassAside ==
    ASSUME WhereInv, Listing, PassInv, NEW p \in Bystanders, Continue(p), UNCHANGED <<line, failed>>
    PROVE  PassInv'
<1>0. p \in Procs /\ p \notin {Tester, Guest} /\ Placed /\ Tester \in Procs /\ Guest \in Procs /\ Marks
      /\ Init_pid \in Procs /\ NR_open \in Table
  BY WhereTyped, Numbers DEF Bystanders, PassInv, MarkInv, Marks
<1>1. pc[p] \notin Privileged
  BY <1>0, PrivilegedTester
<1>2. UNCHANGED intercepted
  <2>1. pc[p] \notin Working
    BY <1>1 DEF Working, Privileged, InCalls
  <2> QED BY <1>0, <2>1, EntriesKept DEF Entries
<1>3. \A q \in {Tester, Guest} : pc'[q] = pc[q] /\ call'[q] = call[q]
  <2>1. (\E l : Goes(p, l)) \/ Oops
    BY <1>0, GoesOn
  <2> QED BY <1>0, <2>1 DEF Goes, Oops, Placed, process
<1>4. CASE ChangeBlackList(p) \/ ChangeList(p)
  <2>1. pc[p] \in {"change_black", "in_pids"} /\ (ChangeBlackList(p) => pc[p] = "change_black")
    BY <1>4 DEF ChangeBlackList, ChangeList, At
  <2>2. Business(p) /\ Route(call[p], pc[p])
    BY <1>0, <2>1 DEF WhereInv, Place
  <2>3. /\ Cmd(p) # "call" /\ p # Init_pid /\ Whose(p) = p
        /\ pc[p] = "change_black" => Cmd(p) # "exit"
    BY <1>0, <2>1, <2>2 DEF Business, Route, Looking, Dying, Cmd, Whose
  <2>4. /\ \A x \in Table, r \in Procs : r # Whose(p) => my_list'[x][r] = my_list[x][r]
        /\ Marks' /\ \A x \in Table : monitored'[x] = 2 => monitored[x] = 2
    BY <1>0, <1>4, <2>1, <2>3, OneTouched
  <2>5. \A q \in {Guest, Init_pid} : my_list'[NR_open][q] = my_list[NR_open][q]
    BY <1>0, <2>3, <2>4
  <2> QED BY <1>0, <1>2, <1>3, <2>4, <2>5, PassStays DEF Marks
<1>5. CASE SetMonitored(p)
  <2>1. monitored' = [monitored EXCEPT ![Syscall(p)] = 1] /\ UNCHANGED my_list
    BY <1>1, <1>5 DEF SetMonitored, At, Privileged
  <2>2. Marks' /\ \A x \in Table : monitored'[x] = monitored[x] \/ monitored'[x] = 1
    BY <1>0, <2>1, MarkSet
  <2>3. monitored'[NR_open] = 2 => monitored[NR_open] = 2
    BY <1>0, <2>2
  <2> QED BY <1>2, <1>3, <2>1, <2>2, <2>3, PassStays DEF Marks
<1>6. CASE ReleaseList(p) \/ DestroyForAll(p) \/ ClearMonitored(p)
  <2>1. pc[p] \in {"destroy", "destroy_all", "unmonitor", "clear_all"}
    BY <1>6 DEF ReleaseList, DestroyForAll, ClearMonitored, At
  <2> QED BY <1>1, <2>1 DEF Privileged, InCalls
<1>7. CASE ~(ReleaseList(p) \/ DestroyForAll(p) \/ ChangeBlackList(p) \/ ChangeList(p)
             \/ ClearMonitored(p) \/ SetMonitored(p))
  BY <1>0, <1>2, <1>3, <1>7, Idling, PassStays DEF Marks
<1> QED BY <1>4, <1>5, <1>6, <1>7

\* A process of the test is in the module for its line, alone.
Busy(p) ==
    /\ p \in {Tester, Guest} /\ p \in Procs /\ pc[p] # "idle" /\ p \in alive /\ Route(call[p], pc[p])
    /\ Now.by = p /\ line \in 2..36 /\ LineOK(line, Now) /\ AnswerOK(line, Now)
    /\ \A q \in {Tester, Guest} \ {p} : pc[q] = "idle"
    /\ \/ Asks(p) /\ Now.cmd \in Cmds \union {"unknown"}
       \/ p = Guest /\ Cmd(p) = Now.cmd /\ Now.cmd \in {"call", "exit"}

LEMMA BusyTest ==
    ASSUME TestedCalls, WhereInv, NEW p \in {Tester, Guest}, pc[p] # "idle"
    PROVE  Busy(p)
<1>1. p \in Procs /\ p \in alive /\ Route(call[p], pc[p])
  BY Numbers DEF WhereInv, Place
<1>2. /\ Now.by = p /\ line \in 2..36
      /\ \/ Asks(p) /\ Now.cmd \in Cmds \union {"unknown"}
         \/ p = Guest /\ Cmd(p) = Now.cmd /\ Now.cmd \in {"call", "exit"}
  BY TestAsks DEF Lines
<1>3. \A q \in {Tester, Guest} \ {p} : pc[q] = "idle"
  BY <1>2, TestAsks
<1>4. LineOK(line, Now)
  BY <1>2, NowOK DEF WhereInv, Lines
<1>5. AnswerOK(line, Now)
  BY <1>4 DEF LineOK
<1> QED BY <1>1, <1>2, <1>3, <1>4, <1>5 DEF Busy

\* A step to label l with answer code.
StepsTo(p, l, code) == (Go(p, l) /\ code = call[p].ret) \/ GoWith(p, l, code)

LEMMA StandsThere ==
    ASSUME Placed, NEW p \in Procs, UNCHANGED line, NEW l, NEW code, StepsTo(p, l, code),
           StandsAt(p, l, code)
    PROVE  Stands(p)' /\ pc'[p] = l /\ SameCall(p) /\ \A q \in Procs \ {p} : pc'[q] = pc[q] /\ call'[q] = call[q]
<1>1. Now' = Now
  BY DEF Now, Finished
<1>2. pc'[p] = l /\ \A q \in Procs \ {p} : pc'[q] = pc[q] /\ call'[q] = call[q]
  BY DEF StepsTo, Go, GoWith, Placed
<1>3. SameCall(p) /\ call'[p].ret = code
  BY DEF StepsTo, Go, GoWith, Placed, SameCall, Cmd, Pid, Syscall, Calls
<1> QED BY <1>1, <1>2, <1>3 DEF Stands, StandsAt, SameCall

\* What the line leaves of the nodes is what it finds.
Keeps == line <= 33 => \A q \in {Guest, Init_pid} : Named(q, line + 1) = Named(q, line)

LEMMA KeepsNodes ==
    ASSUME AnswerOK(line, Now),
           \/ Now.cmd \notin {"start", "stop"} \/ Now.ret # "ok" \/ Now.pid \notin {Guest, Init_pid}
    PROVE  Keeps
BY DEF AnswerOK, Keeps

\* The nodes stay, and so does what they should be.
LEMMA CountKept ==
    ASSUME CountInv, Now.by \in {Tester, Guest}, UNCHANGED line,
           \A q \in {Guest, Init_pid} : my_list'[NR_open][q] = my_list[NR_open][q],
           Keeps \/ (pc'[Now.by] \in Late <=> pc[Now.by] \in Late)
    PROVE  CountInv'
<1>1. Now' = Now
  BY DEF Now, Finished
<1> QED BY <1>1 DEF CountInv, Keeps, Late

\* The list of NR_open is no black list while a process of the test is busy.
LEMMA NotMarked ==
    ASSUME MarkInv, NEW p, Busy(p), pc[p] \notin {"return", "clear_all"}
    PROVE  monitored[NR_open] # 2
<1> SUFFICES ASSUME monitored[NR_open] = 2 PROVE FALSE
  OBVIOUS
<1>1. line \in {25, 26} /\ pc[Tester] \in {"return", "idle", "clear_all"}
  BY DEF MarkInv
<1>2. p = Tester
  BY <1>1 DEF Busy, AnswerOK
<1>3. line = 26 \/ pc[Tester] = "return"
  BY DEF MarkInv
<1> QED BY <1>1, <1>2, <1>3 DEF Busy, MarkInv

\* The parts of PassInv that p's step disturbs.
PassOn(p) == Stands(p)' /\ MarkInv' /\ CountInv'

\* A step that leaves lists and monitored alone.
LEMMA OnlyMoves ==
    ASSUME WhereInv, PassInv, NEW p, Busy(p), UNCHANGED <<line, my_list, monitored>>,
           pc[p] \notin {"return", "clear_all"}, NEW l, NEW code, StepsTo(p, l, code), StandsAt(p, l, code),
           Keeps \/ (l \in Late <=> pc[p] \in Late)
    PROVE  PassOn(p)
<1>0. Placed /\ p \in Procs /\ Now.by = p /\ p \in {Tester, Guest}
  BY WhereTyped DEF Busy
<1>1. Stands(p)' /\ pc'[p] = l
  BY <1>0, StandsThere
<1>2. MarkInv'
  BY NotMarked DEF PassInv, MarkInv
<1>3. CountInv'
  BY <1>0, <1>1, CountKept DEF PassInv
<1> QED BY <1>1, <1>2, <1>3 DEF PassOn

\* What a process of the test may be doing that is not ending.
Doing(p) == WhereInv /\ PassInv /\ Busy(p) /\ Stands(p) /\ Cmd(p) # "exit" /\ UNCHANGED line

\* The labels of a start or a stop belong to the line that asks for it.
LEMMA ForOneAsks ==
    ASSUME NEW p, Doing(p), pc[p] \in ForOne \union ForAll
    PROVE  /\ Asks(p) /\ Now.cmd \in {"start", "stop"} /\ Syscall(p) = NR_open /\ Cmd(p) = Now.cmd
           /\ Pid(p) = Now.pid /\ Pid(p) \in {-2, 0, Init_pid, Guest}
<1>1. Cmd(p) \in {"start", "stop"}
  <2>1. Route(call[p], pc[p]) /\ Cmd(p) # "exit"
    BY DEF Doing, Busy
  <2> QED BY <2>1 DEF Route, Cmd, ForOne, ForAll, Looking, Working, Done
<1>2. Asks(p)
  BY <1>1 DEF Doing, Busy
<1> QED BY <1>1, <1>2 DEF Asks, Doing, Busy, AnswerOK, LineOK

LEMMA OwnerOn ==
    ASSUME NEW p, Doing(p), check_pid_from_list(p), ~Oops
    PROVE  PassOn(p)
<1>1. /\ pc[p] = "owner" /\ UNCHANGED <<my_list, monitored>>
      /\ IF Uid[Pid(p)] = Uid[p] \/ IsRoot(p) THEN Go(p, "mode") ELSE Return(p, "EPERM")
  BY DEF check_pid_from_list, At, table
<1>2. Pid(p) \in {p, Init_pid} /\ call[p].ret = "ok"
  BY <1>1 DEF Doing, Busy, WhereInv, Place, Stands, StandsAt
<1>3. /\ Now.cmd \in {"start", "stop"} /\ Now.pid = Pid(p) /\ Pid(p) \in {-2, 0, Init_pid, Guest}
      /\ Cmd(p) \in {"start", "stop"}
  BY <1>1, ForOneAsks DEF ForOne
<1>4. p \in {Tester, Guest} /\ Now.by = p /\ AnswerOK(line, Now) /\ WhereInv /\ PassInv /\ Busy(p)
  BY DEF Doing, Busy
<1>5. CASE Go(p, "mode")
  <2>1. Pid(p) = IF p = Guest THEN Guest ELSE Init_pid
    <3>1. CASE p = Guest
      <4>1. Pid(p) # Init_pid
        <5>1. pc'[p] = "mode"
          BY <1>4, <1>5, WhereTyped DEF Go, Placed, Busy
        <5>2. ~(Uid[Pid(p)] = Uid[p] \/ IsRoot(p)) => pc'[p] = "return"
          BY <1>1, <1>4, WhereTyped DEF Return, GoWith, Placed, Busy
        <5> QED BY <3>1, <5>1, <5>2, Numbers DEF IsRoot
      <4> QED BY <1>2, <3>1, <4>1
    <3>2. CASE p = Tester
      BY <1>2, <1>3, <3>2, Numbers
    <3> QED BY <1>4, <3>1, <3>2
  <2>2. StandsAt(p, "mode", "ok")
    BY <1>3, <2>1 DEF StandsAt, Working, Done, ForAll, OnList
  <2>3. StepsTo(p, "mode", "ok")
    BY <1>2, <1>5 DEF StepsTo
  <2> QED BY <1>1, <1>4, <2>2, <2>3, OnlyMoves DEF Late, Doing
<1>6. CASE Return(p, "EPERM") /\ ~(Uid[Pid(p)] = Uid[p] \/ IsRoot(p))
  <2>1. p = Guest /\ Pid(p) = Init_pid
    BY <1>2, <1>4, <1>6, Numbers DEF IsRoot
  <2>2. Now.ret = "EPERM"
    BY <1>3, <1>4, <2>1, Numbers DEF AnswerOK
  <2>3. StandsAt(p, "return", "EPERM")
    BY <1>3, <2>2 DEF StandsAt, Working, Done, ForAll, OnList
  <2>4. Keeps
    BY <1>4, <2>2, KeepsNodes
  <2> QED BY <1>1, <1>4, <1>6, <2>3, <2>4, OnlyMoves DEF Doing, Return, StepsTo
<1> QED BY <1>1, <1>5, <1>6

LEMMA ModeOn ==
    ASSUME NEW p, Doing(p), ReadMode(p)
    PROVE  PassOn(p)
<1>1. pc[p] = "mode" /\ UNCHANGED <<my_list, monitored>>
      /\ Go(p, IF monitored[Syscall(p)] = 2 THEN "black" ELSE "list")
  BY DEF ReadMode, At, table
<1>2. Syscall(p) = NR_open /\ Cmd(p) \in {"start", "stop"}
  BY <1>1, ForOneAsks DEF ForOne
<1>3. monitored[NR_open] # 2
  BY <1>1, NotMarked DEF Doing, PassInv
<1>4. call[p].ret = "ok" /\ Pid(p) = IF p = Guest THEN Guest ELSE Init_pid
  BY <1>1 DEF Doing, Stands, StandsAt
<1>5. StepsTo(p, "list", "ok")
  BY <1>1, <1>2, <1>3, <1>4 DEF StepsTo
<1>6. StandsAt(p, "list", "ok")
  BY <1>2, <1>4 DEF StandsAt, Working, Done, ForAll, OnList
<1> QED BY <1>1, <1>5, <1>6, OnlyMoves DEF Doing, Late

LEMMA ListOn ==
    ASSUME NEW p, Doing(p), SearchList(p)
    PROVE  PassOn(p)
<1> DEFINE found == Listed(Syscall(p), Pid(p))
<1>1. pc[p] = "list" /\ UNCHANGED <<my_list, monitored>>
  BY DEF SearchList, Doing, Stands, StandsAt, table
<1>2. \/ Cmd(p) = "start" /\ found /\ Return(p, "EBUSY")
      \/ Cmd(p) = "stop" /\ ~found /\ Return(p, "EINVAL")
      \/ (Cmd(p) = "start" => ~found) /\ (Cmd(p) = "stop" => found) /\ Go(p, "lock_pids")
  BY <1>1 DEF SearchList, Listed
<1>3. /\ Asks(p) /\ Now.cmd \in {"start", "stop"} /\ Syscall(p) = NR_open /\ Cmd(p) = Now.cmd
      /\ Pid(p) = Now.pid
  BY <1>1, ForOneAsks DEF ForOne
<1>4. call[p].ret = "ok" /\ Pid(p) = IF p = Guest THEN Guest ELSE Init_pid
  BY <1>1 DEF Doing, Stands, StandsAt
<1>5. /\ p \in {Tester, Guest} /\ Now.by = p /\ AnswerOK(line, Now) /\ LineOK(line, Now)
      /\ WhereInv /\ PassInv /\ Busy(p) /\ line \in 2..36
  BY DEF Doing, Busy
<1>6. line <= 33 /\ my_list[NR_open][Pid(p)] = Named(Pid(p), line)
  <2>1. line <= 33
    BY <1>3, <1>4, <1>5, Numbers DEF AnswerOK
  <2> QED BY <1>1, <1>4, <1>5, <2>1 DEF PassInv, CountInv, Late
<1>7. Named(Pid(p), line) \in {0, 1} /\ (found <=> Named(Pid(p), line) = 1)
  BY <1>3, <1>6 DEF Named, Listed
<1>8. Now.ret = IF Named(Now.pid, line) = (IF Now.cmd = "start" THEN 0 ELSE 1) THEN "ok"
                ELSE IF Now.cmd = "start" THEN "EBUSY" ELSE "EINVAL"
  <2>1. ~(Now.pid = -2 \/ (Now.pid = Guest /\ line \notin GuestLines))
    BY <1>3, <1>4, <1>5, Numbers DEF LineOK
  <2>2. ~(Now.by = Guest /\ Now.pid # Guest) /\ Now.pid # 0
    BY <1>3, <1>4, <1>5, Numbers
  <2> QED BY <1>3, <1>5, <2>1, <2>2 DEF AnswerOK
<1>9. ASSUME NEW code \in {"EBUSY", "EINVAL"}, Return(p, code), Now.ret = code PROVE PassOn(p)
  <2>1. StandsAt(p, "return", code)
    BY <1>3, <1>9 DEF StandsAt, Working, Done, ForAll, OnList
  <2>2. Keeps
    BY <1>5, <1>9, KeepsNodes
  <2> QED BY <1>1, <1>5, <1>9, <2>1, <2>2, OnlyMoves DEF Doing, Return, StepsTo
<1>10. CASE Go(p, "lock_pids") /\ (Cmd(p) = "start" => ~found) /\ (Cmd(p) = "stop" => found)
  <2>1. Now.ret = "ok"
    BY <1>3, <1>7, <1>8, <1>10
  <2>2. StandsAt(p, "lock_pids", "ok") /\ StepsTo(p, "lock_pids", "ok")
    BY <1>3, <1>4, <1>10, <2>1 DEF StandsAt, StepsTo, Working, Done, ForAll, OnList
  <2> QED BY <1>1, <1>5, <2>2, OnlyMoves DEF Doing, Late
<1> QED BY <1>2, <1>3, <1>7, <1>8, <1>9, <1>10

LEMMA LockOn ==
    ASSUME NEW p, Doing(p), LockPids(p) \/ UnlockPids(p)
    PROVE  PassOn(p)
<1>1. /\ pc[p] \in {"lock_pids", "unlock_pids"} /\ UNCHANGED <<my_list, monitored>>
      /\ pc[p] = "lock_pids" => Go(p, "in_pids")
      /\ pc[p] = "unlock_pids" => Go(p, "set_some") \/ Go(p, "return")
  BY DEF LockPids, UnlockPids, At, table, Doing
<1>2. call[p].ret = "ok" /\ Now.ret = "ok" /\ Pid(p) = IF p = Guest THEN Guest ELSE Init_pid
  BY <1>1 DEF Doing, Stands, StandsAt, OnList
<1>3. Cmd(p) \in {"start", "stop"}
  BY <1>1, ForOneAsks DEF ForOne
<1>4. ASSUME NEW l \in {"in_pids", "set_some", "return"} PROVE StandsAt(p, l, "ok")
  BY <1>2, <1>3, <1>4 DEF StandsAt, OnList, Working, Done, ForAll
<1>5. PICK l : Go(p, l) /\ (IF pc[p] = "lock_pids" THEN l = "in_pids" ELSE l \in {"set_some", "return"})
  BY <1>1
<1>6. StandsAt(p, l, "ok") /\ StepsTo(p, l, "ok") /\ (l \in Late <=> pc[p] \in Late)
  BY <1>1, <1>2, <1>4, <1>5 DEF StepsTo, Late
<1> QED BY <1>1, <1>6, OnlyMoves DEF Doing

\* A request that works on an entry belongs to the line, whose answer is "ok".
LEMMA WorkAsks ==
    ASSUME NEW p, Doing(p), pc[p] \in Working \union {"set_ro", "unlock_calls"}
    PROVE  /\ Asks(p) /\ Now.cmd \in {"intercept", "release"} /\ Cmd(p) = Now.cmd
           /\ Syscall(p) = Now.syscall /\ Now.ret = "ok" /\ Keeps
<1>1. Cmd(p) \in {"intercept", "release"}
  <2>1. Route(call[p], pc[p]) /\ Cmd(p) # "exit"
    BY DEF Doing, Busy
  <2> QED BY <2>1 DEF Route, Cmd, ForOne, ForAll, Looking, Working, Done
<1>2. Asks(p)
  BY <1>1 DEF Doing, Busy
<1>3. Now.ret = "ok"
  BY DEF Doing, Stands, StandsAt, Working, Done
<1>4. Keeps
  BY <1>1, <1>2, KeepsNodes DEF Asks, Doing, Busy
<1> QED BY <1>1, <1>2, <1>3, <1>4 DEF Asks

\* Its labels, and the answer it takes.
LEMMA WorkStandsAt ==
    ASSUME NEW p, Doing(p), pc[p] \in Working \union {"set_ro", "unlock_calls"}, NEW l, NEW code,
           l \in Working \union {"set_ro", "unlock_calls"} \/ (l = "return" /\ code = "ok")
    PROVE  StandsAt(p, l, code)
<1>1. Now.ret = "ok" /\ Cmd(p) \in {"intercept", "release"}
  BY WorkAsks
<1> QED BY <1>1 DEF StandsAt, Working, Done, ForAll, OnList

LEMMA WorkOn ==
    ASSUME NEW p, Doing(p),
           \/ SaveOriginal(p) \/ FlagIntercepted(p) \/ SwitchToInterceptor(p) \/ RestoreOriginal(p)
           \/ ClearIntercepted(p) \/ ForgetOriginal(p) \/ LockCalls(p) \/ set_addr_rw(p)
           \/ set_addr_ro(p) \/ UnlockCalls(p)
    PROVE  PassOn(p)
<1>1. UNCHANGED <<my_list, monitored>>
  BY DEF SaveOriginal, FlagIntercepted, SwitchToInterceptor, RestoreOriginal, ClearIntercepted,
     ForgetOriginal, LockCalls, set_addr_rw, set_addr_ro, UnlockCalls, table
<1>2. pc[p] \in Working \union {"set_ro", "unlock_calls"}
  BY DEF SaveOriginal, FlagIntercepted, SwitchToInterceptor, RestoreOriginal, ClearIntercepted,
     ForgetOriginal, LockCalls, set_addr_rw, set_addr_ro, UnlockCalls, At, Working
<1>3. Keeps /\ pc[p] \notin {"return", "clear_all"}
  BY <1>2, WorkAsks DEF Working
<1>4. \/ \E l \in Working \union {"set_ro", "unlock_calls"} : Go(p, l)
      \/ GoWith(p, "return", "ok")
  BY DEF SaveOriginal, FlagIntercepted, SwitchToInterceptor, RestoreOriginal, ClearIntercepted,
     ForgetOriginal, LockCalls, set_addr_rw, set_addr_ro, UnlockCalls, Working, Return
<1>5. PICK l, code : /\ StepsTo(p, l, code)
                     /\ l \in Working \union {"set_ro", "unlock_calls"} \/ (l = "return" /\ code = "ok")
  BY <1>4 DEF StepsTo
<1>6. StandsAt(p, l, code)
  BY <1>2, <1>5, WorkStandsAt
<1> QED BY <1>1, <1>3, <1>5, <1>6, OnlyMoves DEF Doing

\* Where NR_open is released no node of the test is counted any more.
LEMMA ReleaseOn ==
    ASSUME EntriesInv, Listing, NEW p, Doing(p), ReleaseList(p) \/ (At(p, "unmonitor") /\ ClearMonitored(p))
    PROVE  PassOn(p)
<1> DEFINE s == Syscall(p)
<1>1. PICK l : /\ Go(p, l) /\ pc[p] \in {"destroy", "unmonitor"} /\ l \in {"restore", "forget"}
               /\ monitored' = [monitored EXCEPT ![s] = 0]
               /\ UNCHANGED my_list \/ my_list' = [my_list EXCEPT ![s] = [q \in Procs |-> 0]]
  BY DEF ReleaseList, ClearMonitored, At, destroy_list
<1>2. pc[p] \in Working /\ Keeps
  BY <1>1, WorkAsks DEF Working
<1>3. StandsAt(p, l, call[p].ret) /\ StepsTo(p, l, call[p].ret)
  BY <1>1, <1>2, WorkStandsAt DEF StepsTo, Working
<1>4. Placed /\ p \in Procs /\ Now.by = p /\ p \in {Tester, Guest} /\ line \in 2..36 /\ AnswerOK(line, Now)
  BY WhereTyped DEF Doing, Busy
<1>5. Stands(p)' /\ pc'[p] = l
  BY <1>3, <1>4, StandsThere DEF Doing
<1>6. MarkInv'
  <2>1. monitored[NR_open] # 2 /\ Marks
    BY <1>1, NotMarked DEF Doing, PassInv, MarkInv, Marks
  <2>2. Marks' /\ \A x \in Table : monitored'[x] = monitored[x] \/ (x = s /\ monitored'[x] = 0)
    <3>1. monitored' = [monitored EXCEPT ![s] = 0] /\ 0 \in {0, 1, 2}
      BY <1>1
    <3> HIDE DEF s
    <3> QED BY <2>1, <3>1, MarkSet
  <2> QED BY <2>1, <2>2, Numbers DEF MarkInv, Marks
<1>7. line <= 33 => s # NR_open
  <2>1. p = Tester /\ Valid(s)
    <3>1. pc[p] \in Privileged
      BY <1>1 DEF Privileged, InCalls
    <3>2. p = Tester
      BY <1>4, <3>1, PrivilegedTester DEF Doing
    <3> QED BY <1>4, <3>1, <3>2 DEF Doing, WhereInv, Place, Busy, Valid
  <2>2. Now.cmd = "release" /\ Now.syscall = s
    <3>1. Cmd(p) = "release"
      BY <1>1, <1>2, <2>1 DEF EntriesInv, Expected
    <3>2. Cmd(p) = Now.cmd /\ Syscall(p) = Now.syscall
      BY <1>2, WorkAsks
    <3> QED BY <3>1, <3>2
  <2>3. s \in MayBeOn(line) \ MayBeOn(line + 1)
    BY <1>4, <2>1, <2>2 DEF AnswerOK
  <2> HIDE DEF s
  <2> SUFFICES ASSUME line <= 33, s = NR_open PROVE FALSE
    OBVIOUS
  <2>4. line \in 10..36 /\ line + 1 \in 10..36
    BY <1>4, <2>3, Numbers DEF MayBeOn
  <2> QED BY <2>3, <2>4 DEF MayBeOn
<1>8. line <= 33 => my_list'[NR_open] = my_list[NR_open]
  BY <1>1, <1>7, Numbers DEF Listing
<1>9. CountInv'
  BY <1>2, <1>4, <1>8, CountKept DEF Doing, PassInv, CountInv
<1> QED BY <1>5, <1>6, <1>9 DEF PassOn

\* A start or a stop for all pids is the one of line 25 or line 26.
LEMMA AllAsks ==
    ASSUME NEW p, Doing(p), pc[p] \in ForAll
    PROVE  /\ p = Tester /\ Tester # Guest /\ Syscall(p) = NR_open /\ Cmd(p) \in {"start", "stop"} /\ call[p].ret = "ok"
           /\ Now.ret = "ok" /\ line = IF Cmd(p) = "start" THEN 25 ELSE 26
           /\ pc[p] = "set_all" => Cmd(p) = "start"
           /\ pc[p] = "clear_all" => Cmd(p) = "stop"
<1>1. p = Tester /\ Pid(p) = 0
  <2>1. p \in Procs /\ WhereInv /\ pc[p] \in Privileged /\ pc[p] # "idle"
    BY DEF Doing, Busy, ForAll, Privileged
  <2>2. p = Tester
    BY <2>1, PrivilegedTester
  <2> QED BY <2>1, <2>2 DEF WhereInv, Place
<1>2. /\ Now.cmd \in {"start", "stop"} /\ Syscall(p) = NR_open /\ Cmd(p) = Now.cmd /\ Now.pid = 0
  BY <1>1, ForOneAsks
<1>3. Now.by = Tester /\ AnswerOK(line, Now)
  BY <1>1 DEF Doing, Busy
<1>4. line = IF Cmd(p) = "start" THEN 25 ELSE 26
  BY <1>2, <1>3 DEF AnswerOK
<1>5. call[p].ret = "ok" /\ Now.ret = "ok" /\ (pc[p] = "set_all" => Cmd(p) = "start")
      /\ (pc[p] = "clear_all" => Cmd(p) = "stop")
  BY DEF Doing, Stands, StandsAt, ForAll
<1> QED BY <1>1, <1>2, <1>4, <1>5, Numbers

\* Then nothing of the test is listed, before and after.
LEMMA AllNamed ==
    ASSUME line \in {25, 26}
    PROVE  \A q \in {Guest, Init_pid} : Named(q, line) = 0 /\ Named(q, line + 1) = 0
BY Numbers DEF Named

LEMMA AllOn ==
    ASSUME Listing, NEW p, Doing(p),
           DestroyForAll(p) \/ (At(p, "clear_all") /\ ClearMonitored(p)) \/ (At(p, "set_all") /\ SetMonitored(p))
    PROVE  PassOn(p)
<1>1. PICK l, n : /\ Go(p, l) /\ n \in {0, 2} /\ monitored' = [monitored EXCEPT ![Syscall(p)] = n]
                  /\ \/ pc[p] = "destroy_all" /\ l = (IF Cmd(p) = "start" THEN "set_all" ELSE "return") /\ n = 0
                     \/ pc[p] = "clear_all" /\ l = "destroy_all" /\ n = 0
                     \/ pc[p] = "set_all" /\ l = "return" /\ n = 2
                  /\ UNCHANGED my_list \/ my_list' = [my_list EXCEPT ![Syscall(p)] = [q \in Procs |-> 0]]
  BY DEF DestroyForAll, ClearMonitored, SetMonitored, At, destroy_list
<1>2. /\ p = Tester /\ Syscall(p) = NR_open /\ Cmd(p) \in {"start", "stop"} /\ call[p].ret = "ok"
      /\ Now.ret = "ok" /\ line = IF Cmd(p) = "start" THEN 25 ELSE 26
      /\ pc[p] = "set_all" => Cmd(p) = "start"
  BY <1>1, AllAsks DEF ForAll
<1>3. Placed /\ p \in Procs /\ Now.by = p
  BY WhereTyped DEF Doing, Busy
<1>4. StandsAt(p, l, "ok") /\ StepsTo(p, l, "ok")
  BY <1>1, <1>2 DEF StandsAt, StepsTo, Working, Done, ForAll, OnList
<1>5. Stands(p)' /\ pc'[p] = l
  BY <1>3, <1>4, StandsThere DEF Doing
<1>6. MarkInv'
  <2>1. Marks /\ NR_open \in Table
    BY Numbers DEF Doing, PassInv, MarkInv, Marks
  <2>2. monitored' = [monitored EXCEPT ![NR_open] = n] /\ n \in {0, 1, 2}
    BY <1>1, <1>2
  <2>3. Marks' /\ monitored'[NR_open] = n
    BY <2>1, <2>2 DEF Marks
  <2>4. n = 2 => line' = 25 /\ pc'[Tester] = "return"
    BY <1>1, <1>2, <1>5 DEF Doing
  <2> QED BY <2>3, <2>4 DEF MarkInv, Marks
<1>7. CountInv'
  <2>1. \A q \in {Guest, Init_pid} : Named(q, line) = 0 /\ Named(q, line + 1) = 0
    BY <1>2, AllNamed
  <2>2. \A q \in {Guest, Init_pid} : my_list[NR_open][q] = 0
    BY <1>2, <2>1 DEF Doing, PassInv, CountInv
  <2>3. \A q \in {Guest, Init_pid} : my_list'[NR_open][q] = 0
    BY <1>1, <1>2, <2>2, Numbers DEF Listing
  <2> QED BY <2>1, <2>3 DEF Doing, CountInv
<1> QED BY <1>5, <1>6, <1>7 DEF PassOn

LEMMA SomeOn ==
    ASSUME NEW p, Doing(p), At(p, "set_some"), SetMonitored(p)
    PROVE  PassOn(p)
<1>1. /\ pc[p] = "set_some" /\ monitored' = [monitored EXCEPT ![Syscall(p)] = 1] /\ UNCHANGED my_list
      /\ Go(p, "return")
  BY DEF SetMonitored, At
<1>2. call[p].ret = "ok" /\ Now.ret = "ok" /\ Cmd(p) \in {"start", "stop"}
  BY <1>1, ForOneAsks DEF Doing, Stands, StandsAt, OnList, ForOne
<1>3. Placed /\ p \in Procs /\ Now.by = p /\ p \in {Tester, Guest}
  BY WhereTyped DEF Doing, Busy
<1>4. StandsAt(p, "return", "ok") /\ StepsTo(p, "return", "ok")
  BY <1>1, <1>2 DEF StandsAt, StepsTo, Working, Done, ForAll, OnList
<1>5. Stands(p)' /\ pc'[p] = "return"
  BY <1>3, <1>4, StandsThere DEF Doing
<1>6. MarkInv'
  <2>1. monitored[NR_open] # 2 /\ Marks
    BY <1>1, NotMarked DEF Doing, PassInv, MarkInv, Marks
  <2>2. Marks' /\ \A x \in Table : monitored'[x] = monitored[x] \/ monitored'[x] = 1
    BY <1>1, <2>1, MarkSet
  <2> QED BY <2>1, <2>2, Numbers DEF MarkInv, Marks
<1>7. CountInv'
  BY <1>1, <1>3, <1>5, CountKept DEF Doing, PassInv, Late
<1> QED BY <1>5, <1>6, <1>7 DEF PassOn

\* The guest's call looks itself up and is logged.
LEMMA LookOn ==
    ASSUME NEW p, Doing(p), InterceptorMode(p) \/ InterceptorLog(p) \/ (Forward(p) /\ ~Oops)
    PROVE  PassOn(p)
<1>1. pc[p] \in {"look", "look_black", "look_list", "forward"} /\ UNCHANGED <<my_list, monitored>>
  BY DEF InterceptorMode, InterceptorLog, Forward, At, table
<1>2. Cmd(p) = "call"
  <2>1. Route(call[p], pc[p]) /\ Cmd(p) # "exit"
    BY DEF Doing, Busy
  <2> QED BY <1>1, <2>1 DEF Route, Cmd, ForOne, ForAll, Working, Done
<1>3. /\ p = Guest /\ line = 20 /\ Now.cmd = "call" /\ Now.ret = "logged" /\ Now.by = p
      /\ Syscall(p) = NR_open /\ pc[p] # "look_black"
  <2>1. Now.cmd = "call" /\ p = Guest /\ Now.by = p /\ AnswerOK(line, Now)
    BY <1>2 DEF Doing, Busy, Asks, Cmds
  <2> QED BY <1>1, <1>2, <2>1 DEF AnswerOK, Doing, Stands, StandsAt
<1>4. Keeps
  BY <1>3, KeepsNodes DEF Doing, Busy
<1>5. monitored[NR_open] # 2
  BY <1>1, NotMarked DEF Doing, PassInv
<1>6. Listed(NR_open, Guest)
  <2>1. my_list[NR_open][Guest] = Named(Guest, 20)
    BY <1>1, <1>3 DEF Doing, PassInv, CountInv, Late
  <2> QED BY <2>1 DEF Named, Listed
<1>7. PICK l, code : /\ StepsTo(p, l, code)
                     /\ \/ l \in {"look", "look_list"}
                        \/ l \in {"forward", "return"} /\ code = "logged"
  <2>1. CASE InterceptorMode(p)
    BY <1>3, <1>5, <2>1 DEF InterceptorMode, StepsTo
  <2>2. CASE InterceptorLog(p)
    <3>1. GoWith(p, "forward", "logged")
      BY <1>3, <1>6, <2>2 DEF InterceptorLog, Listed
    <3> QED BY <3>1 DEF StepsTo
  <2>3. CASE Forward(p) /\ ~Oops
    <3>1. pc[p] = "forward" /\ (Go(p, "look") \/ Go(p, "return"))
      BY <2>3 DEF Forward, At
    <3>2. call[p].ret = "logged"
      BY <3>1 DEF Doing, Stands, StandsAt
    <3> QED BY <3>1, <3>2 DEF StepsTo
  <2> QED BY <2>1, <2>2, <2>3
<1>8. StandsAt(p, l, code)
  BY <1>2, <1>3, <1>7 DEF StandsAt, Working, Done, ForAll, OnList
<1> QED BY <1>1, <1>4, <1>7, <1>8, OnlyMoves DEF Doing

\* Start adds the one node that was missing, stop takes the one that was there.
LEMMA ChangeOn ==
    ASSUME KmallocFails = FALSE, Listing, NEW p, Doing(p), ChangeList(p)
    PROVE  PassOn(p)
<1> DEFINE q == Pid(p)
           n == Named(q, line)
<1>1. /\ pc[p] = "in_pids" /\ Go(p, "unlock_pids")
      /\ \/ Cmd(p) = "start" /\ add_pid_sysc(q, Syscall(p))
         \/ Cmd(p) = "stop" /\ del_pid_sysc(q, Syscall(p))
  BY DEF ChangeList, At, Doing
<1>2. /\ call[p].ret = "ok" /\ Now.ret = "ok" /\ q \in {Guest, Init_pid} /\ Syscall(p) = NR_open
      /\ Now.cmd \in {"start", "stop"} /\ Cmd(p) = Now.cmd /\ q = Now.pid
  BY <1>1, ForOneAsks DEF Doing, Stands, StandsAt, OnList, ForOne
<1>3. Placed /\ p \in Procs /\ Now.by = p /\ p \in {Tester, Guest} /\ AnswerOK(line, Now)
      /\ LineOK(line, Now) /\ NR_open \in Table /\ {Guest, Init_pid} \subseteq Procs
  BY WhereTyped, Numbers DEF Doing, Busy
<1>4. StandsAt(p, "unlock_pids", "ok") /\ StepsTo(p, "unlock_pids", "ok")
  <2>1. q = IF p = Guest THEN Guest ELSE Init_pid
    BY <1>1 DEF Doing, Stands, StandsAt, OnList
  <2> QED BY <1>1, <1>2, <2>1 DEF StandsAt, StepsTo, Working, Done, ForAll, OnList
<1>5. Stands(p)' /\ pc'[p] = "unlock_pids"
  BY <1>3, <1>4, StandsThere DEF Doing
<1>6. /\ \A x \in Table, r \in Procs : r # q => my_list'[x][r] = my_list[x][r]
      /\ Marks' /\ \A x \in Table : monitored'[x] = 2 => monitored[x] = 2
  <2>1. Marks /\ Cmd(p) # "exit"
    BY DEF Doing, PassInv, MarkInv, Marks
  <2>2. Whose(p) = q
    BY <2>1 DEF Whose
  <2> QED BY <1>3, <2>1, <2>2, OneTouched
<1>7. MarkInv'
  <2>1. monitored[NR_open] # 2
    BY <1>1, NotMarked DEF Doing, PassInv
  <2> QED BY <1>3, <1>6, <2>1 DEF MarkInv, Marks
<1>8. CountInv'
  <2> SUFFICES ASSUME line <= 33, NEW r \in {Guest, Init_pid}
               PROVE  my_list'[NR_open][r] = Named(r, line + 1)
    <3>1. Now' = Now
      BY DEF Doing, Now, Finished
    <3> QED BY <1>3, <1>5, <3>1 DEF CountInv, Late, Doing
  <2>1. my_list[NR_open][r] = Named(r, line)
    BY <1>1, <1>3 DEF Doing, PassInv, CountInv, Late
  <2>2. Named(r, line + 1) = IF q = r THEN (IF Now.cmd = "start" THEN 1 ELSE 0) ELSE Named(r, line)
    BY <1>2, <1>3 DEF AnswerOK
  <2>3. CASE r # q
    BY <1>3, <1>6, <2>1, <2>2, <2>3
  <2>4. CASE r = q
    <3>1. n = IF Now.cmd = "start" THEN 0 ELSE 1
      <4>1. q # -2 /\ q # 0
        BY <1>2, Numbers
      <4>2. ~(q = Guest /\ line \notin GuestLines) /\ ~(Now.by = Guest /\ q # Guest)
        BY <1>2, <1>3, <4>1 DEF AnswerOK
      <4> HIDE DEF q, n
      <4>3. Now.ret = IF Named(q, line) = (IF Now.cmd = "start" THEN 0 ELSE 1) THEN "ok"
                      ELSE IF Now.cmd = "start" THEN "EBUSY" ELSE "EINVAL"
        BY <1>2, <1>3, <4>1, <4>2 DEF AnswerOK
      <4>4. Named(q, line) = IF Now.cmd = "start" THEN 0 ELSE 1
        BY <1>2, <4>3
      <4> QED BY <4>4 DEF n
    <3>2. my_list[NR_open][q] = n
      BY <2>1, <2>4
    <3>3. CASE Cmd(p) = "start"
      <4>1. my_list' = [my_list EXCEPT ![NR_open][q] = my_list[NR_open][q] + 1]
        BY <1>1, <1>2, <3>3 DEF add_pid_sysc
      <4>2. my_list'[NR_open][q] = 1
        <5> HIDE DEF q, n
        <5>1. NR_open \in Table /\ q \in Procs
          BY <1>2, <1>3
        <5>2. my_list'[NR_open][q] = my_list[NR_open][q] + 1
          BY <4>1, <5>1 DEF Listing
        <5>3. n = 0
          BY <1>2, <3>1, <3>3
        <5> QED BY <3>2, <5>2, <5>3
      <4> QED BY <1>2, <2>2, <2>4, <3>3, <4>2
    <3>4. CASE Cmd(p) = "stop"
      <4>1. Listed(NR_open, q)
        BY <1>2, <3>1, <3>2, <3>4 DEF Listed
      <4>2. my_list' = [my_list EXCEPT ![NR_open][q] = my_list[NR_open][q] - 1]
        BY <1>1, <1>2, <3>4, <4>1 DEF del_pid_sysc
      <4>3. my_list'[NR_open][q] = 0
        <5> HIDE DEF q, n
        <5>1. NR_open \in Table /\ q \in Procs
          BY <1>2, <1>3
        <5>2. my_list'[NR_open][q] = my_list[NR_open][q] - 1
          BY <4>2, <5>1 DEF Listing
        <5>3. n = 1
          BY <1>2, <3>1, <3>4
        <5> QED BY <3>2, <5>2, <5>3
      <4> QED BY <1>2, <2>2, <2>4, <3>4, <4>3
    <3> QED BY <1>2, <3>3, <3>4
  <2> QED BY <2>3, <2>4
<1> QED BY <1>5, <1>7, <1>8 DEF PassOn

LEMMA DoingOn ==
    ASSUME KmallocFails = FALSE, EntriesInv, Listing, NEW p, Doing(p), Continue(p), ~Oops,
           pc[p] # "return"
    PROVE  PassOn(p)
<1>1. ~ChangeBlackList(p) /\ ~orig_exit_group(p) /\ ~Leave(p)
  <2>1. pc[p] # "change_black"
    BY DEF Doing, Stands, StandsAt
  <2>2. pc[p] # "dying"
    BY DEF Doing, Busy, Route, Cmd, Looking, ForOne, ForAll, Working, Done
  <2> QED BY <2>1, <2>2 DEF ChangeBlackList, orig_exit_group, Leave, At
<1>2. CASE ClearMonitored(p)
  BY <1>2, ReleaseOn, AllOn DEF ClearMonitored
<1>3. CASE SetMonitored(p)
  <2>1. At(p, "set_all") \/ At(p, "set_some")
    BY <1>3 DEF SetMonitored
  <2> QED BY <1>3, <2>1, AllOn, SomeOn
<1>4. CASE check_pid_from_list(p) \/ ReadMode(p) \/ SearchList(p) \/ LockPids(p) \/ UnlockPids(p) \/ ChangeList(p)
  BY <1>4, OwnerOn, ModeOn, ListOn, LockOn, ChangeOn
<1>5. CASE InterceptorMode(p) \/ InterceptorLog(p) \/ Forward(p)
  BY <1>5, LookOn
<1>6. CASE ReleaseList(p) \/ DestroyForAll(p)
  BY <1>6, ReleaseOn, AllOn
<1>7. CASE \/ SaveOriginal(p) \/ FlagIntercepted(p) \/ SwitchToInterceptor(p) \/ RestoreOriginal(p)
           \/ ClearIntercepted(p) \/ ForgetOriginal(p) \/ LockCalls(p) \/ set_addr_rw(p)
           \/ set_addr_ro(p) \/ UnlockCalls(p)
  BY <1>7, WorkOn
<1> QED BY <1>1, <1>2, <1>3, <1>4, <1>5, <1>6, <1>7 DEF Continue

\* The guest ends: the nodes it loses are none that count.
LEMMA EndOn ==
    ASSUME Listing, NEW p, WhereInv, PassInv, Busy(p), Cmd(p) = "exit", Continue(p), UNCHANGED line
    PROVE  MarkInv' /\ CountInv'
<1>1. /\ p = Guest /\ p \in Procs /\ Now.by = p /\ Now.cmd = "exit" /\ line \in {23, 30, 34}
      /\ Guest # Tester /\ Guest # Init_pid /\ {Guest, Init_pid} \subseteq Procs /\ NR_open \in Table
      /\ pc[p] \in Dying
  <2>1. Now.cmd = "exit" /\ p = Guest /\ AnswerOK(line, Now) /\ Now.by = p /\ p \in Procs
        /\ Route(call[p], pc[p])
    BY DEF Busy, Asks, Cmds
  <2>2. line \in {23, 30, 34} /\ pc[p] \in Dying
    BY <2>1 DEF AnswerOK, Route, Cmd
  <2> QED BY <2>1, <2>2, Numbers
<1>2. Keeps
  BY <1>1, KeepsNodes DEF Busy
<1>3. monitored[NR_open] # 2 /\ Marks
  BY <1>1, NotMarked DEF PassInv, MarkInv, Marks, Dying
<1>4. CASE ChangeList(p)
  <2>1. del_pid(p) /\ Whose(p) = p
    BY <1>4 DEF ChangeList, Whose
  <2>2. /\ \A x \in Table, r \in Procs : r # p => my_list'[x][r] = my_list[x][r]
        /\ Marks' /\ \A x \in Table : monitored'[x] = 2 => monitored[x] = 2
    BY <1>1, <1>3, <1>4, <2>1, OneTouched
  <2>3. my_list'[NR_open][Guest] \in {0, my_list[NR_open][Guest]}
    BY <1>1, <2>1 DEF del_pid, Listing
  <2>4. line <= 33 => my_list[NR_open][Guest] = 0
    <3>1. line <= 33 => Named(Guest, line) = 0 /\ Named(Guest, line + 1) = 0
      BY <1>1 DEF Named
    <3> QED BY <3>1 DEF PassInv, CountInv
  <2>5. line <= 33 => \A r \in {Guest, Init_pid} : my_list'[NR_open][r] = my_list[NR_open][r]
    BY <1>1, <2>2, <2>3, <2>4
  <2>6. CountInv'
    <3>1. Now' = Now
      BY DEF Now, Finished
    <3> QED BY <1>2, <2>5, <3>1 DEF PassInv, CountInv, Keeps
  <2> QED BY <1>1, <1>3, <2>2, <2>6 DEF MarkInv, Marks
<1>5. CASE ~ChangeList(p)
  <2>1. UNCHANGED <<my_list, monitored>>
    <3>1. ~(ReleaseList(p) \/ DestroyForAll(p) \/ ChangeBlackList(p) \/ ClearMonitored(p) \/ SetMonitored(p))
      BY <1>1 DEF ReleaseList, DestroyForAll, ChangeBlackList, ClearMonitored, SetMonitored, At, Dying
    <3> QED BY <1>1, <1>5, <3>1, Idling
  <2>2. CountInv'
    BY <1>1, <1>2, <2>1, CountKept DEF PassInv
  <2> QED BY <1>3, <2>1, <2>2 DEF MarkInv, Marks
<1> QED BY <1>4, <1>5

\* What may be on after the line was on before it, but for what the line intercepts.
LEMMA MayCome ==
    ASSUME AnswerOK(line, Now), ~(Now.by = Tester /\ Now.cmd = "intercept")
    PROVE  MayBeOn(line + 1) \subseteq MayBeOn(line)
BY DEF AnswerOK

\* The calls that are intercepted stay so until the line that releases them.
LEMMA FlagGoes ==
    ASSUME EntriesInv, WhereInv, PassInv, NEW p, Busy(p), Cmd(p) = "exit" \/ Stands(p), Continue(p), NEW l,
           Goes(p, l), pc[p] # "return", UNCHANGED line
    PROVE  FlagInv'
<1>0. /\ p \in Procs /\ p \in {Tester, Guest} /\ Now.by = p /\ AnswerOK(line, Now) /\ Placed /\ Domains
      /\ Route(call[p], pc[p]) /\ Tester # Guest /\ Tester \in Procs /\ pc[p] # "idle"
      /\ FlagInv
  BY WhereTyped, Numbers DEF Busy, EntriesInv, Domains, PassInv
<1>1. CASE p = Guest
  <2>1. pc[p] \notin Working
    BY <1>0, <1>1, PrivilegedTester DEF Working, Privileged, InCalls
  <2>2. UNCHANGED intercepted /\ pc'[Tester] = pc[Tester] /\ pc[Tester] = "idle"
    BY <1>0, <1>1, <2>1, EntriesKept DEF Entries, Goes, Placed, Busy
  <2> QED BY <1>0, <2>2 DEF FlagInv, Surely
<1>2. CASE p = Tester
  <2>1. /\ Asks(p) /\ Cmd(p) = Now.cmd /\ Syscall(p) = Now.syscall /\ Now.cmd \in Cmds \union {"unknown"}
        /\ Cmd(p) # "exit" /\ Stands(p)
    <3>1. Asks(p) /\ Now.cmd \in Cmds \union {"unknown"}
      BY <1>0, <1>2 DEF Busy
    <3> QED BY <3>1 DEF Asks, Cmds
  <2>2. l # "idle" /\ pc'[p] = l /\ SameCall(p)
    <3>1. pc[p] # "dying"
      BY <1>0, <2>1 DEF Route, Cmd, Cmds, ForOne, ForAll, Working, Done
    <3> QED BY <1>0, <3>1 DEF Goes, Follows, Placed
  <2> DEFINE s == Syscall(p)
             off == IF Cmd(p) = "release" THEN {s} ELSE {}
  <2>3. Surely = IF pc[p] \in Done THEN MayBeOn(line + 1) ELSE MayBeOn(line) \ off
    BY <1>0, <1>2 DEF Surely
  <2>4. Surely' = IF l \in Done THEN MayBeOn(line + 1) ELSE MayBeOn(line) \ off
    BY <1>2, <2>2 DEF Surely, SameCall
  <2> HIDE DEF s, off
  <2>5. CASE pc[p] \in Working
    <3>1. Expected(p)
      BY <1>2, <2>5 DEF EntriesInv
    <3>2. PICK k : Go(p, k) /\ Leaves(p, k)
      BY <1>0, <2>5, <3>1, Works
    <3>3. k = l
      BY <1>0, <2>2, <3>2 DEF Go, Placed
    <3>4. s \in Table /\ Valid(s) /\ Cmd(p) \in {"intercept", "release"} /\ Now.ret = "ok"
      <4>1. pc[p] \in Privileged
        BY <2>5 DEF Working, Privileged, InCalls
      <4>2. Valid(s)
        BY <1>0, <4>1 DEF WhereInv, Place, Valid, s
      <4>3. Now.ret = "ok"
        BY <2>1, <2>5 DEF Stands, StandsAt, Working
      <4> QED BY <3>1, <4>2, <4>3 DEF Expected, s
    <3>5. \A x \in Table : x # s => intercepted'[x] = intercepted[x]
      BY <3>2 DEF Leaves, s
    <3>6. Surely = MayBeOn(line) \ off
      BY <2>3, <2>5 DEF Working, Done
    <3>7. MayBeOn(line) \subseteq Table /\ MayBeOn(line + 1) \subseteq Table
      BY Numbers DEF MayBeOn
    <3>8. Cmd(p) = "intercept" => s \notin MayBeOn(line)
      BY <1>0, <2>1, <3>4 DEF AnswerOK, s
    <3>9. Cmd(p) = "release" => s \notin MayBeOn(line + 1)
      BY <1>0, <1>2, <2>1, <3>4 DEF AnswerOK, s
    <3>10. CASE l \in Working
      <4>1. Surely' = Surely /\ s \notin Surely
        BY <2>4, <3>4, <3>6, <3>8, <3>10 DEF Working, Done, off
      <4> QED BY <1>0, <3>5, <3>6, <3>7, <4>1 DEF FlagInv
    <3>11. CASE l \notin Working
      <4>1. l = "set_ro" /\ Surely' = MayBeOn(line + 1)
        BY <2>4, <3>2, <3>3, <3>11 DEF Leaves, Done
      <4>2. CASE Cmd(p) = "release"
        <5>1. MayBeOn(line + 1) \subseteq MayBeOn(line)
          BY <1>0, <2>1, <4>2, MayCome
        <5>2. \A x \in Surely' : x # s /\ x \in Surely
          BY <3>6, <3>9, <4>1, <4>2, <5>1 DEF off
        <5> QED BY <1>0, <3>5, <3>7, <4>1, <5>2 DEF FlagInv
      <4>3. CASE Cmd(p) = "intercept"
        <5>1. intercepted'[s]
          <6>1. pc[p] = "switch"
            <7>1. pc[p] \in {"switch", "forget"}
              BY <4>1 DEF Goes, Follows
            <7> QED BY <3>1, <4>3, <7>1 DEF Expected
          <6>2. intercepted[s]
            BY <3>1, <4>3, <6>1 DEF Expected, s
          <6>3. SwitchToInterceptor(p)
            BY <1>0, <2>5, <6>1, WorkingActions DEF SaveOriginal, FlagIntercepted, RestoreOriginal,
               ClearIntercepted, ForgetOriginal, ReleaseList, LockCalls, set_addr_rw, At
          <6> QED BY <6>2, <6>3 DEF SwitchToInterceptor, table
        <5>2. \A x \in Surely' : x = s \/ x \in Surely
          BY <1>0, <2>1, <3>6, <4>1, <4>3 DEF AnswerOK, off, s
        <5> QED BY <1>0, <3>5, <3>7, <4>1, <5>1, <5>2 DEF FlagInv
      <4> QED BY <3>4, <4>2, <4>3
    <3> QED BY <3>10, <3>11
  <2>6. CASE pc[p] \notin Working
    <3>1. UNCHANGED intercepted
      BY <1>0, <2>6, EntriesKept DEF Entries
    <3>2. Surely' \subseteq Surely
      <4>1. CASE pc[p] \in Done
        <5>1. l \in Done
          BY <2>2, <4>1 DEF Goes, Follows, Done
        <5> QED BY <2>3, <2>4, <4>1, <5>1
      <4>2. CASE pc[p] \notin Done /\ l \notin Done
        BY <2>3, <2>4, <4>2
      <4>3. CASE pc[p] \notin Done /\ l \in Done
        <5>1. Cmd(p) \notin {"intercept", "release"}
          BY <1>0, <2>6, <4>3 DEF Route, Cmd
        <5>2. MayBeOn(line + 1) \subseteq MayBeOn(line)
          BY <1>0, <2>1, <5>1, MayCome
        <5> QED BY <2>3, <2>4, <4>3, <5>1, <5>2 DEF off
      <4> QED BY <4>1, <4>2, <4>3
    <3> QED BY <1>0, <3>1, <3>2 DEF FlagInv
  <2> QED BY <2>5, <2>6
<1> QED BY <1>0, <1>1, <1>2

\* A process of the test goes on in the module, and has not its answer yet.
LEMMA PassGoes ==
    ASSUME TestedCalls, KmallocFails = FALSE, WhereInv, EntriesInv, Listing, PassInv,
           NEW p \in {Tester, Guest}, Continue(p), pc[p] # "return", UNCHANGED <<line, failed>>
    PROVE  PassInv'
<1>0. p \in Procs /\ Placed
  BY WhereTyped
<1>1. CASE Oops
  BY <1>1, PassSame DEF Oops, process, table
<1>2. CASE ~Oops
  <2>1. PICK l : Goes(p, l)
    BY <1>0, <1>2, GoesOn
  <2>2. Busy(p)
    BY <2>1, BusyTest DEF Goes, Follows
  <2>3. Cmd(p) = "exit" \/ Stands(p)
    BY DEF PassInv, StandInv
  <2>4. FlagInv'
    BY <2>1, <2>2, <2>3, FlagGoes
  <2>5. (Cmd(p)' = "exit" \/ Stands(p)') /\ MarkInv' /\ CountInv'
    <3>1. CASE Cmd(p) = "exit"
      <4>1. Cmd(p)' = "exit" \/ pc'[p] = "idle"
        BY <1>0, <2>1, <3>1 DEF Goes, SameCall, Placed
      <4>2. pc'[p] = "idle" => Stands(p)'
        BY DEF Stands, StandsAt, Working, Done, ForAll, OnList
      <4> QED BY <2>2, <3>1, <4>1, <4>2, EndOn
    <3>2. CASE Cmd(p) # "exit"
      <4>1. Doing(p)
        BY <2>2, <2>3, <3>2 DEF Doing
      <4>2. PassOn(p)
        BY <1>2, <4>1, DoingOn
      <4> QED BY <4>2 DEF PassOn
    <3> QED BY <3>1, <3>2
  <2>6. ASSUME NEW q \in {Tester, Guest}, Cmd(q)' # "exit" PROVE Stands(q)'
    <3>1. CASE q = p
      BY <2>5, <2>6, <3>1
    <3>2. CASE q # p
      <4>1. pc[q] = "idle" /\ pc'[q] = pc[q]
        BY <1>0, <2>1, <2>2, <3>2, Numbers DEF Busy, Goes, Placed
      <4> QED BY <4>1 DEF Stands, StandsAt, Working, Done, ForAll, OnList
    <3> QED BY <3>1, <3>2
  <2>7. failed' = {}
    BY DEF PassInv
  <2> QED BY <2>4, <2>5, <2>6, <2>7 DEF PassInv, StandInv
<1> QED BY <1>1, <1>2

\* The answer of the checks is the one the line expects, unless it is to be found
\* later.
LEMMA CheckAnswers ==
    ASSUME TestedCalls, WhereInv, EntriesInv, FlagInv, NEW p \in {Tester, Guest}, Now.by = p, line \in 1..Lines,
           p \in alive, pc[p] = "idle", Now.cmd \in Cmds \union {"unknown"},
           NEW r, r.cmd = Now.cmd, r.syscall = Now.syscall, r.pid = Now.pid
    PROVE  /\ Check(p, r) \in {"ok", "EINVAL", "EPERM", "EBUSY"}
           /\ Check(p, r) # "ok" => Check(p, r) = Now.ret
           /\ Check(p, r) = "ok" => \/ Now.ret = "ok"
                                    \/ Now.cmd \in {"start", "stop"} /\ Now.pid # 0
<1> DEFINE s == Now.syscall
           code == Check(p, r)
<1>0. AnswerOK(line, Now) /\ LineOK(line, Now)
  BY NowAnswers, NowOK DEF WhereInv, Lines
<1>1. pc[Tester] = "idle"
  BY Numbers, TestAsks
<1>2. \A x \in MayBeOn(line) : intercepted[x]
  BY <1>1 DEF FlagInv, Surely
<1>3. \A x \in Table : x \notin MayBeOn(line) => ~intercepted[x]
  BY <1>1 DEF EntriesInv, Scope, Off
<1>4. /\ r.cmd = Now.cmd /\ r.syscall = s /\ r.pid = Now.pid
      /\ IsRoot(p) <=> p = Tester
      /\ Init_pid \in alive /\ -2 \notin alive /\ 0 \notin alive /\ (Guest \in alive => line \in GuestLines)
  BY Numbers, ProcsAssumption DEF WhereInv, IsRoot
<1>5. CASE Now.cmd = "unknown"
  <2>1. code = "EINVAL"
    BY <1>4, <1>5 DEF Check, Cmds
  <2> QED BY <1>0, <1>5, <2>1 DEF AnswerOK
<1>6. CASE Now.cmd \in {"intercept", "release"}
  <2>1. /\ Now.pid = p
        /\ Now.ret = IF ~Valid(s) THEN "EINVAL" ELSE IF p = Guest THEN "EPERM"
                     ELSE IF Now.cmd = "intercept" /\ s \in MayBeOn(line) THEN "EBUSY" ELSE "ok"
        /\ Now.cmd = "release" /\ p = Tester /\ Valid(s) => s \in MayBeOn(line)
    BY <1>0, <1>6 DEF AnswerOK, LineOK
  <2>2. CASE ~Valid(s)
    BY <1>4, <2>1, <2>2 DEF Check, Valid
  <2>3. CASE Valid(s) /\ p = Guest
    BY <1>4, <1>6, <2>1, <2>3, Numbers DEF Check, Valid, Cmds
  <2>4. CASE Valid(s) /\ p = Tester
    <3>1. intercepted[s] <=> s \in MayBeOn(line)
      BY <1>2, <1>3, <2>4 DEF Valid
    <3>2. code = IF Now.cmd = "intercept" /\ intercepted[s] THEN "EBUSY"
                 ELSE IF Now.cmd # "intercept" /\ ~intercepted[s] THEN "EINVAL" ELSE "ok"
      BY <1>4, <1>6, <2>1, <2>4, Numbers DEF Check, Valid, Cmds
    <3> QED BY <1>6, <2>1, <2>4, <3>1, <3>2, Numbers
  <2> QED BY <2>2, <2>3, <2>4
<1>7. CASE Now.cmd \in {"start", "stop"}
  <2>1. /\ s = NR_open /\ line \in 12..35 /\ Now.pid \in {-2, 0, Init_pid, Guest}
        /\ (p = Guest => line \in GuestLines)
    BY <1>0, <1>7 DEF AnswerOK, LineOK
  <2>2. Valid(s) /\ intercepted[s]
    <3>1. Valid(NR_open) /\ NR_open \in MayBeOn(line)
      BY <2>1, AnswerFacts DEF MayBe
    <3> QED BY <1>2, <2>1, <3>1
  <2>3. code = IF Now.pid # 0 /\ Now.pid \notin alive THEN "EINVAL"
               ELSE IF Now.pid = 0 /\ p # Tester THEN "EPERM" ELSE "ok"
    BY <1>4, <1>7, <2>2 DEF Check, Valid, Cmds
  <2>4. Now.pid # 0 /\ Now.pid \notin alive <=> Now.pid = -2 \/ (Now.pid = Guest /\ line \notin GuestLines)
    <3>1. line \in GuestLines => p = Guest
      BY <1>0, <1>7 DEF LineOK
    <3> QED BY <1>4, <2>1, <3>1, Numbers
  <2>5. CASE code = "EINVAL"
    BY <1>0, <1>7, <2>3, <2>4, <2>5 DEF AnswerOK
  <2>6. CASE code = "EPERM"
    BY <1>0, <1>7, <2>3, <2>4, <2>6, Numbers DEF AnswerOK
  <2>7. CASE code = "ok"
    BY <1>0, <1>7, <2>3, <2>4, <2>7, Numbers DEF AnswerOK
  <2> QED BY <2>3, <2>5, <2>6, <2>7
<1> QED BY <1>5, <1>6, <1>7 DEF Cmds

\* A request of the test begins.
LEMMA PassRequest ==
    ASSUME TestedCalls, WhereInv, EntriesInv, PassInv, NEW p \in {Tester, Guest}, Now.by = p, line \in 1..Lines,
           Now.cmd \in Cmds \union {"unknown"}, my_syscall(p), UNCHANGED <<line, failed>>,
           call'[p].cmd = Now.cmd, call'[p].syscall = Now.syscall, call'[p].pid = Now.pid
    PROVE  PassInv'
<1>0. p \in Procs /\ Placed /\ Tester # Guest /\ {Tester, Guest} \subseteq Procs /\ Now' = Now
      /\ AnswerOK(line, Now) /\ LineOK(line, Now)
  BY WhereTyped, Numbers, NowAnswers, NowOK DEF Now, Finished, WhereInv, Lines
<1>1. PICK r \in Requests :
        Start(p, [r EXCEPT !.ret = Check(p, r)], IF Check(p, r) = "ok" THEN FirstStep(r) ELSE "return")
  BY DEF my_syscall
<1> DEFINE code == Check(p, r)
           l == IF code = "ok" THEN FirstStep(r) ELSE "return"
           c == [r EXCEPT !.ret = code]
<1>2. c.cmd = r.cmd /\ c.syscall = r.syscall /\ c.pid = r.pid /\ c.ret = code
  BY DEF Requests
<1>3. Start(p, c, l)
  BY <1>1
<1> HIDE DEF c
<1>4. /\ pc[p] = "idle" /\ p \in alive /\ pc'[p] = l /\ call'[p] = c /\ UNCHANGED table
      /\ \A q \in Procs \ {p} : pc'[q] = pc[q] /\ call'[q] = call[q]
  BY <1>0, <1>3 DEF Start, At, Placed
<1>5. r.cmd = Now.cmd /\ r.syscall = Now.syscall /\ r.pid = Now.pid
  BY <1>2, <1>4
<1>6. /\ code \in {"ok", "EINVAL", "EPERM", "EBUSY"} /\ (code # "ok" => code = Now.ret)
      /\ code = "ok" => Now.ret = "ok" \/ (Now.cmd \in {"start", "stop"} /\ Now.pid # 0)
  BY <1>0, <1>4, <1>5, CheckAnswers DEF PassInv
<1>7. code = "ok" => Now.cmd \in Cmds
  BY <1>5 DEF Check
<1>8. /\ Cmd(p)' = Now.cmd /\ Pid(p)' = Now.pid /\ Syscall(p)' = Now.syscall /\ call'[p].ret = code
  BY <1>2, <1>4, <1>5 DEF Cmd, Pid, Syscall
<1>9. l = CASE code # "ok"                             -> "return"
            [] code = "ok" /\ Now.cmd = "intercept"    -> "save"
            [] code = "ok" /\ Now.cmd = "release"      -> "lock_calls"
            [] code = "ok" /\ Now.cmd = "start" /\ Now.pid = 0 -> "destroy_all"
            [] code = "ok" /\ Now.cmd = "stop" /\ Now.pid = 0  -> "clear_all"
            [] OTHER                                   -> "owner"
  BY <1>5, <1>6, <1>7 DEF FirstStep, Cmds
<1>10. \A q \in {Tester, Guest} \ {p} : pc[q] = "idle"
  BY TestAsks
<1> HIDE DEF code, l
<1>11. Stands(p)'
  <2>1. Now.cmd \in {"start", "stop"} /\ Now.pid # 0 /\ code = "ok" => l = "owner"
    BY <1>9
  <2>2. l \notin {"return", "owner"} => Now.ret = "ok" /\ code = "ok"
    BY <1>6, <1>9, <2>1
  <2>3. l \in {"return", "owner", "save", "lock_calls", "destroy_all", "clear_all"} /\ Now.cmd # "call"
        /\ (l = "return" => code = Now.ret) /\ (l = "owner" => code = "ok")
        /\ (l = "clear_all" => Now.cmd = "stop")
    BY <1>6, <1>9 DEF Cmds
  <2> QED BY <1>0, <1>4, <1>8, <2>2, <2>3 DEF Stands, StandsAt, Working, Done, ForAll, OnList
<1>12. StandInv'
  <2>1. ASSUME NEW q \in {Tester, Guest}, q # p PROVE Stands(q)'
    <3>1. pc'[q] = "idle"
      BY <1>0, <1>4, <1>10, <2>1
    <3> QED BY <3>1 DEF Stands, StandsAt, Working, Done, ForAll, OnList
  <2> QED BY <1>11, <2>1 DEF StandInv
<1>13. CountInv'
  <2>1. l \in Late => l = "return" /\ Now.ret # "ok"
    BY <1>6, <1>9 DEF Late
  <2>2. Keeps \/ l \notin Late
    BY <1>0, <2>1, KeepsNodes
  <2>3. pc[p] \notin Late
    BY <1>4 DEF Late
  <2> QED BY <1>0, <1>4, <2>2, <2>3, CountKept DEF PassInv, table
<1>14. MarkInv'
  <2>1. UNCHANGED monitored /\ MarkInv
    BY <1>4 DEF table, PassInv
  <2> SUFFICES ASSUME monitored[NR_open] = 2
               PROVE  line = 26 /\ pc'[Tester] = "clear_all"
    BY <2>1 DEF MarkInv
  <2>2. pc[Tester] = "idle"
    BY <1>4, <1>10
  <2>3. line = 26
    BY <2>1, <2>2 DEF MarkInv
  <2>4. p = Tester /\ Now.pid = 0 /\ Now.cmd = "stop"
    BY <1>0, <2>3 DEF AnswerOK
  <2>5. code = "ok"
    <3>1. Now.ret = "ok"
      BY <1>0, <2>4, Numbers DEF AnswerOK
    <3> QED BY <1>6, <3>1
  <2>6. l = "clear_all"
    BY <1>9, <2>4, <2>5
  <2> QED BY <1>4, <2>3, <2>4, <2>6
<1>15. FlagInv'
  <2>1. UNCHANGED intercepted /\ FlagInv
    BY <1>4 DEF table, PassInv
  <2>2. Surely = MayBeOn(line)
    BY <1>4, <1>10 DEF Surely
  <2>3. CASE p = Guest
    <3>1. pc'[Tester] = pc[Tester] /\ call'[Tester] = call[Tester]
      BY <1>0, <1>4, <2>3
    <3>2. Surely' = Surely
      BY <3>1 DEF Surely, Cmd, Syscall
    <3> QED BY <2>1, <3>2 DEF FlagInv
  <2>4. CASE p = Tester /\ l # "return"
    <3>1. l \notin Done /\ l # "idle"
      BY <1>9, <2>4 DEF Done
    <3>2. Surely' \subseteq MayBeOn(line)
      BY <1>4, <2>4, <3>1 DEF Surely
    <3> QED BY <2>1, <2>2, <3>2 DEF FlagInv
  <2>5. CASE p = Tester /\ l = "return"
    <3>1. Surely' = MayBeOn(line + 1)
      BY <1>4, <2>5 DEF Surely, Done
    <3>2. Now.ret # "ok" /\ code = Now.ret
      BY <1>6, <1>9, <2>5
    <3>3. ASSUME NEW x \in MayBeOn(line + 1) PROVE x \in MayBeOn(line)
      <4>1. x \in MayBeOn(line) \/ (Now.cmd = "intercept" /\ x = Now.syscall)
        BY <1>0, <2>5, <3>3 DEF AnswerOK
      <4>2. Valid(x)
        BY <3>3, Numbers DEF MayBeOn, Valid
      <4>3. Now.cmd = "intercept" /\ x = Now.syscall => x \in MayBeOn(line)
        BY <1>0, <2>5, <3>2, <4>2, Numbers DEF AnswerOK
      <4> QED BY <4>1, <4>3
    <3> QED BY <2>1, <2>2, <3>1, <3>3 DEF FlagInv
  <2> QED BY <2>3, <2>4, <2>5
<1> QED BY <1>12, <1>13, <1>14, <1>15 DEF PassInv

\* The guest's call begins, and the guest's end.
LEMMA PassEnters ==
    ASSUME TestedCalls, WhereInv, PassInv, Now.by = Guest, line \in 1..Lines, NEW c, NEW l, Start(Guest, c, l),
           UNCHANGED <<line, failed>>,
           \/ l = "look" /\ c.cmd = "call" /\ c.syscall = NR_open
           \/ l = "lock_pids" /\ c.cmd = "exit"
    PROVE  PassInv'
<1>0. Placed /\ Tester # Guest /\ {Tester, Guest} \subseteq Procs /\ Now' = Now
  BY WhereTyped, Numbers DEF Now, Finished
<1>1. /\ pc[Guest] = "idle" /\ pc'[Guest] = l /\ call'[Guest] = c /\ UNCHANGED table
      /\ pc'[Tester] = pc[Tester] /\ call'[Tester] = call[Tester]
  BY <1>0 DEF Start, At, Placed
<1>2. pc[Tester] = "idle"
  BY <1>0, TestAsks
<1>3. FlagInv' /\ MarkInv'
  BY <1>1, <1>2 DEF PassInv, FlagInv, Surely, MarkInv, table
<1>4. CountInv'
  BY <1>1, CountKept DEF PassInv, Late, table
<1>5. StandInv'
  <2>1. Stands(Tester)'
    BY <1>1, <1>2 DEF Stands, StandsAt, Working, Done, ForAll, OnList
  <2>2. CASE l = "look"
    <3>1. Cmd(Guest)' = "call" /\ Syscall(Guest)' = NR_open
      BY <1>1, <2>2 DEF Cmd, Syscall
    <3> QED BY <1>1, <2>1, <2>2, <3>1 DEF StandInv, Stands, StandsAt, Working, Done, ForAll, OnList
  <2>3. CASE c.cmd = "exit"
    <3>1. Cmd(Guest)' = "exit"
      BY <1>1, <2>3 DEF Cmd
    <3> QED BY <2>1, <3>1 DEF StandInv
  <2> QED BY <2>2, <2>3
<1> QED BY <1>3, <1>4, <1>5 DEF PassInv

\* The test goes to its next line, and its processes are in user mode.
LEMMA PassNextLine ==
    ASSUME WhereInv, line \in 1..Lines, line' = line + 1, failed' = {}, UNCHANGED table,
           pc'[Tester] = "idle", pc'[Guest] = "idle",
           \A s \in MayBeOn(line + 1) : intercepted[s],
           monitored \in [Table -> {0, 1, 2}], monitored[NR_open] = 2 => line = 25,
           line <= 32 => \A q \in {Guest, Init_pid} : my_list[NR_open][q] = Named(q, line + 1)
    PROVE  PassInv'
<1>1. FlagInv'
  BY DEF FlagInv, Surely, table
<1>2. MarkInv'
  BY DEF MarkInv, table
<1>3. CountInv'
  <2> SUFFICES ASSUME line + 1 <= 33, NEW q \in {Guest, Init_pid}
               PROVE  my_list'[NR_open][q] = Named(q, IF pc'[Now'.by] \in Late THEN line + 1 + 1 ELSE line + 1)
    BY DEF CountInv
  <2>1. Now'.by \in {Tester, Guest}
    <3>1. line + 1 \in 1..Lines /\ Len(main) = Lines /\ LineOK(line + 1, main[line + 1])
      BY ScriptHolds DEF Script, Lines
    <3>2. Now' = main[line + 1]
      BY <3>1 DEF Now, Finished, Lines
    <3> QED BY <3>1, <3>2 DEF LineOK
  <2>2. pc'[Now'.by] \notin Late
    BY <2>1 DEF Late
  <2> QED BY <2>2 DEF table
<1>4. StandInv'
  BY DEF StandInv, Stands, StandsAt, Working, Done, ForAll, OnList
<1> QED BY <1>1, <1>2, <1>3, <1>4 DEF PassInv

\* A line that no process of the test is in the module for.
LEMMA PassSkips ==
    ASSUME TestedCalls, WhereInv, PassInv, Now.cmd \in {"insmod", "rmmod", "fork", "exit"},
           pc[Tester] = "idle", pc[Guest] = "idle", line' = line + 1, UNCHANGED <<process, table, failed>>
    PROVE  PassInv'
<1>1. line \in 1..Lines
  BY NowLine
<1>2. AnswerOK(line, Now)
  BY <1>1, NowAnswers
<1>3. \A s \in MayBeOn(line + 1) : intercepted[s]
  <2>1. MayBeOn(line + 1) \subseteq MayBeOn(line)
    BY <1>2, MayCome
  <2>2. Surely = MayBeOn(line)
    BY DEF Surely
  <2> QED BY <2>1, <2>2 DEF PassInv, FlagInv
<1>4. monitored \in [Table -> {0, 1, 2}] /\ (monitored[NR_open] = 2 => line = 25)
  <2>1. line # 26
    BY <1>2 DEF AnswerOK
  <2> QED BY <2>1 DEF PassInv, MarkInv
<1>5. line <= 32 => \A q \in {Guest, Init_pid} : my_list[NR_open][q] = Named(q, line + 1)
  <2>1. Keeps
    BY <1>2, KeepsNodes
  <2>2. Now.by \in {Tester, Guest}
    BY NowBy
  <2> QED BY <1>1, <2>1, <2>2 DEF PassInv, CountInv, Keeps, Late, Lines
<1> QED BY <1>1, <1>3, <1>4, <1>5, PassNextLine DEF process, PassInv

\* The answer is the one the line expects.
LEMMA PassAnswer ==
    ASSUME TestedCalls, WhereInv, PassInv, NEW p \in Procs, Answer(p)
    PROVE  PassInv'
<1>1. /\ p = Now.by /\ pc[p] = "return" /\ pc' = [pc EXCEPT ![p] = "idle"] /\ UNCHANGED table
      /\ line' = line + 1 /\ failed' = IF call[p].ret = Now.ret THEN failed ELSE failed \union {line}
  BY DEF Answer, Leave, At, NextLine
<1>2. p \in {Tester, Guest} /\ Placed /\ {Tester, Guest} \subseteq Procs /\ Tester # Guest
  BY <1>1, NowBy, WhereTyped, Numbers
<1>3. Busy(p)
  BY <1>1, <1>2, BusyTest
<1>4. AnswerOK(line, Now) /\ line \in 2..36 /\ \A q \in {Tester, Guest} \ {p} : pc[q] = "idle"
  BY <1>3 DEF Busy
<1>5. Stands(p)
  <2>1. Cmd(p) # "exit"
    <3>1. Route(call[p], "return")
      BY <1>1, <1>3 DEF Busy
    <3> QED BY <3>1 DEF Route, Cmd, Dying
  <2> QED BY <1>2, <2>1 DEF PassInv, StandInv
<1>6. failed' = {}
  BY <1>1, <1>5 DEF Stands, StandsAt, PassInv
<1>7. pc'[Tester] = "idle" /\ pc'[Guest] = "idle"
  BY <1>1, <1>2, <1>4 DEF Placed
<1>8. \A s \in MayBeOn(line + 1) : intercepted[s]
  <2>1. CASE p = Tester
    <3>1. Surely = MayBeOn(line + 1)
      BY <1>1, <2>1 DEF Surely, Done
    <3> QED BY <3>1 DEF PassInv, FlagInv
  <2>2. CASE p = Guest
    <3>1. pc[Tester] = "idle"
      BY <1>2, <1>4, <2>2
    <3>2. MayBeOn(line + 1) \subseteq MayBeOn(line)
      BY <1>1, <1>2, <1>4, <2>2, MayCome
    <3>3. Surely = MayBeOn(line)
      BY <3>1 DEF Surely
    <3> QED BY <3>2, <3>3 DEF PassInv, FlagInv
  <2> QED BY <1>2, <2>1, <2>2
<1>9. monitored \in [Table -> {0, 1, 2}] /\ (monitored[NR_open] = 2 => line = 25)
  <2>1. MarkInv
    BY DEF PassInv
  <2>2. line = 26 => p = Tester
    BY <1>1, <1>4 DEF AnswerOK
  <2> QED BY <1>1, <2>1, <2>2 DEF MarkInv
<1>10. line <= 32 => \A q \in {Guest, Init_pid} : my_list[NR_open][q] = Named(q, line + 1)
  BY <1>1, <1>4 DEF PassInv, CountInv, Late
<1> QED BY <1>1, <1>4, <1>6, <1>7, <1>8, <1>9, <1>10, PassNextLine DEF Lines

\* Only the unloading changes a list, and then no line is left that counts.
LEMMA PassLoad ==
    ASSUME WhereInv, LoadInv, PassInv, Load, UNCHANGED test
    PROVE  PassInv'
<1>1. UNCHANGED <<process, line, failed, intercepted>>
  BY LoadSteps DEF test, Entries
<1>2. CASE DestroyLists
  <2>1. monitored' = [s \in Table |-> 0] /\ loader = "exit_destroy"
    BY <1>2 DEF DestroyLists, Loads
  <2>2. line = Lines
    BY <2>1 DEF LoadInv, Unloading
  <2>3. monitored' \in [Table -> {0, 1, 2}] /\ monitored'[NR_open] = 0
    BY <2>1, Numbers
  <2> QED BY <1>1, <2>2, <2>3, PassStays DEF process, Lines
<1>3. CASE ~DestroyLists
  <2>1. UNCHANGED table
    BY <1>3 DEF Load, LoaderLocksCalls, LoaderSetsRw, SaveEntry, HijackEntry, RestoreEntry, LoaderSetsRo,
       LoaderUnlocksCalls, LoaderLocksPids, InitLists, LoaderUnlocksPids, SpinLockInit, vars
  <2> QED BY <1>1, <2>1, PassSame
<1> QED BY <1>2, <1>3

LEMMA PassProgram ==
    ASSUME TestedCalls, WhereInv, EntriesInv, PassInv, Program
    PROVE  PassInv'
<1>0. {Tester, Guest} \subseteq Procs
  BY Numbers
<1>1. CASE Insert \/ Remove
  BY <1>1, PassSame DEF Insert, Remove, Insmod, Rmmod, test, vars
<1>2. CASE Loaded
  <2>1. Now.cmd \in {"insmod", "rmmod"} /\ line' = line + 1 /\ UNCHANGED <<process, table, failed>>
    BY <1>2 DEF Loaded, NextLine, vars
  <2>2. pc[Tester] = "idle" /\ pc[Guest] = "idle"
    BY <2>1, WhereIdle DEF Cmds
  <2> QED BY <2>1, <2>2, PassSkips
<1>3. CASE Ask
  <2>1. Now.cmd \in Cmds \union {"unknown", "call"} /\ UNCHANGED <<line, failed>>
    BY <1>3 DEF Ask, test
  <2>2. line \in 1..Lines /\ LineOK(line, Now) /\ AnswerOK(line, Now)
    BY <2>1, NowLine, NowAnswers DEF Cmds
  <2>3. Now.by \in {Tester, Guest}
    BY NowBy
  <2>4. CASE Now.cmd # "call"
    <3>1. /\ my_syscall(Now.by) /\ call'[Now.by].cmd = Now.cmd /\ call'[Now.by].syscall = Now.syscall
          /\ call'[Now.by].pid = Now.pid
      BY <1>3, <2>4 DEF Ask, Request
    <3> QED BY <2>1, <2>2, <2>3, <2>4, <3>1, PassRequest
  <2>5. CASE Now.cmd = "call"
    <3>1. Now.by = Guest /\ Now.syscall = NR_open
      BY <2>2, <2>5 DEF LineOK, AnswerOK
    <3>2. SystemCall(Guest) /\ call'[Guest].syscall = NR_open
      BY <1>3, <2>5, <3>1 DEF Ask, Call, Cmds
    <3>3. PICK s \in Asked : Start(Guest, [NoCall EXCEPT !.cmd = "call", !.syscall = s], "look")
      BY <3>2 DEF SystemCall
    <3> DEFINE c == [NoCall EXCEPT !.cmd = "call", !.syscall = s]
    <3>4. c.cmd = "call" /\ c.syscall = s
      BY DEF NoCall
    <3>5. Start(Guest, c, "look")
      BY <3>3
    <3> HIDE DEF c
    <3>6. call'[Guest] = c
      BY <1>0, <3>5, WhereTyped DEF Start, Placed
    <3>7. c.syscall = NR_open
      BY <3>2, <3>6
    <3> QED BY <2>1, <2>2, <3>1, <3>4, <3>5, <3>7, PassEnters
  <2> QED BY <2>1, <2>4, <2>5
<1>4. CASE Begin
  <2>1. Now.cmd = "fork" /\ line' = line + 1 /\ UNCHANGED <<process, table, failed>>
    BY <1>4 DEF Begin, Fork, NextLine
  <2>2. pc[Tester] = "idle" /\ pc[Guest] = "idle"
    BY <2>1, WhereIdle DEF Cmds
  <2> QED BY <2>1, <2>2, PassSkips
<1>5. CASE End
  <2>1. Now.cmd = "exit" /\ line \in 1..Lines /\ LineOK(line, Now)
    BY <1>5, NowLine DEF End
  <2>2. Now.by = Guest
    BY <2>1 DEF LineOK
  <2>3. CASE exit_group(Guest) /\ UNCHANGED test
    <3>1. CASE my_exit_group(Guest)
      <4> DEFINE c == [NoCall EXCEPT !.cmd = "exit"]
      <4>1. c.cmd = "exit" /\ Start(Guest, c, "lock_pids")
        BY <3>1 DEF my_exit_group, NoCall
      <4> HIDE DEF c
      <4> QED BY <2>1, <2>2, <2>3, <4>1, PassEnters DEF test
    <3>2. CASE ~my_exit_group(Guest)
      BY <2>3, <3>2, PassSame DEF exit_group, test
    <3> QED BY <3>1, <3>2
  <2>4. CASE Guest \notin alive /\ NextLine /\ UNCHANGED <<vars, failed>>
    <3>1. line' = line + 1 /\ UNCHANGED <<process, table, failed>>
      BY <2>4 DEF NextLine, vars
    <3>2. pc[Guest] = "idle"
      BY <1>0, <2>4 DEF WhereInv, Place
    <3>3. pc[Tester] = "idle"
      BY <2>2, TestAsks, Numbers
    <3> QED BY <2>1, <3>1, <3>2, <3>3, PassSkips
  <2> QED BY <1>5, <2>3, <2>4 DEF End
<1> QED BY <1>1, <1>2, <1>3, <1>4, <1>5 DEF Program

\* A bystander begins or ends.
LEMMA PassBystander ==
    ASSUME WhereInv, PassInv, NEW p \in Bystanders, Bystander(p)
    PROVE  PassInv'
<1>0. p \in Procs /\ p \notin {Tester, Guest} /\ Placed /\ Tester \in Procs /\ Guest \in Procs
  BY WhereTyped DEF Bystanders
<1>1. UNCHANGED <<line, failed>>
  BY DEF Bystander, test
<1>2. UNCHANGED process \/ \E l, c : Start(p, c, l)
  BY DEF Bystander, Call, SystemCall, Request, my_syscall, exit_group, my_exit_group, Fork
<1>3. UNCHANGED table
  BY DEF Bystander, Call, SystemCall, Request, my_syscall, exit_group, my_exit_group, Fork, Start
<1>4. \A q \in {Tester, Guest} : pc'[q] = pc[q] /\ call'[q] = call[q]
  BY <1>0, <1>2 DEF Start, Placed, process
<1> QED BY <1>1, <1>3, <1>4, PassStays DEF table, PassInv, MarkInv

LEMMA PassNext ==
    ASSUME TestedCalls, KmallocFails = FALSE, WhereInv, EntriesInv, LoadInv, Listing, PassInv, [TestNext]_tvars
    PROVE  PassInv'
<1>1. CASE UNCHANGED tvars
  BY <1>1, PassSame DEF tvars, system, vars, test
<1>2. CASE Load /\ UNCHANGED test
  BY <1>2, PassLoad
<1>3. ASSUME NEW p \in Procs, Inside(p) PROVE PassInv'
  <2>1. CASE (p \in Bystanders \/ ~At(p, "return")) /\ Proceed(p) /\ UNCHANGED test
    <3>1. Continue(p) /\ UNCHANGED <<line, failed>>
      BY <2>1 DEF Proceed, test
    <3>2. CASE p \in Bystanders
      BY <3>1, <3>2, PassAside
    <3>3. CASE p \in {Tester, Guest} /\ ~At(p, "return")
      <4>1. pc[p] # "return" \/ status # "up"
        BY <3>3 DEF At
      <4>2. status = "up"
        BY <3>1, WhereTyped, GoesOn DEF Goes
      <4> QED BY <3>1, <3>3, <4>1, <4>2, PassGoes
    <3> QED BY <2>1, <3>2, <3>3 DEF Bystanders
  <2>2. CASE Answer(p)
    BY <2>2, PassAnswer
  <2>3. CASE Crash(p) /\ UNCHANGED test
    BY <2>3, PassSame DEF Crash, Oops, test, process, table
  <2> QED BY <1>3, <2>1, <2>2, <2>3 DEF Inside
<1>4. CASE Tear /\ UNCHANGED test
  BY <1>4, PassSame DEF Tear, TearList, Oops, test, process, table
<1> QED BY <1>1, <1>2, <1>3, <1>4, PassProgram, PassBystander DEF TestNext

LEMMA PassInit == ASSUME TestedCalls, TestInit PROVE PassInv
<1>1. /\ intercepted = [s \in Table |-> FALSE] /\ monitored = [s \in Table |-> 0]
      /\ my_list = [s \in Table |-> [q \in Procs |-> 0]] /\ pc = [p \in Procs |-> "idle"]
      /\ line = 1 /\ failed = {}
  BY DEF TestInit, LoadInit, Fresh
<1>2. Now.by \in {Tester, Guest}
  <2>1. 1 \in 1..Lines + 1
    BY DEF Lines
  <2> QED BY <1>1, <2>1, NowOK DEF LineOK, Lines
<1>3. pc[Tester] = "idle" /\ pc[Guest] = "idle" /\ NR_open \in Table /\ {Guest, Init_pid} \subseteq Procs
  BY <1>1, Numbers
<1>4. FlagInv
  BY <1>1, <1>3, AnswerFacts DEF FlagInv, Surely, MayBe
<1>5. MarkInv
  BY <1>1, <1>3 DEF MarkInv
<1>6. CountInv
  BY <1>1, <1>2, <1>3 DEF CountInv, Late, Named
<1>7. StandInv
  BY <1>3 DEF StandInv, Stands, StandsAt, Working, Done, ForAll, OnList
<1> QED BY <1>1, <1>4, <1>5, <1>6, <1>7 DEF PassInv

\* Every request the test program makes gets the answer it expects and the guest's
\* call is logged, whatever bystanders do meanwhile (test_full.c:106-206), if both
\* calls can be intercepted and no allocation fails.
THEOREM AnswersAreExpected ==
    ASSUME TestedCalls, KmallocFails = FALSE
    PROVE  TestSpec => []TestsPass
<1>1. TestInit => PassInv
  BY PassInit
<1>2. TestInv /\ (LeftInv /\ PassInv) /\ [TestNext]_tvars => PassInv'
  BY PassNext DEF TestInv, LeftInv, ListsInv, Listing
<1>3. PassInv => TestsPass
  BY DEF PassInv, TestsPass
<1>4. TestInit => LeftInv
  BY HeldInit, ListsInit DEF LeftInv
<1>5. TestInv /\ LeftInv /\ [TestNext]_tvars => LeftInv'
  BY HeldNext, ListsNext DEF LeftInv, TestInv
<1> QED BY <1>1, <1>2, <1>3, <1>4, <1>5, TestInvariant, PTL DEF TestSpec
=============================================================================
