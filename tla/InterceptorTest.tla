-------------------------- MODULE InterceptorTest --------------------------
(***************************************************************************)
(* The program test_full.c: it loads the kernel module, makes its requests *)
(* one after the other as root and, through processes of another user, as  *)
(* a guest, compares each answer with the one it expects, and unloads the  *)
(* module.  Meanwhile bystanders make system calls, some of which the test *)
(* intercepts, and begin and end; with BystanderAsks they also ask to be   *)
(* monitored themselves.                                                   *)
(*                                                                         *)
(* do_as_guest is a process Guest that begins, follows its part of the     *)
(* program and ends through exit_group; the shell and su around it are     *)
(* bystanders, and last_child is the Guest's pid.                          *)
(***************************************************************************)
EXTENDS InterceptorLoad, Sequences

CONSTANTS Tester, Guest,    \* the processes of the test
          Init_pid,         \* pid 1, which never ends
          NR_exit, NR_open, \* the system calls it intercepts
          BystanderAsks

ASSUME TestAssumption ==
    /\ {Tester, Guest, Init_pid} \subseteq Procs
    /\ Tester # Guest /\ Init_pid \notin {Tester, Guest}
    /\ Uid[Tester] = 0 /\ Uid[Guest] # 0 /\ Uid[Init_pid] = 0
    /\ {NR_exit, NR_open} \subseteq Asked \intersect Table
    /\ NR_exit # NR_open
    /\ BystanderAsks \in BOOLEAN

VARIABLES
    line,      \* the line of the script the test is at
    failed,    \* the lines whose test printed "failed"
    overlap    \* history: who is in the module since it was loaded, unloaded, or a call released

test == <<line, failed>>
system == <<vars, module, test>>
tvars == <<system, overlap>>

-----------------------------------------------------------------------------
(* The script.                                                             *)

Step(by, cmd, syscall, pid, status_) ==
    [by |-> by, cmd |-> cmd, syscall |-> syscall, pid |-> pid, ret |-> status_]
Other(by, cmd) == Step(by, cmd, 0, 0, "none")

do_intercept(by, s, ret) == Step(by, "intercept", s, by, ret)
do_release(by, s, ret) == Step(by, "release", s, by, ret)
do_start(by, s, pid, ret) == Step(by, "start", s, pid, ret)
do_stop(by, s, pid, ret) == Step(by, "stop", s, pid, ret)
do_monitor(by, s) == Step(by, "call", s, 0, "logged")

do_as_guest(steps) == <<Other(Guest, "fork")>> \o steps \o <<Other(Guest, "exit")>>

do_nonroot(s) ==
    <<do_intercept(Guest, s, "EPERM"), do_release(Guest, s, "EPERM"),
      do_start(Guest, s, 0, "EPERM"), do_stop(Guest, s, 0, "EPERM"),
      do_start(Guest, s, Init_pid, "EPERM"), do_stop(Guest, s, Init_pid, "EPERM"),
      do_start(Guest, s, Guest, "ok"), do_start(Guest, s, Guest, "EBUSY"),
      do_monitor(Guest, s),
      do_stop(Guest, s, Guest, "ok"), do_stop(Guest, s, Guest, "EINVAL")>>

test_syscall(s) ==
    <<do_intercept(Tester, s, "ok"), do_intercept(Tester, s, "EBUSY")>>
    \o do_as_guest(do_nonroot(s))
    \o <<do_start(Tester, s, -2, "EINVAL"), do_start(Tester, s, 0, "ok"),
         do_stop(Tester, s, 0, "ok"), do_start(Tester, s, Init_pid, "ok")>>
    \o do_as_guest(<<do_stop(Guest, s, Init_pid, "EPERM")>>)
    \o <<do_stop(Tester, s, Init_pid, "ok")>>
    \o do_as_guest(<<do_start(Guest, s, Guest, "ok")>>)
    \o <<do_stop(Tester, s, Guest, "EINVAL"), do_release(Tester, s, "ok")>>

main ==
    <<Other(Tester, "insmod"), Step(Tester, "unknown", 0, 0, "EINVAL"),
      do_intercept(Tester, MY_CUSTOM_SYSCALL, "EINVAL"),
      do_release(Tester, MY_CUSTOM_SYSCALL, "EINVAL"),
      do_intercept(Tester, -1, "EINVAL"), do_release(Tester, -1, "EINVAL"),
      do_intercept(Tester, NR_exit, "ok"), do_release(Tester, NR_exit, "ok")>>
    \o test_syscall(NR_open)
    \o <<Other(Tester, "rmmod")>>

Finished == line > Len(main)
Now == IF Finished THEN Other(Tester, "none") ELSE main[line]

TestInit ==
    /\ LoadInit
    /\ alive = Procs \ {Guest}
    /\ line = 1 /\ failed = {} /\ overlap = {}

-----------------------------------------------------------------------------
(* The test program.                                                       *)

NextLine == line' = line + 1

Insert == Now.cmd = "insmod" /\ Insmod /\ UNCHANGED test
Remove == Now.cmd = "rmmod" /\ Rmmod /\ UNCHANGED test
Loaded ==
    /\ status = "up"
    /\ \/ Now.cmd = "insmod" /\ loader = "live"
       \/ Now.cmd = "rmmod" /\ loader = "gone"
    /\ NextLine
    /\ UNCHANGED <<vars, module, failed>>

\* The request of this line, and a system call that should be logged.
Ask ==
    /\ LET p == Now.by
       IN  \/ /\ Now.cmd \in Cmds \union {"unknown"}
              /\ At(p, "idle")
              /\ Request(p)
              /\ \A k \in {"cmd", "syscall", "pid"} : call'[p][k] = Now[k]
           \/ Now.cmd = "call" /\ Call(p) /\ call'[p].syscall = Now.syscall
    /\ UNCHANGED test

Answer(p) ==
    /\ p = Now.by
    /\ Leave(p)
    /\ loader # "gone"
    /\ NextLine
    /\ failed' = IF call[p].ret = Now.ret THEN failed ELSE failed \union {line}
    /\ UNCHANGED module

Begin == Now.cmd = "fork" /\ Fork(Guest) /\ NextLine /\ UNCHANGED <<module, failed>>

\* The guest ends and waitpid returns.
End ==
    /\ Now.cmd = "exit"
    /\ \/ exit_group(Guest) /\ UNCHANGED test
       \/ /\ Guest \notin alive /\ status = "up"
          /\ NextLine
          /\ UNCHANGED <<vars, module, failed>>

Program == Insert \/ Remove \/ Loaded \/ Ask \/ Begin \/ End

-----------------------------------------------------------------------------
(* Everybody else.                                                         *)

Bystanders == Procs \ {Tester, Guest}

Bystander(p) ==
    /\ \/ Call(p) /\ call'[p].syscall = NR_open
       \/ p # Init_pid /\ exit_group(p)
       \/ Fork(p) /\ UNCHANGED module
       \/ /\ BystanderAsks /\ p # Init_pid /\ At(p, "idle")
          /\ Request(p)
          /\ call'[p].cmd \in {"start", "stop"}
          /\ call'[p].syscall = NR_open /\ call'[p].pid = p
    /\ UNCHANGED test

\* A process in the module; the test's own processes answer to the script.
Inside(p) ==
    \/ (p \in Bystanders \/ ~At(p, "return")) /\ Proceed(p) /\ UNCHANGED test
    \/ p \notin Bystanders /\ Answer(p)
    \/ Crash(p) /\ UNCHANGED test

\* The module is being loaded or unloaded, or a call other than p's releases.
Unsettled(p) ==
    \/ loader \notin {"out", "live", "gone"}
    \/ \E q \in Procs \ {p} : Cmd(q) = "release" /\ pc[q] # "return"

Record == overlap' = {p \in Procs : pc'[p] # "idle" /\ (p \in overlap \/ Unsettled(p) \/ Unsettled(p)')}

TestNext ==
    \/ /\ \/ Program
          \/ Load /\ UNCHANGED test
          \/ \E p \in Procs : Inside(p)
          \/ \E p \in Bystanders : Bystander(p)
          \/ Tear /\ UNCHANGED test
       /\ Record
    \/ status = "oops" /\ UNCHANGED tvars

TestSpec == TestInit /\ [][TestNext]_tvars

\* The test program and the module's code go on.  A spinlock that is free again
\* and again is got at last: they are ticket locks in the kernels this builds for.
TestSteps ==
    \/ Program
    \/ Load /\ UNCHANGED test
    \/ Inside(Tester) \/ Inside(Guest)

TestLocks ==
    /\ LoaderLocksPids \/ (UNCHANGED module /\ \E p \in {Tester, Guest} : LockPids(p))
    /\ UNCHANGED test

TestFairSpec ==
    /\ TestSpec
    /\ WF_system(TestSteps)
    /\ SF_system(TestLocks)
    /\ \A p \in Bystanders : WF_system(Inside(p))

-----------------------------------------------------------------------------
(* Properties.                                                             *)

\* Every request the test program makes gets the answer it expects and the
\* guest's call is logged, whatever bystanders do meanwhile
\* (test_full.c:106-206).
TestsPass == failed = {}

\* Once the module is unloaded, sys_call_table and the hijacked entries are
\* what they were before it was loaded, write protected and unlocked, and of
\* the test's own requests nothing is left on a list (interceptor.c:567-592).
TableRestored ==
    loader = "gone" /\ status = "up" =>
        /\ sys_call_table = [s \in Table |-> "original"]
        /\ hook = [e \in Hooks |-> "original"]
        /\ ~rw /\ calltable_lock = NoProc
        /\ \A s \in Table, q \in {Tester, Guest, Init_pid} : ~Listed(s, q)

\* The machine crashes only if some process was in the module while it was
\* loaded or unloaded (interceptor.c:540, 578) or while a system call was
\* released (282-298 against 356-372), or if two list operations meet (435).
CrashesExplained ==
    status = "oops" => overlap # {} \/ (\E p, q \in Procs : Conflict(p, q))

\* The test program comes to its end, unless the machine crashes: no lock that
\* init_function, the requests, exit_group or exit_function take is kept.
TestEnds == <>(Finished \/ status = "oops")
=============================================================================
