-------------------------- MODULE InterceptorLoad --------------------------
(***************************************************************************)
(* init_function and exit_function of interceptor.c: the kernel module is  *)
(* loaded and unloaded while other processes make system calls.            *)
(*                                                                         *)
(* The two entries that the module hijacks for itself, MY_CUSTOM_SYSCALL   *)
(* and exit_group, are kept in hook; the entries that requests intercept   *)
(* are those of Interceptor.  Once the module is unloaded its text is      *)
(* freed: whoever is still in it crashes.                                  *)
(***************************************************************************)
EXTENDS Interceptor

CONSTANT Loader   \* who runs insmod and rmmod
ASSUME LoaderAssumption == Loader \in Int /\ Loader \notin Procs \union {NoProc}

VARIABLES
    loader,   \* what init_function or exit_function does next
    hook,     \* what the two entries point to: "original" or "module"
    saved,    \* orig_custom_syscall and orig_exit_group
    heads     \* whether the list heads of table are initialised

module == <<loader, hook, saved, heads>>

Hooks == {"custom", "exit_group"}

LoadInit ==
    /\ Fresh
    /\ loader = "out"
    /\ hook = [e \in Hooks |-> "original"]
    /\ saved = [e \in Hooks |-> "null"]
    /\ heads = FALSE

-----------------------------------------------------------------------------
(* init_function and exit_function.                                        *)

Loads(from, to) == status = "up" /\ loader = from /\ loader' = to

Insmod == Loads("out", "init_lock") /\ UNCHANGED <<vars, hook, saved, heads>>
Rmmod == Loads("live", "exit_lock") /\ UNCHANGED <<vars, hook, saved, heads>>

LoaderLocksCalls ==
    /\ Loads("init_lock", "init_rw") \/ Loads("exit_lock", "exit_rw")
    /\ calltable_lock = NoProc
    /\ calltable_lock' = Loader
    /\ UNCHANGED <<sys_call_table, rw, table, pidlist_lock, process, rest, hook, saved, heads>>

LoaderSetsRw ==
    /\ Loads("init_rw", "save_custom") \/ Loads("exit_rw", "restore_custom")
    /\ rw' = TRUE
    /\ UNCHANGED <<sys_call_table, calltable_lock, table, pidlist_lock, process, rest, hook, saved, heads>>

SaveEntry ==
    \E e \in Hooks :
        /\ IF e = "custom" THEN Loads("save_custom", "hijack_custom")
                           ELSE Loads("save_exit", "hijack_exit")
        /\ saved' = [saved EXCEPT ![e] = hook[e]]
        /\ UNCHANGED <<vars, hook, heads>>

HijackEntry ==
    \E e \in Hooks :
        /\ IF e = "custom" THEN Loads("hijack_custom", "save_exit")
                           ELSE Loads("hijack_exit", "init_ro")
        /\ hook' = [hook EXCEPT ![e] = "module"]
        /\ UNCHANGED <<vars, saved, heads>>

\* Mutant: the exit_group entry keeps pointing into the module.
RestoreCustomOnly ==
    \E e \in Hooks :
        /\ IF e = "custom" THEN Loads("restore_custom", "restore_exit")
                           ELSE Loads("restore_exit", "exit_destroy")
        /\ hook' = [hook EXCEPT !["custom"] = saved["custom"]]
        /\ UNCHANGED <<vars, saved, heads>>

RestoreEntry ==
    \E e \in Hooks :
        /\ IF e = "custom" THEN Loads("restore_custom", "restore_exit")
                           ELSE Loads("restore_exit", "exit_destroy")
        /\ hook' = [hook EXCEPT ![e] = saved[e]]
        /\ UNCHANGED <<vars, saved, heads>>

LoaderSetsRo ==
    /\ Loads("init_ro", "init_unlock") \/ Loads("exit_ro", "exit_unlock")
    /\ rw' = FALSE
    /\ UNCHANGED <<sys_call_table, calltable_lock, table, pidlist_lock, process, rest, hook, saved, heads>>

\* After the unlock of exit_function the kernel frees the module.
LoaderUnlocksCalls ==
    /\ Loads("init_unlock", "init_lock_pids") \/ Loads("exit_unlock", "gone")
    /\ calltable_lock' = NoProc
    /\ UNCHANGED <<sys_call_table, rw, table, pidlist_lock, process, rest, hook, saved, heads>>

LoaderLocksPids ==
    /\ Loads("init_lock_pids", "init_lists")
    /\ pidlist_lock = NoProc
    /\ pidlist_lock' = Loader
    /\ UNCHANGED <<callTable, table, process, rest, hook, saved, heads>>

\* Mutant: the heads are taken to be initialised by the first add.
InitListsNot ==
    /\ Loads("init_lists", "init_unlock_pids")
    /\ UNCHANGED <<vars, hook, saved, heads>>

InitLists ==
    /\ Loads("init_lists", "init_unlock_pids")
    /\ heads' = TRUE
    /\ UNCHANGED <<vars, hook, saved>>

LoaderUnlocksPids ==
    /\ Loads("init_unlock_pids", "init_calltable_lock")
    /\ pidlist_lock' = NoProc
    /\ UNCHANGED <<callTable, table, process, rest, hook, saved, heads>>

\* The last two statements of init_function: whoever holds a lock loses it.
SpinLockInit ==
    \/ /\ Loads("init_calltable_lock", "init_pidlist_lock")
       /\ calltable_lock' = NoProc
       /\ UNCHANGED <<sys_call_table, rw, table, pidlist_lock, process, rest, hook, saved, heads>>
    \/ /\ Loads("init_pidlist_lock", "live")
       /\ pidlist_lock' = NoProc
       /\ UNCHANGED <<callTable, table, process, rest, hook, saved, heads>>

\* destroy_list for every entry, without pidlist_lock.
DestroyLists ==
    /\ Loads("exit_destroy", "exit_ro")
    /\ my_list' = [s \in Table |-> [q \in Procs |-> 0]]
    /\ monitored' = [s \in Table |-> 0]
    /\ UNCHANGED <<callTable, f, intercepted, pidlist_lock, process, rest, hook, saved, heads>>

Load ==
    \/ LoaderLocksCalls \/ LoaderSetsRw \/ SaveEntry \/ HijackEntry \/ RestoreEntry
    \/ LoaderSetsRo \/ LoaderUnlocksCalls \/ LoaderLocksPids \/ InitLists
    \/ LoaderUnlocksPids \/ SpinLockInit \/ DestroyLists

-----------------------------------------------------------------------------
(* The processes of Interceptor around it.                                 *)

UsesLists(p) == ListsChanged(p) \union ListsRead(p) # {}

Request(p) == hook["custom"] = "module" /\ my_syscall(p) /\ UNCHANGED module
Call(p) == SystemCall(p) /\ UNCHANGED module

exit_group(p) ==
    /\ \/ hook["exit_group"] = "module" /\ my_exit_group(p)
       \/ /\ hook["exit_group"] = "original"
          /\ At(p, "idle")
          /\ p \in alive
          /\ alive' = alive \ {p}
          /\ UNCHANGED <<callTable, table, pidlist_lock, process, status>>
    /\ UNCHANGED module

\* A process goes on in the module as long as there is one.
Proceed(p) ==
    /\ loader # "gone"
    /\ UsesLists(p) => heads
    /\ Continue(p)
    /\ UNCHANGED module

\* It runs freed text, or walks a list from a head that is still NULL.
Crash(p) ==
    /\ status = "up"
    /\ \/ loader = "gone" /\ pc[p] # "idle"
       \/ ~heads /\ UsesLists(p)
    /\ Oops
    /\ UNCHANGED module

\* Two list operations at the same time, or one and DestroyLists.
Tear ==
    /\ \/ TearList
       \/ loader = "exit_destroy" /\ status = "up" /\ (\E p \in Procs : UsesLists(p)) /\ Oops
    /\ UNCHANGED module
=============================================================================
