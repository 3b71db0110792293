------------------------- MODULE MCInterceptorTest -------------------------
(* The owners for the model checking of InterceptorTest: init (1) and the   *)
(* tester (2) are root, the guest (3) and the other bystander (4) users.    *)
EXTENDS InterceptorTest

Owners == [p \in Procs |-> IF p <= 2 THEN 0 ELSE p]
SyscallsAsked == {-1, MY_CUSTOM_SYSCALL, NR_exit, NR_open}
PidsAsked == {-2, 0} \union Procs
NoLoader == -1
=============================================================================
