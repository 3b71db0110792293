--------------------------- MODULE MCInterceptor ---------------------------
(* Process owners for the model checking of Interceptor: 0 is root.         *)
EXTENDS Interceptor

OneRoot == [p \in Procs |-> IF p = 1 THEN 0 ELSE p]
TwoRoots == [p \in Procs |-> IF p <= 2 THEN 0 ELSE p]
=============================================================================
