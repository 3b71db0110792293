---------------------- MODULE MCInterceptorRefinement ----------------------
(* Process owners for the model checking of InterceptorRefinement.          *)
EXTENDS InterceptorRefinement

\* Every pid, all pids (0) and one that is none.
AnyPid == Procs \union {-1, 0}

OneRoot == [p \in Procs |-> IF p = 1 THEN 0 ELSE p]
=============================================================================
