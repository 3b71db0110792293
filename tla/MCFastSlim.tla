---------------------------- MODULE MCFastSlim ----------------------------
(* No page is told from another.                                            *)
EXTENDS FastSlimReplay

AnyPages == Permutations(Pages)
=============================================================================
