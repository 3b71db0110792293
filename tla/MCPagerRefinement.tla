------------------------- MODULE MCPagerRefinement -------------------------
(* PagerRefinement with the bounded traces of MCTraces.                     *)
EXTENDS PagerRefinement, MCTraces
=============================================================================
