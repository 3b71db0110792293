------------------------------ MODULE MCPager ------------------------------
(* Pager with the bounded traces of MCTraces.                               *)
EXTENDS Pager, MCTraces
=============================================================================
