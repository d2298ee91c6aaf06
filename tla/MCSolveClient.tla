--------------------------- MODULE MCSolveClient ---------------------------
(* An instance of SolveClient for TLC: two pages of problems, one filter    *)
(* with one page of them and one with none.                                *)
EXTENDS SolveClient, TLC

CONSTANTS all, few, none, py, go, starter, edited

SomePages == (all :> 2) @@ (few :> 1) @@ (none :> 0)
=============================================================================
