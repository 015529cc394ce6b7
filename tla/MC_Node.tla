------------------------------- MODULE MC_Node -------------------------------
(* Two goroutines calling the node's Start, Stop and Wait.                *)
EXTENDS Node, TLC

CONSTANTS c1, c2

MCCallers == {c1, c2}

MCSymmetry == Permutations(MCCallers)
=============================================================================
