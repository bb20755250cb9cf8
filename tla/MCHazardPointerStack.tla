------------------------- MODULE MCHazardPointerStack -------------------------
(* Threads that push and pop without end, and end and start again, with fewer *)
(* slots than threads.                                                        *)
EXTENDS HazardPointerStack, TLC

Symmetric == Permutations(Threads) \cup Permutations(Nodes)
===============================================================================
