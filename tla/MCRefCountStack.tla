---------------------------- MODULE MCRefCountStack ----------------------------
(* Threads that push and pop without end; nodes are deleted and reused.      *)
EXTENDS RefCountStack, TLC

Symmetric == Permutations(Threads) \cup Permutations(Nodes)
===============================================================================
