-------------------------- MODULE MCHierarchicalMutex --------------------------
(* Two mutexes of one level and one above them; every thread may call unlock  *)
(* on each of them.                                                           *)
EXTENDS HierarchicalMutex, TLC

CONSTANTS left, right, middle

MCMutexes == {left, right, middle}
MCLevel == left :> 0 @@ right :> 0 @@ middle :> 1
===============================================================================
