------------------------------- MODULE StackNodes -------------------------------
(***************************************************************************)
(* What the lock-free stacks that delete nodes themselves run on: threads, *)
(* the addresses at which nodes are allocated, what is pushed, and the     *)
(* null pointer.                                                           *)
(***************************************************************************)
EXTENDS FiniteSets

CONSTANTS Threads, Nodes, Values, Null, NoValue

ASSUME NullAssumption ==
    Null \notin Nodes /\ IsFiniteSet(Threads) /\ IsFiniteSet(Nodes)
===============================================================================
