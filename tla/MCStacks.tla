-------------------------------- MODULE MCStacks --------------------------------
(***************************************************************************)
(* The stack with hazard pointers and the one with a delete list, which    *)
(* share no state, in one run that takes threads, nodes and values for     *)
(* interchangeable.  component is the stack that a behavior is about; the  *)
(* variables of the other keep their initial values.                       *)
(***************************************************************************)
EXTENDS HazardPointerStack, DeleteListBeside, TLC

VARIABLE component

listVars == <<d_head, d_in_loop, d_list, d_heap, d_data, d_next, d_pc, d_node,
              d_old, d_new, d_first, d_last, d_res>>

Is(name) == component = name

AllInit ==
    /\ component \in {"HazardPointerStack", "DeleteListStack"}
    /\ Init /\ DList!Init

AllNext ==
    /\ UNCHANGED component
    /\ \/ Is("HazardPointerStack") /\ Next /\ UNCHANGED listVars
       \/ Is("DeleteListStack") /\ DList!Next /\ UNCHANGED vars

AllSpec == AllInit /\ [][AllNext]_<<vars, component, listVars>>

Symmetric == Permutations(Threads) \cup Permutations(Nodes) \cup Permutations(Values)
=================================================================================
