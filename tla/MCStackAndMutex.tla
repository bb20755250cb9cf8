---------------------------- MODULE MCStackAndMutex ----------------------------
(***************************************************************************)
(* The stack with reference counts and the hierarchical mutex, which share *)
(* no state, in one run that takes threads, nodes and values for           *)
(* interchangeable; the lockers are the same threads.  component is the    *)
(* part that a behavior is about; the variables of the other keep their    *)
(* initial values.                                                         *)
(***************************************************************************)
EXTENDS RefCountStack, MutexBeside, TLC

CONSTANTS left, right, middle, above, top

VARIABLE component

\* Two mutexes of one level, two above them, and one with the level of a thread
\* that holds nothing; the check of unlock can tell middle and above.
MCMutexes == {left, right, middle, above, top}
MCLevel   == left :> 0 @@ right :> 0 @@ middle :> 1 @@ above :> 2 @@ top :> 3
MCMisused == {middle, above}

ASSUME MutexAssumptions ==
    Mutex!LevelAssumption /\ Mutex!NameAssumption /\ Mutex!CallersAssumption

mutexVars == <<m_owner, m_previous, m_value, m_pc, m_target>>

Is(name) == component = name

AllInit ==
    /\ component \in {"RefCountStack", "HierarchicalMutex"}
    /\ Init /\ Mutex!Init

AllNext ==
    /\ UNCHANGED component
    /\ \/ Is("RefCountStack") /\ Next /\ UNCHANGED mutexVars
       \/ Is("HierarchicalMutex") /\ Mutex!Next /\ UNCHANGED vars

AllSpec == AllInit /\ [][AllNext]_<<vars, component, mutexVars>>

Symmetric == Permutations(Threads) \cup Permutations(Nodes) \cup Permutations(Values)
===============================================================================
