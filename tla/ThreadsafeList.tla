----------------------------- MODULE ThreadsafeList -----------------------------
(***************************************************************************)
(* playground::ThreadsafeList.  head_ and every node have a mutex; a       *)
(* traversal locks the next node before it unlocks the one it stands on,   *)
(* and RemoveIf holds both while it takes the next node out.               *)
(*                                                                         *)
(* visited and present are not in the code: the nodes on whose data a      *)
(* traversal has called its function, and the nodes that have been in the  *)
(* list since it began.                                                    *)
(***************************************************************************)
EXTENDS LinkedLists

CONSTANTS
    Threads,
    Nodes,      \* nodes that may be allocated at one time
    Values,
    head_, Null, Free, NoValue

ListAssumption ==
    /\ IsFiniteSet(Nodes)
    /\ head_ \notin Nodes \cup {Null} /\ Null \notin Nodes
    /\ Free \notin Threads /\ NoValue \notin Values

VARIABLES
    heap, data_, next_,
    mtx_,      \* the thread that holds the mutex of each node
    op,        \* the traversal each thread is in, and the values its predicate
               \* holds for; ForEach applies its function to every value
    pc, current,
    visited, present

list  == <<heap, data_, next_>>
ghost == <<visited, present>>
vars  == <<list, mtx_, op, pc, current, ghost>>

Idle == [name |-> "none", p |-> {}]
Traversals == [name : {"ForEach"}, p : {{}}]
              \cup [name : {"FindFirstIf", "RemoveIf"}, p : SUBSET Values]

Init ==
    /\ heap = {}
    /\ data_ = [n \in Nodes |-> NoValue]
    /\ next_ = [n \in Nodes \cup {head_} |-> Null]
    /\ mtx_ = [n \in Nodes \cup {head_} |-> Free]
    /\ op = [t \in Threads |-> Idle]
    /\ pc = [t \in Threads |-> "idle"]
    /\ current = [t \in Threads |-> head_]
    /\ visited = [t \in Threads |-> {}] /\ present = [t \in Threads |-> {}]

\* The nodes behind n.
Behind(n) == From(Nodes, next_[n], next_)

-------------------------------------------------------------------------------
\* The mutex of head_ is held during the step only.
PushFront(t, v) ==
    /\ pc[t] = "idle" /\ mtx_[head_] = Free
    /\ \E n \in Nodes \ heap :
         /\ heap' = heap \cup {n}
         /\ data_' = [data_ EXCEPT ![n] = v]
         /\ next_' = [next_ EXCEPT ![n] = next_[head_], ![head_] = n]
    /\ UNCHANGED <<mtx_, op, pc, current, ghost>>

begin(t, o) ==
    /\ pc[t] = "idle" /\ mtx_[head_] = Free
    /\ mtx_' = [mtx_ EXCEPT ![head_] = t]
    /\ op' = [op EXCEPT ![t] = o]
    /\ pc' = [pc EXCEPT ![t] = "one"]
    /\ present' = [present EXCEPT ![t] = Behind(head_)]
    /\ UNCHANGED <<list, current, visited>>

Next_(t) == next_[current[t]]

\* Faulty: RemoveIf does not wait for the mutex of the node it may delete.
lockNextUnlessRemoving(t) ==
    /\ pc[t] = "one" /\ Next_(t) # Null
    /\ op[t].name = "RemoveIf" \/ mtx_[Next_(t)] = Free
    /\ mtx_' = [mtx_ EXCEPT ![Next_(t)] = t]
    /\ pc' = [pc EXCEPT ![t] = "two"]
    /\ UNCHANGED <<list, op, current, ghost>>

\* The next node is locked while the current one still is.
lockNext(t) ==
    /\ pc[t] = "one" /\ Next_(t) # Null
    /\ mtx_[Next_(t)] = Free
    /\ mtx_' = [mtx_ EXCEPT ![Next_(t)] = t]
    /\ pc' = [pc EXCEPT ![t] = "two"]
    /\ UNCHANGED <<list, op, current, ghost>>

\* The traversal returns.
Leave(t) ==
    /\ op' = [op EXCEPT ![t] = Idle]
    /\ pc' = [pc EXCEPT ![t] = "idle"]
    /\ current' = [current EXCEPT ![t] = head_]
    /\ visited' = [visited EXCEPT ![t] = {}]

end(t) ==
    /\ pc[t] = "one" /\ Next_(t) = Null
    /\ mtx_' = [mtx_ EXCEPT ![current[t]] = Free]
    /\ Leave(t)
    /\ present' = [present EXCEPT ![t] = {}]
    /\ UNCHANGED list

Holds(t) == data_[Next_(t)] \in op[t].p
Visit(t) == visited' = [visited EXCEPT ![t] = @ \cup {Next_(t)}]

\* f or p is called, and the traversal stands on the node; ForEach and FindFirstIf
\* have unlocked the one before by then, RemoveIf does so after.
moveOn(t) ==
    /\ pc[t] = "two" /\ ~Holds(t)
    /\ mtx_' = [mtx_ EXCEPT ![current[t]] = Free]
    /\ current' = [current EXCEPT ![t] = Next_(t)]
    /\ pc' = [pc EXCEPT ![t] = "one"]
    /\ Visit(t)
    /\ UNCHANGED <<list, op, present>>

\* FindFirstIf returns what it has found; or f or p throws.
leaveEarly(t) ==
    /\ pc[t] = "two"
    /\ mtx_' = [mtx_ EXCEPT ![current[t]] = Free, ![Next_(t)] = Free]
    /\ Leave(t)
    /\ present' = [present EXCEPT ![t] = {}]
    /\ UNCHANGED list

\* The node is taken out, unlocked, and deleted.
remove(t) ==
    /\ pc[t] = "two" /\ Holds(t) /\ op[t].name = "RemoveIf"
    /\ LET n == Next_(t)
       IN  /\ mtx_' = [mtx_ EXCEPT ![n] = Free]
           /\ heap' = heap \ {n}
           /\ data_' = [data_ EXCEPT ![n] = NoValue]
           /\ next_' = [next_ EXCEPT ![current[t]] = next_[n], ![n] = Null]
           /\ present' = [u \in Threads |-> present[u] \ {n}]
    /\ pc' = [pc EXCEPT ![t] = "one"]
    /\ UNCHANGED <<op, current, visited>>

Step(t) ==
    \/ \E v \in Values : PushFront(t, v)
    \/ \E o \in Traversals : begin(t, o)
    \/ lockNext(t) \/ moveOn(t) \/ leaveEarly(t) \/ remove(t) \/ end(t)

Next == \E t \in Threads : Step(t)

Spec == Init /\ [][Next]_vars

-------------------------------------------------------------------------------
TypeOK ==
    /\ heap \subseteq Nodes
    /\ data_ \in [Nodes -> Values \cup {NoValue}]
    /\ next_ \in [Nodes \cup {head_} -> Nodes \cup {Null}]
    /\ mtx_ \in [Nodes \cup {head_} -> Threads \cup {Free}]
    /\ op \in [Threads -> Traversals \cup {Idle}]
    /\ pc \in [Threads -> {"idle", "one", "two"}]
    /\ current \in [Threads -> Nodes \cup {head_}]
    /\ visited \in [Threads -> SUBSET Nodes]
    /\ present \in [Threads -> SUBSET Nodes]

\* The nodes whose mutexes a thread holds or is about to lock.
InUse(t) == IF pc[t] = "idle" THEN {} ELSE {current[t], Next_(t)} \ {head_, Null}

\* A node is never deleted while a thread stands on it or waits for its mutex, and
\* a mutex that is held belongs to a node that is there.
NodesInUseExist ==
    /\ \A t \in Threads : InUse(t) \subseteq heap
    /\ \A n \in Nodes : mtx_[n] # Free => n \in heap
    /\ heap = Behind(head_)

\* Whatever has been in the list since a traversal began is visited already or
\* still lies ahead; at the end nothing has been passed over.
NothingPassedOver ==
    \A t \in Threads :
      present[t] \ visited[t] \subseteq
        IF pc[t] = "idle" THEN {} ELSE Behind(current[t])

\* Traversals meet neither a deleted node nor lose one, whatever RemoveIf and
\* PushFront do around them.
TraversalsAreSafe == NodesInUseExist /\ NothingPassedOver
=================================================================================
