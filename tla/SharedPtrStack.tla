----------------------------- MODULE SharedPtrStack -----------------------------
(***************************************************************************)
(* playground::LockfreeStackSharedPtr: the stack whose pointers count the  *)
(* references to what they point to.  One action is one atomic operation   *)
(* on a shared_ptr, with the accesses of the thread to its own variables.  *)
(* A node lives as long as a pointer to it exists, and its memory may be   *)
(* used again after that.  The destructor calls Pop until head_ is null.   *)
(***************************************************************************)
EXTENDS LinkedLists

CONSTANTS Threads, Nodes, Values, Null, NoValue

SharedPtrAssumption ==
    IsFiniteSet(Nodes) /\ Null \notin Nodes /\ NoValue \notin Values

VARIABLES
    head_, data_, next_,
    pc,
    new_node, old_head,  \* the pointers of each thread
    next                 \* the value that its compare_exchange is to store

memory == <<data_, next_>>
locals == <<new_node, old_head, next>>
vars   == <<head_, memory, pc, locals>>

Init ==
    /\ head_ = Null
    /\ data_ = [n \in Nodes |-> NoValue] /\ next_ = [n \in Nodes |-> Null]
    /\ pc = [t \in Threads |-> "idle"]
    /\ new_node = [t \in Threads |-> Null]
    /\ old_head = [t \in Threads |-> Null]
    /\ next = [t \in Threads |-> Null]

Goto(t, label) == pc' = [pc EXCEPT ![t] = label]

\* A set of nodes that holds every node it points to.
IsClosed(S) == \A n \in S : next_[n] \in S \cup {Null}

\* What can be reached from a set of pointers by following next_.
ReachableFrom(ps) ==
    {n \in Nodes :
       \A S \in SUBSET Nodes : ps \ {Null} \subseteq S /\ IsClosed(S) => n \in S}

\* Faulty: a thread that pops does not own a reference to the node.
AliveByHead ==
    ReachableFrom({head_} \cup {new_node[t] : t \in Threads})

Alive ==
    ReachableFrom({head_} \cup {new_node[t] : t \in Threads}
                  \cup {old_head[t] : t \in Threads}
                  \cup {next[t] : t \in Threads})

-------------------------------------------------------------------------------
Push(t, v) ==
    /\ pc[t] = "idle"
    /\ \E n \in Nodes \ Alive :
         /\ data_' = [data_ EXCEPT ![n] = v]
         /\ next_' = [next_ EXCEPT ![n] = head_]
         /\ new_node' = [new_node EXCEPT ![t] = n]
    /\ Goto(t, "push")
    /\ UNCHANGED <<head_, old_head, next>>

pushSucceeds(t) ==
    /\ pc[t] = "push" /\ head_ = next_[new_node[t]]
    /\ head_' = new_node[t]
    /\ new_node' = [new_node EXCEPT ![t] = Null]
    /\ Goto(t, "idle")
    /\ UNCHANGED <<memory, old_head, next>>

\* compare_exchange_weak fails, maybe spuriously, and loads head_ again.
pushFails(t) ==
    /\ pc[t] = "push"
    /\ next_' = [next_ EXCEPT ![new_node[t]] = head_]
    /\ UNCHANGED <<head_, data_, pc, locals>>

-------------------------------------------------------------------------------
Pop(t) ==
    /\ pc[t] = "idle"
    /\ Goto(t, "pop")
    /\ UNCHANGED <<head_, memory, locals>>

loadHead(t) ==
    /\ pc[t] = "pop"
    /\ old_head' = [old_head EXCEPT ![t] = head_]
    /\ Goto(t, IF head_ = Null THEN "return" ELSE "load")
    /\ UNCHANGED <<head_, memory, new_node, next>>

loadNext(t) ==
    /\ pc[t] = "load"
    /\ next' = [next EXCEPT ![t] = next_[old_head[t]]]
    /\ Goto(t, "remove")
    /\ UNCHANGED <<head_, memory, new_node, old_head>>

remove(t) ==
    /\ pc[t] = "remove" /\ head_ = old_head[t]
    /\ head_' = next[t]
    /\ next' = [next EXCEPT ![t] = Null]
    /\ Goto(t, "reset")
    /\ UNCHANGED <<memory, new_node, old_head>>

removeFails(t) ==
    /\ pc[t] = "remove"
    /\ old_head' = [old_head EXCEPT ![t] = head_]
    /\ next' = [next EXCEPT ![t] = Null]
    /\ Goto(t, IF head_ = Null THEN "return" ELSE "load")
    /\ UNCHANGED <<head_, memory, new_node>>

\* Whoever still has a pointer to the node reads a null next_ from now on.
resetNext(t) ==
    /\ pc[t] = "reset"
    /\ next_' = [next_ EXCEPT ![old_head[t]] = Null]
    /\ Goto(t, "return")
    /\ UNCHANGED <<head_, data_, locals>>

return(t) ==
    /\ pc[t] = "return"
    /\ old_head' = [old_head EXCEPT ![t] = Null]
    /\ Goto(t, "idle")
    /\ UNCHANGED <<head_, memory, new_node, next>>

Step(t) ==
    \/ \E v \in Values : Push(t, v)
    \/ pushSucceeds(t) \/ pushFails(t)
    \/ Pop(t) \/ loadHead(t) \/ loadNext(t) \/ remove(t) \/ removeFails(t)
    \/ resetNext(t) \/ return(t)

Next == \E t \in Threads : Step(t)

Spec == Init /\ [][Next]_vars

-------------------------------------------------------------------------------
TypeOK ==
    /\ head_ \in Nodes \cup {Null}
    /\ data_ \in [Nodes -> Values \cup {NoValue}]
    /\ next_ \in [Nodes -> Nodes \cup {Null}]
    /\ pc \in [Threads -> {"idle", "push", "pop", "load", "remove", "reset", "return"}]
    /\ new_node \in [Threads -> Nodes \cup {Null}]
    /\ old_head \in [Threads -> Nodes \cup {Null}]
    /\ next \in [Threads -> Nodes \cup {Null}]

\* The nodes of the stack, from the top, and their values.
InOrder == Line(Nodes, head_, next_)
Stack   == Contents(InOrder, data_)

\* The call each thread is in, and its argument or its result.
Call == [t \in Threads |->
    CASE pc[t] = "idle" -> [op |-> "idle", value |-> NoValue]
      [] pc[t] = "push" -> [op |-> "push", value |-> data_[new_node[t]]]
      [] pc[t] \in {"pop", "load", "remove"} -> [op |-> "pop", value |-> NoValue]
      [] OTHER -> [op |-> "popped",
                   value |-> IF old_head[t] = Null THEN NoValue
                             ELSE data_[old_head[t]]]]

Abstract == INSTANCE AbstractStack WITH stack <- Stack, call <- Call

\* Every Push and Pop acts on the stack at one moment between call and return: no
\* node comes back at an address that somebody still compares with head_.
IsAStack == Abstract!Spec
===============================================================================
