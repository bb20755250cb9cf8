----------------------------- MODULE RefCountStack -----------------------------
(***************************************************************************)
(* playground::LockfreeStackReferenceCounting.  A pointer to a node comes  *)
(* with an external count of the threads that have looked through it, the  *)
(* node has an internal count of those that are done with it, and whoever  *)
(* brings the two into balance deletes the node.                           *)
(*                                                                         *)
(* One action is one atomic operation on head_ or on an internal count,    *)
(* with the accesses of the thread to nodes before it; operations take     *)
(* effect in one order (the memory orders of the code are not modelled).   *)
(* Nodes are addresses: a deleted node may be allocated again.             *)
(***************************************************************************)
EXTENDS StackNodes, LinkedLists

CONSTANTS
    CountMod,   \* unsigned arithmetic is modulo this number
    MayWrap     \* FALSE: a bound, the external count of a node does not wrap

ASSUME CountAssumption ==
    /\ CountMod \in Nat \ {0}
    /\ Cardinality(Threads) + 1 < CountMod
    /\ MayWrap \in BOOLEAN

VARIABLES
    head_,            \* the CountedNodePtr at the top
    heap,             \* the nodes that are allocated
    data_, next_, internal_count_,
    pc,               \* where each thread is
    node,             \* the node it pushes or pops
    old_head,         \* its copy of head_
    res               \* the result of its Pop

vars == <<head_, heap, data_, next_, internal_count_, pc, node, old_head, res>>

nodes  == <<heap, data_, next_, internal_count_>>
locals == <<node, old_head, res>>

CountedNodePtr == [node_ : Nodes \cup {Null}, external_count_ : 0 .. CountMod - 1]

NullPtr == [node_ |-> Null, external_count_ |-> 0]

Add(a, b) == (a + b) % CountMod

Sub(a, b) == (a + CountMod - b) % CountMod

Init ==
    /\ head_ = NullPtr
    /\ heap = {}
    /\ data_ = [n \in Nodes |-> NoValue]
    /\ next_ = [n \in Nodes |-> NullPtr]
    /\ internal_count_ = [n \in Nodes |-> 0]
    /\ pc = [t \in Threads |-> "idle"]
    /\ node = [t \in Threads |-> Null]
    /\ old_head = [t \in Threads |-> NullPtr]
    /\ res = [t \in Threads |-> NoValue]

Goto(t, label) == pc' = [pc EXCEPT ![t] = label]

\* The node, with what is left in it, is gone.
Delete(n) ==
    /\ heap' = heap \ {n}
    /\ data_' = [data_ EXCEPT ![n] = NoValue]
    /\ next_' = [next_ EXCEPT ![n] = NullPtr]
    /\ internal_count_' = [internal_count_ EXCEPT ![n] = 0]

-------------------------------------------------------------------------------
\* Push: a new node that points to what head_ is now.
Push(t, v) ==
    /\ pc[t] = "idle"
    /\ \E n \in Nodes \ heap :
         /\ heap' = heap \cup {n}
         /\ data_' = [data_ EXCEPT ![n] = v]
         /\ next_' = [next_ EXCEPT ![n] = head_]
         /\ node' = [node EXCEPT ![t] = n]
    /\ Goto(t, "push")
    /\ UNCHANGED <<head_, internal_count_, old_head, res>>

\* Faulty: head_ is stored without a comparison.
pushBlindly(t) ==
    /\ pc[t] = "push"
    /\ head_' = [node_ |-> node[t], external_count_ |-> 1]
    /\ node' = [node EXCEPT ![t] = Null]
    /\ Goto(t, "idle")
    /\ UNCHANGED <<nodes, old_head, res>>

\* Its compare_exchange_weak; a failure, spurious or not, loads head_ again.
pushSucceeds(t) ==
    /\ pc[t] = "push"
    /\ head_ = next_[node[t]]
    /\ head_' = [node_ |-> node[t], external_count_ |-> 1]
    /\ node' = [node EXCEPT ![t] = Null]
    /\ Goto(t, "idle")
    /\ UNCHANGED <<nodes, old_head, res>>

pushFails(t) ==
    /\ pc[t] = "push"
    /\ next_' = [next_ EXCEPT ![node[t]] = head_]
    /\ UNCHANGED <<head_, heap, data_, internal_count_, pc, locals>>

\* Pop, at the top of its loop.
Pop(t) ==
    /\ pc[t] \in {"idle", "again"}
    /\ old_head' = [old_head EXCEPT ![t] = head_]
    /\ Goto(t, "count")
    /\ UNCHANGED <<head_, nodes, node, res>>

\* Threads have looked at the top node as often as the count can tell.
Full == head_.node_ # Null /\ head_.external_count_ = CountMod - 1

\* IncreaseHeadCount, also of a head_ without a node; an empty stack ends Pop.
IncreaseHeadCount(t) ==
    /\ pc[t] = "count"
    /\ \/ /\ head_ = old_head[t]
          /\ Full => MayWrap
          /\ head_' = [head_ EXCEPT !.external_count_ = Add(@, 1)]
          /\ old_head' = [old_head EXCEPT ![t] = head_']
          /\ node' = [node EXCEPT ![t] = head_.node_]
          /\ Goto(t, IF head_.node_ = Null THEN "return" ELSE "remove")
       \/ /\ head_ # old_head[t]
          /\ old_head' = [old_head EXCEPT ![t] = head_]
          /\ UNCHANGED <<head_, node, pc>>
    /\ UNCHANGED <<nodes, res>>

\* The compare_exchange_strong of Pop reads next_, which does not change while
\* the node is in the stack.
remove(t) ==
    /\ pc[t] = "remove"
    /\ \/ /\ head_ = old_head[t]
          /\ head_' = next_[node[t]]
          /\ Goto(t, "swap")
       \/ /\ head_ # old_head[t]
          /\ Goto(t, "giveBack")
          /\ UNCHANGED head_
    /\ UNCHANGED <<nodes, locals>>

swap(t) ==
    /\ pc[t] = "swap"
    /\ res' = [res EXCEPT ![t] = data_[node[t]]]
    /\ data_' = [data_ EXCEPT ![node[t]] = NoValue]
    /\ Goto(t, "add")
    /\ UNCHANGED <<head_, heap, next_, internal_count_, node, old_head>>

\* Faulty: whoever removed the node deletes it.
addDeletes(t) ==
    /\ pc[t] = "add"
    /\ Delete(node[t])
    /\ node' = [node EXCEPT ![t] = Null]
    /\ Goto(t, "return")
    /\ UNCHANGED <<head_, old_head, res>>

\* Faulty: the reference of head_ itself is not taken off.
addOffByOne(t) ==
    LET n == node[t]
        count_increase == Sub(old_head[t].external_count_, 1)
    IN  /\ pc[t] = "add"
        /\ IF internal_count_[n] = Sub(0, count_increase)
           THEN Delete(n)
           ELSE /\ internal_count_' =
                     [internal_count_ EXCEPT ![n] = Add(@, count_increase)]
                /\ UNCHANGED <<heap, data_, next_>>
        /\ node' = [node EXCEPT ![t] = Null]
        /\ Goto(t, "return")
        /\ UNCHANGED <<head_, old_head, res>>

\* fetch_add of external_count_ - 2: one for head_ and one for this thread.
addCount(t) ==
    LET n == node[t]
        count_increase == Sub(old_head[t].external_count_, 2)
    IN  /\ pc[t] = "add"
        /\ IF internal_count_[n] = Sub(0, count_increase)
           THEN Delete(n)
           ELSE /\ internal_count_' =
                     [internal_count_ EXCEPT ![n] = Add(@, count_increase)]
                /\ UNCHANGED <<heap, data_, next_>>
        /\ node' = [node EXCEPT ![t] = Null]
        /\ Goto(t, "return")
        /\ UNCHANGED <<head_, old_head, res>>

\* Faulty: only the thread that removed the node may delete it.
giveBackOnly(t) ==
    LET n == node[t]
    IN  /\ pc[t] = "giveBack"
        /\ internal_count_' = [internal_count_ EXCEPT ![n] = Sub(@, 1)]
        /\ node' = [node EXCEPT ![t] = Null]
        /\ Goto(t, "again")
        /\ UNCHANGED <<head_, heap, data_, next_, old_head, res>>

\* fetch_sub after the node was lost to another thread.
giveBack(t) ==
    LET n == node[t]
    IN  /\ pc[t] = "giveBack"
        /\ IF internal_count_[n] = 1
           THEN Delete(n)
           ELSE /\ internal_count_' = [internal_count_ EXCEPT ![n] = Sub(@, 1)]
                /\ UNCHANGED <<heap, data_, next_>>
        /\ node' = [node EXCEPT ![t] = Null]
        /\ Goto(t, "again")
        /\ UNCHANGED <<head_, old_head, res>>

return(t) ==
    /\ pc[t] = "return"
    /\ res' = [res EXCEPT ![t] = NoValue]
    /\ old_head' = [old_head EXCEPT ![t] = NullPtr]
    /\ Goto(t, "idle")
    /\ UNCHANGED <<head_, nodes, node>>

Step(t) ==
    \/ \E v \in Values : Push(t, v)
    \/ pushSucceeds(t) \/ pushFails(t)
    \/ Pop(t) \/ IncreaseHeadCount(t) \/ remove(t)
    \/ swap(t) \/ addCount(t) \/ giveBack(t) \/ return(t)

\* Where the bound stops the model, a thread may be left inside a call.
Rest == Full /\ ~MayWrap /\ UNCHANGED vars

Next == Rest \/ \E t \in Threads : Step(t)

Spec == Init /\ [][Next]_vars

-------------------------------------------------------------------------------
\* The nodes of the stack, from the top, and the pointer to the k-th of them.
NextNode == [n \in Nodes |-> next_[n].node_]
Listed   == From(Nodes, head_.node_, NextNode)
InOrder  == Line(Nodes, head_.node_, NextNode)

Pointer(k) == IF k = 1 THEN head_ ELSE next_[InOrder[k - 1]]

New     == {node[t] : t \in {u \in Threads : pc[u] = "push"}}
Removed == {node[t] : t \in {u \in Threads : pc[u] \in {"swap", "add"}}}

\* The threads that have looked through a pointer to the node and not yet
\* removed it or given it back.
Holders(n) == {t \in Threads : pc[t] \in {"remove", "giveBack"} /\ node[t] = n}

\* The types of the variables; a thread has a node while it works on one.
TypeOK ==
    /\ head_ \in CountedNodePtr
    /\ heap \subseteq Nodes
    /\ data_ \in [Nodes -> Values \cup {NoValue}]
    /\ next_ \in [Nodes -> CountedNodePtr]
    /\ internal_count_ \in [Nodes -> 0 .. CountMod - 1]
    /\ pc \in [Threads -> {"idle", "push", "again", "count", "remove", "swap",
                           "add", "giveBack", "return"}]
    /\ node \in [Threads -> Nodes \cup {Null}]
    /\ \A t \in Threads :
         node[t] # Null <=> pc[t] \in {"push", "remove", "swap", "add", "giveBack"}
    /\ old_head \in [Threads -> CountedNodePtr]
    /\ res \in [Threads -> Values \cup {NoValue}]

\* No node is deleted, or allocated by another Push, under a thread that still
\* looks at it; a node that a thread pushes or has removed is its own.
NodesInUseExist ==
    \A t, u \in Threads :
      /\ node[t] # Null => node[t] \in heap
      /\ t # u /\ node[t] = node[u] /\ node[t] # Null =>
            /\ pc[t] # "push"
            /\ ~(pc[t] \in {"swap", "add"} /\ pc[u] \in {"swap", "add"})

\* External and internal count together are the number of threads that look at
\* a node, in whatever order they came, failed and left.
ReferencesCounted ==
    /\ TypeOK
    /\ \A k \in DOMAIN InOrder :
         Sub(Add(Pointer(k).external_count_, internal_count_[InOrder[k]]), 1)
           = Cardinality(Holders(InOrder[k]))
    /\ \A t \in Threads : pc[t] \in {"swap", "add"} =>
         Sub(Add(old_head[t].external_count_, internal_count_[node[t]]), 2)
           = Cardinality(Holders(node[t]))
    /\ \A n \in heap \ (Listed \cup New \cup Removed) :
         /\ internal_count_[n] = Cardinality(Holders(n))
         /\ Holders(n) # {}

\* Nothing is leaked: between calls only the nodes in the stack are allocated.
NothingLeaked == (\A t \in Threads : pc[t] = "idle") => heap = Listed

\* The values in the stack, and the call each thread is in.
Stack == Contents(InOrder, data_)

Call == [t \in Threads |->
    CASE pc[t] = "idle"   -> [op |-> "idle", value |-> NoValue]
      [] pc[t] = "push"   -> [op |-> "push", value |-> data_[node[t]]]
      [] pc[t] = "swap"   -> [op |-> "popped", value |-> data_[node[t]]]
      [] pc[t] = "add"    -> [op |-> "popped", value |-> res[t]]
      [] pc[t] = "return" -> [op |-> "popped", value |-> res[t]]
      [] OTHER            -> [op |-> "pop", value |-> NoValue]]

Abstract == INSTANCE AbstractStack WITH stack <- Stack, call <- Call

\* Every Push and Pop acts on the stack at one moment between call and return;
\* in particular no value is lost or returned twice.
IsAStack == Abstract!Spec
===============================================================================
