---------------------------- MODULE DeleteListStack ----------------------------
(***************************************************************************)
(* playground::LockfreeStackDeleteList.  Pop counts the threads that may   *)
(* look at nodes (thread_in_loop_).  The only one among them deletes what  *)
(* it removed, and also the nodes on to_delete_list_ if it is still alone  *)
(* after it took the list; otherwise nodes go on that list.                *)
(*                                                                         *)
(* One action is one atomic operation, with the accesses of the thread to  *)
(* its own data and nodes after it; operations take effect in one order.   *)
(* A stack has no destructor: what it holds when it is destroyed is lost.  *)
(***************************************************************************)
EXTENDS StackNodes, LinkedLists

VARIABLES
    head_,
    thread_in_loop_,
    to_delete_list_,   \* its first node; next_ leads on
    heap,              \* the nodes that are allocated
    data_, next_,
    pc,                \* where each thread is
    node,              \* the node it pushes or has removed
    old_head,          \* its copy of head_
    new_head,          \* its copy of old_head->next_
    first, last,       \* the nodes it puts on the list, or deletes
    res                \* the result of its Pop

nodes  == <<heap, data_, next_>>
shared == <<head_, thread_in_loop_, to_delete_list_>>
heads  == <<old_head, new_head>>
list   == <<first, last>>
vars   == <<shared, nodes, pc, node, heads, list, res>>

Init ==
    /\ head_ = Null /\ thread_in_loop_ = 0 /\ to_delete_list_ = Null
    /\ heap = {}
    /\ data_ = [n \in Nodes |-> NoValue]
    /\ next_ = [n \in Nodes |-> Null]
    /\ pc = [t \in Threads |-> "idle"]
    /\ node = [t \in Threads |-> Null]
    /\ old_head = [t \in Threads |-> Null]
    /\ new_head = [t \in Threads |-> Null]
    /\ first = [t \in Threads |-> Null] /\ last = [t \in Threads |-> Null]
    /\ res = [t \in Threads |-> NoValue]

Goto(t, label) == pc' = [pc EXCEPT ![t] = label]

Delete(n) ==
    /\ heap' = heap \ {n}
    /\ data_' = [data_ EXCEPT ![n] = NoValue]
    /\ next_' = [next_ EXCEPT ![n] = Null]

-------------------------------------------------------------------------------
\* Push: a new node that points to what head_ is now.
Push(t, v) ==
    /\ pc[t] = "idle"
    /\ \E n \in Nodes \ heap :
         /\ heap' = heap \cup {n}
         /\ data_' = [data_ EXCEPT ![n] = v]
         /\ next_' = [next_ EXCEPT ![n] = head_]
         /\ node' = [node EXCEPT ![t] = n]
    /\ Goto(t, "push")
    /\ UNCHANGED <<shared, heads, list, res>>

\* Its compare_exchange_weak; a failure, spurious or not, loads head_ again.
pushSucceeds(t) ==
    /\ pc[t] = "push"
    /\ head_ = next_[node[t]]
    /\ head_' = node[t]
    /\ node' = [node EXCEPT ![t] = Null]
    /\ Goto(t, "idle")
    /\ UNCHANGED <<thread_in_loop_, to_delete_list_, nodes, heads, list, res>>

pushFails(t) ==
    /\ pc[t] = "push"
    /\ next_' = [next_ EXCEPT ![node[t]] = head_]
    /\ UNCHANGED <<shared, heap, data_, pc, node, heads, list, res>>

-------------------------------------------------------------------------------
Pop(t) ==
    /\ pc[t] = "idle"
    /\ thread_in_loop_' = thread_in_loop_ + 1
    /\ Goto(t, "load")
    /\ UNCHANGED <<head_, to_delete_list_, nodes, node, heads, list, res>>

\* head_ is loaded before the loop, and again by each failed compare-exchange.
LoadHead(t) ==
    /\ old_head' = [old_head EXCEPT ![t] = head_]
    /\ Goto(t, IF head_ = Null THEN "reclaim" ELSE "read")

load(t) ==
    /\ pc[t] = "load"
    /\ LoadHead(t)
    /\ UNCHANGED <<shared, nodes, node, new_head, list, res>>

\* A node that another thread has removed may be on the way to the list, which
\* changes its next_, but then the compare-exchange fails.
readNext(t) ==
    /\ pc[t] = "read"
    /\ new_head' = [new_head EXCEPT ![t] = next_[old_head[t]]]
    /\ Goto(t, "remove")
    /\ UNCHANGED <<shared, nodes, node, old_head, list, res>>

\* Faulty: head_ is stored without a comparison.
removeBlindly(t) ==
    /\ pc[t] = "remove"
    /\ head_' = new_head[t]
    /\ node' = [node EXCEPT ![t] = old_head[t]]
    /\ res' = [res EXCEPT ![t] = data_[old_head[t]]]
    /\ data_' = [data_ EXCEPT ![old_head[t]] = NoValue]
    /\ old_head' = [old_head EXCEPT ![t] = Null]
    /\ new_head' = [new_head EXCEPT ![t] = Null]
    /\ Goto(t, "reclaim")
    /\ UNCHANGED <<thread_in_loop_, to_delete_list_, heap, next_, list>>

\* compare_exchange_weak of head_, which may fail spuriously; then the data are
\* taken out of the node.
removeSucceeds(t) ==
    /\ pc[t] = "remove"
    /\ head_ = old_head[t]
    /\ head_' = new_head[t]
    /\ node' = [node EXCEPT ![t] = old_head[t]]
    /\ res' = [res EXCEPT ![t] = data_[old_head[t]]]
    /\ data_' = [data_ EXCEPT ![old_head[t]] = NoValue]
    /\ old_head' = [old_head EXCEPT ![t] = Null]
    /\ new_head' = [new_head EXCEPT ![t] = Null]
    /\ Goto(t, "reclaim")
    /\ UNCHANGED <<thread_in_loop_, to_delete_list_, heap, next_, list>>

removeFails(t) ==
    /\ pc[t] = "remove"
    /\ LoadHead(t)
    /\ new_head' = [new_head EXCEPT ![t] = Null]
    /\ UNCHANGED <<shared, nodes, node, list, res>>

-------------------------------------------------------------------------------
\* TryReclaim begins with the first look at thread_in_loop_.
TryReclaim(t) ==
    /\ pc[t] = "reclaim"
    /\ \/ /\ thread_in_loop_ = 1
          /\ Goto(t, "exchange")
          /\ UNCHANGED list
       \/ /\ thread_in_loop_ # 1
          /\ first' = [first EXCEPT ![t] = node[t]]
          /\ last' = [last EXCEPT ![t] = node[t]]
          /\ Goto(t, IF node[t] = Null THEN "leave" ELSE "chain")
    /\ UNCHANGED <<shared, nodes, node, heads, res>>

takeList(t) ==
    /\ pc[t] = "exchange"
    /\ first' = [first EXCEPT ![t] = to_delete_list_]
    /\ to_delete_list_' = Null
    /\ Goto(t, "sub")
    /\ UNCHANGED <<head_, thread_in_loop_, nodes, node, heads, last, res>>

\* The end of the list that begins at n.
LastFrom(n) ==
    IF n = Null THEN Null ELSE CHOOSE m \in From(Nodes, n, next_) : next_[m] = Null

\* Faulty: the counter is not looked at again after the list was taken.
subUnchecked(t) ==
    /\ pc[t] = "sub"
    /\ thread_in_loop_' = thread_in_loop_ - 1
    /\ Goto(t, "deleteList")
    /\ UNCHANGED <<head_, to_delete_list_, nodes, node, heads, list, res>>

\* The thread leaves the loop, and sees whether it was alone to the end.
sub(t) ==
    /\ pc[t] = "sub"
    /\ thread_in_loop_' = thread_in_loop_ - 1
    /\ \/ /\ thread_in_loop_ = 1
          /\ Goto(t, "deleteList")
          /\ UNCHANGED last
       \/ /\ thread_in_loop_ # 1
          /\ last' = [last EXCEPT ![t] = LastFrom(first[t])]
          /\ Goto(t, IF first[t] = Null THEN "deleteNode" ELSE "chain")
    /\ UNCHANGED <<head_, to_delete_list_, nodes, node, heads, first, res>>

\* DeleteNodes, one node at a time.
DeleteNodes(t) ==
    /\ pc[t] = "deleteList"
    /\ \/ /\ first[t] = Null
          /\ Goto(t, "deleteNode")
          /\ UNCHANGED <<nodes, first>>
       \/ /\ first[t] # Null
          /\ Delete(first[t])
          /\ first' = [first EXCEPT ![t] = next_[first[t]]]
          /\ UNCHANGED pc
    /\ UNCHANGED <<shared, node, heads, last, res>>

\* ChainPendingNodes: last->next_ = to_delete_list_, then the compare-exchange,
\* which loads the list into last->next_ again when it fails.
ChainPendingNodes(t) ==
    /\ pc[t] = "chain"
    /\ next_' = [next_ EXCEPT ![last[t]] = to_delete_list_]
    /\ Goto(t, "chained")
    /\ UNCHANGED <<shared, heap, data_, node, heads, list, res>>

\* The node that the thread removed is on the list, or it has yet to delete it.
Chained(t) ==
    /\ to_delete_list_' = first[t]
    /\ IF first[t] = node[t]
       THEN Goto(t, "leave") /\ node' = [node EXCEPT ![t] = Null]
       ELSE Goto(t, "deleteNode") /\ UNCHANGED node
    /\ first' = [first EXCEPT ![t] = Null]
    /\ last' = [last EXCEPT ![t] = Null]
    /\ UNCHANGED <<head_, thread_in_loop_, nodes, heads, res>>

\* Faulty: the list is stored without a comparison.
chainBlindly(t) ==
    /\ pc[t] = "chained"
    /\ Chained(t)

chainSucceeds(t) ==
    /\ pc[t] = "chained"
    /\ to_delete_list_ = next_[last[t]]
    /\ Chained(t)

chainFails(t) ==
    /\ pc[t] = "chained"
    /\ next_' = [next_ EXCEPT ![last[t]] = to_delete_list_]
    /\ UNCHANGED <<shared, heap, data_, pc, node, heads, list, res>>

\* delete node, which may be null.
deleteNode(t) ==
    /\ pc[t] = "deleteNode"
    /\ IF node[t] = Null THEN UNCHANGED nodes ELSE Delete(node[t])
    /\ node' = [node EXCEPT ![t] = Null]
    /\ Goto(t, "return")
    /\ UNCHANGED <<shared, heads, list, res>>

leave(t) ==
    /\ pc[t] = "leave"
    /\ thread_in_loop_' = thread_in_loop_ - 1
    /\ Goto(t, "return")
    /\ UNCHANGED <<head_, to_delete_list_, nodes, node, heads, list, res>>

return(t) ==
    /\ pc[t] = "return"
    /\ res' = [res EXCEPT ![t] = NoValue]
    /\ Goto(t, "idle")
    /\ UNCHANGED <<shared, nodes, node, heads, list>>

Step(t) ==
    \/ \E v \in Values : Push(t, v)
    \/ pushSucceeds(t) \/ pushFails(t)
    \/ Pop(t) \/ load(t) \/ readNext(t) \/ removeSucceeds(t) \/ removeFails(t)
    \/ TryReclaim(t) \/ takeList(t) \/ sub(t) \/ DeleteNodes(t)
    \/ ChainPendingNodes(t) \/ chainSucceeds(t) \/ chainFails(t)
    \/ deleteNode(t) \/ leave(t) \/ return(t)

Next == \E t \in Threads : Step(t)

Spec == Init /\ [][Next]_vars

-------------------------------------------------------------------------------
\* The nodes of the stack, from the top, and those to be deleted.
Listed    == From(Nodes, head_, next_)
InOrder   == Line(Nodes, head_, next_)
Deletable == From(Nodes, to_delete_list_, next_)

\* Where thread_in_loop_ counts a thread.
Counted == {"load", "read", "remove", "reclaim", "exchange", "sub", "leave"}

InLoop(t) == pc[t] \in Counted \/ (pc[t] \in {"chain", "chained"} /\ first[t] = node[t])

\* The types of the variables; the counter is the number of threads in the loop.
TypeOK ==
    /\ head_ \in Nodes \cup {Null} /\ to_delete_list_ \in Nodes \cup {Null}
    /\ thread_in_loop_ = Cardinality({t \in Threads : InLoop(t)})
    /\ heap \subseteq Nodes
    /\ data_ \in [Nodes -> Values \cup {NoValue}]
    /\ next_ \in [Nodes -> Nodes \cup {Null}]
    /\ pc \in [Threads -> Counted \cup
                {"idle", "push", "chain", "chained", "deleteList", "deleteNode",
                 "return"}]
    /\ node \in [Threads -> Nodes \cup {Null}]
    /\ old_head \in [Threads -> Nodes \cup {Null}]
    /\ new_head \in [Threads -> Nodes \cup {Null}]
    /\ first \in [Threads -> Nodes \cup {Null}]
    /\ last \in [Threads -> Nodes \cup {Null}]
    /\ res \in [Threads -> Values \cup {NoValue}]

\* The node whose next_ a thread in the loop reads, or has read, is not deleted
\* before the thread is done with it; nor is a node that a thread has.
DeletedUnread ==
    \A t \in Threads :
      /\ pc[t] \in {"read", "remove"} => old_head[t] \in heap
      /\ {node[t], first[t], last[t]} \subseteq heap \cup {Null}

\* The list of a thread; it ends with last, whose next_ points to nodes that the
\* threads share.
Upto(t)    == [n \in Nodes |-> IF n = last[t] THEN Null ELSE next_[n]]
Pending(t) == From(Nodes, first[t], Upto(t))

\* What a thread has taken out of the stack, off the list, or allocated.
Holds(t) == ({node[t]} \ {Null}) \cup Pending(t)

\* Every node is in the stack, on the list, or with one thread, and in one of
\* these only.
DeleteListAccounted ==
    /\ TypeOK
    /\ heap = Listed \cup Deletable \cup UNION {Holds(t) : t \in Threads}
    /\ Listed \cap Deletable = {}
    /\ \A t \in Threads : Holds(t) \cap (Listed \cup Deletable) = {}
    /\ \A t, u \in Threads : t # u => Holds(t) \cap Holds(u) = {}

\* The values in the stack, and the call each thread is in.
Stack == Contents(InOrder, data_)

Call == [t \in Threads |->
    CASE pc[t] = "idle" -> [op |-> "idle", value |-> NoValue]
      [] pc[t] = "push" -> [op |-> "push", value |-> data_[node[t]]]
      [] pc[t] \in {"load", "read", "remove"} -> [op |-> "pop", value |-> NoValue]
      [] OTHER -> [op |-> "popped", value |-> res[t]]]

Abstract == INSTANCE AbstractStack WITH stack <- Stack, call <- Call

\* Every Push and Pop acts on the stack at one moment between call and return:
\* nothing is lost or popped twice (test_lockfree_stack.cpp).
IsAStack == Abstract!Spec
===============================================================================
