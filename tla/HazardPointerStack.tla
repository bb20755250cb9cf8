-------------------------- MODULE HazardPointerStack --------------------------
(***************************************************************************)
(* playground::LockfreeStackHazardPointer.  A thread that is about to read *)
(* next_ of the top node first puts the node into its slot and looks at    *)
(* head_ again; a thread that has removed a node deletes it only after it  *)
(* has found it in no slot, and leaves it on a list otherwise.             *)
(*                                                                         *)
(* One action is one atomic operation, with the accesses of the thread to  *)
(* its own data and nodes after it.  Operations take effect in one order,  *)
(* with one exception: the store of the hazard pointer has memory order    *)
(* release and the load of head_ after it acquire, so the store may become *)
(* visible after the load.  It is visible at the latest with the thread's  *)
(* next store or compare-exchange.  With Ordered = TRUE the load waits.    *)
(***************************************************************************)
EXTENDS HazardSlots, LinkedLists

CONSTANTS Ordered, Empty

ASSUME StackAssumption == Ordered \in BOOLEAN /\ Empty \notin Nodes \cup {Null}

VARIABLES
    head_,
    heap,                \* the nodes that are allocated
    data_, next_,
    nodes_to_reclaim_,   \* the nodes on that list; their order does not matter
    pc,                  \* where each thread is
    node,                \* the node it pushes, or may delete
    old_head,            \* its copy of head_
    new_head,            \* its copy of old_head->next_
    buffer,              \* a hazard pointer that is stored but not visible
    scan,                \* the slot it compares with its node
    taken,               \* the rest of the list it has taken to itself
    res                  \* the result of its Pop

nodes  == <<heap, data_, next_>>
shared == <<head_, nodes, nodes_to_reclaim_>>
locals == <<node, old_head, new_head, buffer, scan, taken, res>>
vars   == <<slots, shared, pc, locals>>

Init ==
    /\ SlotsInit
    /\ head_ = Null
    /\ heap = {}
    /\ data_ = [n \in Nodes |-> NoValue]
    /\ next_ = [n \in Nodes |-> Null]
    /\ nodes_to_reclaim_ = {}
    /\ pc = [t \in Threads |-> "idle"]
    /\ node = [t \in Threads |-> Null]
    /\ old_head = [t \in Threads |-> Null]
    /\ new_head = [t \in Threads |-> Null]
    /\ buffer = [t \in Threads |-> Empty]
    /\ scan = [t \in Threads |-> 0]
    /\ taken = [t \in Threads |-> {}]
    /\ res = [t \in Threads |-> NoValue]

Goto(t, label) == pc' = [pc EXCEPT ![t] = label]

-------------------------------------------------------------------------------
\* Push: a new node that points to what head_ is now.
Push(t, v) ==
    /\ pc[t] = "idle"
    /\ \E n \in Nodes \ heap :
         /\ heap' = heap \cup {n}
         /\ data_' = [data_ EXCEPT ![n] = v]
         /\ next_' = [next_ EXCEPT ![n] = head_]
         /\ node' = [node EXCEPT ![t] = n]
    /\ Goto(t, "push")
    /\ UNCHANGED <<slots, head_, nodes_to_reclaim_, old_head, new_head, buffer,
                   scan, taken, res>>

\* Its compare_exchange_weak; a failure, spurious or not, loads head_ again.
pushSucceeds(t) ==
    /\ pc[t] = "push"
    /\ head_ = next_[node[t]]
    /\ head_' = node[t]
    /\ node' = [node EXCEPT ![t] = Null]
    /\ Goto(t, "idle")
    /\ UNCHANGED <<slots, nodes, nodes_to_reclaim_, old_head, new_head, buffer,
                   scan, taken, res>>

pushFails(t) ==
    /\ pc[t] = "push"
    /\ next_' = [next_ EXCEPT ![node[t]] = head_]
    /\ UNCHANGED <<slots, head_, heap, data_, nodes_to_reclaim_, pc, locals>>

-------------------------------------------------------------------------------
\* GetHazardPointerForCurrentThread in the first Pop of a thread.
GetHazardPointer(t) ==
    /\ \/ pc[t] = "idle" /\ Construct(t) /\ Goto(t, "search")
       \/ pc[t] = "search" /\ TrySlot(t)
          /\ Goto(t, IF hp_owner'[t] = "own" THEN "load" ELSE "search")
       \/ pc[t] = "search" /\ Throw(t) /\ Goto(t, "idle")
    /\ UNCHANGED <<shared, locals>>

\* Pop of a thread that has a slot.
Pop(t) ==
    /\ pc[t] = "load" \/ (pc[t] = "idle" /\ hp_owner[t] = "own")
    /\ old_head' = [old_head EXCEPT ![t] = head_]
    /\ Goto(t, "store")
    /\ UNCHANGED <<slots, shared, node, new_head, buffer, scan, taken, res>>

storeHazard(t) ==
    /\ pc[t] = "store"
    /\ buffer' = [buffer EXCEPT ![t] = old_head[t]]
    /\ Goto(t, "check")
    /\ UNCHANGED <<slots, shared, node, old_head, new_head, scan, taken, res>>

\* The store becomes visible.
flush(t) ==
    /\ buffer[t] # Empty
    /\ SetHazard(t, buffer[t])
    /\ buffer' = [buffer EXCEPT ![t] = Empty]
    /\ UNCHANGED <<shared, pc, node, old_head, new_head, scan, taken, res>>

\* Faulty: head_ is not looked at again.
checkNothing(t) ==
    /\ pc[t] = "check"
    /\ Ordered => buffer[t] = Empty
    /\ Goto(t, IF old_head[t] = Null THEN "clear" ELSE "read")
    /\ UNCHANGED <<slots, shared, locals>>

\* The inner loop ends when head_ is still the node in the slot; the outer loop
\* ends when there is no node.
check(t) ==
    /\ pc[t] = "check"
    /\ Ordered => buffer[t] = Empty
    /\ old_head' = [old_head EXCEPT ![t] = head_]
    /\ Goto(t, IF head_ # old_head[t] THEN "store"
               ELSE IF head_ = Null THEN "clear" ELSE "read")
    /\ UNCHANGED <<slots, shared, node, new_head, buffer, scan, taken, res>>

\* The memory of a deleted node may hold anything.
NextOf(n) == IF n \in heap THEN {next_[n]} ELSE Nodes \cup {Null}

readNext(t) ==
    /\ pc[t] = "read"
    /\ \E p \in NextOf(old_head[t]) : new_head' = [new_head EXCEPT ![t] = p]
    /\ Goto(t, "remove")
    /\ UNCHANGED <<slots, shared, node, old_head, buffer, scan, taken, res>>

\* Faulty: head_ is stored without a comparison.
removeBlindly(t) ==
    /\ pc[t] = "remove" /\ buffer[t] = Empty
    /\ head_' = new_head[t]
    /\ Goto(t, "clear")
    /\ new_head' = [new_head EXCEPT ![t] = Null]
    /\ UNCHANGED <<slots, nodes, nodes_to_reclaim_, node, old_head, buffer,
                   scan, taken, res>>

\* compare_exchange_strong of head_.
remove(t) ==
    /\ pc[t] = "remove" /\ buffer[t] = Empty
    /\ \/ /\ head_ = old_head[t]
          /\ head_' = new_head[t]
          /\ Goto(t, "clear")
          /\ UNCHANGED old_head
       \/ /\ head_ # old_head[t]
          /\ old_head' = [old_head EXCEPT ![t] = head_]
          /\ Goto(t, "store")
          /\ UNCHANGED head_
    /\ new_head' = [new_head EXCEPT ![t] = Null]
    /\ UNCHANGED <<slots, nodes, nodes_to_reclaim_, node, buffer, scan, taken,
                   res>>

\* The slot is cleared, then the data are taken out of the node.
clear(t) ==
    /\ pc[t] = "clear" /\ buffer[t] = Empty
    /\ SetHazard(t, Null)
    /\ IF old_head[t] = Null
       THEN /\ Goto(t, "return")
            /\ UNCHANGED <<data_, res>>
       ELSE /\ Goto(t, "scan")
            /\ res' = [res EXCEPT ![t] = data_[old_head[t]]]
            /\ data_' = [data_ EXCEPT ![old_head[t]] = NoValue]
    /\ node' = [node EXCEPT ![t] = old_head[t]]
    /\ UNCHANGED <<head_, heap, next_, nodes_to_reclaim_, old_head, new_head,
                   buffer, scan, taken>>

-------------------------------------------------------------------------------
\* OutstandingHazardPointersFor the node: one slot.
compareSlot(t) ==
    LET found == hp_[scan[t]] = node[t]
        last  == scan[t] + 1 = max_hazard_pointers
    IN  /\ pc[t] = "scan"
        /\ Goto(t, IF found THEN "keep" ELSE IF last THEN "delete" ELSE "scan")
        /\ scan' = [scan EXCEPT ![t] = IF found \/ last THEN 0 ELSE @ + 1]
        /\ UNCHANGED <<slots, shared, node, old_head, new_head, buffer, taken,
                       res>>

\* After the node that Pop removed, the nodes on the list are examined.
Examined(t) ==
    /\ node' = [node EXCEPT ![t] = Null]
    /\ old_head' = [old_head EXCEPT ![t] = Null]
    /\ Goto(t, IF old_head[t] # Null THEN "exchange" ELSE "walk")
    /\ UNCHANGED <<slots, head_, new_head, buffer, scan, taken, res>>

\* Faulty: only nodes that the thread itself removed go on the list.
keepOwn(t) ==
    /\ pc[t] = "keep"
    /\ nodes_to_reclaim_' =
         IF old_head[t] # Null THEN nodes_to_reclaim_ \cup {node[t]}
         ELSE nodes_to_reclaim_
    /\ Examined(t)
    /\ UNCHANGED nodes

\* AddToReclaimList.  Its compare-exchange repeats until it succeeds.
keep(t) ==
    /\ pc[t] = "keep"
    /\ nodes_to_reclaim_' = nodes_to_reclaim_ \cup {node[t]}
    /\ Examined(t)
    /\ UNCHANGED nodes

delete(t) ==
    /\ pc[t] = "delete"
    /\ heap' = heap \ {node[t]}
    /\ data_' = [data_ EXCEPT ![node[t]] = NoValue]
    /\ next_' = [next_ EXCEPT ![node[t]] = Null]
    /\ Examined(t)
    /\ UNCHANGED nodes_to_reclaim_

\* DeleteNodesWithNoHazards takes the list, then examines its nodes.
takeList(t) ==
    /\ pc[t] = "exchange"
    /\ taken' = [taken EXCEPT ![t] = nodes_to_reclaim_]
    /\ nodes_to_reclaim_' = {}
    /\ Goto(t, "walk")
    /\ UNCHANGED <<slots, head_, nodes, node, old_head, new_head, buffer, scan,
                   res>>

walk(t) ==
    /\ pc[t] = "walk"
    /\ \/ taken[t] = {} /\ Goto(t, "return") /\ UNCHANGED <<node, taken>>
       \/ \E n \in taken[t] :
            /\ node' = [node EXCEPT ![t] = n]
            /\ taken' = [taken EXCEPT ![t] = @ \ {n}]
            /\ Goto(t, "scan")
    /\ UNCHANGED <<slots, shared, old_head, new_head, buffer, scan, res>>

return(t) ==
    /\ pc[t] = "return"
    /\ res' = [res EXCEPT ![t] = NoValue]
    /\ Goto(t, "idle")
    /\ UNCHANGED <<slots, shared, node, old_head, new_head, buffer, scan, taken>>

\* The thread ends between calls, and may be started again.
exit(t) ==
    /\ pc[t] = "idle"
    /\ Destruct(t)
    /\ UNCHANGED <<shared, pc, locals>>

Step(t) ==
    \/ \E v \in Values : Push(t, v)
    \/ pushSucceeds(t) \/ pushFails(t)
    \/ GetHazardPointer(t) \/ Pop(t)
    \/ storeHazard(t) \/ flush(t) \/ check(t) \/ readNext(t) \/ remove(t)
    \/ clear(t) \/ compareSlot(t) \/ keep(t) \/ delete(t)
    \/ takeList(t) \/ walk(t) \/ return(t) \/ exit(t)

Next == \E t \in Threads : Step(t)

Spec == Init /\ [][Next]_vars

-------------------------------------------------------------------------------
\* The nodes of the stack, from the top.
Listed  == From(Nodes, head_, next_)
InOrder == Line(Nodes, head_, next_)

Guarding == {"check", "read", "remove", "clear"}

\* The types of the variables; a slot holds a pointer only during the loop of a
\* Pop of its owner, and no thread has a node when it does not work on one.
TypeOK ==
    /\ SlotsTypeOK
    /\ head_ \in Nodes \cup {Null} /\ heap \subseteq Nodes
    /\ data_ \in [Nodes -> Values \cup {NoValue}]
    /\ next_ \in [Nodes -> Nodes \cup {Null}]
    /\ nodes_to_reclaim_ \subseteq Nodes
    /\ pc \in [Threads -> Guarding \cup
                {"idle", "push", "search", "load", "store", "scan", "keep",
                 "delete", "exchange", "walk", "return"}]
    /\ node \in [Threads -> Nodes \cup {Null}]
    /\ \A t \in Threads :
         node[t] # Null <=> pc[t] \in {"push", "scan", "keep", "delete"}
    /\ old_head \in [Threads -> Nodes \cup {Null}]
    /\ new_head \in [Threads -> Nodes \cup {Null}]
    /\ buffer \in [Threads -> Nodes \cup {Null, Empty}]
    /\ scan \in [Threads -> Slots]
    /\ taken \in [Threads -> SUBSET Nodes]
    /\ res \in [Threads -> Values \cup {NoValue}]
    /\ \A s \in Slots : hp_[s] # Null =>
         thread_id_[s] # NoThread /\ pc[thread_id_[s]] \in Guarding \cup {"store"}

\* The node whose next_ a thread is about to read, or has read and is about to
\* remove, is not deleted under it.
NodesInUseExist ==
    \A t \in Threads :
      /\ pc[t] \in {"read", "remove"} => old_head[t] \in heap
      /\ pc[t] = "clear" /\ old_head[t] # Null => old_head[t] \in heap
      /\ node[t] # Null => node[t] \in heap

\* Who may delete a node: the thread that removed it or took it off the list.
Removed(t) ==
    taken[t]
    \cup (IF pc[t] \in {"scan", "keep", "delete"} THEN {node[t]} ELSE {})
    \cup (IF pc[t] = "clear" THEN {old_head[t]} \ {Null} ELSE {})

New == {node[t] : t \in {u \in Threads : pc[u] = "push"}}

\* Every node is in the stack, being pushed, on the list, or with one thread
\* that will delete it or put it on the list, and in one of these only.
NodesAccounted ==
    /\ TypeOK
    /\ heap = Listed \cup New \cup nodes_to_reclaim_
                \cup UNION {Removed(t) : t \in Threads}
    /\ (New \cup Listed) \cap nodes_to_reclaim_ = {}
    /\ \A t \in Threads : Removed(t) \cap (Listed \cup New \cup nodes_to_reclaim_) = {}
    /\ \A t, u \in Threads : t # u => Removed(t) \cap Removed(u) = {}

\* The values in the stack, and the call each thread is in.  A Pop that finds
\* no slot does not touch the stack.
Stack == Contents(InOrder, data_)

Call == [t \in Threads |->
    CASE pc[t] \in {"idle", "search", "load"} -> [op |-> "idle", value |-> NoValue]
      [] pc[t] = "push" -> [op |-> "push", value |-> data_[node[t]]]
      [] pc[t] \in {"store", "check", "read", "remove"} ->
           [op |-> "pop", value |-> NoValue]
      [] pc[t] = "clear" ->
           [op |-> "popped",
            value |-> IF old_head[t] = Null THEN NoValue ELSE data_[old_head[t]]]
      [] OTHER -> [op |-> "popped", value |-> res[t]]]

Abstract == INSTANCE AbstractStack WITH stack <- Stack, call <- Call

\* Every Push and Pop acts on the stack at one moment between call and return:
\* nothing is lost or popped twice (test_lockfree_stack.cpp).
IsAStack == Abstract!Spec
===============================================================================
