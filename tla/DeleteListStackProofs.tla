------------------------- MODULE DeleteListStackProofs -------------------------
(***************************************************************************)
(* Proofs about the stack with a list of nodes to be deleted, as DList of  *)
(* DeleteListBeside, for any number of threads and nodes: no node is       *)
(* deleted in the hands of a thread, every node is accounted for, and Push *)
(* and Pop act like those of a stack.                                      *)
(***************************************************************************)
EXTENDS DeleteListBeside, LinkedListProofs

-------------------------------------------------------------------------------
\* The nodes of the stack and those to be deleted, in the operators that
\* LinkedListProofs is about.
Listed    == From(Nodes, d_head, d_next)
InOrder   == Line(Nodes, d_head, d_next)
Deletable == From(Nodes, d_list, d_next)

Pending(t) == From(Nodes, d_first[t], DList!Upto(t))
Holds(t)   == ({d_node[t]} \ {Null}) \cup Pending(t)

LastFrom(n) ==
    IF n = Null THEN Null
    ELSE CHOOSE m \in From(Nodes, n, d_next) : d_next[m] = Null

\* The operators of the instance are the same.
LEMMA ListOperators ==
    /\ \A nodes, f, nxt : DList!From(nodes, f, nxt) = From(nodes, f, nxt)
    /\ \A nodes, f, nxt : DList!Line(nodes, f, nxt) = Line(nodes, f, nxt)
    /\ \A order, data : DList!Contents(order, data) = Contents(order, data)
    /\ \A set : DList!Cardinality(set) = Cardinality(set)
BY DEF DList!Line, DList!From, DList!Walk, DList!Contents,
       DList!Cardinality, DList!IsFiniteSet,
       Line, From, Walk, Contents, Cardinality, IsFiniteSet

LEMMA SameLists ==
    /\ DList!Listed = Listed /\ DList!Deletable = Deletable
    /\ \A t : DList!Holds(t) = Holds(t)
    /\ \A n : DList!LastFrom(n) = LastFrom(n)
    /\ DList!Stack = Contents(InOrder, d_data)
    /\ DList!Stack' = Contents(InOrder', d_data')
<1>1. DList!Listed = Listed /\ DList!Deletable = Deletable
  BY ListOperators DEF DList!Listed, DList!Deletable, Listed, Deletable
<1>2. \A t : DList!Holds(t) = Holds(t)
  BY ListOperators DEF DList!Holds, DList!Pending, Holds, Pending
<1>3. \A n : DList!LastFrom(n) = LastFrom(n)
  BY DEF DList!LastFrom, DList!From, DList!Walk, DList!Cardinality, DList!IsFiniteSet,
         LastFrom, From, Walk, Cardinality, IsFiniteSet
<1>4. DList!Stack = Contents(InOrder, d_data)
  BY ListOperators DEF DList!Stack, DList!InOrder, InOrder
<1>5. DList!Stack' = Contents(InOrder', d_data')
  BY ListOperators DEF DList!Stack, DList!InOrder, InOrder
<1>6. QED
  BY <1>1, <1>2, <1>3, <1>4, <1>5

-------------------------------------------------------------------------------
\* The invariant.
Linked(list_head, nxt) == IsLinked(Nodes, list_head, nxt, Null)

Chaining == {"chain", "chained"}

Labels == DList!Counted \cup Chaining \cup
            {"idle", "push", "deleteList", "deleteNode", "return"}

Types ==
    /\ d_head \in Nodes \cup {Null} /\ d_list \in Nodes \cup {Null}
    /\ d_heap \subseteq Nodes
    /\ d_data \in [Nodes -> Values \cup {NoValue}]
    /\ d_next \in [Nodes -> Nodes \cup {Null}]
    /\ d_pc \in [Threads -> Labels]
    /\ d_node \in [Threads -> Nodes \cup {Null}]
    /\ d_old \in [Threads -> Nodes \cup {Null}]
    /\ d_new \in [Threads -> Nodes \cup {Null}]
    /\ d_first \in [Threads -> Nodes \cup {Null}]
    /\ d_last \in [Threads -> Nodes \cup {Null}]
    /\ d_res \in [Threads -> Values \cup {NoValue}]

InTheLoop == {t \in Threads : DList!InLoop(t)}

CounterExact == d_in_loop = Cardinality(InTheLoop)

Lists ==
    /\ Linked(d_head, d_next) /\ Linked(d_list, d_next)
    /\ \A t \in Threads : Linked(d_first[t], DList!Upto(t))

\* Where a thread has a node of its own and where it has a list.  The node begins
\* the list only when it is all the thread puts on the list of the stack.
InPlace(t) ==
    /\ d_first[t] # Null => d_pc[t] \in {"sub", "deleteList"} \cup Chaining
    /\ d_pc[t] \in Chaining => d_first[t] # Null /\ d_last[t] \in Pending(t)
    /\ d_pc[t] \notin Chaining => d_last[t] = Null
    /\ d_node[t] # Null =>
         d_pc[t] \notin {"idle", "load", "read", "remove", "leave", "return"}
    /\ d_pc[t] = "push" => d_node[t] # Null
    /\ d_node[t] \in Pending(t) => d_pc[t] \in Chaining /\ d_first[t] = d_node[t]

OneOwner ==
    /\ d_heap = Listed \cup Deletable \cup UNION {Holds(t) : t \in Threads}
    /\ Listed \cap Deletable = {}
    /\ \A t \in Threads : Holds(t) \cap (Listed \cup Deletable) = {}
    /\ \A t, u \in Threads : t # u => Holds(t) \cap Holds(u) = {}

\* Whether a thread will delete its node without another look at the counter.
WillDelete(t) ==
    \/ d_pc[t] \in {"exchange", "sub", "deleteList", "deleteNode"}
    \/ d_pc[t] \in Chaining /\ d_first[t] # d_node[t]

New == {d_node[t] : t \in {u \in Threads : d_pc[u] = "push"}}

\* A thread in the loop has loaded a node that nobody deletes: whoever will delete
\* something was alone in the loop when it made up its mind, and by then the node
\* was out of the stack.  As long as the node is in the stack, its next_ is what
\* the thread has read.
Protects(t) ==
    d_pc[t] \in {"read", "remove"} =>
      /\ d_old[t] \in d_heap /\ d_old[t] \notin New
      /\ d_pc[t] = "remove" /\ d_old[t] \in Listed => d_new[t] = d_next[d_old[t]]
      /\ \A u \in Threads : WillDelete(u) => d_node[u] # d_old[t]
      /\ \A u \in Threads : d_pc[u] = "deleteList" => d_old[t] \notin Pending(u)

\* A value is in its node until the node is removed.
ValuesKept ==
    /\ \A n \in Listed : d_data[n] \in Values
    /\ \A t \in Threads :
         /\ d_pc[t] = "push" => d_data[d_node[t]] \in Values
         /\ d_pc[t] \in {"idle", "push", "load", "read", "remove"} => d_res[t] = NoValue

StackInv ==
    /\ Types /\ CounterExact /\ Lists
    /\ \A t \in Threads : InPlace(t)
    /\ OneOwner
    /\ \A t \in Threads : Protects(t)
    /\ ValuesKept

-------------------------------------------------------------------------------
\* The lists of the stack and of the threads.
LEMMA ListFacts ==
    ASSUME NEW list_head, NEW nxt, Linked(list_head, nxt)
    PROVE  /\ Line(Nodes, list_head, nxt) \in Seq(Nodes)
           /\ Members(Line(Nodes, list_head, nxt)) = From(Nodes, list_head, nxt)
           /\ From(Nodes, list_head, nxt) \subseteq Nodes
           /\ list_head \in Nodes \cup {Null}
           /\ Line(Nodes, list_head, nxt) = <<>> <=> list_head = Null
           /\ list_head = Null => From(Nodes, list_head, nxt) = {}
           /\ list_head # Null => /\ list_head \in From(Nodes, list_head, nxt)
                                  /\ Line(Nodes, list_head, nxt)[1] = list_head
BY NullAssumption, LinkedFacts DEF Linked

LEMMA ListFrame ==
    ASSUME NEW list_head, NEW nxt, NEW nxt2, Linked(list_head, nxt),
           \A n \in From(Nodes, list_head, nxt) : nxt2[n] = nxt[n]
    PROVE  /\ Linked(list_head, nxt2)
           /\ Line(Nodes, list_head, nxt2) = Line(Nodes, list_head, nxt)
           /\ From(Nodes, list_head, nxt2) = From(Nodes, list_head, nxt)
BY NullAssumption, LinkedFrame DEF Linked

LEMMA ListEmpty ==
    ASSUME NEW nxt
    PROVE  /\ Linked(Null, nxt) /\ From(Nodes, Null, nxt) = {}
           /\ Line(Nodes, Null, nxt) = <<>>
BY NullAssumption, LinkedEmpty DEF Linked

LEMMA ListSingle ==
    ASSUME NEW n \in Nodes, NEW nxt, nxt[n] = Null
    PROVE  Linked(n, nxt) /\ From(Nodes, n, nxt) = {n}
<1>1. Linked(nxt[n], nxt) /\ From(Nodes, nxt[n], nxt) = {}
  BY ListEmpty
<1>2. /\ IsLinked(Nodes, n, nxt, Null)
      /\ Line(Nodes, n, nxt) = <<n>> \o Line(Nodes, nxt[n], nxt)
      /\ From(Nodes, n, nxt) = From(Nodes, nxt[n], nxt) \cup {n}
  BY <1>1, NullAssumption, LinkedPush DEF Linked
<1>3. QED
  BY <1>1, <1>2 DEF Linked

\* Of the nodes a thread has, where it has them.
LEMMA HeldNodes ==
    ASSUME StackInv, NEW t \in Threads
    PROVE  /\ d_pc[t] = "push" => d_node[t] \in Nodes /\ Holds(t) = {d_node[t]}
           /\ d_pc[t] \in {"idle", "load", "read", "remove", "leave", "return"} =>
                Holds(t) = {}
           /\ d_pc[t] \in {"reclaim", "exchange", "deleteNode"} =>
                Holds(t) = {d_node[t]} \ {Null}
           /\ d_pc[t] \in Chaining =>
                d_first[t] \in Pending(t) /\ d_last[t] \in Pending(t)
           /\ d_first[t] = Null => Pending(t) = {}
           /\ d_first[t] # Null => d_first[t] \in Pending(t)
           /\ d_node[t] # Null => d_node[t] \in Holds(t)
           /\ Pending(t) \subseteq Holds(t) /\ Holds(t) \subseteq d_heap
           /\ Holds(t) \subseteq Nodes /\ Pending(t) \subseteq Nodes
           /\ Holds(t) \cap (Listed \cup Deletable) = {}
<1>1. Linked(d_first[t], DList!Upto(t)) /\ InPlace(t) /\ Types
  BY DEF StackInv, Lists
<1> DEFINE f == d_first[t]
           nxt == DList!Upto(t)
<1>2. Linked(f, nxt) /\ Pending(t) = From(Nodes, f, nxt)
  BY <1>1 DEF Pending
<1> HIDE DEF f, nxt
<1>3. /\ f = Null => Pending(t) = {}
      /\ f # Null => f \in Pending(t)
      /\ Pending(t) \subseteq Nodes
  BY <1>2, ListFacts
<1>4. /\ d_first[t] = Null => Pending(t) = {}
      /\ d_first[t] # Null => d_first[t] \in Pending(t)
  BY <1>3 DEF f
<1>5. Holds(t) \subseteq d_heap /\ d_heap \subseteq Nodes
      /\ Holds(t) \cap (Listed \cup Deletable) = {}
  BY DEF StackInv, OneOwner, Types
<1>6. /\ d_pc[t] \notin {"sub", "deleteList"} \cup Chaining => Pending(t) = {}
      /\ d_pc[t] \in {"idle", "load", "read", "remove", "leave", "return"} =>
           d_node[t] = Null
      /\ d_pc[t] = "push" => d_node[t] \in Nodes
  BY <1>1, <1>4 DEF InPlace, Types
<1>7. d_pc[t] \in Chaining => d_first[t] \in Pending(t) /\ d_last[t] \in Pending(t)
  BY <1>1, <1>4 DEF InPlace
<1>8. /\ d_pc[t] = "push" => Holds(t) = {d_node[t]}
      /\ d_pc[t] \in {"idle", "load", "read", "remove", "leave", "return"} =>
           Holds(t) = {}
      /\ d_pc[t] \in {"reclaim", "exchange", "deleteNode"} =>
           Holds(t) = {d_node[t]} \ {Null}
  BY <1>6, NullAssumption DEF Holds, Chaining
<1>9. /\ d_node[t] # Null => d_node[t] \in Holds(t)
      /\ Pending(t) \subseteq Holds(t)
  BY DEF Holds
<1>10. QED
  BY <1>3, <1>4, <1>5, <1>6, <1>7, <1>8, <1>9

-------------------------------------------------------------------------------
LEMMA EndOfList ==
    ASSUME StackInv, NEW t \in Threads, d_pc[t] = "sub", d_first[t] # Null
    PROVE  /\ LastFrom(d_first[t]) \in Pending(t) /\ LastFrom(d_first[t]) \in Nodes
           /\ d_next[LastFrom(d_first[t])] = Null
<1>1. d_last[t] = Null /\ d_first[t] \in Nodes /\ d_next \in [Nodes -> Nodes \cup {Null}]
      /\ Null \notin Nodes
  BY NullAssumption DEF StackInv, InPlace, Types, Chaining
<1> DEFINE f == d_first[t]
           nxt == DList!Upto(t)
           nxt2 == d_next
<1>2. Linked(f, nxt) /\ \A n \in Nodes : nxt2[n] = nxt[n]
  BY <1>1 DEF StackInv, Lists, DList!Upto
<1>3. Pending(t) = From(Nodes, f, nxt) /\ f # Null
  BY DEF Pending
<1> HIDE DEF f, nxt, nxt2
<1>4. From(Nodes, f, nxt) \subseteq Nodes
  BY <1>2, ListFacts
<1>5. Linked(f, nxt2) /\ From(Nodes, f, nxt2) = Pending(t)
  BY <1>2, <1>3, <1>4, ListFrame
<1>6. \E m \in From(Nodes, f, nxt2) : nxt2[m] = Null
  BY <1>3, <1>5, NullAssumption, LinkedEnd DEF Linked
<1>7. /\ LastFrom(d_first[t]) \in From(Nodes, d_first[t], d_next)
      /\ d_next[LastFrom(d_first[t])] = Null
  BY <1>6 DEF LastFrom, f, nxt2
<1>8. QED
  BY <1>3, <1>4, <1>5, <1>7 DEF f, nxt2

\* What a step of a thread leaves alone: the other threads, and the nodes that are
\* not its own; a node stays as it is allocated until its owner deletes it.
Frames(a) ==
    /\ \A u \in Threads \ {a} :
         /\ d_pc'[u] = d_pc[u] /\ d_node'[u] = d_node[u] /\ d_res'[u] = d_res[u]
         /\ d_old'[u] = d_old[u] /\ d_new'[u] = d_new[u]
         /\ d_first'[u] = d_first[u] /\ d_last'[u] = d_last[u]
    /\ \A n \in d_heap \ Holds(a) : /\ n \in d_heap' /\ d_next'[n] = d_next[n]
                                    /\ ~(DList!removeSucceeds(a) /\ n = d_old[a]) =>
                                         d_data'[n] = d_data[n]
    /\ \A n \in d_heap : n \notin d_heap' =>
         \/ d_pc[a] = "deleteNode" /\ n = d_node[a]
         \/ d_pc[a] = "deleteList" /\ n \in Pending(a)
    /\ \A n \in d_heap : n \notin New => n \notin New'

LEMMA NewKept ==
    ASSUME Types, NEW a \in Threads,
           \A u \in Threads \ {a} : d_pc'[u] = d_pc[u] /\ d_node'[u] = d_node[u],
           d_pc'[a] = "push" => d_node'[a] \notin d_heap \/ d_node'[a] \in New
    PROVE  \A n \in d_heap : n \notin New => n \notin New'
BY DEF New

\* The types of the variables, and what a step leaves alone.
LEMMA StepFrames ==
    ASSUME StackInv, NEW a \in Threads, DList!Step(a)
    PROVE  Types' /\ Frames(a)
<1>0. Types /\ Null \notin Nodes /\ InPlace(a)
  BY NullAssumption DEF StackInv
<1> USE <1>0 DEF Types, Labels, DList!Counted, Chaining
<1>1. ASSUME NEW v \in Values, DList!Push(a, v) PROVE Types' /\ Frames(a)
  <2>1. PICK n \in Nodes \ d_heap :
        /\ d_heap' = d_heap \cup {n}
        /\ d_data' = [d_data EXCEPT ![n] = v]
        /\ d_next' = [d_next EXCEPT ![n] = d_head]
        /\ d_node' = [d_node EXCEPT ![a] = n]
    BY <1>1 DEF DList!Push
  <2>2. d_pc' = [d_pc EXCEPT ![a] = "push"]
        /\ UNCHANGED <<d_head, d_list, d_old, d_new, d_first, d_last, d_res>>
    BY <1>1 DEF DList!Push, DList!Goto, DList!shared, DList!heads, DList!list
  <2>3. \A m \in d_heap : m \notin New => m \notin New'
    BY <2>1, <2>2, NewKept
  <2>4. Types'
    BY <2>1, <2>2
  <2>5. QED
    BY <2>1, <2>2, <2>3, <2>4 DEF Frames
<1>2. CASE DList!pushSucceeds(a)
  <2>1. /\ d_pc' = [d_pc EXCEPT ![a] = "idle"] /\ d_node' = [d_node EXCEPT ![a] = Null]
        /\ d_head' = d_node[a]
        /\ UNCHANGED <<d_list, d_heap, d_data, d_next, d_old, d_new, d_first, d_last,
                       d_res>>
    BY <1>2 DEF DList!pushSucceeds, DList!Goto, DList!nodes, DList!heads, DList!list
  <2>2. \A m \in d_heap : m \notin New => m \notin New'
    BY <2>1, NewKept
  <2>3. QED
    BY <2>1, <2>2 DEF Frames
<1>3. CASE DList!pushFails(a)
  <2>1. /\ d_pc[a] = "push" /\ d_next' = [d_next EXCEPT ![d_node[a]] = d_head]
        /\ UNCHANGED <<d_head, d_list, d_heap, d_data, d_pc, d_node, d_old, d_new,
                       d_first, d_last, d_res>>
    BY <1>3 DEF DList!pushFails, DList!shared, DList!heads, DList!list
  <2>2. d_node[a] \in Holds(a) /\ New' = New
    BY <2>1, HeldNodes DEF New
  <2>3. QED
    BY <2>1, <2>2 DEF Frames
<1>4. CASE DList!Pop(a) \/ DList!load(a) \/ DList!leave(a) \/ DList!return(a)
  <2>1. /\ UNCHANGED <<d_head, d_list, d_heap, d_data, d_next, d_node, d_new, d_first,
                       d_last>>
        /\ d_pc' = [d_pc EXCEPT ![a] = d_pc'[a]] /\ d_pc'[a] # "push"
        /\ d_pc'[a] \in Labels
        /\ d_old' = d_old \/ d_old' = [d_old EXCEPT ![a] = d_head]
        /\ d_res' = d_res \/ d_res' = [d_res EXCEPT ![a] = NoValue]
    BY <1>4
       DEF DList!Pop, DList!load, DList!leave, DList!return, DList!LoadHead, DList!Goto,
           DList!shared, DList!nodes, DList!heads, DList!list
  <2>2. \A m \in d_heap : m \notin New => m \notin New'
    BY <2>1, NewKept
  <2>3. Types'
    BY <2>1
  <2>4. QED
    BY <2>1, <2>2, <2>3 DEF Frames
<1>5. CASE DList!readNext(a) \/ DList!removeFails(a)
  <2>1. /\ UNCHANGED <<d_head, d_list, d_heap, d_data, d_next, d_node, d_first, d_last,
                       d_res>>
        /\ d_pc' = [d_pc EXCEPT ![a] = d_pc'[a]] /\ d_pc'[a] # "push"
        /\ d_pc'[a] \in Labels
        /\ d_old' = d_old \/ d_old' = [d_old EXCEPT ![a] = d_head]
        /\ \/ d_new' = [d_new EXCEPT ![a] = Null]
           \/ d_new' = [d_new EXCEPT ![a] = d_next[d_old[a]]] /\ d_pc[a] = "read"
    BY <1>5
       DEF DList!readNext, DList!removeFails, DList!LoadHead, DList!Goto, DList!shared,
           DList!nodes, DList!heads, DList!list
  <2>2. \A m \in d_heap : m \notin New => m \notin New'
    BY <2>1, NewKept
  <2>3. d_pc[a] = "read" => d_old[a] \in Nodes
    BY DEF StackInv, Protects
  <2>4. Types'
    BY <2>1, <2>3
  <2>5. QED
    BY <2>1, <2>2, <2>4 DEF Frames
<1>6. CASE DList!removeSucceeds(a)
  <2>1. /\ d_pc[a] = "remove" /\ d_pc' = [d_pc EXCEPT ![a] = "reclaim"]
        /\ d_head' = d_new[a]
        /\ d_node' = [d_node EXCEPT ![a] = d_old[a]]
        /\ d_res' = [d_res EXCEPT ![a] = d_data[d_old[a]]]
        /\ d_data' = [d_data EXCEPT ![d_old[a]] = NoValue]
        /\ d_old' = [d_old EXCEPT ![a] = Null]
        /\ d_new' = [d_new EXCEPT ![a] = Null]
        /\ UNCHANGED <<d_list, d_heap, d_next, d_first, d_last>>
    BY <1>6 DEF DList!removeSucceeds, DList!Goto, DList!list
  <2>2. \A m \in d_heap : m \notin New => m \notin New'
    BY <2>1, NewKept
  <2>3. d_old[a] \in Nodes
    BY <2>1 DEF StackInv, Protects
  <2>4. Types'
    BY <2>1, <2>3
  <2>5. QED
    BY <1>6, <2>1, <2>2, <2>4 DEF Frames
<1>7. CASE DList!TryReclaim(a)
  <2>1. /\ UNCHANGED <<d_head, d_list, d_heap, d_data, d_next, d_node, d_old, d_new,
                       d_res>>
        /\ d_pc' = [d_pc EXCEPT ![a] = d_pc'[a]] /\ d_pc'[a] # "push"
        /\ d_pc'[a] \in Labels
        /\ d_first' = d_first \/ d_first' = [d_first EXCEPT ![a] = d_node[a]]
        /\ d_last' = d_last \/ d_last' = [d_last EXCEPT ![a] = d_node[a]]
    BY <1>7
       DEF DList!TryReclaim, DList!Goto, DList!shared, DList!nodes, DList!heads,
           DList!list
  <2>2. \A m \in d_heap : m \notin New => m \notin New'
    BY <2>1, NewKept
  <2>3. Types'
    BY <2>1
  <2>4. QED
    BY <2>1, <2>2, <2>3 DEF Frames
<1>8. CASE DList!takeList(a)
  <2>1. /\ UNCHANGED <<d_head, d_heap, d_data, d_next, d_node, d_old, d_new, d_last,
                       d_res>>
        /\ d_pc' = [d_pc EXCEPT ![a] = "sub"]
        /\ d_first' = [d_first EXCEPT ![a] = d_list]
        /\ d_list' = Null
    BY <1>8 DEF DList!takeList, DList!Goto, DList!nodes, DList!heads
  <2>2. \A m \in d_heap : m \notin New => m \notin New'
    BY <2>1, NewKept
  <2>3. QED
    BY <2>1, <2>2 DEF Frames
<1>9. CASE DList!sub(a)
  <2>1. /\ UNCHANGED <<d_head, d_list, d_heap, d_data, d_next, d_node, d_old, d_new,
                       d_first, d_res>>
        /\ d_pc' = [d_pc EXCEPT ![a] = d_pc'[a]] /\ d_pc'[a] # "push"
        /\ d_pc'[a] \in Labels
        /\ d_pc[a] = "sub"
        /\ d_last' = d_last \/ d_last' = [d_last EXCEPT ![a] = LastFrom(d_first[a])]
    BY <1>9, SameLists DEF DList!sub, DList!Goto, DList!nodes, DList!heads
  <2>2. \A m \in d_heap : m \notin New => m \notin New'
    BY <2>1, NewKept
  <2>3. LastFrom(d_first[a]) \in Nodes \cup {Null}
    <3>1. CASE d_first[a] = Null
      BY <3>1 DEF LastFrom
    <3>2. CASE d_first[a] # Null
      BY <2>1, <3>2, EndOfList
    <3>3. QED
      BY <3>1, <3>2
  <2>4. Types'
    BY <2>1, <2>3
  <2>5. QED
    BY <2>1, <2>2, <2>4 DEF Frames
<1>10. CASE DList!DeleteNodes(a)
  <2>1. CASE d_first[a] = Null
    <3>1. /\ UNCHANGED <<d_head, d_list, d_heap, d_data, d_next, d_node, d_old, d_new,
                         d_first, d_last, d_res>>
          /\ d_pc' = [d_pc EXCEPT ![a] = "deleteNode"]
      BY <1>10, <2>1
         DEF DList!DeleteNodes, DList!Goto, DList!nodes, DList!heads, DList!shared
    <3>2. \A m \in d_heap : m \notin New => m \notin New'
      BY <3>1, NewKept
    <3>3. QED
      BY <3>1, <3>2 DEF Frames
  <2>2. CASE d_first[a] # Null
    <3>1. /\ d_pc[a] = "deleteList"
          /\ d_heap' = d_heap \ {d_first[a]}
          /\ d_data' = [d_data EXCEPT ![d_first[a]] = NoValue]
          /\ d_next' = [d_next EXCEPT ![d_first[a]] = Null]
          /\ d_first' = [d_first EXCEPT ![a] = d_next[d_first[a]]]
          /\ UNCHANGED <<d_head, d_list, d_pc, d_node, d_old, d_new, d_last, d_res>>
      BY <1>10, <2>2 DEF DList!DeleteNodes, DList!Delete, DList!heads, DList!shared
    <3>2. \A m \in d_heap : m \notin New => m \notin New'
      BY <3>1 DEF New
    <3>3. d_first[a] \in Pending(a) /\ d_first[a] \in Holds(a) /\ d_first[a] \in Nodes
      BY <2>2, HeldNodes
    <3>4. Types'
      BY <3>1, <3>3
    <3>5. QED
      BY <3>1, <3>2, <3>3, <3>4 DEF Frames
  <2>3. QED
    BY <2>1, <2>2
<1>11. CASE DList!ChainPendingNodes(a) \/ DList!chainFails(a)
  <2>1. /\ UNCHANGED <<d_head, d_list, d_heap, d_data, d_node, d_old, d_new, d_first,
                       d_last, d_res>>
        /\ d_pc' = [d_pc EXCEPT ![a] = "chained"] /\ d_pc[a] \in Chaining
        /\ d_next' = [d_next EXCEPT ![d_last[a]] = d_list]
    BY <1>11
       DEF DList!ChainPendingNodes, DList!chainFails, DList!Goto, DList!heads,
           DList!shared, DList!list
  <2>2. \A m \in d_heap : m \notin New => m \notin New'
    BY <2>1, NewKept
  <2>3. d_last[a] \in Holds(a)
    BY <2>1, HeldNodes
  <2>4. Types'
    BY <2>1
  <2>5. QED
    BY <2>1, <2>2, <2>3, <2>4 DEF Frames
<1>12. CASE DList!chainSucceeds(a)
  <2>1. /\ UNCHANGED <<d_head, d_heap, d_data, d_next, d_old, d_new, d_res>>
        /\ d_list' = d_first[a]
        /\ d_pc' = [d_pc EXCEPT ![a] = d_pc'[a]] /\ d_pc'[a] \in {"leave", "deleteNode"}
        /\ d_node' = d_node \/ d_node' = [d_node EXCEPT ![a] = Null]
        /\ d_first' = [d_first EXCEPT ![a] = Null]
        /\ d_last' = [d_last EXCEPT ![a] = Null]
    BY <1>12 DEF DList!chainSucceeds, DList!Chained, DList!Goto, DList!nodes, DList!heads
  <2>2. \A m \in d_heap : m \notin New => m \notin New'
    BY <2>1, NewKept
  <2>3. Types'
    BY <2>1
  <2>4. QED
    BY <2>1, <2>2, <2>3 DEF Frames
<1>13. CASE DList!deleteNode(a)
  <2>1. /\ UNCHANGED <<d_head, d_list, d_old, d_new, d_first, d_last, d_res>>
        /\ d_pc' = [d_pc EXCEPT ![a] = "return"] /\ d_node' = [d_node EXCEPT ![a] = Null]
        /\ d_pc[a] = "deleteNode"
    BY <1>13 DEF DList!deleteNode, DList!Goto, DList!shared, DList!heads, DList!list
  <2>2. \A m \in d_heap : m \notin New => m \notin New'
    BY <2>1, NewKept
  <2>3. CASE d_node[a] = Null
    <3>1. UNCHANGED <<d_heap, d_data, d_next>>
      BY <1>13, <2>3 DEF DList!deleteNode, DList!nodes
    <3>2. QED
      BY <2>1, <2>2, <3>1 DEF Frames
  <2>4. CASE d_node[a] # Null
    <3>1. /\ d_heap' = d_heap \ {d_node[a]}
          /\ d_data' = [d_data EXCEPT ![d_node[a]] = NoValue]
          /\ d_next' = [d_next EXCEPT ![d_node[a]] = Null]
      BY <1>13, <2>4 DEF DList!deleteNode, DList!Delete
    <3>2. d_node[a] \in Holds(a)
      BY <2>4, HeldNodes
    <3>3. Types'
      BY <2>1, <3>1
    <3>4. QED
      BY <2>1, <2>2, <3>1, <3>2, <3>3 DEF Frames
  <2>5. QED
    BY <2>3, <2>4
<1>14. QED
  BY <1>1, <1>2, <1>3, <1>4, <1>5, <1>6, <1>7, <1>8, <1>9, <1>10, <1>11, <1>12, <1>13
     DEF DList!Step

LEMMA OthersHold ==
    ASSUME StackInv, NEW a \in Threads, Frames(a), NEW u \in Threads \ {a}
    PROVE  /\ Linked(d_first'[u], DList!Upto(u)') /\ Pending(u)' = Pending(u)
           /\ Holds(u)' = Holds(u)
<1>1. /\ d_first'[u] = d_first[u] /\ d_last'[u] = d_last[u] /\ d_node'[u] = d_node[u]
      /\ \A n \in d_heap \ Holds(a) : d_next'[n] = d_next[n]
  BY DEF Frames
<1>2. /\ Pending(u) \subseteq Holds(u) /\ Holds(u) \subseteq d_heap
      /\ Pending(u) \subseteq Nodes /\ Holds(u) \cap Holds(a) = {}
  BY HeldNodes DEF StackInv, OneOwner
<1>3. \A n \in Pending(u) : d_next'[n] = d_next[n]
  BY <1>1, <1>2
<1> DEFINE f == d_first[u]
           nxt == DList!Upto(u)
           nxt2 == DList!Upto(u)'
<1>4. /\ Linked(f, nxt) /\ Pending(u) = From(Nodes, f, nxt)
      /\ \A n \in From(Nodes, f, nxt) : nxt2[n] = nxt[n]
  <2>1. \A n \in Pending(u) : nxt2[n] = nxt[n]
    BY <1>1, <1>2, <1>3 DEF DList!Upto
  <2>2. QED
    BY <2>1 DEF StackInv, Lists, Pending
<1> HIDE DEF f, nxt, nxt2
<1>5. Linked(f, nxt2) /\ From(Nodes, f, nxt2) = Pending(u)
  BY <1>4, ListFrame
<1>6. Linked(d_first'[u], DList!Upto(u)') /\ Pending(u)' = Pending(u)
  BY <1>1, <1>5 DEF Pending, f, nxt2
<1>7. QED
  BY <1>1, <1>6 DEF Holds

\* The stack and the list of what is to be deleted, when their heads stay.
LEMMA StackListStays ==
    ASSUME StackInv, NEW a \in Threads, Frames(a), d_head' = d_head
    PROVE  Linked(d_head', d_next') /\ Listed' = Listed /\ InOrder' = InOrder
<1>1. Listed \subseteq d_heap /\ Listed \cap Holds(a) = {}
  BY HeldNodes DEF StackInv, OneOwner
<1> DEFINE f == d_head
           nxt == d_next
           nxt2 == d_next'
<1>2. /\ Linked(f, nxt) /\ Listed = From(Nodes, f, nxt) /\ InOrder = Line(Nodes, f, nxt)
      /\ \A n \in From(Nodes, f, nxt) : nxt2[n] = nxt[n]
  <2>1. \A n \in Listed : nxt2[n] = nxt[n]
    BY <1>1 DEF Frames
  <2>2. QED
    BY <2>1 DEF StackInv, Lists, Listed, InOrder
<1> HIDE DEF f, nxt, nxt2
<1>3. /\ Linked(f, nxt2) /\ Line(Nodes, f, nxt2) = Line(Nodes, f, nxt)
      /\ From(Nodes, f, nxt2) = From(Nodes, f, nxt)
  BY <1>2, ListFrame
<1>4. QED
  BY <1>2, <1>3 DEF Listed, InOrder, f, nxt2

LEMMA DeletableStays ==
    ASSUME StackInv, NEW a \in Threads, Frames(a), d_list' = d_list
    PROVE  Linked(d_list', d_next') /\ Deletable' = Deletable
<1>1. Deletable \subseteq d_heap /\ Deletable \cap Holds(a) = {}
  BY HeldNodes DEF StackInv, OneOwner
<1> DEFINE f == d_list
           nxt == d_next
           nxt2 == d_next'
<1>2. /\ Linked(f, nxt) /\ Deletable = From(Nodes, f, nxt)
      /\ \A n \in From(Nodes, f, nxt) : nxt2[n] = nxt[n]
  <2>1. \A n \in Deletable : nxt2[n] = nxt[n]
    BY <1>1 DEF Frames
  <2>2. QED
    BY <2>1 DEF StackInv, Lists, Deletable
<1> HIDE DEF f, nxt, nxt2
<1>3. Linked(f, nxt2) /\ From(Nodes, f, nxt2) = From(Nodes, f, nxt)
  BY <1>2, ListFrame
<1>4. QED
  BY <1>2, <1>3 DEF Deletable, f, nxt2

LEMMA ListPushed ==
    ASSUME StackInv, NEW a \in Threads, DList!pushSucceeds(a)
    PROVE  /\ InOrder' = <<d_node[a]>> \o InOrder
           /\ Listed' = Listed \cup {d_node[a]} /\ d_node[a] \notin Listed
           /\ Linked(d_head', d_next')
<1>1. /\ d_pc[a] = "push" /\ d_head = d_next[d_node[a]] /\ d_head' = d_node[a]
      /\ d_next' = d_next
  BY DEF DList!pushSucceeds, DList!nodes
<1>2. PICK n \in Nodes : n = d_node[a] /\ n \notin Listed
  BY <1>1, HeldNodes
<1> DEFINE nxt == d_next
<1>3. IsLinked(Nodes, nxt[n], nxt, Null) /\ n \notin From(Nodes, nxt[n], nxt)
  BY <1>1, <1>2 DEF StackInv, Lists, Linked, Listed
<1>4. Listed = From(Nodes, nxt[n], nxt) /\ InOrder = Line(Nodes, nxt[n], nxt)
  BY <1>1, <1>2 DEF Listed, InOrder
<1> HIDE DEF nxt
<1>5. /\ IsLinked(Nodes, n, nxt, Null)
      /\ Line(Nodes, n, nxt) = <<n>> \o Line(Nodes, nxt[n], nxt)
      /\ From(Nodes, n, nxt) = From(Nodes, nxt[n], nxt) \cup {n}
  BY <1>3, NullAssumption, LinkedPush
<1>6. QED
  BY <1>1, <1>2, <1>4, <1>5 DEF Listed, InOrder, Linked, nxt

LEMMA ListPopped ==
    ASSUME StackInv, NEW a \in Threads, DList!removeSucceeds(a)
    PROVE  /\ InOrder # <<>> /\ InOrder[1] = d_old[a] /\ InOrder' = Tail(InOrder)
           /\ Listed' = Listed \ {d_old[a]} /\ d_old[a] \in Listed
           /\ d_old[a] \in d_heap
           /\ Linked(d_head', d_next')
<1>1. d_pc[a] = "remove" /\ d_head' = d_new[a] /\ d_next' = d_next /\ d_head = d_old[a]
  BY DEF DList!removeSucceeds
<1>2. d_head \in d_heap /\ d_head # Null
  BY <1>1, NullAssumption DEF StackInv, Protects, Types
<1> DEFINE f == d_head
           nxt == d_next
<1>3. IsLinked(Nodes, f, nxt, Null) /\ Linked(f, nxt) /\ f # Null
  BY <1>2 DEF StackInv, Lists, Linked
<1>4. Listed = From(Nodes, f, nxt) /\ InOrder = Line(Nodes, f, nxt)
  BY DEF Listed, InOrder
<1> HIDE DEF f, nxt
<1>5. f \in Listed /\ InOrder[1] = f /\ InOrder # <<>>
  BY <1>3, <1>4, ListFacts
<1>6. /\ IsLinked(Nodes, nxt[f], nxt, Null)
      /\ Line(Nodes, nxt[f], nxt) = Tail(Line(Nodes, f, nxt))
      /\ From(Nodes, nxt[f], nxt) = From(Nodes, f, nxt) \ {f}
  BY <1>3, NullAssumption, LinkedPop
<1>7. d_head' = nxt[f]
  BY <1>1, <1>5 DEF StackInv, Protects, f, nxt
<1>8. /\ Linked(d_head', d_next') /\ Listed' = From(Nodes, nxt[f], nxt)
      /\ InOrder' = Line(Nodes, nxt[f], nxt)
  BY <1>1, <1>6, <1>7 DEF Listed, InOrder, Linked, nxt
<1>9. QED
  BY <1>1, <1>2, <1>4, <1>5, <1>6, <1>8 DEF f

-------------------------------------------------------------------------------
\* The list of the thread that takes the step.
LEMMA NoList ==
    ASSUME NEW a \in Threads, d_first'[a] = Null
    PROVE  Linked(d_first'[a], DList!Upto(a)') /\ Pending(a)' = {}
BY ListEmpty DEF Pending

LEMMA ListLacking ==
    ASSUME StackInv, NEW a \in Threads, DList!Step(a),
           d_pc[a] \notin {"reclaim", "exchange", "sub", "deleteList"} \cup Chaining
    PROVE  d_first'[a] = Null /\ d_last'[a] = Null
<1>1. d_first[a] = Null /\ d_last[a] = Null
  BY DEF StackInv, InPlace
<1>2. d_first' = d_first /\ d_last' = d_last
  BY DEF DList!Step, DList!Push, DList!pushSucceeds, DList!pushFails, DList!Pop,
         DList!load, DList!readNext, DList!removeSucceeds, DList!removeFails,
         DList!TryReclaim, DList!takeList, DList!sub, DList!DeleteNodes,
         DList!ChainPendingNodes, DList!chainSucceeds, DList!chainFails, DList!deleteNode,
         DList!leave, DList!return, DList!list, Chaining
<1>3. QED
  BY <1>1, <1>2

LEMMA ListStarts ==
    ASSUME StackInv, NEW a \in Threads, DList!TryReclaim(a)
    PROVE  /\ Linked(d_first'[a], DList!Upto(a)') /\ Pending(a)' = {d_first'[a]} \ {Null}
           /\ d_pc[a] = "reclaim" /\ d_node'[a] = d_node[a] /\ d_last'[a] = d_first'[a]
           /\ \/ d_in_loop = 1 /\ d_pc'[a] = "exchange" /\ d_first'[a] = Null
              \/ /\ d_in_loop # 1 /\ d_first'[a] = d_node[a]
                 /\ d_pc'[a] = IF d_node[a] = Null THEN "leave" ELSE "chain"
<1>1. /\ d_pc[a] = "reclaim" /\ Types /\ Null \notin Nodes /\ d_first[a] = Null
      /\ d_last[a] = Null
      /\ d_node[a] \in Nodes \cup {Null}
  BY NullAssumption DEF DList!TryReclaim, StackInv, InPlace, Types, Chaining
<1>2. d_node'[a] = d_node[a] /\ d_last'[a] = d_first'[a]
      /\ \/ d_in_loop = 1 /\ d_pc'[a] = "exchange" /\ d_first'[a] = Null
         \/ /\ d_in_loop # 1 /\ d_first'[a] = d_node[a]
            /\ d_pc'[a] = IF d_node[a] = Null THEN "leave" ELSE "chain"
  BY <1>1 DEF DList!TryReclaim, DList!Goto, DList!list, Types
<1>3. Linked(d_first'[a], DList!Upto(a)') /\ Pending(a)' = {d_first'[a]} \ {Null}
  <2>1. CASE d_first'[a] = Null
    BY <2>1, NoList
  <2>2. CASE d_first'[a] # Null
    <3>1. PICK n \in Nodes : d_first'[a] = n /\ d_last'[a] = n
      BY <1>1, <1>2, <2>2
    <3> DEFINE nxt == DList!Upto(a)'
    <3>2. nxt[n] = Null
      BY <3>1 DEF DList!Upto
    <3> HIDE DEF nxt
    <3>3. Linked(n, nxt) /\ From(Nodes, n, nxt) = {n}
      BY <3>2, ListSingle
    <3>4. QED
      BY <2>2, <3>1, <3>3 DEF Pending, nxt
  <2>3. QED
    BY <2>1, <2>2
<1>4. QED
  BY <1>1, <1>2, <1>3

\* A list that nobody is about to add to.
LEMMA ListTaken ==
    ASSUME StackInv, NEW a \in Threads, DList!takeList(a)
    PROVE  /\ Linked(d_first'[a], DList!Upto(a)') /\ Pending(a)' = Deletable
           /\ Pending(a) = {} /\ Linked(d_list', d_next') /\ Deletable' = {}
<1>1. /\ d_pc[a] = "exchange" /\ Types /\ d_first[a] = Null /\ d_last'[a] = Null
      /\ d_first'[a] = d_list /\ d_next' = d_next /\ d_list' = Null
      /\ d_next \in [Nodes -> Nodes \cup {Null}] /\ Null \notin Nodes
  BY NullAssumption DEF DList!takeList, StackInv, InPlace, Types, Chaining, DList!nodes
<1> DEFINE f == d_list
           nxt == d_next
           nxt2 == DList!Upto(a)'
<1>2. Linked(f, nxt) /\ \A n \in Nodes : nxt2[n] = nxt[n]
  BY <1>1 DEF StackInv, Lists, DList!Upto
<1> HIDE DEF f, nxt, nxt2
<1>3. From(Nodes, f, nxt) \subseteq Nodes
  BY <1>2, ListFacts
<1>4. Linked(f, nxt2) /\ From(Nodes, f, nxt2) = From(Nodes, f, nxt)
  BY <1>2, <1>3, ListFrame
<1>5. Linked(d_list', d_next') /\ Deletable' = {}
  BY <1>1, ListEmpty DEF Deletable
<1>6. Pending(a) = {}
  BY <1>1, HeldNodes
<1>7. QED
  BY <1>1, <1>4, <1>5, <1>6 DEF Pending, Deletable, f, nxt, nxt2

\* As long as the nodes of the list and their order stay.
LEMMA ListSame ==
    ASSUME StackInv, NEW a \in Threads, d_first'[a] = d_first[a],
           \A n \in Pending(a) : DList!Upto(a)'[n] = DList!Upto(a)[n]
    PROVE  Linked(d_first'[a], DList!Upto(a)') /\ Pending(a)' = Pending(a)
<1> DEFINE f == d_first[a]
           nxt == DList!Upto(a)
           nxt2 == DList!Upto(a)'
<1>1. /\ Linked(f, nxt) /\ Pending(a) = From(Nodes, f, nxt)
      /\ \A n \in From(Nodes, f, nxt) : nxt2[n] = nxt[n]
  BY DEF StackInv, Lists, Pending
<1> HIDE DEF f, nxt, nxt2
<1>2. Linked(f, nxt2) /\ From(Nodes, f, nxt2) = Pending(a)
  BY <1>1, ListFrame
<1>3. QED
  BY <1>2 DEF Pending, f, nxt2

LEMMA ListEnded ==
    ASSUME StackInv, NEW a \in Threads, DList!sub(a)
    PROVE  /\ Linked(d_first'[a], DList!Upto(a)') /\ Pending(a)' = Pending(a)
           /\ d_first'[a] = d_first[a] /\ d_node'[a] = d_node[a] /\ d_pc[a] = "sub"
           /\ \/ d_in_loop = 1 /\ d_pc'[a] = "deleteList" /\ d_last'[a] = Null
              \/ /\ d_in_loop # 1 /\ d_first[a] = Null
                 /\ d_pc'[a] = "deleteNode" /\ d_last'[a] = Null
              \/ /\ d_in_loop # 1 /\ d_first[a] # Null
                 /\ d_pc'[a] = "chain" /\ d_last'[a] \in Pending(a)
<1>1. /\ d_pc[a] = "sub" /\ d_first'[a] = d_first[a] /\ d_node'[a] = d_node[a]
      /\ d_next' = d_next
      /\ d_last[a] = Null
  BY DEF DList!sub, DList!nodes, StackInv, InPlace, Chaining
<1>2. \/ d_in_loop = 1 /\ d_pc'[a] = "deleteList" /\ d_last'[a] = Null
      \/ /\ d_in_loop # 1 /\ d_last'[a] = LastFrom(d_first[a])
         /\ d_pc'[a] = IF d_first[a] = Null THEN "deleteNode" ELSE "chain"
  BY <1>1, SameLists DEF DList!sub, DList!Goto, StackInv, Types
<1>3. /\ d_first[a] = Null => LastFrom(d_first[a]) = Null
      /\ d_first[a] # Null => /\ LastFrom(d_first[a]) \in Pending(a)
                              /\ LastFrom(d_first[a]) \in Nodes
                              /\ d_next[LastFrom(d_first[a])] = Null
  BY <1>1, EndOfList DEF LastFrom
<1>4. d_last'[a] # Null => d_last'[a] \in Pending(a) /\ d_next[d_last'[a]] = Null
  BY <1>1, <1>2, <1>3
<1>5. \A n \in Nodes : DList!Upto(a)'[n] = DList!Upto(a)[n]
  BY <1>1, <1>4, NullAssumption DEF DList!Upto
<1>6. Pending(a) \subseteq Nodes
  BY HeldNodes
<1>7. Linked(d_first'[a], DList!Upto(a)') /\ Pending(a)' = Pending(a)
  BY <1>1, <1>5, <1>6, ListSame
<1>8. QED
  BY <1>1, <1>2, <1>3, <1>7

LEMMA ListShortened ==
    ASSUME StackInv, NEW a \in Threads, DList!DeleteNodes(a)
    PROVE  /\ Linked(d_first'[a], DList!Upto(a)')
           /\ Pending(a)' = Pending(a) \ {d_first[a]}
           /\ d_first[a] = Null => d_first'[a] = Null
           /\ d_pc[a] = "deleteList" /\ d_node'[a] = d_node[a] /\ d_last'[a] = Null
           /\ d_pc'[a] = IF d_first[a] = Null THEN "deleteNode" ELSE "deleteList"
<1>1. /\ d_pc[a] = "deleteList" /\ d_last'[a] = Null /\ d_last[a] = Null
      /\ d_node'[a] = d_node[a]
      /\ Types /\ Null \notin Nodes
  BY NullAssumption DEF DList!DeleteNodes, StackInv, InPlace, Chaining
<1>2. CASE d_first[a] = Null
  <2>1. d_first'[a] = Null /\ d_pc'[a] = "deleteNode" /\ Pending(a) = {}
    BY <1>1, <1>2, HeldNodes DEF DList!DeleteNodes, DList!Goto, Types
  <2>2. QED
    BY <1>1, <1>2, <2>1, NoList
<1>3. CASE d_first[a] # Null
  <2>1. /\ d_first'[a] = d_next[d_first[a]] /\ d_pc'[a] = d_pc[a] /\ d_first[a] \in Nodes
        /\ d_next' = [d_next EXCEPT ![d_first[a]] = Null]
    BY <1>1, <1>3 DEF DList!DeleteNodes, DList!Delete, Types
  <2> DEFINE f == d_first[a]
             nxt == DList!Upto(a)
             nxt2 == DList!Upto(a)'
  <2>2. /\ Linked(f, nxt) /\ f # Null /\ nxt[f] = d_first'[a]
        /\ \A n \in Nodes \ {f} : nxt2[n] = nxt[n]
        /\ Pending(a) = From(Nodes, f, nxt)
    BY <1>1, <1>3, <2>1 DEF StackInv, Lists, DList!Upto, Types, Pending
  <2> HIDE DEF f, nxt, nxt2
  <2>3. /\ IsLinked(Nodes, nxt[f], nxt, Null)
        /\ Line(Nodes, nxt[f], nxt) = Tail(Line(Nodes, f, nxt))
        /\ From(Nodes, nxt[f], nxt) = From(Nodes, f, nxt) \ {f}
    BY <2>2, NullAssumption, LinkedPop DEF Linked
  <2>4. From(Nodes, f, nxt) \subseteq Nodes
    BY <2>2, ListFacts
  <2> DEFINE g == nxt[f]
  <2>5. Linked(g, nxt) /\ \A n \in From(Nodes, g, nxt) : nxt2[n] = nxt[n]
    BY <2>2, <2>3, <2>4 DEF Linked
  <2> HIDE DEF g
  <2>6. Linked(g, nxt2) /\ From(Nodes, g, nxt2) = From(Nodes, g, nxt)
    BY <2>5, ListFrame
  <2>7. Linked(d_first'[a], DList!Upto(a)') /\ Pending(a)' = Pending(a) \ {d_first[a]}
    BY <2>2, <2>3, <2>6 DEF Pending, f, g, nxt2
  <2>8. QED
    BY <1>1, <1>3, <2>1, <2>7
<1>4. QED
  BY <1>2, <1>3

LEMMA ListAimed ==
    ASSUME StackInv, NEW a \in Threads, DList!ChainPendingNodes(a) \/ DList!chainFails(a)
    PROVE  /\ Linked(d_first'[a], DList!Upto(a)') /\ Pending(a)' = Pending(a)
           /\ d_first'[a] = d_first[a] /\ d_last'[a] = d_last[a] /\ d_node'[a] = d_node[a]
           /\ d_pc[a] \in Chaining /\ d_pc'[a] = "chained"
<1>1. /\ d_pc[a] \in Chaining /\ d_pc'[a] = "chained" /\ d_first' = d_first
      /\ d_last' = d_last
      /\ d_node' = d_node /\ d_next' = [d_next EXCEPT ![d_last[a]] = d_list]
      /\ d_next \in [Nodes -> Nodes \cup {Null}]
  BY DEF DList!ChainPendingNodes, DList!chainFails, DList!Goto, Chaining, DList!list,
         StackInv, Types
<1>2. \A n \in Nodes : DList!Upto(a)'[n] = DList!Upto(a)[n]
  BY <1>1 DEF DList!Upto
<1>3. Pending(a) \subseteq Nodes
  BY HeldNodes
<1>4. Linked(d_first'[a], DList!Upto(a)') /\ Pending(a)' = Pending(a)
  BY <1>1, <1>2, <1>3, ListSame
<1>5. QED
  BY <1>1, <1>4

\* The compare-exchange puts the list of the thread before that of the stack.
LEMMA ListJoined ==
    ASSUME StackInv, NEW a \in Threads, DList!chainSucceeds(a)
    PROVE  /\ Linked(d_first'[a], DList!Upto(a)') /\ Pending(a)' = {}
           /\ d_first'[a] = Null
           /\ Linked(d_list', d_next') /\ Deletable' = Pending(a) \cup Deletable
           /\ d_pc[a] \in Chaining /\ d_first[a] \in Pending(a)
           /\ d_last'[a] = Null
           /\ IF d_first[a] = d_node[a] THEN d_pc'[a] = "leave" /\ d_node'[a] = Null
              ELSE d_pc'[a] = "deleteNode" /\ d_node'[a] = d_node[a]
<1>1. /\ d_pc[a] \in Chaining /\ d_first'[a] = Null /\ d_last'[a] = Null
      /\ d_next' = d_next
      /\ d_list' = d_first[a] /\ d_list = d_next[d_last[a]]
      /\ IF d_first[a] = d_node[a] THEN d_pc'[a] = "leave" /\ d_node'[a] = Null
              ELSE d_pc'[a] = "deleteNode" /\ d_node'[a] = d_node[a]
      /\ d_next \in [Nodes -> Nodes \cup {Null}]
  BY DEF DList!chainSucceeds, DList!Chained, Chaining, DList!Goto, DList!nodes, StackInv,
         Types
<1>2. Linked(d_first'[a], DList!Upto(a)') /\ Pending(a)' = {}
  BY <1>1, NoList
<1>3. /\ d_first[a] \in Pending(a) /\ d_last[a] \in Pending(a)
      /\ Pending(a) \subseteq Nodes
      /\ Pending(a) \cap Deletable = {}
  BY <1>1, HeldNodes
<1> DEFINE f == d_first[a]
           z == d_last[a]
           cut == DList!Upto(a)
           nxt == d_next
<1>4. /\ Linked(f, cut) /\ Pending(a) = From(Nodes, f, cut) /\ z \in From(Nodes, f, cut)
      /\ cut[z] = Null /\ \A n \in From(Nodes, f, cut) : n # z => nxt[n] = cut[n]
      /\ Linked(nxt[z], nxt) /\ Deletable = From(Nodes, nxt[z], nxt)
  BY <1>1, <1>3 DEF StackInv, Lists, Pending, Deletable, DList!Upto
<1> HIDE DEF f, z, cut, nxt
<1>5. From(Nodes, f, cut) \cap From(Nodes, nxt[z], nxt) = {}
  BY <1>3, <1>4
<1>6. /\ IsLinked(Nodes, f, nxt, Null)
      /\ From(Nodes, f, nxt) = From(Nodes, f, cut) \cup From(Nodes, nxt[z], nxt)
  BY <1>4, <1>5, NullAssumption, LinkedJoin DEF Linked
<1>7. Linked(d_list', d_next') /\ Deletable' = Pending(a) \cup Deletable
  BY <1>1, <1>4, <1>6 DEF Linked, Deletable, f, nxt
<1>8. QED
  BY <1>1, <1>2, <1>3, <1>7

LEMMA HeadsStay ==
    ASSUME NEW a \in Threads, DList!Step(a)
    PROVE  /\ DList!pushSucceeds(a) \/ DList!removeSucceeds(a) \/ d_head' = d_head
           /\ DList!takeList(a) \/ DList!chainSucceeds(a) \/ d_list' = d_list
<1>1. CASE \/ \E v \in Values : DList!Push(a, v)
           \/ DList!pushFails(a) \/ DList!load(a) \/ DList!readNext(a)
           \/ DList!removeFails(a) \/ DList!TryReclaim(a)
           \/ DList!DeleteNodes(a) \/ DList!ChainPendingNodes(a) \/ DList!chainFails(a)
           \/ DList!deleteNode(a) \/ DList!return(a)
  <2>1. UNCHANGED DList!shared
    BY <1>1
       DEF DList!Push, DList!pushFails, DList!load, DList!readNext, DList!removeFails,
           DList!TryReclaim, DList!DeleteNodes, DList!ChainPendingNodes, DList!chainFails,
           DList!deleteNode, DList!return
  <2>2. QED
    BY <2>1 DEF DList!shared
<1>2. CASE DList!pushSucceeds(a) \/ DList!removeSucceeds(a)
  BY <1>2 DEF DList!pushSucceeds, DList!removeSucceeds
<1>3. CASE DList!takeList(a) \/ DList!chainSucceeds(a)
  BY <1>3 DEF DList!takeList, DList!chainSucceeds, DList!Chained
<1>4. CASE DList!Pop(a) \/ DList!sub(a) \/ DList!leave(a)
  BY <1>4 DEF DList!Pop, DList!sub, DList!leave
<1>5. QED
  BY <1>1, <1>2, <1>3, <1>4 DEF DList!Step

LEMMA OwnListKept ==
    ASSUME StackInv, NEW a \in Threads, DList!Step(a)
    PROVE  Linked(d_first'[a], DList!Upto(a)')
<1>1. CASE d_pc[a] \notin {"reclaim", "exchange", "sub", "deleteList"} \cup Chaining
  BY <1>1, ListLacking, NoList
<1>2. CASE d_pc[a] \in {"reclaim", "exchange", "sub", "deleteList"} \cup Chaining
  <2>1. \/ DList!TryReclaim(a) \/ DList!takeList(a) \/ DList!sub(a)
        \/ DList!DeleteNodes(a)
        \/ DList!ChainPendingNodes(a) \/ DList!chainFails(a) \/ DList!chainSucceeds(a)
    BY <1>2
       DEF DList!Step, DList!Push, DList!pushSucceeds, DList!pushFails, DList!Pop,
           DList!load, DList!readNext, DList!removeSucceeds, DList!removeFails,
           DList!deleteNode, DList!leave, DList!return, Chaining
  <2>2. QED
    BY <2>1, ListStarts, ListTaken, ListEnded, ListShortened, ListAimed, ListJoined
<1>3. QED
  BY <1>1, <1>2

LEMMA ListsKept ==
    ASSUME StackInv, NEW a \in Threads, DList!Step(a)
    PROVE  Lists'
<1>1. Frames(a)
  BY StepFrames
<1>2. Linked(d_head', d_next')
  BY <1>1, HeadsStay, ListPushed, ListPopped, StackListStays
<1>3. Linked(d_list', d_next')
  BY <1>1, HeadsStay, ListTaken, ListJoined, DeletableStays
<1>4. ASSUME NEW u \in Threads PROVE Linked(d_first'[u], DList!Upto(u)')
  <2>1. CASE u = a
    BY <2>1, OwnListKept
  <2>2. CASE u # a
    BY <1>1, <2>2, OthersHold
  <2>3. QED
    BY <2>1, <2>2
<1>5. QED
  BY <1>2, <1>3, <1>4 DEF Lists

LEMMA InPlaceKept ==
    ASSUME StackInv, NEW a \in Threads, DList!Step(a), NEW t \in Threads
    PROVE  InPlace(t)'
<1>1. Frames(a) /\ Types'
  BY StepFrames
<1>2. CASE t # a
  <2>1. /\ d_pc'[t] = d_pc[t] /\ d_node'[t] = d_node[t] /\ d_first'[t] = d_first[t]
        /\ d_last'[t] = d_last[t] /\ Pending(t)' = Pending(t)
    BY <1>1, <1>2, OthersHold DEF Frames
  <2>2. InPlace(t)
    BY DEF StackInv
  <2>3. QED
    BY <2>1, <2>2 DEF InPlace
<1> SUFFICES InPlace(a)'
  BY <1>2
<1>3. InPlace(a) /\ Null \notin Nodes /\ Types
  BY NullAssumption DEF StackInv
<1>4. CASE d_pc[a] \notin {"reclaim", "exchange", "sub", "deleteList"} \cup Chaining
  <2>1. d_first'[a] = Null /\ d_last'[a] = Null /\ Pending(a)' = {}
    BY <1>4, ListLacking, NoList
  <2>2. /\ d_pc'[a] \notin Chaining
        /\ d_pc'[a] = "push" => d_node'[a] # Null
        /\ d_node'[a] # Null =>
             d_pc'[a] \notin {"idle", "load", "read", "remove", "leave", "return"}
    <3>1. CASE \E v \in Values : DList!Push(a, v)
      <4>1. PICK n \in Nodes : d_node' = [d_node EXCEPT ![a] = n]
        BY <3>1 DEF DList!Push
      <4>2. d_pc' = [d_pc EXCEPT ![a] = "push"]
        BY <3>1 DEF DList!Push, DList!Goto
      <4>3. QED
        BY <1>3, <4>1, <4>2 DEF Types, Chaining
    <3>2. CASE DList!pushSucceeds(a) \/ DList!deleteNode(a)
      <4>1. d_node'[a] = Null /\ d_pc'[a] \in {"idle", "return"}
        BY <1>3, <3>2 DEF DList!pushSucceeds, DList!deleteNode, DList!Goto, Types
      <4>2. QED
        BY <4>1 DEF Chaining
    <3>3. CASE DList!pushFails(a)
      <4>1. d_node'[a] = d_node[a] /\ d_pc[a] = "push" /\ d_pc'[a] = d_pc[a]
        BY <3>3 DEF DList!pushFails
      <4>2. QED
        BY <1>3, <4>1 DEF InPlace, Chaining
    <3>4. CASE \/ DList!Pop(a) \/ DList!load(a) \/ DList!readNext(a)
               \/ DList!removeFails(a) \/ DList!leave(a)
               \/ DList!return(a)
      <4>1. /\ d_node'[a] = d_node[a]
            /\ d_pc[a] \in {"idle", "load", "read", "remove", "leave", "return"}
            /\ d_pc'[a] \in {"idle", "load", "read", "remove", "reclaim", "return"}
        BY <1>3, <3>4
           DEF DList!Pop, DList!load, DList!readNext, DList!removeFails, DList!leave,
               DList!return, DList!Goto, DList!LoadHead, Types
      <4>2. QED
        BY <1>3, <4>1 DEF InPlace, Chaining
    <3>5. CASE DList!removeSucceeds(a)
      <4>1. d_pc'[a] = "reclaim"
        BY <1>3, <3>5 DEF DList!removeSucceeds, DList!Goto, Types
      <4>2. QED
        BY <4>1 DEF Chaining
    <3>6. QED
      BY <1>4, <3>1, <3>2, <3>3, <3>4, <3>5
         DEF DList!Step, DList!TryReclaim, DList!takeList, DList!sub, DList!DeleteNodes,
             DList!ChainPendingNodes, DList!chainSucceeds, DList!chainFails, Chaining
  <2>3. QED
    BY <2>1, <2>2 DEF InPlace
<1>5. CASE DList!TryReclaim(a)
  <2>1. /\ Pending(a)' = {d_first'[a]} \ {Null} /\ d_last'[a] = d_first'[a]
        /\ d_node'[a] = d_node[a]
        /\ \/ d_in_loop = 1 /\ d_pc'[a] = "exchange" /\ d_first'[a] = Null
           \/ /\ d_in_loop # 1 /\ d_first'[a] = d_node[a]
              /\ d_pc'[a] = IF d_node[a] = Null THEN "leave" ELSE "chain"
    BY <1>5, ListStarts
  <2>2. QED
    BY <2>1 DEF InPlace, Chaining
<1>6. CASE DList!takeList(a)
  <2>1. /\ Pending(a)' = Deletable /\ d_pc'[a] = "sub" /\ d_node'[a] = d_node[a]
        /\ d_last'[a] = d_last[a] /\ d_pc[a] = "exchange"
    BY <1>3, <1>6, ListTaken DEF DList!takeList, DList!Goto, Types
  <2>2. d_node[a] # Null => d_node[a] \notin Deletable
    BY HeldNodes
  <2>3. Null \notin Pending(a)'
    <3>1. Deletable \subseteq Nodes
      BY ListFacts DEF StackInv, Lists, Deletable
    <3>2. QED
      BY <1>3, <2>1, <3>1
  <2>4. QED
    BY <1>3, <2>1, <2>2, <2>3 DEF InPlace, Chaining
<1>7. CASE DList!sub(a)
  <2>1. /\ Pending(a)' = Pending(a) /\ d_first'[a] = d_first[a] /\ d_node'[a] = d_node[a]
        /\ d_pc[a] = "sub"
        /\ \/ d_in_loop = 1 /\ d_pc'[a] = "deleteList" /\ d_last'[a] = Null
           \/ /\ d_in_loop # 1 /\ d_first[a] = Null
              /\ d_pc'[a] = "deleteNode" /\ d_last'[a] = Null
           \/ /\ d_in_loop # 1 /\ d_first[a] # Null
              /\ d_pc'[a] = "chain" /\ d_last'[a] \in Pending(a)
    BY <1>7, ListEnded
  <2>2. QED
    BY <1>3, <2>1 DEF InPlace, Chaining
<1>8. CASE DList!DeleteNodes(a)
  <2>1. /\ Pending(a)' = Pending(a) \ {d_first[a]}
        /\ d_first[a] = Null => d_first'[a] = Null
        /\ d_pc[a] = "deleteList" /\ d_node'[a] = d_node[a] /\ d_last'[a] = Null
        /\ d_pc'[a] = IF d_first[a] = Null THEN "deleteNode" ELSE "deleteList"
    BY <1>8, ListShortened
  <2>2. QED
    BY <1>3, <2>1 DEF InPlace, Chaining
<1>9. CASE DList!ChainPendingNodes(a) \/ DList!chainFails(a)
  <2>1. /\ Pending(a)' = Pending(a) /\ d_pc[a] \in Chaining /\ d_pc'[a] = "chained"
        /\ d_first'[a] = d_first[a] /\ d_last'[a] = d_last[a] /\ d_node'[a] = d_node[a]
    BY <1>9, ListAimed
  <2>2. QED
    BY <1>3, <2>1 DEF InPlace, Chaining
<1>10. CASE DList!chainSucceeds(a)
  <2>1. /\ Pending(a)' = {} /\ d_first'[a] = Null /\ d_last'[a] = Null
        /\ IF d_first[a] = d_node[a] THEN d_pc'[a] = "leave" /\ d_node'[a] = Null
           ELSE d_pc'[a] = "deleteNode" /\ d_node'[a] = d_node[a]
    BY <1>10, ListJoined
  <2>2. QED
    BY <2>1 DEF InPlace, Chaining
<1>11. QED
  <2>1. CASE d_pc[a] \in {"reclaim", "exchange", "sub", "deleteList"} \cup Chaining
    <3>1. \/ DList!TryReclaim(a) \/ DList!takeList(a) \/ DList!sub(a)
          \/ DList!DeleteNodes(a)
          \/ DList!ChainPendingNodes(a) \/ DList!chainFails(a) \/ DList!chainSucceeds(a)
      BY <2>1
         DEF DList!Step, DList!Push, DList!pushSucceeds, DList!pushFails, DList!Pop,
             DList!load, DList!readNext, DList!removeSucceeds, DList!removeFails,
             DList!deleteNode, DList!leave, DList!return, Chaining
    <3>2. QED
      BY <1>5, <1>6, <1>7, <1>8, <1>9, <1>10, <3>1
  <2>2. QED
    BY <1>4, <2>1

-------------------------------------------------------------------------------
\* thread_in_loop_ is the number of threads in the loop.
LEMMA OwnLoop ==
    ASSUME StackInv, NEW a \in Threads, DList!Step(a)
    PROVE  /\ DList!Pop(a) =>
                ~DList!InLoop(a) /\ DList!InLoop(a)' /\ d_in_loop' = d_in_loop + 1
           /\ DList!sub(a) \/ DList!leave(a) =>
                DList!InLoop(a) /\ ~DList!InLoop(a)' /\ d_in_loop' = d_in_loop - 1
           /\ ~(DList!Pop(a) \/ DList!sub(a) \/ DList!leave(a)) =>
                DList!InLoop(a)' = DList!InLoop(a) /\ d_in_loop' = d_in_loop
<1>1. /\ d_pc \in [Threads -> {d_pc[t] : t \in Threads}] /\ InPlace(a)
  BY DEF StackInv, Types
<1>2. CASE DList!Pop(a)
  <2>1. /\ d_pc[a] = "idle" /\ d_pc'[a] = "load" /\ d_in_loop' = d_in_loop + 1
    BY <1>1, <1>2 DEF DList!Pop, DList!Goto
  <2>2. QED
    BY <1>2, <2>1 DEF DList!InLoop, DList!Counted, DList!sub, DList!leave
<1>3. CASE DList!leave(a)
  <2>1. /\ d_pc[a] = "leave" /\ d_pc'[a] = "return" /\ d_in_loop' = d_in_loop - 1
    BY <1>1, <1>3 DEF DList!leave, DList!Goto
  <2>2. QED
    BY <1>3, <2>1 DEF DList!InLoop, DList!Counted, DList!Pop, DList!sub
<1>4. CASE DList!sub(a)
  <2>1. /\ d_first'[a] = d_first[a] /\ d_node'[a] = d_node[a] /\ d_pc[a] = "sub"
        /\ d_in_loop' = d_in_loop - 1
        /\ \/ d_pc'[a] \in {"deleteList", "deleteNode"}
           \/ d_pc'[a] = "chain" /\ d_first[a] # Null
    BY <1>4, ListEnded DEF DList!sub
  <2>2. d_first[a] # Null => d_first[a] # d_node[a]
    BY <1>1, <2>1, HeldNodes DEF InPlace, Chaining
  <2>3. DList!InLoop(a) /\ ~DList!InLoop(a)'
    BY <2>1, <2>2 DEF DList!InLoop, DList!Counted
  <2>4. QED
    BY <1>4, <2>1, <2>3 DEF DList!Pop, DList!leave
<1>5. CASE ~(DList!Pop(a) \/ DList!sub(a) \/ DList!leave(a))
  <2>1. SUFFICES DList!InLoop(a)' = DList!InLoop(a) /\ d_in_loop' = d_in_loop
    BY <1>5
  <2>2. CASE \/ \E v \in Values : DList!Push(a, v)
             \/ DList!pushSucceeds(a) \/ DList!deleteNode(a) \/ DList!return(a)
    <3>1. /\ d_pc[a] \in {"idle", "push", "deleteNode", "return"}
          /\ d_pc'[a] \in {"idle", "push", "return"} /\ d_in_loop' = d_in_loop
      BY <1>1, <2>2
         DEF DList!Push, DList!pushSucceeds, DList!deleteNode, DList!return, DList!Goto,
             DList!shared
    <3>2. QED
      BY <3>1 DEF DList!InLoop, DList!Counted
  <2>3. CASE DList!pushFails(a)
    <3>1. d_pc[a] = "push" /\ d_pc' = d_pc /\ d_in_loop' = d_in_loop
      BY <2>3 DEF DList!pushFails, DList!shared
    <3>2. QED
      BY <3>1 DEF DList!InLoop, DList!Counted
  <2>4. CASE \/ DList!load(a) \/ DList!readNext(a) \/ DList!removeSucceeds(a)
             \/ DList!removeFails(a) \/ DList!takeList(a)
    <3>1. /\ d_pc[a] \in {"load", "read", "remove", "exchange"}
          /\ d_pc'[a] \in {"read", "remove", "reclaim", "sub"}
          /\ d_in_loop' = d_in_loop
      BY <1>1, <2>4
         DEF DList!load, DList!readNext, DList!removeSucceeds, DList!removeFails,
             DList!takeList, DList!Goto, DList!LoadHead, DList!shared
    <3>2. QED
      BY <3>1 DEF DList!InLoop, DList!Counted
  <2>5. CASE DList!TryReclaim(a)
    <3>1. /\ d_pc[a] = "reclaim" /\ d_node'[a] = d_node[a]
          /\ \/ d_pc'[a] = "exchange"
             \/ d_pc'[a] \in {"leave", "chain"} /\ d_first'[a] = d_node[a]
      BY <2>5, ListStarts
    <3>2. d_in_loop' = d_in_loop
      BY <2>5 DEF DList!TryReclaim, DList!shared
    <3>3. QED
      BY <3>1, <3>2 DEF DList!InLoop, DList!Counted
  <2>6. CASE DList!DeleteNodes(a)
    <3>1. d_pc[a] = "deleteList" /\ d_pc'[a] \in {"deleteNode", "deleteList"}
      BY <2>6, ListShortened
    <3>2. d_in_loop' = d_in_loop
      BY <2>6 DEF DList!DeleteNodes, DList!shared
    <3>3. QED
      BY <3>1, <3>2 DEF DList!InLoop, DList!Counted
  <2>7. CASE DList!ChainPendingNodes(a) \/ DList!chainFails(a)
    <3>1. /\ d_pc[a] \in Chaining /\ d_pc'[a] = "chained"
          /\ d_first'[a] = d_first[a] /\ d_node'[a] = d_node[a]
      BY <2>7, ListAimed
    <3>2. d_in_loop' = d_in_loop
      BY <2>7 DEF DList!ChainPendingNodes, DList!chainFails, DList!shared
    <3>3. QED
      BY <3>1, <3>2 DEF DList!InLoop, DList!Counted, Chaining
  <2>8. CASE DList!chainSucceeds(a)
    <3>1. /\ d_pc[a] \in Chaining
          /\ IF d_first[a] = d_node[a] THEN d_pc'[a] = "leave" ELSE d_pc'[a] = "deleteNode"
      BY <2>8, ListJoined
    <3>2. d_in_loop' = d_in_loop
      BY <2>8 DEF DList!chainSucceeds, DList!Chained
    <3>3. QED
      BY <3>1, <3>2 DEF DList!InLoop, DList!Counted, Chaining
  <2>9. QED
    BY <1>5, <2>2, <2>3, <2>4, <2>5, <2>6, <2>7, <2>8 DEF DList!Step
<1>6. QED
  BY <1>2, <1>3, <1>4, <1>5

LEMMA CounterKept ==
    ASSUME StackInv, NEW a \in Threads, DList!Step(a)
    PROVE  CounterExact'
<1>1. \A u \in Threads \ {a} : DList!InLoop(u)' = DList!InLoop(u)
  BY StepFrames DEF Frames, DList!InLoop
<1>2. /\ InTheLoop \subseteq Threads /\ IsFiniteSet(InTheLoop)
      /\ d_in_loop = Cardinality(InTheLoop) /\ Cardinality(InTheLoop) \in Nat
  <2>1. InTheLoop \subseteq Threads /\ IsFiniteSet(Threads)
    BY NullAssumption DEF InTheLoop
  <2>2. QED
    BY <2>1, FS_Subset, FS_CardinalityType DEF StackInv, CounterExact
<1> DEFINE S == InTheLoop
<1>3. CASE DList!InLoop(a)' = DList!InLoop(a) /\ d_in_loop' = d_in_loop
  <2>1. InTheLoop' = InTheLoop
    BY <1>1, <1>3 DEF InTheLoop
  <2>2. QED
    BY <1>2, <1>3, <2>1 DEF CounterExact
<1>4. CASE ~DList!InLoop(a) /\ DList!InLoop(a)' /\ d_in_loop' = d_in_loop + 1
  <2>1. InTheLoop' = S \cup {a} /\ a \notin S
    BY <1>1, <1>4 DEF InTheLoop
  <2> HIDE DEF S
  <2>2. IsFiniteSet(S) /\ d_in_loop = Cardinality(S)
    BY <1>2 DEF S
  <2>3. Cardinality(S \cup {a}) = Cardinality(S) + 1
    BY <2>1, <2>2, FS_AddElement
  <2>4. QED
    BY <1>4, <2>1, <2>2, <2>3 DEF CounterExact
<1>5. CASE DList!InLoop(a) /\ ~DList!InLoop(a)' /\ d_in_loop' = d_in_loop - 1
  <2>1. InTheLoop' = S \ {a} /\ a \in S
    BY <1>1, <1>5 DEF InTheLoop
  <2> HIDE DEF S
  <2>2. IsFiniteSet(S) /\ d_in_loop = Cardinality(S)
    BY <1>2 DEF S
  <2>3. Cardinality(S \ {a}) = Cardinality(S) - 1
    BY <2>1, <2>2, FS_RemoveElement
  <2>4. QED
    BY <1>5, <2>1, <2>2, <2>3 DEF CounterExact
<1>6. QED
  BY <1>3, <1>4, <1>5, OwnLoop

\* The only thread in the loop.
LEMMA AloneInLoop ==
    ASSUME StackInv, NEW a \in Threads, DList!InLoop(a), d_in_loop = 1
    PROVE  \A u \in Threads \ {a} : ~DList!InLoop(u)
<1> DEFINE S == InTheLoop
<1>1. IsFiniteSet(S) /\ Cardinality(S) = 1 /\ a \in S
  <2>1. InTheLoop \subseteq Threads /\ IsFiniteSet(Threads)
    BY NullAssumption DEF InTheLoop
  <2>2. IsFiniteSet(InTheLoop)
    BY <2>1, FS_Subset
  <2>3. QED
    BY <2>2 DEF StackInv, CounterExact, InTheLoop
<1> HIDE DEF S
<1>2. PICK x : S = {x}
  BY <1>1, FS_Singleton
<1>3. S = {a}
  BY <1>1, <1>2
<1>4. QED
  BY <1>3 DEF S, InTheLoop

-------------------------------------------------------------------------------
\* A step moves nodes between the stack, its list and the thread: it adds the
\* nodes it allocates and takes away those it deletes.
LEMMA OwnersChange ==
    ASSUME StackInv, NEW a \in Threads, Frames(a),
           NEW more, more \cap d_heap = {}, NEW less, less \subseteq Holds(a),
           d_heap' = (d_heap \cup more) \ less,
           Listed' \cup Deletable' \cup Holds(a)' =
             (Listed \cup Deletable \cup Holds(a) \cup more) \ less,
           Listed' \cap Deletable' = {},
           Holds(a)' \cap (Listed' \cup Deletable') = {}
    PROVE  OneOwner'
<1> DEFINE G == Listed \cup Deletable \cup Holds(a)
           G2 == Listed' \cup Deletable' \cup Holds(a)'
<1>1. \A u \in Threads \ {a} : Holds(u)' = Holds(u)
  BY OthersHold
<1>2. OneOwner
  BY DEF StackInv
<1>3. ASSUME NEW u \in Threads \ {a}
      PROVE  Holds(u) \cap G2 = {} /\ Holds(u) \subseteq d_heap /\ Holds(u) \cap less = {}
  <2>1. Holds(u) \subseteq d_heap /\ Holds(u) \cap G = {}
    BY <1>2 DEF OneOwner
  <2>2. QED
    BY <2>1
<1>4. d_heap = G \cup UNION {Holds(u) : u \in Threads \ {a}}
  <2>1. UNION {Holds(u) : u \in Threads}
          = Holds(a) \cup UNION {Holds(u) : u \in Threads \ {a}}
    OBVIOUS
  <2>2. QED
    BY <1>2, <2>1 DEF OneOwner
<1>5. d_heap' = G2 \cup UNION {Holds(u) : u \in Threads \ {a}}
  BY <1>3, <1>4
<1>6. d_heap' = Listed' \cup Deletable' \cup UNION {Holds(u)' : u \in Threads}
  <2>1. UNION {Holds(u)' : u \in Threads}
          = Holds(a)' \cup UNION {Holds(u)' : u \in Threads \ {a}}
    OBVIOUS
  <2>2. UNION {Holds(u)' : u \in Threads \ {a}} = UNION {Holds(u) : u \in Threads \ {a}}
    BY <1>1
  <2>3. QED
    BY <1>5, <2>1, <2>2
<1>7. \A u \in Threads : Holds(u)' \cap (Listed' \cup Deletable') = {}
  BY <1>1, <1>3
<1>8. \A t, u \in Threads : t # u => Holds(t)' \cap Holds(u)' = {}
  <2> SUFFICES ASSUME NEW t \in Threads, NEW u \in Threads, t # u
               PROVE  Holds(t)' \cap Holds(u)' = {}
    OBVIOUS
  <2>1. CASE t = a
    BY <1>1, <1>3, <2>1
  <2>2. CASE u = a
    BY <1>1, <1>3, <2>2
  <2>3. CASE t # a /\ u # a
    BY <1>1, <1>2, <2>3 DEF OneOwner
  <2>4. QED
    BY <2>1, <2>2, <2>3
<1>9. QED
  BY <1>6, <1>7, <1>8 DEF OneOwner

LEMMA OneOwnerKept ==
    ASSUME StackInv, NEW a \in Threads, DList!Step(a)
    PROVE  OneOwner'
<1>1. /\ Frames(a) /\ Types /\ Null \notin Nodes /\ InPlace(a)
      /\ d_node[a] \in Nodes \cup {Null}
  BY StepFrames, NullAssumption DEF StackInv, Types
<1>2. /\ Listed \cap Deletable = {} /\ Holds(a) \cap (Listed \cup Deletable) = {}
      /\ Listed \subseteq d_heap /\ Deletable \subseteq d_heap
      /\ Holds(a) \subseteq d_heap
  BY HeldNodes DEF StackInv, OneOwner
<1>3. d_head' = d_head => Listed' = Listed
  BY <1>1, StackListStays
<1>4. d_list' = d_list => Deletable' = Deletable
  BY <1>1, DeletableStays
<1>5. Holds(a)' = ({d_node'[a]} \ {Null}) \cup Pending(a)'
      /\ Holds(a) = ({d_node[a]} \ {Null}) \cup Pending(a)
  BY DEF Holds
<1>6. ASSUME d_heap' = d_heap, Listed' = Listed, Deletable' = Deletable, Holds(a)' = Holds(a)
      PROVE  OneOwner'
  BY <1>1, <1>2, <1>6, OwnersChange, Zenon
<1>7. ASSUME NEW v \in Values, DList!Push(a, v) PROVE OneOwner'
  <2>1. PICK n \in Nodes \ d_heap :
          d_heap' = d_heap \cup {n} /\ d_node' = [d_node EXCEPT ![a] = n]
    BY <1>7 DEF DList!Push
  <2>2. d_pc[a] = "idle" /\ DList!Step(a) /\ d_head' = d_head /\ d_list' = d_list
    BY <1>7 DEF DList!Push, DList!Step, DList!shared
  <2>3. Pending(a)' = {} /\ Holds(a) = {} /\ d_node'[a] = n
    BY <1>1, <2>1, <2>2, ListLacking, NoList, HeldNodes DEF Types, Chaining
  <2>4. /\ Listed' = Listed /\ Deletable' = Deletable /\ Holds(a)' = {n}
    BY <1>1, <1>3, <1>4, <1>5, <2>1, <2>2, <2>3
  <2> DEFINE more == {n}
             less == {}
  <2>5. /\ more \cap d_heap = {} /\ less \subseteq Holds(a)
        /\ d_heap' = (d_heap \cup more) \ less
        /\ Listed' \cup Deletable' \cup Holds(a)' =
             (Listed \cup Deletable \cup Holds(a) \cup more) \ less
        /\ Listed' \cap Deletable' = {}
        /\ Holds(a)' \cap (Listed' \cup Deletable') = {}
    BY <1>2, <2>1, <2>3, <2>4
  <2> HIDE DEF more, less
  <2>6. QED
    BY <1>1, <2>5, OwnersChange
<1> DEFINE Moved(less) ==
             /\ less \subseteq Holds(a) /\ d_heap' = d_heap \ less
             /\ Listed' \cup Deletable' \cup Holds(a)' =
                  (Listed \cup Deletable \cup Holds(a)) \ less
             /\ Listed' \cap Deletable' = {}
             /\ Holds(a)' \cap (Listed' \cup Deletable') = {}
<1>8. ASSUME NEW less, Moved(less) PROVE OneOwner'
  <2> DEFINE more == {}
  <2>1. /\ more \cap d_heap = {} /\ less \subseteq Holds(a)
        /\ d_heap' = (d_heap \cup more) \ less
        /\ Listed' \cup Deletable' \cup Holds(a)' =
             (Listed \cup Deletable \cup Holds(a) \cup more) \ less
        /\ Listed' \cap Deletable' = {}
        /\ Holds(a)' \cap (Listed' \cup Deletable') = {}
    BY <1>8
  <2> HIDE DEF more
  <2>2. QED
    BY <1>1, <2>1, OwnersChange
<1> HIDE DEF Moved
<1>9. CASE DList!pushSucceeds(a)
  <2>1. /\ d_pc[a] = "push" /\ d_node'[a] = Null /\ d_heap' = d_heap
        /\ d_list' = d_list
    BY <1>1, <1>9 DEF DList!pushSucceeds, DList!nodes, Types
  <2>2. /\ Pending(a)' = {} /\ Holds(a) = {d_node[a]} /\ Listed' = Listed \cup {d_node[a]}
        /\ Holds(a)' = {}
    BY <1>5, <1>9, <2>1, ListLacking, NoList, HeldNodes, ListPushed DEF Chaining
  <2>3. Moved({})
    BY <1>2, <1>4, <2>1, <2>2 DEF Moved
  <2>4. QED
    BY <1>8, <2>3
<1>10. CASE DList!removeSucceeds(a)
  <2>1. /\ d_pc[a] = "remove" /\ d_node'[a] = d_old[a] /\ d_heap' = d_heap
        /\ d_list' = d_list
    BY <1>1, <1>10 DEF DList!removeSucceeds, Types
  <2>2. /\ Pending(a)' = {} /\ Holds(a) = {} /\ Listed' = Listed \ {d_old[a]}
        /\ d_old[a] \in Listed /\ d_old[a] # Null
    BY <1>1, <1>10, <2>1, ListLacking, NoList, HeldNodes, ListPopped
       DEF Chaining, Types
  <2>3. Holds(a)' = {d_old[a]}
    BY <1>5, <2>1, <2>2
  <2>4. Moved({})
    BY <1>2, <1>4, <2>1, <2>2, <2>3 DEF Moved
  <2>5. QED
    BY <1>8, <2>4
<1>11. CASE DList!takeList(a)
  <2>1. /\ d_pc[a] = "exchange" /\ d_node'[a] = d_node[a] /\ d_heap' = d_heap
        /\ d_head' = d_head
        /\ Pending(a)' = Deletable /\ Pending(a) = {} /\ Deletable' = {}
    BY <1>11, ListTaken DEF DList!takeList, DList!nodes
  <2>2. Moved({})
    BY <1>2, <1>3, <1>5, <2>1 DEF Moved
  <2>3. QED
    BY <1>8, <2>2
<1>12. CASE DList!chainSucceeds(a)
  <2>1. /\ d_heap' = d_heap /\ d_head' = d_head
        /\ Pending(a)' = {} /\ Deletable' = Pending(a) \cup Deletable
        /\ d_pc[a] \in Chaining /\ d_first[a] \in Pending(a)
        /\ IF d_first[a] = d_node[a] THEN d_node'[a] = Null ELSE d_node'[a] = d_node[a]
    BY <1>12, ListJoined DEF DList!chainSucceeds, DList!Chained, DList!nodes
  <2>2. d_node[a] \in Pending(a) <=> d_first[a] = d_node[a]
    BY <1>1, <2>1 DEF InPlace
  <2>3. Moved({})
    BY <1>2, <1>3, <1>5, <2>1, <2>2 DEF Moved
  <2>4. QED
    BY <1>8, <2>3
<1>13. CASE DList!DeleteNodes(a)
  <2>1. /\ d_pc[a] = "deleteList" /\ d_node'[a] = d_node[a]
        /\ Pending(a)' = Pending(a) \ {d_first[a]}
        /\ d_head' = d_head /\ d_list' = d_list
    BY <1>13, ListShortened DEF DList!DeleteNodes, DList!shared
  <2>2. d_node[a] \notin Pending(a) /\ {d_first[a]} \ {Null} \subseteq Pending(a)
    BY <1>1, <2>1, HeldNodes DEF InPlace, Chaining
  <2>3. d_heap' = d_heap \ ({d_first[a]} \ {Null})
    BY <1>13 DEF DList!DeleteNodes, DList!Delete, DList!nodes
  <2>4. Null \notin Pending(a)
    BY <1>1, HeldNodes
  <2>5. Moved({d_first[a]} \ {Null})
    BY <1>2, <1>3, <1>4, <1>5, <2>1, <2>2, <2>3, <2>4 DEF Moved
  <2>6. QED
    BY <1>8, <2>5
<1>14. CASE DList!deleteNode(a)
  <2>1. /\ d_pc[a] = "deleteNode" /\ d_node'[a] = Null
        /\ d_head' = d_head /\ d_list' = d_list
        /\ d_heap' = d_heap \ ({d_node[a]} \ {Null})
    BY <1>1, <1>14 DEF DList!deleteNode, DList!Delete, DList!nodes, DList!shared, Types
  <2>2. Pending(a)' = {} /\ Holds(a) = {d_node[a]} \ {Null}
    BY <2>1, ListLacking, NoList, HeldNodes DEF Chaining
  <2>3. Moved({d_node[a]} \ {Null})
    BY <1>2, <1>3, <1>4, <1>5, <2>1, <2>2 DEF Moved
  <2>4. QED
    BY <1>8, <2>3
<1>15. CASE DList!TryReclaim(a)
  <2>1. /\ d_pc[a] = "reclaim" /\ d_node'[a] = d_node[a]
        /\ Pending(a)' = {d_first'[a]} \ {Null}
        /\ d_first'[a] \in {Null, d_node[a]}
    BY <1>15, ListStarts
  <2>2. Holds(a) = {d_node[a]} \ {Null} /\ UNCHANGED <<d_head, d_list, d_heap>>
    BY <1>15, <2>1, HeldNodes DEF DList!TryReclaim, DList!shared, DList!nodes
  <2>3. Holds(a)' = Holds(a)
    BY <1>5, <2>1, <2>2
  <2>4. QED
    BY <1>3, <1>4, <1>6, <2>2, <2>3
<1>16. CASE DList!sub(a) \/ DList!ChainPendingNodes(a) \/ DList!chainFails(a)
  <2>1. Pending(a)' = Pending(a) /\ d_node'[a] = d_node[a]
    BY <1>16, ListEnded, ListAimed
  <2>2. d_head' = d_head /\ d_list' = d_list /\ d_heap' = d_heap
    BY <1>16
       DEF DList!sub, DList!ChainPendingNodes, DList!chainFails, DList!shared, DList!nodes
  <2>3. QED
    BY <1>3, <1>4, <1>5, <1>6, <2>1, <2>2
<1>17. CASE \/ DList!pushFails(a) \/ DList!Pop(a) \/ DList!load(a) \/ DList!readNext(a)
            \/ DList!removeFails(a)
            \/ DList!leave(a) \/ DList!return(a)
  <2>1. UNCHANGED <<d_head, d_list, d_heap, d_node, d_first>>
        /\ d_pc[a] \in {"push", "idle", "load", "read", "remove", "leave", "return"}
    BY <1>17
       DEF DList!pushFails, DList!Pop, DList!load, DList!readNext, DList!removeFails,
           DList!leave, DList!return, DList!shared, DList!nodes, DList!list
  <2>2. Pending(a)' = {} /\ Pending(a) = {}
    BY <2>1, ListLacking, NoList, HeldNodes DEF Chaining, StackInv, InPlace
  <2>3. QED
    BY <1>3, <1>4, <1>5, <1>6, <2>1, <2>2
<1>18. QED
  BY <1>7, <1>9, <1>10, <1>11, <1>12, <1>13, <1>14, <1>15, <1>16, <1>17 DEF DList!Step

-------------------------------------------------------------------------------
\* A thread makes up its mind to delete its node, or a list, when it is alone.
LEMMA DeletesAlone ==
    ASSUME StackInv, NEW a \in Threads, DList!Step(a)
    PROVE  /\ WillDelete(a)' => \/ WillDelete(a) /\ d_node'[a] = d_node[a]
                                \/ DList!InLoop(a) /\ d_in_loop = 1
           /\ d_pc'[a] = "deleteList" =>
                \/ d_pc[a] = "deleteList" /\ Pending(a)' \subseteq Pending(a)
                \/ DList!InLoop(a) /\ d_in_loop = 1
<1>1. CASE d_pc[a] \notin {"reclaim", "exchange", "sub", "deleteList"} \cup Chaining
  <2>1. d_pc'[a] \in {"idle", "push", "load", "read", "remove", "reclaim", "return"}
    <3>1. d_pc \in [Threads -> {d_pc[t] : t \in Threads}]
      BY DEF StackInv, Types
    <3>2. CASE \/ \E v \in Values : DList!Push(a, v)
               \/ DList!pushSucceeds(a) \/ DList!Pop(a) \/ DList!load(a)
      BY <3>1, <3>2
         DEF DList!Push, DList!pushSucceeds, DList!Pop, DList!load, DList!LoadHead,
             DList!Goto
    <3>3. CASE DList!pushFails(a)
      BY <3>3 DEF DList!pushFails
    <3>4. CASE \/ DList!readNext(a) \/ DList!removeSucceeds(a) \/ DList!removeFails(a)
               \/ DList!deleteNode(a)
               \/ DList!leave(a) \/ DList!return(a)
      BY <3>1, <3>4
         DEF DList!readNext, DList!removeSucceeds, DList!removeFails, DList!LoadHead,
             DList!deleteNode, DList!leave, DList!return, DList!Goto
    <3>5. QED
      BY <1>1, <3>2, <3>3, <3>4
         DEF DList!Step, DList!TryReclaim, DList!takeList, DList!sub, DList!DeleteNodes,
             DList!ChainPendingNodes, DList!chainSucceeds, DList!chainFails, Chaining
  <2>2. QED
    BY <2>1 DEF WillDelete, Chaining
<1>2. CASE DList!TryReclaim(a)
  <2>1. /\ d_pc[a] = "reclaim"
        /\ \/ d_in_loop = 1 /\ d_pc'[a] = "exchange"
           \/ d_pc'[a] \in {"leave", "chain"} /\ d_first'[a] = d_node[a] /\ d_node'[a] = d_node[a]
    BY <1>2, ListStarts
  <2>2. QED
    BY <2>1 DEF WillDelete, Chaining, DList!InLoop, DList!Counted
<1>3. CASE DList!takeList(a)
  <2>1. d_pc[a] = "exchange" /\ d_pc'[a] = "sub" /\ d_node'[a] = d_node[a]
    BY <1>3 DEF DList!takeList, DList!Goto, StackInv, Types
  <2>2. QED
    BY <2>1 DEF WillDelete
<1>4. CASE DList!sub(a)
  <2>1. /\ d_node'[a] = d_node[a] /\ d_pc[a] = "sub"
        /\ d_in_loop = 1 \/ d_pc'[a] \in {"deleteNode", "chain"}
    BY <1>4, ListEnded
  <2>2. QED
    BY <2>1 DEF WillDelete, DList!InLoop, DList!Counted
<1>5. CASE DList!DeleteNodes(a)
  <2>1. /\ Pending(a)' \subseteq Pending(a) /\ d_pc[a] = "deleteList"
        /\ d_node'[a] = d_node[a]
        /\ d_pc'[a] \in {"deleteNode", "deleteList"}
    BY <1>5, ListShortened
  <2>2. QED
    BY <2>1 DEF WillDelete
<1>6. CASE DList!ChainPendingNodes(a) \/ DList!chainFails(a)
  <2>1. /\ d_pc[a] \in Chaining /\ d_pc'[a] = "chained"
        /\ d_first'[a] = d_first[a] /\ d_node'[a] = d_node[a]
    BY <1>6, ListAimed
  <2>2. QED
    BY <2>1 DEF WillDelete, Chaining
<1>7. CASE DList!chainSucceeds(a)
  <2>1. /\ d_pc[a] \in Chaining
        /\ IF d_first[a] = d_node[a] THEN d_pc'[a] = "leave"
           ELSE d_pc'[a] = "deleteNode" /\ d_node'[a] = d_node[a]
    BY <1>7, ListJoined
  <2>2. QED
    BY <2>1 DEF WillDelete, Chaining
<1>8. QED
  <2>1. CASE d_pc[a] \in {"reclaim", "exchange", "sub", "deleteList"} \cup Chaining
    <3>1. \/ DList!TryReclaim(a) \/ DList!takeList(a) \/ DList!sub(a)
          \/ DList!DeleteNodes(a)
          \/ DList!ChainPendingNodes(a) \/ DList!chainFails(a) \/ DList!chainSucceeds(a)
      BY <2>1
         DEF DList!Step, DList!Push, DList!pushSucceeds, DList!pushFails, DList!Pop,
             DList!load, DList!readNext, DList!removeSucceeds, DList!removeFails,
             DList!deleteNode, DList!leave, DList!return, Chaining
    <3>2. QED
      BY <1>2, <1>3, <1>4, <1>5, <1>6, <1>7, <3>1
  <2>2. QED
    BY <1>1, <2>1

\* Only Push adds to the stack, and what it adds nobody has seen before.
LEMMA ListedGrows ==
    ASSUME StackInv, NEW a \in Threads, DList!Step(a)
    PROVE  Listed' \subseteq Listed \cup New
<1>1. CASE DList!pushSucceeds(a)
  <2>1. Listed' = Listed \cup {d_node[a]} /\ d_pc[a] = "push"
    BY <1>1, ListPushed DEF DList!pushSucceeds
  <2>2. QED
    BY <2>1 DEF New
<1>2. QED
  BY <1>1, StepFrames, HeadsStay, ListPopped, StackListStays

LEMMA ProtectsOther ==
    ASSUME StackInv, NEW a \in Threads, DList!Step(a), NEW t \in Threads \ {a}
    PROVE  Protects(t)'
<1>1. /\ Frames(a) /\ d_pc'[t] = d_pc[t] /\ d_old'[t] = d_old[t]
      /\ d_new'[t] = d_new[t]
  BY StepFrames DEF Frames
<1> SUFFICES ASSUME d_pc[t] \in {"read", "remove"} PROVE Protects(t)'
  BY <1>1 DEF Protects
<1>2. PICK n : n = d_old[t]
  OBVIOUS
<1>3. /\ n \in d_heap /\ n \notin New
      /\ d_pc[t] = "remove" /\ n \in Listed => d_new[t] = d_next[n]
      /\ \A u \in Threads : WillDelete(u) => d_node[u] # n
      /\ \A u \in Threads : d_pc[u] = "deleteList" => n \notin Pending(u)
  BY <1>2 DEF StackInv, Protects
<1>4. ~(DList!InLoop(a) /\ d_in_loop = 1)
  BY AloneInLoop DEF DList!InLoop, DList!Counted
<1>5. n \in d_heap' /\ n \notin New'
  BY <1>1, <1>3 DEF Frames, WillDelete
<1>6. d_pc[t] = "remove" /\ n \in Listed' => d_new[t] = d_next'[n]
  <2>1. n \in Listed' => n \in Listed
    BY <1>3, ListedGrows
  <2>2. n \in Listed => d_next'[n] = d_next[n]
    BY <1>1, <1>3, HeldNodes DEF Frames
  <2>3. QED
    BY <1>3, <2>1, <2>2
<1>7. ASSUME NEW u \in Threads, WillDelete(u)' PROVE d_node'[u] # n
  <2>1. CASE u = a
    BY <1>3, <1>4, <1>7, <2>1, DeletesAlone
  <2>2. CASE u # a
    <3>1. WillDelete(u) /\ d_node'[u] = d_node[u]
      BY <1>1, <1>7, <2>2 DEF Frames, WillDelete
    <3>2. QED
      BY <1>3, <3>1
  <2>3. QED
    BY <2>1, <2>2
<1>8. ASSUME NEW u \in Threads, d_pc'[u] = "deleteList" PROVE n \notin Pending(u)'
  <2>1. CASE u = a
    BY <1>3, <1>4, <1>8, <2>1, DeletesAlone
  <2>2. CASE u # a
    <3>1. d_pc[u] = "deleteList" /\ Pending(u)' = Pending(u)
      BY <1>1, <1>8, <2>2, OthersHold DEF Frames
    <3>2. QED
      BY <1>3, <3>1
  <2>3. QED
    BY <2>1, <2>2
<1>9. QED
  BY <1>1, <1>2, <1>5, <1>6, <1>7, <1>8 DEF Protects

LEMMA ProtectsOwn ==
    ASSUME StackInv, NEW a \in Threads, DList!Step(a)
    PROVE  Protects(a)'
<1>1. Frames(a) /\ d_pc \in [Threads -> {d_pc[t] : t \in Threads}] /\ Types
  BY StepFrames DEF StackInv, Types
<1> SUFFICES ASSUME d_pc'[a] \in {"read", "remove"} PROVE Protects(a)'
  BY DEF Protects
<1>2. DList!load(a) \/ DList!removeFails(a) \/ DList!readNext(a)
  <2>1. CASE \/ \E v \in Values : DList!Push(a, v)
             \/ DList!pushSucceeds(a) \/ DList!pushFails(a) \/ DList!Pop(a)
             \/ DList!removeSucceeds(a)
    BY <1>1, <2>1
       DEF DList!Push, DList!pushSucceeds, DList!pushFails, DList!Pop,
           DList!removeSucceeds, DList!Goto
  <2>2. CASE \/ DList!TryReclaim(a) \/ DList!takeList(a) \/ DList!sub(a)
             \/ DList!DeleteNodes(a)
    <3>1. d_pc'[a] \notin {"read", "remove"}
      BY <1>1, <2>2, ListStarts, ListEnded, ListShortened DEF DList!takeList, DList!Goto
    <3>2. QED
      BY <3>1
  <2>3. CASE DList!ChainPendingNodes(a) \/ DList!chainFails(a) \/ DList!chainSucceeds(a)
    <3>1. d_pc'[a] \notin {"read", "remove"}
      BY <2>3, ListAimed, ListJoined
    <3>2. QED
      BY <3>1
  <2>4. CASE DList!deleteNode(a) \/ DList!leave(a) \/ DList!return(a)
    BY <1>1, <2>4 DEF DList!deleteNode, DList!leave, DList!return, DList!Goto
  <2>5. QED
    BY <2>1, <2>2, <2>3, <2>4 DEF DList!Step
<1>3. /\ UNCHANGED <<d_head, d_next, d_heap, d_node, d_first, d_last>>
      /\ \A u \in Threads : d_pc'[u] = "push" <=> d_pc[u] = "push"
      /\ \A u \in Threads : d_pc'[u] \in 
                              {"deleteList", "exchange", "sub", "deleteNode"} \cup Chaining
                              => u # a /\ d_pc'[u] = d_pc[u]
  BY <1>1, <1>2
     DEF DList!load, DList!removeFails, DList!readNext, DList!LoadHead, DList!Goto,
         DList!shared, DList!nodes, DList!list, Frames, Chaining
<1>4. /\ New' = New /\ Listed' = Listed
      /\ \A u \in Threads : WillDelete(u)' => WillDelete(u) /\ u # a
      /\ \A u \in Threads : d_pc'[u] = "deleteList" =>
           d_pc[u] = "deleteList" /\ Pending(u)' = Pending(u)
  <2>1. New' = New /\ Listed' = Listed
    BY <1>3 DEF New, Listed
  <2>2. \A u \in Threads : Pending(u)' = Pending(u)
    BY <1>3 DEF Pending, DList!Upto
  <2>3. \A u \in Threads : WillDelete(u)' => WillDelete(u) /\ u # a
    BY <1>3 DEF WillDelete
  <2>4. QED
    BY <1>3, <2>1, <2>2, <2>3
<1>5. CASE DList!load(a) \/ DList!removeFails(a)
  <2>1. /\ d_old'[a] = d_head /\ d_pc'[a] = "read" /\ d_head # Null
    BY <1>1, <1>5 DEF DList!load, DList!removeFails, DList!LoadHead, DList!Goto, Types
  <2>2. d_head \in Listed /\ Listed \subseteq d_heap
    BY <2>1, ListFacts DEF StackInv, Lists, Listed, OneOwner
  <2>3. d_head \notin New
    BY <2>2, HeldNodes DEF New
  <2>4. ASSUME NEW u \in Threads PROVE d_node[u] # d_head /\ d_head \notin Pending(u)
    BY <2>1, <2>2, HeldNodes
  <2>5. QED
    BY <1>3, <1>4, <2>1, <2>2, <2>3, <2>4 DEF Protects
<1>6. CASE DList!readNext(a)
  <2>1. /\ d_pc[a] = "read" /\ d_old'[a] = d_old[a]
        /\ d_new'[a] = d_next[d_old[a]]
    BY <1>6 DEF DList!readNext, StackInv, Types
  <2>2. Protects(a)
    BY DEF StackInv
  <2>3. QED
    BY <1>3, <1>4, <2>1, <2>2 DEF Protects
<1>7. QED
  BY <1>2, <1>5, <1>6

LEMMA ValuesStay ==
    ASSUME StackInv, NEW a \in Threads, DList!Step(a)
    PROVE  ValuesKept'
<1>1. Frames(a) /\ Types /\ Types' /\ ValuesKept /\ Listed \subseteq d_heap
  BY StepFrames DEF StackInv, OneOwner
<1>2. ASSUME NEW n \in Listed' PROVE d_data'[n] \in Values
  <2>1. CASE DList!pushSucceeds(a)
    <3>1. Listed' = Listed \cup {d_node[a]} /\ d_pc[a] = "push" /\ d_data' = d_data
      BY <2>1, ListPushed DEF DList!pushSucceeds, DList!nodes
    <3>2. QED
      BY <1>1, <1>2, <3>1 DEF ValuesKept
  <2>2. CASE DList!removeSucceeds(a)
    <3>1. Listed' = Listed \ {d_old[a]} /\ Listed \cap Holds(a) = {}
      BY <2>2, ListPopped, HeldNodes
    <3>2. n \in Listed /\ d_data'[n] = d_data[n]
      BY <1>1, <1>2, <3>1 DEF Frames
    <3>3. QED
      BY <1>1, <3>2 DEF ValuesKept
  <2>3. CASE ~DList!pushSucceeds(a) /\ ~DList!removeSucceeds(a)
    <3>1. Listed' = Listed /\ Listed \cap Holds(a) = {}
      BY <1>1, <2>3, HeadsStay, StackListStays, HeldNodes
    <3>2. n \in Listed /\ d_data'[n] = d_data[n]
      BY <1>1, <1>2, <2>3, <3>1 DEF Frames
    <3>3. QED
      BY <1>1, <3>2 DEF ValuesKept
  <2>4. QED
    BY <2>1, <2>2, <2>3
<1>3. ASSUME NEW t \in Threads \ {a}
      PROVE  /\ d_pc'[t] = "push" => d_data'[d_node'[t]] \in Values
             /\ d_pc'[t] \in {"idle", "push", "load", "read", "remove"} =>
                  d_res'[t] = NoValue
  <2>1. d_pc'[t] = d_pc[t] /\ d_node'[t] = d_node[t] /\ d_res'[t] = d_res[t]
    BY <1>1 DEF Frames
  <2>2. d_pc[t] = "push" => d_data'[d_node[t]] = d_data[d_node[t]]
    <3>1. SUFFICES ASSUME d_pc[t] = "push" PROVE d_data'[d_node[t]] = d_data[d_node[t]]
      OBVIOUS
    <3>2. /\ d_node[t] \in Holds(t) /\ d_node[t] \in d_heap /\ d_node[t] \notin Listed
          /\ d_node[t] \notin Holds(a)
      BY <3>1, HeldNodes DEF StackInv, OneOwner
    <3>3. ~(DList!removeSucceeds(a) /\ d_node[t] = d_old[a])
      BY <3>2, ListPopped
    <3>4. QED
      BY <1>1, <3>2, <3>3 DEF Frames
  <2>3. QED
    BY <1>1, <2>1, <2>2 DEF ValuesKept
<1>4. /\ d_pc'[a] = "push" => d_data'[d_node'[a]] \in Values
      /\ d_pc'[a] \in {"idle", "push", "load", "read", "remove"} => d_res'[a] = NoValue
  <2>1. CASE \E v \in Values : DList!Push(a, v)
    <3>1. PICK v \in Values, n \in Nodes :
            d_data' = [d_data EXCEPT ![n] = v] /\ d_node' = [d_node EXCEPT ![a] = n]
      BY <2>1 DEF DList!Push
    <3>2. d_res' = d_res /\ d_pc[a] = "idle"
      BY <2>1 DEF DList!Push
    <3>3. QED
      BY <1>1, <3>1, <3>2 DEF Types, ValuesKept
  <2>2. CASE DList!pushFails(a)
    <3>1. UNCHANGED <<d_pc, d_data, d_node, d_res>>
      BY <2>2 DEF DList!pushFails
    <3>2. QED
      BY <1>1, <3>1 DEF ValuesKept
  <2>3. CASE \/ DList!pushSucceeds(a) \/ DList!Pop(a) \/ DList!load(a)
             \/ DList!readNext(a) \/ DList!removeFails(a)
    <3>1. /\ d_pc[a] \in {"push", "idle", "load", "read", "remove"} /\ d_res' = d_res
          /\ d_pc'[a] # "push"
      BY <1>1, <2>3
         DEF DList!pushSucceeds, DList!Pop, DList!load, DList!readNext, DList!removeFails,
             DList!LoadHead, DList!Goto, Types
    <3>2. QED
      BY <1>1, <3>1 DEF ValuesKept
  <2>4. CASE DList!return(a)
    <3>1. d_pc'[a] = "idle" /\ d_res'[a] = NoValue
      BY <1>1, <2>4 DEF DList!return, DList!Goto, Types
    <3>2. QED
      BY <3>1
  <2>5. CASE \/ DList!removeSucceeds(a) \/ DList!TryReclaim(a) \/ DList!takeList(a)
             \/ DList!sub(a) \/ DList!DeleteNodes(a)
             \/ DList!ChainPendingNodes(a) \/ DList!chainSucceeds(a)
             \/ DList!chainFails(a) \/ DList!deleteNode(a)
             \/ DList!leave(a)
    <3>1. d_pc'[a] \notin {"idle", "push", "load", "read", "remove"}
      <4>1. CASE \/ DList!removeSucceeds(a) \/ DList!takeList(a) \/ DList!deleteNode(a)
                 \/ DList!leave(a)
        BY <1>1, <4>1
           DEF DList!removeSucceeds, DList!takeList, DList!deleteNode, DList!leave,
               DList!Goto, Types
      <4>2. CASE DList!TryReclaim(a) \/ DList!sub(a) \/ DList!DeleteNodes(a)
        BY <4>2, ListStarts, ListEnded, ListShortened
      <4>3. CASE \/ DList!ChainPendingNodes(a) \/ DList!chainSucceeds(a)
                 \/ DList!chainFails(a)
        BY <4>3, ListAimed, ListJoined
      <4>4. QED
        BY <2>5, <4>1, <4>2, <4>3
    <3>2. QED
      BY <3>1
  <2>6. QED
    BY <2>1, <2>2, <2>3, <2>4, <2>5 DEF DList!Step
<1>5. QED
  BY <1>2, <1>3, <1>4 DEF ValuesKept

-------------------------------------------------------------------------------
LEMMA StackInit == DList!Init => StackInv
<1> SUFFICES ASSUME DList!Init PROVE StackInv
  OBVIOUS
<1>1. Types /\ Null \notin Nodes
  BY NullAssumption DEF DList!Init, Types, Labels
<1>2. InOrder = <<>> /\ Listed = {} /\ Deletable = {}
      /\ \A t \in Threads : Pending(t) = {} /\ Holds(t) = {}
  BY ListEmpty DEF DList!Init, InOrder, Listed, Deletable, Pending, Holds
<1>3. Lists
  <2>1. Linked(d_head, d_next) /\ Linked(d_list, d_next)
    BY ListEmpty DEF DList!Init
  <2>2. \A t \in Threads : Linked(d_first[t], DList!Upto(t))
    BY ListEmpty DEF DList!Init
  <2>3. QED
    BY <2>1, <2>2 DEF Lists
<1>4. CounterExact
  <2>1. InTheLoop = {}
    BY DEF DList!Init, InTheLoop, DList!InLoop, DList!Counted
  <2>2. QED
    BY <2>1, FS_EmptySet DEF DList!Init, CounterExact
<1>5. \A t \in Threads : InPlace(t) /\ Protects(t)
  BY <1>2 DEF DList!Init, InPlace, Protects, Chaining
<1>6. OneOwner /\ ValuesKept
  BY <1>2 DEF DList!Init, OneOwner, ValuesKept
<1>7. QED
  BY <1>1, <1>3, <1>4, <1>5, <1>6 DEF StackInv

LEMMA StackStep ==
    ASSUME StackInv, [DList!Next]_(DList!vars)
    PROVE  StackInv'
<1>1. ASSUME NEW a \in Threads, DList!Step(a) PROVE StackInv'
  <2>1. \A t \in Threads : Protects(t)'
    BY <1>1, ProtectsOwn, ProtectsOther
  <2>2. QED
    BY <1>1, <2>1, StepFrames, CounterKept, ListsKept, InPlaceKept, OneOwnerKept,
       ValuesStay
       DEF StackInv
<1>2. CASE UNCHANGED DList!vars
  <2> USE <1>2 DEF StackInv, DList!vars, DList!shared, DList!nodes, DList!heads, DList!list
  <2>1. Types'
    BY DEF Types
  <2>2. Listed' = Listed /\ Deletable' = Deletable
    BY DEF Listed, Deletable
  <2>3. \A t \in Threads : DList!Upto(t)' = DList!Upto(t)
    BY DEF DList!Upto
  <2>4. \A t \in Threads : Pending(t)' = Pending(t)
    BY <2>3 DEF Pending
  <2>5. Lists'
    BY <2>3 DEF Lists
  <2>6. CounterExact'
    BY DEF CounterExact, InTheLoop, DList!InLoop
  <2>7. \A t \in Threads : InPlace(t)'
    BY <2>4 DEF InPlace
  <2>8. OneOwner'
    BY <2>2, <2>4 DEF OneOwner, Holds
  <2>9. \A t \in Threads : Protects(t)'
    BY <2>2, <2>4 DEF Protects, New, WillDelete
  <2>10. ValuesKept'
    BY <2>2 DEF ValuesKept
  <2>11. QED
    BY <2>1, <2>5, <2>6, <2>7, <2>8, <2>9, <2>10
<1>3. QED
  BY <1>1, <1>2 DEF DList!Next

LEMMA StackInvariance == DList!Spec => []StackInv
<1>1. StackInv /\ [DList!Next]_(DList!vars) => StackInv'
  BY StackStep
<1>2. QED
  BY StackInit, <1>1, PTL DEF DList!Spec

\* A thread that reads or writes a node finds it there: nobody deletes a node that
\* a thread counted by thread_in_loop_ may have loaded.
THEOREM CounterProtects == DList!Spec => []DeletedUnread
<1>1. ASSUME StackInv, NEW t \in Threads
      PROVE  /\ d_pc[t] \in {"read", "remove"} => d_old[t] \in d_heap
             /\ {d_node[t], d_first[t], d_last[t]} \subseteq d_heap \cup {Null}
  <2>1. Protects(t) /\ InPlace(t)
    BY <1>1 DEF StackInv
  <2>2. d_last[t] # Null => d_last[t] \in Pending(t)
    BY <2>1 DEF InPlace
  <2>3. QED
    BY <1>1, <2>1, <2>2, HeldNodes DEF Protects
<1>2. StackInv => DeletedUnread
  BY <1>1 DEF DeletedUnread, DList!DeletedUnread
<1>3. QED
  BY <1>2, StackInvariance, PTL

\* A node is in the stack, on the list of those to be deleted, or with one thread,
\* and thread_in_loop_ counts the threads in the loop.
THEOREM NodesAreSomewhere == DList!Spec => []DeleteListAccounted
<1>1. ASSUME StackInv PROVE DeleteListAccounted
  <2>1. DList!TypeOK
    BY <1>1, ListOperators
       DEF StackInv, Types, CounterExact, InTheLoop, DList!TypeOK, Labels, Chaining
  <2>2. QED
    BY <1>1, <2>1, SameLists
       DEF StackInv, OneOwner, DeleteListAccounted, DList!DeleteListAccounted
<1>2. QED
  BY <1>1, StackInvariance, PTL

-------------------------------------------------------------------------------
\* The stack of the abstract specification is the contents of the list.
LEMMA ContentsOfStack ==
    ASSUME StackInv
    PROVE  /\ InOrder \in Seq(Nodes) /\ \A n \in Members(InOrder) : d_data[n] \in Values
           /\ Listed = Members(InOrder)
           /\ DList!Stack = <<>> <=> InOrder = <<>>
           /\ InOrder = <<>> <=> d_head = Null
<1> DEFINE s == InOrder
           d == d_data
<1>1. s \in Seq(Nodes) /\ Listed = Members(s) /\ (s = <<>> <=> d_head = Null)
  BY ListFacts DEF StackInv, Lists, Listed, InOrder
<1>2. \A n \in Members(s) : d[n] \in Values
  BY <1>1 DEF StackInv, ValuesKept
<1> HIDE DEF s, d
<1>3. Contents(s, d) = <<>> <=> s = <<>>
  BY <1>1, <1>2, ContentsFacts
<1>4. QED
  BY <1>1, <1>2, <1>3, SameLists DEF s, d

LEMMA StackStays ==
    ASSUME StackInv, NEW a \in Threads, DList!Step(a),
           ~DList!pushSucceeds(a), ~DList!removeSucceeds(a)
    PROVE  DList!Stack' = DList!Stack
<1> DEFINE s == InOrder
           d == d_data
           d2 == d_data'
<1>1. /\ Frames(a) /\ d_head' = d_head /\ Listed \subseteq d_heap
      /\ Listed \cap Holds(a) = {}
  BY StepFrames, HeadsStay, HeldNodes DEF StackInv, OneOwner
<1>2. s \in Seq(Nodes) /\ \A m \in Members(s) : d2[m] = d[m]
  BY <1>1, ContentsOfStack DEF Frames
<1>3. InOrder' = s
  BY <1>1, StackListStays
<1> HIDE DEF s, d, d2
<1>4. Contents(s, d2) = Contents(s, d)
  BY <1>2, ContentsFrame
<1>5. QED
  BY <1>3, <1>4, SameLists DEF s, d, d2

\* A step of a thread changes the call of no other thread.
LEMMA CallOthers ==
    ASSUME StackInv, NEW a \in Threads, DList!Step(a)
    PROVE  \A u \in Threads \ {a} : DList!Call'[u] = DList!Call[u]
<1> SUFFICES ASSUME NEW u \in Threads \ {a} PROVE DList!Call'[u] = DList!Call[u]
  OBVIOUS
<1>1. Frames(a) /\ d_pc'[u] = d_pc[u] /\ d_node'[u] = d_node[u] /\ d_res'[u] = d_res[u]
  BY StepFrames DEF Frames
<1>2. d_pc[u] = "push" => d_data'[d_node[u]] = d_data[d_node[u]]
  <2>1. SUFFICES ASSUME d_pc[u] = "push" PROVE d_data'[d_node[u]] = d_data[d_node[u]]
    OBVIOUS
  <2>2. /\ d_node[u] \in Holds(u) /\ d_node[u] \in d_heap /\ d_node[u] \notin Listed
        /\ d_node[u] \notin Holds(a)
    BY <2>1, HeldNodes DEF StackInv, OneOwner
  <2>3. ~(DList!removeSucceeds(a) /\ d_node[u] = d_old[a])
    BY <2>2, ListPopped
  <2>4. QED
    BY <1>1, <2>2, <2>3 DEF Frames
<1>3. QED
  BY <1>1, <1>2 DEF DList!Call

LEMMA CallChanges ==
    ASSUME NEW a \in Threads, NEW c,
           \A u \in Threads \ {a} : DList!Call'[u] = DList!Call[u], DList!Call'[a] = c
    PROVE  DList!Call' = [DList!Call EXCEPT ![a] = c]
<1>1. /\ DList!Call = [u \in Threads |-> DList!Call[u]]
      /\ DList!Call' = [u \in Threads |-> DList!Call'[u]]
  BY DEF DList!Call
<1>2. QED
  BY <1>1

LEMMA CallKept ==
    ASSUME NEW a \in Threads,
           \A u \in Threads \ {a} : DList!Call'[u] = DList!Call[u],
           DList!Call'[a] = DList!Call[a]
    PROVE  DList!Call' = DList!Call
<1>1. /\ DList!Call = [u \in Threads |-> DList!Call[u]]
      /\ DList!Call' = [u \in Threads |-> DList!Call'[u]]
  BY DEF DList!Call
<1>2. QED
  BY <1>1

\* What a thread shows of its place in a call.
Looking == {"load", "read", "remove"}

Done == {"reclaim", "exchange", "sub", "deleteList", "chain", "chained", "deleteNode",
         "leave", "return"}

LEMMA CallOf ==
    ASSUME NEW a \in Threads
    PROVE  /\ d_pc[a] = "idle" => DList!Call[a] = DList!Abstract!Idle
           /\ d_pc[a] = "push" =>
                DList!Call[a] = [op |-> "push", value |-> d_data[d_node[a]]]
           /\ d_pc[a] \in Looking => DList!Call[a] = DList!Abstract!Popping
           /\ d_pc[a] \in Done => DList!Call[a] = DList!Abstract!Popped(d_res[a])
BY DEF DList!Call, DList!Abstract!Idle, DList!Abstract!Popping, DList!Abstract!Popped,
       Looking, Done

LEMMA CallOfNext ==
    ASSUME NEW a \in Threads
    PROVE  /\ d_pc'[a] = "idle" => DList!Call'[a] = DList!Abstract!Idle
           /\ d_pc'[a] = "push" =>
                DList!Call'[a] = [op |-> "push", value |-> d_data'[d_node'[a]]]
           /\ d_pc'[a] \in Looking => DList!Call'[a] = DList!Abstract!Popping
           /\ d_pc'[a] \in Done => DList!Call'[a] = DList!Abstract!Popped(d_res'[a])
BY DEF DList!Call, DList!Abstract!Idle, DList!Abstract!Popping, DList!Abstract!Popped,
       Looking, Done

\* The steps nobody outside can see.
LEMMA HiddenSteps ==
    ASSUME StackInv, NEW a \in Threads, DList!Step(a), DList!Call'[a] = DList!Call[a],
           ~DList!pushSucceeds(a), ~DList!removeSucceeds(a)
    PROVE  UNCHANGED <<DList!Stack, DList!Call>>
BY StackStays, CallOthers, CallKept

LEMMA PushSteps ==
    ASSUME StackInv, NEW a \in Threads, NEW v \in Values, DList!Push(a, v)
    PROVE  DList!Abstract!Next
<1>1. PICK n \in Nodes \ d_heap : d_data' = [d_data EXCEPT ![n] = v]
                                /\ d_node' = [d_node EXCEPT ![a] = n]
  BY DEF DList!Push
<1>2. /\ d_pc[a] = "idle" /\ d_pc' = [d_pc EXCEPT ![a] = "push"] /\ DList!Step(a)
      /\ ~DList!pushSucceeds(a) /\ ~DList!removeSucceeds(a)
  BY DEF DList!Push, DList!Goto, DList!Step, DList!pushSucceeds, DList!removeSucceeds
<1>3. d_data'[n] = v /\ d_node'[a] = n /\ d_pc'[a] = "push"
  BY <1>1, <1>2 DEF StackInv, Types
<1> DEFINE c == [op |-> "push", value |-> v]
<1>4. /\ DList!Call[a] = DList!Abstract!Idle /\ DList!Call'[a] = c
      /\ c \in DList!Abstract!Pushing
  BY <1>2, <1>3, CallOf, CallOfNext DEF DList!Abstract!Pushing
<1> HIDE DEF c
<1>5. DList!Call' = [DList!Call EXCEPT ![a] = c] /\ DList!Stack' = DList!Stack
  BY <1>2, <1>4, CallChanges, CallOthers, StackStays
<1>6. QED
  BY <1>4, <1>5 DEF DList!Abstract!Begin, DList!Abstract!Next

LEMMA PushSucceedsSteps ==
    ASSUME StackInv, NEW a \in Threads, DList!pushSucceeds(a)
    PROVE  DList!Abstract!Next
<1>1. /\ d_pc[a] = "push" /\ d_pc' = [d_pc EXCEPT ![a] = "idle"] /\ d_data' = d_data
      /\ DList!Step(a)
  BY DEF DList!pushSucceeds, DList!Goto, DList!nodes, DList!Step
<1>2. PICK n \in Nodes : n = d_node[a] /\ d_data[n] \in Values
  BY <1>1, HeldNodes DEF StackInv, ValuesKept
<1>3. d_pc'[a] = "idle"
  BY <1>1 DEF StackInv, Types
<1>4. /\ DList!Call[a] \in DList!Abstract!Pushing /\ DList!Call[a].value = d_data[n]
      /\ DList!Call'[a] = DList!Abstract!Idle
  <2>1. /\ DList!Call[a] = [op |-> "push", value |-> d_data[n]]
        /\ DList!Call'[a] = DList!Abstract!Idle
    BY <1>1, <1>2, <1>3, CallOf, CallOfNext
  <2>2. QED
    BY <1>2, <2>1 DEF DList!Abstract!Pushing
<1>5. DList!Call' = [DList!Call EXCEPT ![a] = DList!Abstract!Idle]
  BY <1>1, <1>4, CallOthers, CallChanges
<1>6. DList!Stack' = <<DList!Call[a].value>> \o DList!Stack
  <2> DEFINE s == InOrder
             d == d_data
  <2>1. InOrder' = <<n>> \o s
    BY <1>2, ListPushed
  <2>2. s \in Seq(Nodes) /\ d[n] \in Values /\ \A m \in Members(s) : d[m] \in Values
    BY <1>2, ContentsOfStack
  <2>3. /\ DList!Stack' = Contents(<<n>> \o s, d) /\ DList!Stack = Contents(s, d)
        /\ DList!Call[a].value = d[n]
    BY <1>1, <1>4, <2>1, SameLists
  <2> HIDE DEF s, d
  <2>4. Contents(<<n>> \o s, d) = <<d[n]>> \o Contents(s, d)
    BY <2>2, ContentsPush
  <2>5. QED
    BY <2>3, <2>4
<1>7. DList!Abstract!Push(a)
  BY <1>4, <1>5, <1>6 DEF DList!Abstract!Push
<1>8. QED
  BY <1>7 DEF DList!Abstract!Next

\* The look at head_ that finds no node is the moment of a Pop that returns nothing.
LEMMA LoadSteps ==
    ASSUME StackInv, NEW a \in Threads, DList!load(a) \/ DList!removeFails(a)
    PROVE  DList!Abstract!Next \/ UNCHANGED <<DList!Stack, DList!Call>>
<1>1. /\ d_pc[a] \in Looking /\ d_res' = d_res /\ DList!Step(a)
      /\ d_pc'[a] = IF d_head = Null THEN "reclaim" ELSE "read"
      /\ ~DList!pushSucceeds(a)
  BY DEF DList!load, DList!removeFails, DList!LoadHead, DList!Goto, StackInv, Types,
         DList!Step, DList!pushSucceeds, Looking
<1>2. DList!Call[a] = DList!Abstract!Popping /\ d_res[a] = NoValue
  BY <1>1, CallOf DEF StackInv, ValuesKept, Looking
<1>3. ~DList!removeSucceeds(a)
  <2>1. SUFFICES ASSUME DList!removeSucceeds(a) PROVE FALSE
    OBVIOUS
  <2>2. d_old'[a] = Null /\ d_node'[a] = d_old[a] /\ d_node' = d_node
        /\ d_pc[a] = "remove"
    BY <2>1 DEF DList!load, DList!removeFails, DList!removeSucceeds, StackInv, Types
  <2>3. d_node[a] = Null /\ d_old[a] # Null
    BY <2>2, NullAssumption DEF StackInv, InPlace, Protects, Types
  <2>4. QED
    BY <2>2, <2>3
<1>4. CASE d_pc'[a] = "read"
  <2>1. DList!Call'[a] = DList!Call[a]
    BY <1>2, <1>4, CallOfNext DEF Looking
  <2>2. QED
    BY <1>1, <1>3, <2>1, HiddenSteps
<1>5. CASE d_pc'[a] = "reclaim" /\ d_head = Null
  <2>1. DList!Call'[a] = DList!Abstract!Popped(NoValue)
    BY <1>1, <1>2, <1>5, CallOfNext DEF Done
  <2>2. /\ DList!Call' = [DList!Call EXCEPT ![a] = DList!Abstract!Popped(NoValue)]
        /\ DList!Stack' = DList!Stack
    BY <1>1, <1>3, <2>1, CallChanges, CallOthers, StackStays
  <2>3. DList!Stack = <<>>
    BY <1>5, ContentsOfStack
  <2>4. QED
    BY <1>2, <2>2, <2>3 DEF DList!Abstract!Pop, DList!Abstract!Next
<1>6. QED
  BY <1>1, <1>4, <1>5

\* The compare-exchange that takes the top node.
LEMMA RemoveSteps ==
    ASSUME StackInv, NEW a \in Threads, DList!removeSucceeds(a)
    PROVE  DList!Abstract!Next
<1>1. /\ d_pc[a] = "remove" /\ d_pc'[a] = "reclaim" /\ DList!Step(a)
      /\ d_res'[a] = d_data[d_old[a]]
      /\ d_data' = [d_data EXCEPT ![d_old[a]] = NoValue]
  BY DEF DList!removeSucceeds, DList!Goto, StackInv, Types, DList!Step
<1>2. /\ DList!Call[a] = DList!Abstract!Popping
      /\ DList!Call'[a] = DList!Abstract!Popped(d_data[d_old[a]])
  BY <1>1, CallOf, CallOfNext DEF Looking, Done
<1>3. InOrder # <<>> /\ InOrder[1] = d_old[a] /\ InOrder' = Tail(InOrder)
      /\ Listed' = Listed \ {d_old[a]} /\ d_old[a] \in Nodes
      /\ Linked(d_head', d_next')
  <2>1. Listed \subseteq Nodes
    BY ListFacts DEF StackInv, Lists, Listed
  <2>2. QED
    BY <2>1, ListPopped
<1>4. /\ DList!Stack' = Tail(DList!Stack) /\ DList!Stack # <<>>
      /\ Head(DList!Stack) = d_data[d_old[a]]
  <2> DEFINE s == InOrder
             d == d_data
             r == Tail(InOrder)
             d2 == d_data'
  <2>1. s \in Seq(Nodes) /\ s # <<>> /\ \A m \in Members(s) : d[m] \in Values
    BY <1>3, ContentsOfStack
  <2>2. /\ DList!Stack = Contents(s, d) /\ DList!Stack' = Contents(r, d2) /\ r = Tail(s)
        /\ d_data[d_old[a]] = d[s[1]]
    BY <1>3, SameLists
  <2>3. r \in Seq(Nodes) /\ Members(r) = Listed'
    <3> DEFINE f2 == d_head'
               nxt2 == d_next'
    <3>1. /\ r = Line(Nodes, f2, nxt2) /\ Listed' = From(Nodes, f2, nxt2)
          /\ Linked(f2, nxt2)
      BY <1>3 DEF InOrder, Listed
    <3> HIDE DEF r, f2, nxt2
    <3>2. /\ Line(Nodes, f2, nxt2) \in Seq(Nodes)
          /\ Members(Line(Nodes, f2, nxt2)) = From(Nodes, f2, nxt2)
      BY <3>1, ListFacts
    <3>3. QED
      BY <3>1, <3>2
  <2>4. \A m \in Members(r) : d2[m] = d[m]
    <3>1. Listed \subseteq Nodes
      BY ListFacts DEF StackInv, Lists, Listed
    <3>2. QED
      BY <1>1, <1>3, <2>3, <3>1 DEF StackInv, Types
  <2> HIDE DEF s, d, d2, r
  <2>5. Contents(r, d2) = Contents(r, d)
    BY <2>3, <2>4, ContentsFrame
  <2>6. /\ Contents(Tail(s), d) = Tail(Contents(s, d))
        /\ Head(Contents(s, d)) = d[s[1]] /\ Contents(s, d) # <<>>
    BY <2>1, ContentsPop
  <2>7. QED
    BY <2>2, <2>5, <2>6
<1>5. DList!Call' = [DList!Call EXCEPT ![a] = DList!Abstract!Popped(Head(DList!Stack))]
  BY <1>1, <1>2, <1>4, CallOthers, CallChanges
<1>6. DList!Abstract!Pop(a)
  BY <1>2, <1>4, <1>5 DEF DList!Abstract!Pop
<1>7. QED
  BY <1>6 DEF DList!Abstract!Next

LEMMA PopSteps ==
    ASSUME StackInv, NEW a \in Threads, DList!Pop(a)
    PROVE  DList!Abstract!Next
<1>1. /\ d_pc[a] = "idle" /\ d_pc'[a] = "load" /\ DList!Step(a)
      /\ ~DList!pushSucceeds(a) /\ ~DList!removeSucceeds(a)
  BY DEF DList!Pop, DList!Goto, DList!Step, DList!pushSucceeds, DList!removeSucceeds,
         StackInv, Types
<1>2. DList!Call[a] = DList!Abstract!Idle /\ DList!Call'[a] = DList!Abstract!Popping
  BY <1>1, CallOf, CallOfNext DEF Looking
<1>3. /\ DList!Call' = [DList!Call EXCEPT ![a] = DList!Abstract!Popping]
      /\ DList!Stack' = DList!Stack
  BY <1>1, <1>2, CallChanges, CallOthers, StackStays
<1>4. QED
  BY <1>2, <1>3 DEF DList!Abstract!Begin, DList!Abstract!Next

LEMMA ReturnSteps ==
    ASSUME StackInv, NEW a \in Threads, DList!return(a)
    PROVE  DList!Abstract!Next
<1>1. /\ d_pc[a] = "return" /\ d_pc'[a] = "idle" /\ DList!Step(a)
      /\ ~DList!pushSucceeds(a) /\ ~DList!removeSucceeds(a)
  BY DEF DList!return, DList!Goto, DList!Step, DList!pushSucceeds, DList!removeSucceeds,
         StackInv, Types
<1>2. DList!Call[a].op = "popped" /\ DList!Call'[a] = DList!Abstract!Idle
  <2>1. /\ DList!Call[a] = DList!Abstract!Popped(d_res[a])
        /\ DList!Call'[a] = DList!Abstract!Idle
    BY <1>1, CallOf, CallOfNext DEF Done
  <2>2. QED
    BY <2>1 DEF DList!Abstract!Popped
<1>3. /\ DList!Call' = [DList!Call EXCEPT ![a] = DList!Abstract!Idle]
      /\ DList!Stack' = DList!Stack
  BY <1>1, <1>2, CallChanges, CallOthers, StackStays
<1>4. QED
  BY <1>2, <1>3 DEF DList!Abstract!Return, DList!Abstract!Next

LEMMA OtherSteps ==
    ASSUME StackInv, NEW a \in Threads,
           \/ DList!pushFails(a) \/ DList!readNext(a) \/ DList!TryReclaim(a)
           \/ DList!takeList(a) \/ DList!sub(a)
           \/ DList!DeleteNodes(a) \/ DList!ChainPendingNodes(a) \/ DList!chainSucceeds(a)
           \/ DList!chainFails(a)
           \/ DList!deleteNode(a) \/ DList!leave(a)
    PROVE  /\ DList!Call'[a] = DList!Call[a]
           /\ ~DList!pushSucceeds(a) /\ ~DList!removeSucceeds(a)
<1>1. d_pc \in [Threads -> {d_pc[t] : t \in Threads}] /\ Types
  BY DEF StackInv, Types
<1>2. CASE DList!pushFails(a)
  <2>1. UNCHANGED <<d_pc, d_node, d_data, d_res>> /\ d_pc[a] = "push"
    BY <1>2 DEF DList!pushFails
  <2>2. DList!Call'[a] = DList!Call[a]
    BY <2>1 DEF DList!Call
  <2>3. ~DList!pushSucceeds(a)
    BY <1>1, <2>1 DEF DList!pushSucceeds, DList!Goto
  <2>4. QED
    BY <2>1, <2>2, <2>3 DEF DList!removeSucceeds
<1>3. CASE DList!readNext(a)
  <2>1. d_pc[a] = "read" /\ d_pc'[a] = "remove"
    BY <1>1, <1>3 DEF DList!readNext, DList!Goto
  <2>2. QED
    BY <2>1, CallOf, CallOfNext DEF DList!pushSucceeds, DList!removeSucceeds, Looking
<1>4. CASE \/ DList!TryReclaim(a) \/ DList!takeList(a) \/ DList!sub(a)
           \/ DList!DeleteNodes(a) \/ DList!ChainPendingNodes(a)
           \/ DList!chainSucceeds(a) \/ DList!chainFails(a) \/ DList!deleteNode(a)
           \/ DList!leave(a)
  <2>1. d_pc[a] \in Done /\ d_pc'[a] \in Done
    <3>1. CASE DList!takeList(a) \/ DList!deleteNode(a) \/ DList!leave(a)
      BY <1>1, <3>1 DEF DList!takeList, DList!deleteNode, DList!leave, DList!Goto, Done
    <3>2. CASE DList!TryReclaim(a) \/ DList!sub(a) \/ DList!DeleteNodes(a)
      BY <3>2, ListStarts, ListEnded, ListShortened DEF Done
    <3>3. CASE DList!ChainPendingNodes(a) \/ DList!chainSucceeds(a) \/ DList!chainFails(a)
      BY <3>3, ListAimed, ListJoined DEF Done, Chaining
    <3>4. QED
      BY <1>4, <3>1, <3>2, <3>3
  <2>2. d_res' = d_res
    BY <1>4
       DEF DList!TryReclaim, DList!takeList, DList!sub, DList!DeleteNodes,
           DList!ChainPendingNodes, DList!chainSucceeds, DList!Chained, DList!chainFails,
           DList!deleteNode, DList!leave
  <2>3. QED
    BY <2>1, <2>2, CallOf, CallOfNext DEF DList!pushSucceeds, DList!removeSucceeds, Done
<1>5. QED
  BY <1>2, <1>3, <1>4

LEMMA StepRefines ==
    ASSUME StackInv, [DList!Next]_(DList!vars)
    PROVE  [DList!Abstract!Next]_<<DList!Stack, DList!Call>>
<1>1. ASSUME NEW a \in Threads, DList!Step(a)
      PROVE  DList!Abstract!Next \/ UNCHANGED <<DList!Stack, DList!Call>>
  <2>1. CASE \/ \E v \in Values : DList!Push(a, v)
             \/ DList!pushSucceeds(a) \/ DList!Pop(a) \/ DList!load(a)
             \/ DList!removeSucceeds(a) \/ DList!removeFails(a)
             \/ DList!return(a)
    BY <2>1, PushSteps, PushSucceedsSteps, PopSteps, LoadSteps, RemoveSteps, ReturnSteps
  <2>2. CASE \/ DList!pushFails(a) \/ DList!readNext(a) \/ DList!TryReclaim(a)
             \/ DList!takeList(a) \/ DList!sub(a)
             \/ DList!DeleteNodes(a) \/ DList!ChainPendingNodes(a)
             \/ DList!chainSucceeds(a) \/ DList!chainFails(a)
             \/ DList!deleteNode(a) \/ DList!leave(a)
    BY <1>1, <2>2, OtherSteps, HiddenSteps
  <2>3. QED
    BY <1>1, <2>1, <2>2 DEF DList!Step
<1>2. CASE UNCHANGED DList!vars
  <2>1. UNCHANGED <<d_head, d_next, d_data, d_pc, d_node, d_res>>
    BY <1>2 DEF DList!vars, DList!shared, DList!nodes
  <2>2. InOrder' = InOrder
    BY <2>1 DEF InOrder
  <2>3. QED
    BY <2>1, <2>2, SameLists DEF DList!Call
<1>3. QED
  BY <1>1, <1>2 DEF DList!Next

\* Push and Pop are those of a stack: a Pop takes effect when it looks at head_
\* and finds no node, or when its compare-exchange takes the node.
THEOREM DeleteListImplementsStack == DList!Spec => DeleteListIsAStack
<1>1. DList!Init => DList!Abstract!Init
  <2> SUFFICES ASSUME DList!Init PROVE DList!Abstract!Init
    OBVIOUS
  <2>1. DList!Stack = <<>>
    BY StackInit, ContentsOfStack DEF DList!Init
  <2>2. DList!Call = [t \in Threads |-> DList!Abstract!Idle]
    BY DEF DList!Init, DList!Call, DList!Abstract!Idle
  <2>3. QED
    BY <2>1, <2>2 DEF DList!Abstract!Init
<1>2. StackInv /\ [DList!Next]_(DList!vars) => [DList!Abstract!Next]_(DList!Abstract!vars)
  BY StepRefines DEF DList!Abstract!vars
<1>3. QED
  BY <1>1, <1>2, StackInvariance, PTL
     DEF DList!Spec, DeleteListIsAStack, DList!IsAStack, DList!Abstract!Spec
===============================================================================
