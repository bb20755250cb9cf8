-------------------------- MODULE RefCountStackProofs --------------------------
(***************************************************************************)
(* Proofs about RefCountStack for any number of threads, nodes and values, *)
(* while no external count wraps: nodes in use are never deleted, every    *)
(* node is deleted, and Push and Pop act like those of a stack.            *)
(***************************************************************************)
EXTENDS RefCountStack, LinkedListProofs

\* The invariant.  The nodes from head_ on form a list.
StackIsList == IsChain(Nodes, head_.node_, NextNode, InOrder, Null)

Working == {"push", "remove", "swap", "add", "giveBack"}

\* Whoever works on a node has it, and a node that is pushed or removed is not in the
\* list and is pushed or removed by one thread only.
NodesOwned ==
    /\ Listed \subseteq heap
    /\ \A t \in Threads : pc[t] \in Working => node[t] \in heap
    /\ \A t \in Threads : pc[t] \in {"push", "swap", "add"} => node[t] \notin Listed
    /\ \A t, u \in Threads :
         t # u /\ node[t] = node[u] /\ pc[u] \in Working =>
           /\ pc[t] # "push"
           /\ ~(pc[t] \in {"swap", "add"} /\ pc[u] \in {"swap", "add"})
    /\ \A t \in Threads : pc[t] = "remove" => old_head[t].node_ = node[t]

\* A node with internal count i that has h holders, and a pointer with external
\* count e to it, of which d references belong to the list or to the thread that
\* removed the node: i makes up for the references that have been given back.
Balanced(e, i, h, d) == h + d <= e /\ i = IF e = h + d THEN 0 ELSE CountMod + h + d - e

Held(n) == Cardinality(Holders(n))

CountsExact ==
    /\ \A k \in 1 .. Len(InOrder) :
         Balanced(Pointer(k).external_count_,
                  internal_count_[InOrder[k]], Held(InOrder[k]), 1)
    /\ \A t \in Threads : pc[t] \in {"swap", "add"} =>
         Balanced(old_head[t].external_count_,
                  internal_count_[node[t]], Held(node[t]), 2)
    /\ \A n \in heap \ (Listed \cup New \cup Removed) :
         internal_count_[n] = Held(n) /\ Held(n) # 0
    /\ \A n \in (Nodes \ heap) \cup New : internal_count_[n] = 0

\* A value is in its node until the thread that removed the node takes it out.
DataKept ==
    /\ \A n \in Listed : data_[n] \in Values
    /\ \A t \in Threads : pc[t] = "push" => data_[node[t]] \in Values
    /\ \A t \in Threads : pc[t] \notin {"add", "return"} => res[t] = NoValue

IInv == TypeOK /\ StackIsList /\ NodesOwned /\ CountsExact /\ DataKept

-------------------------------------------------------------------------------
\* The counters go around.
LEMMA Counters ==
    ASSUME NEW M \in Nat \ {0}, NEW a \in 0 .. M - 1, NEW b \in 0 .. M - 1
    PROVE  /\ (a + b) % M = IF a + b < M THEN a + b ELSE a + b - M
           /\ (a + M - b) % M = IF b <= a THEN a - b ELSE a + M - b
           /\ (a + b) % M \in 0 .. M - 1 /\ (a + M - b) % M \in 0 .. M - 1
<1>1. CASE a + b < M
  BY <1>1, SMT
<1>2. CASE ~(a + b < M)
  BY <1>2, SMT
<1>3. (a + b) % M = IF a + b < M THEN a + b ELSE a + b - M
  BY <1>1, <1>2
<1>4. (a + M - b) % M = IF b <= a THEN a - b ELSE a + M - b
  <2>1. CASE b <= a
    BY <2>1, SMT
  <2>2. CASE ~(b <= a)
    BY <2>2, SMT
  <2>3. QED
    BY <2>1, <2>2
<1>5. QED
  BY <1>3, <1>4

\* What the invariant says of the list.
LEMMA ListFacts ==
    ASSUME StackIsList
    PROVE  /\ InOrder \in Seq(Nodes) /\ Len(InOrder) \in Nat
           /\ DOMAIN InOrder = 1 .. Len(InOrder)
           /\ Listed = Members(InOrder) /\ Listed \subseteq Nodes
           /\ \A k \in 1 .. Len(InOrder) : InOrder[k] \in Listed
           /\ \A j, k \in 1 .. Len(InOrder) : InOrder[j] = InOrder[k] => j = k
           /\ InOrder = <<>> <=> head_.node_ = Null
           /\ InOrder # <<>> => /\ 1 \in 1 .. Len(InOrder)
                                /\ head_.node_ = InOrder[1]
                                /\ head_.node_ \in Listed /\ Head(InOrder) = InOrder[1]
<1>1. IsFiniteSet(Nodes) /\ Null \notin Nodes
  BY NullAssumption
<1>2. Listed = Members(InOrder)
  BY <1>1, ChainIsLine DEF StackIsList, Listed
<1>3. InOrder \in Seq(Nodes)
      /\ \A j, k \in 1 .. Len(InOrder) : InOrder[j] = InOrder[k] => j = k
  BY DEF StackIsList, IsChain
<1>4. Len(InOrder) \in Nat /\ DOMAIN InOrder = 1 .. Len(InOrder)
  BY <1>3, LenProperties
<1>5. \A k \in 1 .. Len(InOrder) : InOrder[k] \in Members(InOrder)
  BY DEF Members
<1>6. /\ Members(InOrder) \subseteq Nodes
      /\ InOrder = <<>> <=> head_.node_ = Null
      /\ InOrder # <<>> => /\ 1 \in 1 .. Len(InOrder)
                           /\ head_.node_ = InOrder[1]
                           /\ head_.node_ = Head(InOrder)
                           /\ head_.node_ \in Members(InOrder)
  <2> DEFINE s == InOrder
  <2>1. IsChain(Nodes, head_.node_, NextNode, s, Null)
    BY DEF StackIsList
  <2> HIDE DEF s
  <2>2. /\ Members(s) \subseteq Nodes
        /\ s = <<>> <=> head_.node_ = Null
        /\ s # <<>> => /\ 1 \in 1 .. Len(s) /\ head_.node_ = s[1]
                       /\ head_.node_ = Head(s) /\ head_.node_ \in Members(s)
    BY <1>1, <2>1, ChainFirst, Zenon
  <2>3. QED
    BY <2>2 DEF s
<1>7. QED
  BY <1>2, <1>3, <1>4, <1>5, <1>6

\* What a step leaves as the list.
LEMMA ListBecomes ==
    ASSUME NEW s, IsChain(Nodes, head_'.node_, NextNode', s, Null)
    PROVE  InOrder' = s /\ Listed' = Members(s) /\ StackIsList'
<1>1. IsFiniteSet(Nodes) /\ Null \notin Nodes
  BY NullAssumption
<1> DEFINE first == head_'.node_
           nxt == NextNode'
<1> HIDE DEF first, nxt
<1>2. IsChain(Nodes, first, nxt, s, Null)
  BY DEF first, nxt
<1>3. From(Nodes, first, nxt) = Members(s) /\ Line(Nodes, first, nxt) = s
  BY <1>1, <1>2, ChainIsLine
<1>4. InOrder' = s /\ Listed' = Members(s)
  BY <1>3 DEF InOrder, Listed, first, nxt
<1>5. QED
  BY <1>4 DEF StackIsList

\* A step that does not write to the nodes of the list leaves it alone.
LEMMA ListKept ==
    ASSUME StackIsList, head_'.node_ = head_.node_,
           \A n \in Listed : next_'[n] = next_[n]
    PROVE  /\ InOrder' = InOrder /\ Listed' = Listed /\ StackIsList'
<1>1. Listed = Members(InOrder) /\ Listed \subseteq Nodes
  BY ListFacts
<1>2. \A n \in Members(InOrder) : NextNode'[n] = NextNode[n]
  BY <1>1 DEF NextNode
<1> DEFINE s == InOrder
           nxt == NextNode
           nxt2 == NextNode'
<1>3. IsChain(Nodes, head_'.node_, nxt, s, Null) /\ \A n \in Members(s) : nxt2[n] = nxt[n]
  BY <1>2 DEF StackIsList
<1> HIDE DEF s, nxt, nxt2
<1>4. IsChain(Nodes, head_'.node_, nxt2, s, Null)
  BY <1>3, ChainFrame
<1>5. InOrder' = s /\ Listed' = Members(s) /\ StackIsList'
  BY <1>4, ListBecomes DEF nxt2
<1>6. QED
  BY <1>1, <1>5 DEF s

LEMMA PointersKept ==
    ASSUME StackIsList, head_' = head_, \A n \in Listed : next_'[n] = next_[n]
    PROVE  /\ InOrder' = InOrder /\ Listed' = Listed /\ StackIsList'
           /\ \A k \in 1 .. Len(InOrder) : Pointer(k)' = Pointer(k)
<1>1. InOrder' = InOrder /\ Listed' = Listed /\ StackIsList'
  BY ListKept
<1>2. ASSUME NEW k \in 1 .. Len(InOrder) PROVE Pointer(k)' = Pointer(k)
  <2>1. CASE k = 1
    BY <2>1 DEF Pointer
  <2>2. CASE k # 1
    <3>1. k - 1 \in 1 .. Len(InOrder)
      BY <2>2, ListFacts
    <3>2. InOrder[k - 1] \in Listed
      BY <3>1, ListFacts
    <3>3. QED
      BY <1>1, <2>2, <3>2 DEF Pointer
  <2>3. QED
    BY <2>1, <2>2
<1>3. QED
  BY <1>1, <1>2

-------------------------------------------------------------------------------
\* What one thread does changes the number of holders of a node by its own part.
LEMMA CountBounds ==
    /\ Cardinality(Threads) \in Nat /\ CountMod \in Nat \ {0}
    /\ Cardinality(Threads) + 1 < CountMod
BY CountAssumption, NullAssumption, FS_CardinalityType

LEMMA HeldBounds ==
    ASSUME NEW n
    PROVE  /\ Held(n) \in Nat /\ Held(n) <= Cardinality(Threads)
           /\ IsFiniteSet(Holders(n))
           /\ Held(n) = 0 <=> Holders(n) = {}
<1>1. IsFiniteSet(Threads) /\ Holders(n) \subseteq Threads
  BY NullAssumption DEF Holders
<1>2. QED
  BY <1>1, CountAssumption, FS_Subset, FS_CardinalityType, FS_EmptySet DEF Held

LEMMA HeldChanges ==
    ASSUME NEW t \in Threads, NEW n,
           \A u \in Threads \ {t} : pc'[u] = pc[u] /\ node'[u] = node[u]
    PROVE  /\ (t \in Holders(n) <=> t \in Holders(n)') => Held(n)' = Held(n)
           /\ t \notin Holders(n) /\ t \in Holders(n)' => Held(n)' = Held(n) + 1
           /\ t \in Holders(n) /\ t \notin Holders(n)' => Held(n)' = Held(n) - 1
           /\ Holders(n)' \ {t} = Holders(n) \ {t}
<1>1. Holders(n)' \ {t} = Holders(n) \ {t}
  BY DEF Holders
<1> DEFINE A == Holders(n)
           B == Holders(n)'
<1>2. IsFiniteSet(A) /\ IsFiniteSet(B)
  <2>1. IsFiniteSet(Threads) /\ A \subseteq Threads /\ B \subseteq Threads
    BY NullAssumption DEF Holders
  <2>2. QED
    BY <2>1, FS_Subset
<1> HIDE DEF A, B
<1>3. B \ {t} = A \ {t}
  BY <1>1 DEF A, B
<1>4. /\ (t \in A <=> t \in B) => Cardinality(B) = Cardinality(A)
      /\ t \notin A /\ t \in B => Cardinality(B) = Cardinality(A) + 1
      /\ t \in A /\ t \notin B => Cardinality(B) = Cardinality(A) - 1
  <2>1. (t \in A <=> t \in B) => B = A
    BY <1>3
  <2>2. t \notin A /\ t \in B => B = A \cup {t}
    BY <1>3
  <2>3. t \in A /\ t \notin B => B = A \ {t}
    BY <1>3
  <2>4. QED
    BY <1>2, <2>1, <2>2, <2>3, FS_AddElement, FS_RemoveElement
<1>5. QED
  BY <1>1, <1>4 DEF A, B, Held

-------------------------------------------------------------------------------
\* The steps that leave list, nodes and counts alone.
LEMMA CountsKept ==
    ASSUME TypeOK, StackIsList, NodesOwned, CountsExact,
           head_' = head_, heap' = heap, internal_count_' = internal_count_,
           \A n \in Listed : next_'[n] = next_[n],
           New' = New, Removed' = Removed, \A n \in Nodes : Held(n)' = Held(n),
           \A u \in Threads : pc'[u] \in {"swap", "add"} =>
              /\ pc[u] \in {"swap", "add"}
              /\ old_head'[u] = old_head[u] /\ node'[u] = node[u]
    PROVE  StackIsList' /\ CountsExact' /\ Listed' = Listed /\ InOrder' = InOrder
<1>1. /\ InOrder' = InOrder /\ Listed' = Listed /\ StackIsList'
      /\ \A k \in 1 .. Len(InOrder) : Pointer(k)' = Pointer(k)
  BY PointersKept
<1>2. /\ \A k \in 1 .. Len(InOrder) : InOrder[k] \in Nodes
      /\ heap \subseteq Nodes
      /\ \A u \in Threads : pc[u] \in {"swap", "add"} => node[u] \in Nodes
  BY ListFacts DEF TypeOK, NodesOwned, Working
<1>3. ASSUME NEW k \in 1 .. Len(InOrder)'
      PROVE  Balanced(Pointer(k).external_count_,
                  internal_count_[InOrder[k]], Held(InOrder[k]), 1)'
  <2>1. k \in 1 .. Len(InOrder) /\ InOrder'[k] = InOrder[k]
    BY <1>1
  <2>2. Held(InOrder[k])' = Held(InOrder[k])
    BY <1>1, <1>2, <2>1
  <2>3. QED
    BY <1>1, <2>1, <2>2 DEF CountsExact, Balanced
<1>4. ASSUME NEW u \in Threads, pc'[u] \in {"swap", "add"}
      PROVE  Balanced(old_head[u].external_count_,
                  internal_count_[node[u]], Held(node[u]), 2)'
  <2>1. Held(node[u])' = Held(node[u])
    BY <1>2, <1>4
  <2>2. QED
    BY <1>4, <2>1 DEF CountsExact, Balanced
<1>5. ASSUME NEW n \in (heap \ (Listed \cup New \cup Removed))'
      PROVE  internal_count_'[n] = Held(n)' /\ Held(n)' # 0
  BY <1>1, <1>2 DEF CountsExact
<1>6. \A n \in (Nodes \ heap)' \cup New' : internal_count_'[n] = 0
  BY DEF CountsExact
<1>7. CountsExact'
  BY <1>3, <1>4, <1>5, <1>6 DEF CountsExact
<1>8. QED
  BY <1>1, <1>7

LEMMA PushKeeps ==
    ASSUME IInv, NEW t \in Threads, NEW v \in Values, Push(t, v)
    PROVE  IInv'
<1> USE DEF IInv
<1>1. PICK n \in Nodes \ heap :
        /\ heap' = heap \cup {n}
        /\ data_' = [data_ EXCEPT ![n] = v]
        /\ next_' = [next_ EXCEPT ![n] = head_]
        /\ node' = [node EXCEPT ![t] = n]
  BY DEF Push
<1>2. /\ pc[t] = "idle" /\ pc' = [pc EXCEPT ![t] = "push"]
      /\ head_' = head_ /\ internal_count_' = internal_count_
      /\ old_head' = old_head /\ res' = res
  BY DEF Push, Goto
<1>3. TypeOK'
  BY <1>1, <1>2, NullAssumption DEF TypeOK
<1>4. /\ n \notin Listed /\ \A m \in Listed : next_'[m] = next_[m]
      /\ \A u \in Threads : pc[u] \in Working => node[u] # n
  BY <1>1 DEF TypeOK, NodesOwned
<1>5. /\ InOrder' = InOrder /\ Listed' = Listed /\ StackIsList'
      /\ \A k \in 1 .. Len(InOrder) : Pointer(k)' = Pointer(k)
  BY <1>2, <1>4, PointersKept
<1>6. /\ pc'[t] = "push" /\ node'[t] = n
      /\ \A u \in Threads \ {t} : pc'[u] = pc[u] /\ node'[u] = node[u]
  BY <1>1, <1>2 DEF TypeOK
<1>7. NodesOwned'
  BY <1>1, <1>2, <1>4, <1>5, <1>6 DEF NodesOwned, Working
<1>8. New' = New \cup {n} /\ Removed' = Removed
  <2>1. Removed' = Removed
    BY <1>2, <1>6 DEF Removed
  <2>2. New' = New \cup {n}
    BY <1>2, <1>6 DEF New
  <2>3. QED
    BY <2>1, <2>2
<1>9. \A m : Held(m)' = Held(m)
  BY <1>2, <1>6, HeldChanges DEF Holders
<1>10. CountsExact'
  <2>1. ASSUME NEW k \in 1 .. Len(InOrder)'
        PROVE  Balanced(Pointer(k).external_count_,
                  internal_count_[InOrder[k]], Held(InOrder[k]), 1)'
    <3>1. k \in 1 .. Len(InOrder) /\ InOrder'[k] = InOrder[k]
      BY <1>5
    <3>2. Held(InOrder[k])' = Held(InOrder[k])
      BY <1>5, <1>9
    <3>3. QED
      BY <1>2, <1>5, <3>1, <3>2 DEF CountsExact, Balanced
  <2>2. ASSUME NEW u \in Threads, pc'[u] \in {"swap", "add"}
        PROVE  Balanced(old_head[u].external_count_,
                  internal_count_[node[u]], Held(node[u]), 2)'
    <3>1. u # t /\ pc[u] \in {"swap", "add"} /\ node'[u] = node[u]
      BY <1>6, <2>2
    <3>2. Held(node[u])' = Held(node[u])
      BY <1>9, <3>1
    <3>3. QED
      BY <1>2, <3>1, <3>2 DEF CountsExact, Balanced
  <2>3. ASSUME NEW m \in (heap \ (Listed \cup New \cup Removed))'
        PROVE  internal_count_'[m] = Held(m)' /\ Held(m)' # 0
    BY <1>1, <1>2, <1>5, <1>8, <1>9 DEF CountsExact
  <2>4. \A m \in (Nodes \ heap)' \cup New' : internal_count_'[m] = 0
    BY <1>1, <1>2, <1>8 DEF CountsExact
  <2>5. QED
    BY <2>1, <2>2, <2>3, <2>4 DEF CountsExact
<1>11. DataKept'
  BY <1>1, <1>2, <1>4, <1>5, <1>6 DEF DataKept, TypeOK, NodesOwned, Working
<1>12. QED
  BY <1>3, <1>5, <1>7, <1>10, <1>11

LEMMA PushFailsKeeps ==
    ASSUME IInv, NEW t \in Threads, pushFails(t)
    PROVE  IInv' /\ InOrder' = InOrder /\ Listed' = Listed
<1> USE DEF IInv
<1>1. /\ pc[t] = "push" /\ next_' = [next_ EXCEPT ![node[t]] = head_]
      /\ head_' = head_ /\ heap' = heap /\ data_' = data_
      /\ internal_count_' = internal_count_ /\ pc' = pc
      /\ node' = node /\ old_head' = old_head /\ res' = res
  BY DEF pushFails, locals
<1>2. TypeOK'
  BY <1>1 DEF TypeOK
<1>3. \A m \in Listed : next_'[m] = next_[m]
  BY <1>1, ListFacts DEF TypeOK, NodesOwned
<1>4. New' = New /\ Removed' = Removed /\ \A n \in Nodes : Held(n)' = Held(n)
  BY <1>1 DEF New, Removed, Held, Holders
<1>5. StackIsList' /\ CountsExact' /\ Listed' = Listed /\ InOrder' = InOrder
  BY <1>1, <1>3, <1>4, CountsKept
<1>6. NodesOwned' /\ DataKept'
  BY <1>1, <1>5 DEF NodesOwned, DataKept
<1>7. QED
  BY <1>2, <1>5, <1>6

LEMMA PopKeeps ==
    ASSUME IInv, NEW t \in Threads, Pop(t)
    PROVE  IInv' /\ InOrder' = InOrder /\ Listed' = Listed
<1> USE DEF IInv
<1>1. /\ pc[t] \in {"idle", "again"} /\ pc' = [pc EXCEPT ![t] = "count"]
      /\ old_head' = [old_head EXCEPT ![t] = head_]
      /\ head_' = head_ /\ heap' = heap /\ data_' = data_ /\ next_' = next_
      /\ internal_count_' = internal_count_ /\ node' = node /\ res' = res
  BY DEF Pop, Goto, nodes
<1>2. TypeOK'
  BY <1>1 DEF TypeOK
<1>3. pc'[t] = "count" /\ \A u \in Threads \ {t} : pc'[u] = pc[u] /\ old_head'[u] = old_head[u]
  BY <1>1 DEF TypeOK
<1>4. New' = New /\ Removed' = Removed
  BY <1>1, <1>3 DEF New, Removed
<1>5. \A n \in Nodes : Held(n)' = Held(n)
  BY <1>1, <1>3, HeldChanges DEF Holders
<1>6. StackIsList' /\ CountsExact' /\ Listed' = Listed /\ InOrder' = InOrder
  BY <1>1, <1>3, <1>4, <1>5, CountsKept
<1>7. NodesOwned' /\ DataKept'
  BY <1>1, <1>3, <1>6 DEF NodesOwned, DataKept, Working
<1>8. QED
  BY <1>2, <1>6, <1>7

LEMMA ReturnKeeps ==
    ASSUME IInv, NEW t \in Threads, return(t)
    PROVE  IInv' /\ InOrder' = InOrder /\ Listed' = Listed
<1> USE DEF IInv
<1>1. /\ pc[t] = "return" /\ pc' = [pc EXCEPT ![t] = "idle"]
      /\ old_head' = [old_head EXCEPT ![t] = NullPtr]
      /\ res' = [res EXCEPT ![t] = NoValue]
      /\ head_' = head_ /\ heap' = heap /\ data_' = data_ /\ next_' = next_
      /\ internal_count_' = internal_count_ /\ node' = node
  BY DEF return, Goto, nodes
<1>2. TypeOK'
  <2>1. NullPtr \in CountedNodePtr
    BY CountAssumption DEF NullPtr, CountedNodePtr
  <2>2. QED
    BY <1>1, <2>1 DEF TypeOK
<1>3. /\ pc'[t] = "idle" /\ res'[t] = NoValue
      /\ \A u \in Threads \ {t} :
           pc'[u] = pc[u] /\ old_head'[u] = old_head[u] /\ res'[u] = res[u]
  BY <1>1 DEF TypeOK
<1>4. New' = New /\ Removed' = Removed
  BY <1>1, <1>3 DEF New, Removed
<1>5. \A n \in Nodes : Held(n)' = Held(n)
  BY <1>1, <1>3, HeldChanges DEF Holders
<1>6. StackIsList' /\ CountsExact' /\ Listed' = Listed /\ InOrder' = InOrder
  BY <1>1, <1>3, <1>4, <1>5, CountsKept
<1>7. NodesOwned' /\ DataKept'
  BY <1>1, <1>3, <1>6 DEF NodesOwned, DataKept, Working
<1>8. QED
  BY <1>2, <1>6, <1>7

\* A thread that removed a node takes the value out of it; nobody else reads it.
LEMMA SwapKeeps ==
    ASSUME IInv, NEW t \in Threads, swap(t)
    PROVE  IInv' /\ InOrder' = InOrder /\ Listed' = Listed
<1> USE DEF IInv
<1>1. /\ pc[t] = "swap" /\ pc' = [pc EXCEPT ![t] = "add"]
      /\ res' = [res EXCEPT ![t] = data_[node[t]]]
      /\ data_' = [data_ EXCEPT ![node[t]] = NoValue]
      /\ head_' = head_ /\ heap' = heap /\ next_' = next_
      /\ internal_count_' = internal_count_ /\ node' = node /\ old_head' = old_head
  BY DEF swap, Goto
<1>2. node[t] \in Nodes
  BY <1>1 DEF TypeOK, NodesOwned, Working
<1>3. TypeOK'
  BY <1>1, <1>2 DEF TypeOK
<1>4. /\ pc'[t] = "add"
      /\ \A u \in Threads \ {t} : pc'[u] = pc[u] /\ res'[u] = res[u]
      /\ \A n : n # node[t] => data_'[n] = data_[n]
  BY <1>1 DEF TypeOK
<1>5. New' = New /\ Removed' = Removed
  BY <1>1, <1>4 DEF New, Removed
<1>6. \A n \in Nodes : Held(n)' = Held(n)
  BY <1>1, <1>4, HeldChanges DEF Holders
<1>7. StackIsList' /\ CountsExact' /\ Listed' = Listed /\ InOrder' = InOrder
  BY <1>1, <1>4, <1>5, <1>6, CountsKept
<1>8. NodesOwned'
  BY <1>1, <1>4, <1>7 DEF NodesOwned, Working
<1>9. DataKept'
  BY <1>1, <1>4, <1>7 DEF NodesOwned, DataKept, Working
<1>10. QED
  BY <1>3, <1>7, <1>8, <1>9

LEMMA RemoveKeeps ==
    ASSUME IInv, NEW t \in Threads, remove(t)
    PROVE  /\ IInv'
           /\ \/ /\ head_ = old_head[t] /\ pc' = [pc EXCEPT ![t] = "swap"]
                 /\ InOrder # <<>> /\ node[t] = InOrder[1]
                 /\ InOrder' = Tail(InOrder) /\ Listed' = Listed \ {node[t]}
              \/ /\ pc' = [pc EXCEPT ![t] = "giveBack"] /\ UNCHANGED head_
                 /\ InOrder' = InOrder /\ Listed' = Listed
<1> USE DEF IInv
<1>1. /\ pc[t] = "remove" /\ heap' = heap /\ data_' = data_ /\ next_' = next_
      /\ internal_count_' = internal_count_ /\ node' = node
      /\ old_head' = old_head /\ res' = res
  BY DEF remove, nodes, locals
<1>2. node[t] \in Nodes /\ old_head[t].node_ = node[t] /\ node[t] \in heap
  BY <1>1 DEF TypeOK, NodesOwned, Working
<1>3. CASE pc' = [pc EXCEPT ![t] = "giveBack"] /\ head_' = head_
  <2>1. TypeOK'
    BY <1>1, <1>3 DEF TypeOK
  <2>2. pc'[t] = "giveBack" /\ \A u \in Threads \ {t} : pc'[u] = pc[u]
    BY <1>3 DEF TypeOK
  <2>3. New' = New /\ Removed' = Removed
    BY <1>1, <2>2 DEF New, Removed
  <2>4. \A n \in Nodes : Held(n)' = Held(n)
    BY <1>1, <2>2, HeldChanges DEF Holders
  <2>5. StackIsList' /\ CountsExact' /\ Listed' = Listed /\ InOrder' = InOrder
    BY <1>1, <1>3, <2>2, <2>3, <2>4, CountsKept
  <2>6. NodesOwned' /\ DataKept'
    BY <1>1, <2>2, <2>5 DEF NodesOwned, DataKept, Working
  <2>7. QED
    BY <1>3, <2>1, <2>5, <2>6
<1>4. CASE /\ head_ = old_head[t] /\ head_' = next_[node[t]]
           /\ pc' = [pc EXCEPT ![t] = "swap"]
  <2>1. TypeOK'
    BY <1>1, <1>2, <1>4 DEF TypeOK
  <2>2. pc'[t] = "swap" /\ \A u \in Threads \ {t} : pc'[u] = pc[u]
    BY <1>4 DEF TypeOK
  <2>3. head_.node_ = node[t] /\ InOrder # <<>>
        /\ node[t] = InOrder[1] /\ node[t] \in Listed
    BY <1>2, <1>4, ListFacts, NullAssumption
  <2>4. /\ InOrder' = Tail(InOrder) /\ Listed' = Listed \ {node[t]} /\ StackIsList'
        /\ Len(InOrder)' = Len(InOrder) - 1
        /\ \A k \in 1 .. Len(InOrder)' : InOrder'[k] = InOrder[k + 1]
    <3> DEFINE s == InOrder
               nxt == NextNode
               first == head_.node_
    <3>1. IsChain(Nodes, first, nxt, s, Null) /\ s # <<>>
      BY <2>3 DEF StackIsList
    <3>2. Listed = Members(s)
      BY ListFacts
    <3>3. head_'.node_ = nxt[first] /\ NextNode' = nxt
      BY <1>1, <1>2, <1>4, <2>3 DEF NextNode
    <3> HIDE DEF s, nxt, first
    <3>4. /\ IsChain(Nodes, nxt[first], nxt, Tail(s), Null)
          /\ Members(Tail(s)) = Members(s) \ {first}
          /\ Len(Tail(s)) = Len(s) - 1
          /\ \A k \in 1 .. Len(s) - 1 : Tail(s)[k] = s[k + 1]
      BY <3>1, ChainPop
    <3>5. IsChain(Nodes, head_'.node_, NextNode', Tail(s), Null)
      BY <3>3, <3>4
    <3>6. InOrder' = Tail(s) /\ Listed' = Members(Tail(s)) /\ StackIsList'
      BY <3>5, ListBecomes
    <3>7. QED
      BY <2>3, <3>2, <3>4, <3>6 DEF s, first
  <2>5. /\ \A u \in Threads : pc[u] \in {"push", "swap", "add"} => node[u] # node[t]
        /\ \A u \in Threads \ {t} : pc[u] = "push" => node[u] # node[t]
    BY <2>3 DEF NodesOwned
  <2>6. NodesOwned'
    BY <1>1, <1>2, <2>2, <2>4, <2>5 DEF NodesOwned, Working
  <2>7. New' = New /\ Removed' = Removed \cup {node[t]}
    <3>1. New' = New
      BY <1>1, <2>2 DEF New
    <3>2. Removed' = Removed \cup {node[t]}
      BY <1>1, <2>2 DEF Removed
    <3>3. QED
      BY <3>1, <3>2
  <2>8. /\ \A n : n # node[t] => Held(n)' = Held(n)
        /\ Held(node[t])' = Held(node[t]) - 1
    <3>1. node[t] = node'[t] /\ \A u \in Threads \ {t} : node'[u] = node[u]
      BY <1>1
    <3>2. \A n : n # node[t] => Held(n)' = Held(n)
      BY <2>2, <3>1, HeldChanges DEF Holders
    <3>3. t \in Holders(node[t])
      BY <1>1 DEF Holders
    <3>4. t \notin {u \in Threads : pc'[u] \in {"remove", "giveBack"} /\ node'[u] = node[t]}
      BY <2>2
    <3> DEFINE m == node[t]
    <3>5. t \in Holders(m) /\ t \notin Holders(m)'
      BY <1>1, <3>3, <3>4 DEF Holders
    <3>6. Held(node[t])' = Cardinality(Holders(m)')
      BY <1>1 DEF Held
    <3>7. QED
      BY <2>2, <3>1, <3>2, <3>5, HeldChanges
  <2>9. CountsExact'
    <3>1. ASSUME NEW k \in 1 .. Len(InOrder)'
          PROVE  Balanced(Pointer(k).external_count_,
                    internal_count_[InOrder[k]], Held(InOrder[k]), 1)'
      <4>1. k + 1 \in 1 .. Len(InOrder) /\ InOrder'[k] = InOrder[k + 1]
        BY <2>4, ListFacts
      <4>2. Pointer(k)' = Pointer(k + 1)
        <5>1. CASE k = 1
          <6>1. Pointer(k + 1) = next_[InOrder[1]]
            BY <5>1, ListFacts DEF Pointer
          <6>2. QED
            BY <1>4, <2>3, <5>1, <6>1 DEF Pointer
        <5>2. CASE k # 1
          <6>1. k - 1 \in 1 .. Len(InOrder)' /\ k + 1 # 1
            BY <2>4, <5>2, ListFacts
          <6>2. InOrder'[k - 1] = InOrder[k]
            BY <2>4, <6>1
          <6>3. QED
            BY <1>1, <5>2, <6>1, <6>2 DEF Pointer
        <5>3. QED
          BY <5>1, <5>2
      <4>3. InOrder'[k] # node[t]
        BY <2>3, <4>1, ListFacts
      <4>4. Held(InOrder[k])' = Held(InOrder[k + 1])
        BY <2>8, <4>1, <4>3
      <4>5. QED
        BY <1>1, <4>1, <4>2, <4>4 DEF CountsExact, Balanced
    <3>2. ASSUME NEW u \in Threads, pc'[u] \in {"swap", "add"}
          PROVE  Balanced(old_head[u].external_count_,
                    internal_count_[node[u]], Held(node[u]), 2)'
      <4>1. CASE u = t
        <5>1. 1 \in 1 .. Len(InOrder) /\ Pointer(1) = head_
          BY <2>3, ListFacts DEF Pointer
        <5>2. Balanced(head_.external_count_, internal_count_[node[t]], Held(node[t]), 1)
          BY <2>3, <5>1 DEF CountsExact
        <5>3. /\ Held(node[t]) \in Nat /\ CountMod \in Nat
              /\ head_.external_count_ \in Nat /\ internal_count_[node[t]] \in Nat
          BY <1>2, HeldBounds, CountBounds DEF TypeOK, CountedNodePtr
        <5>4. Held(node[u])' = Held(node[t]) - 1
          BY <2>8, <4>1
        <5>5. Balanced(head_.external_count_, internal_count_[node[t]], Held(node[t]) - 1, 2)
          BY <5>2, <5>3 DEF Balanced
        <5>6. QED
          BY <1>1, <1>4, <4>1, <5>4, <5>5 DEF Balanced
      <4>2. CASE u # t
        <5>1. pc[u] \in {"swap", "add"} /\ node[u] # node[t] /\ node'[u] = node[u]
          BY <1>1, <2>2, <2>5, <3>2, <4>2
        <5>2. Held(node[u])' = Held(node[u])
          BY <2>8, <5>1
        <5>3. QED
          BY <1>1, <5>1, <5>2 DEF CountsExact, Balanced
      <4>3. QED
        BY <4>1, <4>2
    <3>3. ASSUME NEW n \in (heap \ (Listed \cup New \cup Removed))'
          PROVE  internal_count_'[n] = Held(n)' /\ Held(n)' # 0
      BY <1>1, <2>4, <2>7, <2>8 DEF CountsExact
    <3>4. \A n \in (Nodes \ heap)' \cup New' : internal_count_'[n] = 0
      BY <1>1, <2>7 DEF CountsExact
    <3>5. QED
      BY <3>1, <3>2, <3>3, <3>4 DEF CountsExact
  <2>10. DataKept'
    BY <1>1, <2>2, <2>4 DEF DataKept
  <2>11. QED
    BY <1>4, <2>1, <2>3, <2>4, <2>6, <2>9, <2>10
<1>5. QED
  BY <1>3, <1>4 DEF remove, Goto

LEMMA PushSucceedsKeeps ==
    ASSUME IInv, NEW t \in Threads, pushSucceeds(t)
    PROVE  IInv' /\ InOrder' = <<node[t]>> \o InOrder /\ node[t] \notin Listed
<1> USE DEF IInv
<1> DEFINE n == node[t]
<1>1. /\ pc[t] = "push" /\ pc' = [pc EXCEPT ![t] = "idle"]
      /\ head_ = next_[n] /\ head_' = [node_ |-> n, external_count_ |-> 1]
      /\ node' = [node EXCEPT ![t] = Null]
      /\ heap' = heap /\ data_' = data_ /\ next_' = next_
      /\ internal_count_' = internal_count_ /\ old_head' = old_head /\ res' = res
  BY DEF pushSucceeds, Goto, nodes
<1>2. /\ n \in Nodes /\ n \in heap /\ n \notin Listed /\ n \in New
      /\ \A u \in Threads \ {t} : pc[u] \in Working => node[u] # n
      /\ data_[n] \in Values /\ internal_count_[n] = 0
  BY <1>1 DEF TypeOK, NodesOwned, Working, New, DataKept, CountsExact
<1>3. /\ pc'[t] = "idle" /\ node'[t] = Null
      /\ \A u \in Threads \ {t} : pc'[u] = pc[u] /\ node'[u] = node[u]
  BY <1>1 DEF TypeOK
<1>4. TypeOK'
  <2>1. 1 \in 0 .. CountMod - 1
    BY CountBounds
  <2>2. head_' \in CountedNodePtr
    BY <1>1, <1>2, <2>1 DEF CountedNodePtr
  <2> HIDE DEF n
  <2>3. QED
    BY <1>1, <2>2 DEF TypeOK
<1>5. /\ InOrder' = <<n>> \o InOrder /\ Listed' = Listed \cup {n} /\ StackIsList'
      /\ Len(InOrder)' = Len(InOrder) + 1 /\ InOrder'[1] = n
      /\ \A k \in 1 .. Len(InOrder) : InOrder'[k + 1] = InOrder[k]
  <2> DEFINE s == InOrder
             nxt == NextNode
  <2>1. nxt[n] = head_.node_ /\ NextNode' = nxt /\ head_'.node_ = n
    BY <1>1, <1>2 DEF NextNode
  <2>2. IsChain(Nodes, nxt[n], nxt, s, Null)
    BY <2>1 DEF StackIsList
  <2>3. Listed = Members(s) /\ n \in Nodes /\ n \notin Members(s)
    BY <1>2, ListFacts
  <2> HIDE DEF s, nxt, n
  <2>4. /\ IsChain(Nodes, n, nxt, <<n>> \o s, Null)
        /\ Members(<<n>> \o s) = Members(s) \cup {n}
        /\ Len(<<n>> \o s) = Len(s) + 1 /\ (<<n>> \o s)[1] = n
        /\ \A k \in 1 .. Len(s) : (<<n>> \o s)[k + 1] = s[k]
    BY <2>2, <2>3, ChainPush
  <2>5. IsChain(Nodes, head_'.node_, NextNode', <<n>> \o s, Null)
    BY <2>1, <2>4
  <2>6. /\ InOrder' = <<n>> \o s /\ Listed' = Members(<<n>> \o s)
        /\ StackIsList'
    BY <2>5, ListBecomes
  <2>7. QED
    BY <2>3, <2>4, <2>6 DEF s
<1>6. NodesOwned'
  BY <1>1, <1>2, <1>3, <1>5 DEF NodesOwned, Working
<1>7. New' = New \ {n} /\ Removed' = Removed
  <2>1. New' = New \ {n}
    BY <1>1, <1>2, <1>3 DEF New, Working
  <2>2. Removed' = Removed
    BY <1>1, <1>2, <1>3 DEF Removed
  <2>3. QED
    BY <2>1, <2>2
<1>8. \A m : Held(m)' = Held(m)
  BY <1>1, <1>3, HeldChanges DEF Holders
<1>9. Held(n) = 0
  <2>1. Holders(n) = {}
    BY <1>1, <1>2 DEF Holders, Working
  <2>2. QED
    BY <2>1, HeldBounds
<1>10. CountsExact'
  <2>1. ASSUME NEW k \in 1 .. Len(InOrder)'
        PROVE  Balanced(Pointer(k).external_count_,
                    internal_count_[InOrder[k]], Held(InOrder[k]), 1)'
    <3>1. CASE k = 1
      <4>1. Pointer(k)'.external_count_ = 1 /\ InOrder'[k] = n
        BY <1>1, <1>5, <3>1 DEF Pointer
      <4>2. Held(InOrder[k])' = 0
        BY <1>8, <1>9, <4>1
      <4>3. internal_count_'[InOrder'[k]] = 0
        BY <1>1, <1>2, <4>1
      <4> HIDE DEF n
      <4>4. Balanced(1, 0, 0, 1)
        BY DEF Balanced
      <4>5. QED
        BY <4>1, <4>2, <4>3, <4>4 DEF Balanced
    <3>2. CASE k # 1
      <4>1. k - 1 \in 1 .. Len(InOrder)
        BY <1>5, <3>2, ListFacts
      <4>2. InOrder'[k] = InOrder[k - 1]
        BY <1>5, <4>1, ListFacts
      <4>3. Pointer(k)' = Pointer(k - 1)
        <5>1. CASE k = 2
          BY <1>1, <1>5, <5>1 DEF Pointer
        <5>2. CASE k # 2
          <6>1. k - 2 \in 1 .. Len(InOrder) /\ k - 1 # 1
            BY <4>1, <5>2, ListFacts
          <6>2. InOrder'[k - 1] = InOrder[k - 2]
            BY <1>5, <6>1, ListFacts
          <6>3. Pointer(k - 1) = next_[InOrder[k - 2]]
            BY <6>1 DEF Pointer
          <6>4. QED
            BY <1>1, <3>2, <6>2, <6>3 DEF Pointer
        <5>3. QED
          BY <5>1, <5>2
      <4>4. Held(InOrder[k])' = Held(InOrder[k - 1])
        BY <1>8, <4>2
      <4>5. QED
        BY <1>1, <4>1, <4>2, <4>3, <4>4 DEF CountsExact, Balanced
    <3>3. QED
      BY <3>1, <3>2
  <2>2. ASSUME NEW u \in Threads, pc'[u] \in {"swap", "add"}
        PROVE  Balanced(old_head[u].external_count_,
                    internal_count_[node[u]], Held(node[u]), 2)'
    <3>1. u # t /\ pc[u] \in {"swap", "add"} /\ node'[u] = node[u]
      BY <1>3, <2>2
    <3>2. Held(node[u])' = Held(node[u])
      BY <1>8, <3>1
    <3>3. QED
      BY <1>1, <3>1, <3>2 DEF CountsExact, Balanced
  <2>3. ASSUME NEW m \in (heap \ (Listed \cup New \cup Removed))'
        PROVE  internal_count_'[m] = Held(m)' /\ Held(m)' # 0
    BY <1>1, <1>5, <1>7, <1>8 DEF CountsExact
  <2>4. \A m \in (Nodes \ heap)' \cup New' : internal_count_'[m] = 0
    BY <1>1, <1>7 DEF CountsExact
  <2>5. QED
    BY <2>1, <2>2, <2>3, <2>4 DEF CountsExact
<1>11. DataKept'
  BY <1>1, <1>2, <1>3, <1>5 DEF DataKept
<1>12. QED
  BY <1>2, <1>4, <1>5, <1>6, <1>10, <1>11

\* A thread that counts itself in gets the top node as its own old_head.
LEMMA IncreaseKeeps ==
    ASSUME ~MayWrap, IInv, NEW t \in Threads, IncreaseHeadCount(t)
    PROVE  /\ IInv' /\ InOrder' = InOrder /\ Listed' = Listed
           /\ UNCHANGED <<data_, res>>
           /\ \/ pc' = pc /\ node' = node
              \/ /\ InOrder # <<>>
                 /\ pc' = [pc EXCEPT ![t] = "remove"]
                 /\ node' = [node EXCEPT ![t] = head_.node_]
              \/ /\ InOrder = <<>> /\ pc' = [pc EXCEPT ![t] = "return"]
                 /\ node' = node
<1> USE DEF IInv
<1>1. /\ pc[t] = "count" /\ node[t] = Null
      /\ heap' = heap /\ data_' = data_ /\ next_' = next_
      /\ internal_count_' = internal_count_ /\ res' = res
  BY DEF IncreaseHeadCount, nodes, TypeOK
<1>2. CASE /\ old_head' = [old_head EXCEPT ![t] = head_]
           /\ head_' = head_ /\ node' = node /\ pc' = pc
  <2>1. TypeOK'
    BY <1>1, <1>2 DEF TypeOK
  <2>2. \A u \in Threads \ {t} : old_head'[u] = old_head[u]
    BY <1>2 DEF TypeOK
  <2>3. New' = New /\ Removed' = Removed /\ \A n \in Nodes : Held(n)' = Held(n)
    BY <1>2 DEF New, Removed, Held, Holders
  <2>4. StackIsList' /\ CountsExact' /\ Listed' = Listed /\ InOrder' = InOrder
    BY <1>1, <1>2, <2>2, <2>3, CountsKept
  <2>5. NodesOwned' /\ DataKept'
    BY <1>1, <1>2, <2>2, <2>4 DEF NodesOwned, DataKept, Working
  <2>6. QED
    BY <1>1, <1>2, <2>1, <2>4, <2>5
<1>3. CASE /\ head_ = old_head[t] /\ ~Full
           /\ head_' = [head_ EXCEPT !.external_count_ = Add(@, 1)]
           /\ old_head' = [old_head EXCEPT ![t] = head_']
           /\ node' = [node EXCEPT ![t] = head_.node_]
           /\ pc' = [pc EXCEPT ![t] = IF head_.node_ = Null THEN "return" ELSE "remove"]
  <2> DEFINE e == head_.external_count_
  <2>1. /\ head_.node_ \in Nodes \cup {Null} /\ e \in 0 .. CountMod - 1
        /\ CountMod \in Nat \ {0} /\ 1 \in 0 .. CountMod - 1
    BY CountBounds DEF TypeOK, CountedNodePtr
  <2>2. /\ Add(e, 1) \in 0 .. CountMod - 1
        /\ head_.node_ # Null => Add(e, 1) = e + 1
    <3>1. e # CountMod - 1 => e + 1 < CountMod
      BY <2>1
    <3>2. head_.node_ # Null => e # CountMod - 1
      BY <1>3 DEF Full
    <3> HIDE DEF e
    <3>3. QED
      BY <2>1, <3>1, <3>2, Counters DEF Add
  <2>3. /\ head_'.node_ = head_.node_ /\ head_'.external_count_ = Add(e, 1)
        /\ head_' \in CountedNodePtr
    BY <1>3, <2>1, <2>2 DEF TypeOK, CountedNodePtr
  <2>4. TypeOK'
    <3>1. /\ pc' \in [Threads ->
                {"idle", "push", "again", "count", "remove", "swap",
                 "add", "giveBack", "return"}]
          /\ node' \in [Threads -> Nodes \cup {Null}]
          /\ old_head' \in [Threads -> CountedNodePtr]
      BY <1>3, <2>1, <2>3 DEF TypeOK
    <3>2. \A u \in Threads : node'[u] # Null <=>
                 pc'[u] \in {"push", "remove", "swap", "add", "giveBack"}
      BY <1>3 DEF TypeOK
    <3>3. QED
      BY <1>1, <2>3, <3>1, <3>2 DEF TypeOK
  <2>5. /\ pc'[t] \in {"return", "remove"} /\ node'[t] = head_.node_
        /\ pc'[t] = "remove" <=> head_.node_ # Null
        /\ old_head'[t].node_ = head_.node_
        /\ \A u \in Threads \ {t} : /\ pc'[u] = pc[u] /\ node'[u] = node[u]
                                    /\ old_head'[u] = old_head[u]
    BY <1>3, <2>3 DEF TypeOK
  <2>6. InOrder' = InOrder /\ Listed' = Listed /\ StackIsList'
    BY <1>1, <2>3, ListKept
  <2>7. New' = New /\ Removed' = Removed
    <3>1. New' = New
      BY <1>1, <2>5 DEF New
    <3>2. Removed' = Removed
      BY <1>1, <2>5 DEF Removed
    <3>3. QED
      BY <3>1, <3>2
  <2>8. /\ head_.node_ # Null => head_.node_ \in Listed
        /\ head_.node_ # Null <=> InOrder # <<>>
    BY ListFacts
  <2>9. NodesOwned'
    BY <1>1, <2>5, <2>6, <2>8 DEF NodesOwned, Working
  <2>10. DataKept'
    BY <1>1, <2>5, <2>6 DEF DataKept
  <2>11. /\ \A m \in Nodes : m # head_.node_ => Held(m)' = Held(m)
         /\ \A m \in Nodes : m = head_.node_ => Held(m)' = Held(m) + 1
    <3>1. \A m \in Nodes : m # head_.node_ => Held(m)' = Held(m)
      BY <1>1, <2>5, HeldChanges DEF Holders
    <3>2. ASSUME NEW m \in Nodes, m = head_.node_ PROVE Held(m)' = Held(m) + 1
      <4>1. m # Null
        BY NullAssumption
      <4>2. t \notin Holders(m) /\ t \in Holders(m)'
        BY <1>1, <2>5, <3>2, <4>1 DEF Holders
      <4>3. QED
        BY <2>5, <4>2, HeldChanges
    <3>3. QED
      BY <3>1, <3>2
  <2>12. CountsExact'
    <3>1. ASSUME NEW k \in 1 .. Len(InOrder)'
          PROVE  Balanced(Pointer(k).external_count_,
                    internal_count_[InOrder[k]], Held(InOrder[k]), 1)'
      <4>1. k \in 1 .. Len(InOrder) /\ InOrder'[k] = InOrder[k] /\ InOrder[k] \in Nodes
        BY <2>6, ListFacts
      <4>2. Balanced(Pointer(k).external_count_,
                     internal_count_[InOrder[k]], Held(InOrder[k]), 1)
        BY <4>1 DEF CountsExact
      <4>3. CASE k = 1
        <5>1. InOrder # <<>>
          BY <4>1, <4>3, EmptySeq
        <5>2. InOrder[k] = head_.node_ /\ head_.node_ # Null
          BY <4>3, <5>1, ListFacts
        <5>3. Held(InOrder[k])' = Held(InOrder[k]) + 1
          BY <2>11, <4>1, <5>2
        <5>4. Pointer(k).external_count_ = e /\ Pointer(k)'.external_count_ = e + 1
          BY <2>2, <2>3, <4>3, <5>2 DEF Pointer
        <5>5. Held(InOrder[k]) \in Nat
          BY HeldBounds
        <5> DEFINE h == Held(InOrder[k])
                   i == internal_count_[InOrder[k]]
        <5>6. Balanced(e, i, h, 1)
          BY <4>2, <5>4
        <5> HIDE DEF e, h, i
        <5>7. h \in Nat /\ e \in Nat /\ CountMod \in Nat
          BY <2>1, <5>5 DEF h
        <5>8. Balanced(e + 1, i, h + 1, 1)
          BY <5>6, <5>7 DEF Balanced
        <5>9. QED
          BY <1>1, <2>6, <5>3, <5>4, <5>8 DEF Balanced, h, i
      <4>4. CASE k # 1
        <5>1. InOrder[k] # head_.node_
          BY <4>1, <4>4, ListFacts
        <5>2. Held(InOrder[k])' = Held(InOrder[k])
          BY <2>6, <2>11, <4>1, <5>1
        <5>3. Pointer(k)' = Pointer(k)
          BY <1>1, <2>6, <4>4 DEF Pointer
        <5>4. QED
          BY <1>1, <2>6, <4>2, <5>2, <5>3 DEF Balanced
      <4>5. QED
        BY <4>3, <4>4
    <3>2. ASSUME NEW u \in Threads, pc'[u] \in {"swap", "add"}
          PROVE  Balanced(old_head[u].external_count_,
                    internal_count_[node[u]], Held(node[u]), 2)'
      <4>1. u # t /\ pc[u] \in {"swap", "add"} /\ node'[u] = node[u] /\ old_head'[u] = old_head[u]
        BY <2>5, <3>2
      <4>2. node[u] \in Nodes /\ node[u] # head_.node_
        BY <2>8, <4>1 DEF NodesOwned, TypeOK, Working
      <4>3. Held(node[u])' = Held(node[u])
        BY <2>11, <4>1, <4>2
      <4>4. QED
        BY <1>1, <4>1, <4>3 DEF CountsExact, Balanced
    <3>3. ASSUME NEW m \in (heap \ (Listed \cup New \cup Removed))'
          PROVE  internal_count_'[m] = Held(m)' /\ Held(m)' # 0
      <4>1. m \in heap \ (Listed \cup New \cup Removed) /\ m \in Nodes
        BY <1>1, <2>6, <2>7 DEF TypeOK
      <4>2. m # head_.node_
        BY <2>8, <4>1, NullAssumption
      <4>3. QED
        BY <1>1, <2>11, <4>1, <4>2 DEF CountsExact
    <3>4. \A m \in (Nodes \ heap)' \cup New' : internal_count_'[m] = 0
      BY <1>1, <2>7 DEF CountsExact
    <3>5. QED
      BY <3>1, <3>2, <3>3, <3>4 DEF CountsExact
  <2>13. IInv'
    BY <2>4, <2>6, <2>9, <2>10, <2>12
  <2>14. CASE InOrder = <<>>
    <3>1. head_.node_ = Null /\ node' = node
      BY <1>1, <1>3, <2>8, <2>14 DEF TypeOK
    <3>2. QED
      BY <1>1, <1>3, <2>6, <2>13, <2>14, <3>1
  <2>15. CASE InOrder # <<>>
    BY <1>1, <1>3, <2>6, <2>8, <2>13, <2>15
  <2>16. QED
    BY <2>14, <2>15
<1>4. QED
  BY <1>2, <1>3 DEF IncreaseHeadCount, Goto

-------------------------------------------------------------------------------
\* The thread that removed a node adds what the others have not given back yet: it
\* finds the counts balanced exactly if nobody holds the node any more.
LEMMA AddBalance ==
    ASSUME NEW e \in 0 .. CountMod - 1, NEW i \in 0 .. CountMod - 1, NEW h \in Nat,
           Balanced(e, i, h, 2)
    PROVE  /\ i = Sub(0, Sub(e, 2)) <=> h = 0
           /\ h # 0 => Add(i, Sub(e, 2)) = h
<1>1. CountMod \in Nat \ {0} /\ e >= h + 2
  BY CountBounds DEF Balanced
<1>2. 2 \in 0 .. CountMod - 1 /\ 0 \in 0 .. CountMod - 1
  BY <1>1
<1>3. Sub(e, 2) = e - 2 /\ e - 2 \in 0 .. CountMod - 1
  BY <1>1, <1>2, Counters DEF Sub
<1>4. Sub(0, e - 2) = IF e - 2 <= 0 THEN 0 ELSE CountMod - (e - 2)
  <2>1. Sub(0, e - 2) = IF e - 2 <= 0 THEN 0 - (e - 2) ELSE 0 + CountMod - (e - 2)
    BY <1>1, <1>2, <1>3, Counters DEF Sub
  <2>2. QED
    BY <1>1, <2>1
<1>5. Add(i, e - 2) = IF i + (e - 2) < CountMod THEN i + (e - 2)
                      ELSE i + (e - 2) - CountMod
  BY <1>1, <1>3, Counters DEF Add
<1>6. i = IF e = h + 2 THEN 0 ELSE CountMod + h + 2 - e
  BY DEF Balanced
<1>7. CASE e = h + 2
  BY <1>1, <1>3, <1>4, <1>5, <1>6, <1>7
<1>8. CASE e # h + 2
  BY <1>1, <1>3, <1>4, <1>5, <1>6, <1>8
<1>9. QED
  BY <1>7, <1>8

\* A thread that gives a node back never takes the count to the balance while the
\* node is in the list or belongs to the thread that removed it.
LEMMA GiveBalance ==
    ASSUME NEW e \in 0 .. CountMod - 1, NEW i \in 0 .. CountMod - 1,
           NEW h \in Nat \ {0}, NEW d \in {1, 2}, Balanced(e, i, h, d)
    PROVE  i # 1 /\ Balanced(e, Sub(i, 1), h - 1, d)
<1>1. CountMod \in Nat \ {0} /\ e >= h + d
  BY CountBounds DEF Balanced
<1>2. 1 \in 0 .. CountMod - 1
  BY <1>1
<1>3. Sub(i, 1) = IF 1 <= i THEN i - 1 ELSE i + CountMod - 1
  BY <1>1, <1>2, Counters DEF Sub
<1>4. i = IF e = h + d THEN 0 ELSE CountMod + h + d - e
  BY DEF Balanced
<1>5. CASE e = h + d
  BY <1>1, <1>3, <1>4, <1>5 DEF Balanced
<1>6. CASE e # h + d
  BY <1>1, <1>3, <1>4, <1>6 DEF Balanced
<1>7. QED
  BY <1>5, <1>6

\* What a step has to show that changes the counts of one node.
LEMMA CountsAtNode ==
    ASSUME TypeOK, StackIsList, NodesOwned, CountsExact, NEW n \in heap \ New,
           head_' = head_, heap' = heap \/ heap' = heap \ {n},
           \A m \in Listed : next_'[m] = next_[m],
           New' = New, Removed' \ {n} = Removed \ {n},
           \A m \in Nodes : m # n =>
             internal_count_'[m] = internal_count_[m] /\ Held(m)' = Held(m),
           \A u \in Threads : pc'[u] \in {"swap", "add"} =>
              /\ pc[u] \in {"swap", "add"}
              /\ old_head'[u] = old_head[u] /\ node'[u] = node[u],
           n \notin heap' => internal_count_'[n] = 0 /\ n \notin Listed,
           \A k \in 1 .. Len(InOrder) : InOrder[k] = n =>
              Balanced(Pointer(k).external_count_, internal_count_'[n], Held(n)', 1),
           \A u \in Threads : pc'[u] \in {"swap", "add"} /\ node[u] = n =>
              Balanced(old_head[u].external_count_, internal_count_'[n], Held(n)', 2),
           n \in heap' /\ n \notin Listed /\ n \notin Removed' =>
              internal_count_'[n] = Held(n)' /\ Held(n)' # 0
    PROVE  StackIsList' /\ CountsExact' /\ Listed' = Listed /\ InOrder' = InOrder
<1>1. /\ InOrder' = InOrder /\ Listed' = Listed /\ StackIsList'
      /\ \A k \in 1 .. Len(InOrder) : Pointer(k)' = Pointer(k)
  BY PointersKept
<1>2. /\ \A k \in 1 .. Len(InOrder) : InOrder[k] \in Nodes
      /\ heap \subseteq Nodes
      /\ \A u \in Threads : pc[u] \in {"swap", "add"} => node[u] \in Nodes
  BY ListFacts DEF TypeOK, NodesOwned, Working
<1>3. ASSUME NEW k \in 1 .. Len(InOrder)'
      PROVE  Balanced(Pointer(k).external_count_,
                  internal_count_[InOrder[k]], Held(InOrder[k]), 1)'
  <2>1. k \in 1 .. Len(InOrder) /\ InOrder'[k] = InOrder[k]
    BY <1>1
  <2>2. CASE InOrder[k] = n
    <3>1. Held(InOrder[k])' = Held(n)'
      BY <1>1, <2>2 DEF Held, Holders
    <3>2. Balanced(Pointer(k).external_count_, internal_count_'[n], Held(n)', 1)
      BY <2>1, <2>2
    <3>3. QED
      BY <1>1, <2>1, <2>2, <3>1, <3>2 DEF Balanced
  <2>3. CASE InOrder[k] # n
    <3>1. Held(InOrder[k])' = Held(InOrder[k])
      BY <1>1, <1>2, <2>1, <2>3
    <3>2. QED
      BY <1>1, <1>2, <2>1, <2>3, <3>1 DEF CountsExact, Balanced
  <2>4. QED
    BY <2>2, <2>3
<1>4. ASSUME NEW u \in Threads, pc'[u] \in {"swap", "add"}
      PROVE  Balanced(old_head[u].external_count_,
                  internal_count_[node[u]], Held(node[u]), 2)'
  <2>1. pc[u] \in {"swap", "add"} /\ old_head'[u] = old_head[u] /\ node'[u] = node[u]
    BY <1>4
  <2>2. CASE node[u] = n
    <3>1. Held(node[u])' = Held(n)'
      BY <2>1, <2>2 DEF Held, Holders
    <3>2. QED
      BY <1>4, <2>1, <2>2, <3>1 DEF Balanced
  <2>3. CASE node[u] # n
    <3>1. Held(node[u])' = Held(node[u])
      BY <1>2, <2>1, <2>3
    <3>2. QED
      BY <1>2, <2>1, <2>3, <3>1 DEF CountsExact, Balanced
  <2>4. QED
    BY <2>2, <2>3
<1>5. ASSUME NEW m \in (heap \ (Listed \cup New \cup Removed))'
      PROVE  internal_count_'[m] = Held(m)' /\ Held(m)' # 0
  <2>1. CASE m = n
    BY <1>1, <2>1
  <2>2. CASE m # n
    BY <1>1, <1>2, <2>2 DEF CountsExact
  <2>3. QED
    BY <2>1, <2>2
<1>6. ASSUME NEW m \in (Nodes \ heap)' \cup New' PROVE internal_count_'[m] = 0
  <2>1. m \in Nodes
    BY <1>2 DEF New, NodesOwned, Working
  <2>2. CASE m = n
    BY <2>2
  <2>3. CASE m # n
    BY <2>1, <2>3 DEF CountsExact
  <2>4. QED
    BY <2>2, <2>3
<1>7. CountsExact'
  BY <1>3, <1>4, <1>5, <1>6 DEF CountsExact
<1>8. QED
  BY <1>1, <1>7

\* The values in the list, and those that other threads push or take out.
ValuesKept(t) ==
    /\ \A m \in Listed : data_'[m] = data_[m]
    /\ \A u \in Threads \ {t} :
         pc[u] \in {"push", "swap"} => data_'[node[u]] = data_[node[u]]

LEMMA AddCountKeeps ==
    ASSUME IInv, NEW t \in Threads, addCount(t)
    PROVE  IInv' /\ InOrder' = InOrder /\ Listed' = Listed /\ ValuesKept(t)
<1> USE DEF IInv
<1>1. PICK n \in Nodes : n = node[t] /\ n \in heap
  BY DEF addCount, TypeOK, NodesOwned, Working
<1>2. /\ pc[t] = "add" /\ pc' = [pc EXCEPT ![t] = "return"]
      /\ node' = [node EXCEPT ![t] = Null]
      /\ head_' = head_ /\ old_head' = old_head /\ res' = res
  BY DEF addCount, Goto
<1> DEFINE e == old_head[t].external_count_
           i == internal_count_[n]
           h == Held(n)
<1>3. /\ e \in 0 .. CountMod - 1 /\ i \in 0 .. CountMod - 1 /\ h \in Nat
      /\ Balanced(e, i, h, 2)
  BY <1>1, <1>2, HeldBounds DEF TypeOK, CountedNodePtr, CountsExact
<1>4. IF h = 0 THEN Delete(n)
      ELSE /\ internal_count_' = [internal_count_ EXCEPT ![n] = h]
           /\ heap' = heap /\ data_' = data_ /\ next_' = next_
  <2>1. IF i = Sub(0, Sub(e, 2)) THEN Delete(n)
        ELSE /\ internal_count_' = [internal_count_ EXCEPT ![n] = Add(i, Sub(e, 2))]
             /\ heap' = heap /\ data_' = data_ /\ next_' = next_
    BY <1>1 DEF addCount
  <2> HIDE DEF e, i, h
  <2>2. /\ i = Sub(0, Sub(e, 2)) <=> h = 0
        /\ h # 0 => Add(i, Sub(e, 2)) = h
    BY <1>3, AddBalance
  <2>3. QED
    BY <2>1, <2>2
<1>5. /\ pc'[t] = "return" /\ node'[t] = Null
      /\ \A u \in Threads \ {t} : pc'[u] = pc[u] /\ node'[u] = node[u]
  BY <1>2 DEF TypeOK
<1>6. /\ n \notin Listed /\ n \notin New
      /\ \A u \in Threads \ {t} : pc[u] \in {"push", "swap", "add"} => node[u] # n
      /\ \A u \in Threads : pc[u] \in {"remove", "giveBack"} /\ node[u] = n => u \in Holders(n)
      /\ h = 0 => Holders(n) = {}
  BY <1>1, <1>2, HeldBounds DEF NodesOwned, Working, New, Holders
<1>7. /\ heap' = heap \/ heap' = heap \ {n}
      /\ n \notin heap' <=> h = 0
      /\ \A m \in Nodes : m # n =>
           /\ next_'[m] = next_[m] /\ data_'[m] = data_[m]
           /\ internal_count_'[m] = internal_count_[m]
      /\ h = 0 => internal_count_'[n] = 0
      /\ h # 0 => internal_count_'[n] = h
  <2> HIDE DEF h
  <2>1. CASE h = 0
    BY <1>1, <1>4, <2>1 DEF Delete, TypeOK
  <2>2. CASE h # 0
    BY <1>1, <1>4, <2>2 DEF TypeOK
  <2>3. QED
    BY <2>1, <2>2
<1>8. TypeOK'
  <2>1. h \in 0 .. CountMod - 1 /\ 0 \in 0 .. CountMod - 1
    BY <1>3, HeldBounds, CountBounds
  <2> HIDE DEF h
  <2>2. /\ heap' \subseteq Nodes
        /\ data_' \in [Nodes -> Values \cup {NoValue}]
        /\ next_' \in [Nodes -> CountedNodePtr]
        /\ internal_count_' \in [Nodes -> 0 .. CountMod - 1]
    <3>1. NullPtr \in CountedNodePtr
      BY <2>1 DEF NullPtr, CountedNodePtr
    <3>2. QED
      BY <1>4, <2>1, <3>1 DEF Delete, TypeOK
  <2>3. QED
    BY <1>2, <2>2 DEF TypeOK
<1>9. NodesOwned' /\ DataKept' /\ StackIsList' /\ CountsExact'
      /\ InOrder' = InOrder /\ Listed' = Listed
  <2>1. New' = New /\ Removed' = Removed \ {n}
    <3>1. New' = New
      BY <1>2, <1>5 DEF New
    <3>2. Removed' = Removed \ {n}
      BY <1>1, <1>2, <1>5, <1>6 DEF Removed
    <3>3. QED
      BY <3>1, <3>2
  <2>2. \A m : Held(m)' = Held(m)
    BY <1>2, <1>5, HeldChanges DEF Holders
  <2>3. StackIsList' /\ CountsExact' /\ Listed' = Listed /\ InOrder' = InOrder
    <3>1. \A u \in Threads : pc'[u] \in {"swap", "add"} =>
              /\ pc[u] \in {"swap", "add"} /\ node[u] # n
              /\ old_head'[u] = old_head[u] /\ node'[u] = node[u]
      BY <1>2, <1>5, <1>6
    <3>2. \A k \in 1 .. Len(InOrder) : InOrder[k] # n
      BY <1>6, ListFacts
    <3>3. \A m \in Listed : next_'[m] = next_[m]
      BY <1>6, <1>7, ListFacts
    <3>4. n \in heap \ New
      BY <1>1, <1>6
    <3>5. n \in heap' => internal_count_'[n] = Held(n)' /\ Held(n)' # 0
      BY <1>7, <2>2
    <3>6. /\ n \notin heap' => internal_count_'[n] = 0 /\ n \notin Listed
          /\ \A m \in Nodes : m # n =>
               internal_count_'[m] = internal_count_[m] /\ Held(m)' = Held(m)
          /\ Removed' \ {n} = Removed \ {n} /\ New' = New
      BY <1>6, <1>7, <2>1, <2>2
    <3>7. heap' = heap \/ heap' = heap \ {n}
      BY <1>7
    <3> HIDE DEF e, i, h, IInv
    <3>8. TypeOK /\ StackIsList /\ NodesOwned /\ CountsExact
      BY DEF IInv
    <3>9. QED
      BY <1>2, <3>1, <3>2, <3>3, <3>4, <3>5, <3>6, <3>7, <3>8, CountsAtNode
  <2>4. NodesOwned'
    BY <1>1, <1>2, <1>5, <1>6, <1>7, <2>3 DEF NodesOwned, Working
  <2>5. DataKept'
    <3>1. \A m \in Listed : data_'[m] = data_[m]
      BY <1>6, <1>7, ListFacts
    <3>2. \A u \in Threads : pc'[u] = "push" =>
            pc[u] = "push" /\ node'[u] = node[u] /\ data_'[node[u]] = data_[node[u]]
      BY <1>5, <1>6, <1>7 DEF NodesOwned, TypeOK, Working
    <3>3. QED
      BY <1>2, <1>5, <2>3, <3>1, <3>2 DEF DataKept
  <2>6. QED
    BY <2>3, <2>4, <2>5
<1>10. ValuesKept(t)
  <2>1. \A m \in Listed : data_'[m] = data_[m]
    BY <1>6, <1>7, ListFacts
  <2>2. ASSUME NEW u \in Threads \ {t}, pc[u] \in {"push", "swap"}
        PROVE  data_'[node[u]] = data_[node[u]]
    <3>1. node[u] \in Nodes /\ node[u] # n
      BY <1>6, <2>2 DEF NodesOwned, TypeOK, Working
    <3>2. QED
      BY <1>7, <3>1
  <2>3. QED
    BY <2>1, <2>2 DEF ValuesKept
<1>11. QED
  BY <1>8, <1>9, <1>10

LEMMA GiveBackKeeps ==
    ASSUME IInv, NEW t \in Threads, giveBack(t)
    PROVE  IInv' /\ InOrder' = InOrder /\ Listed' = Listed /\ ValuesKept(t)
<1> USE DEF IInv
<1>1. PICK n \in Nodes : n = node[t] /\ n \in heap
  BY DEF giveBack, TypeOK, NodesOwned, Working
<1>2. /\ pc[t] = "giveBack" /\ pc' = [pc EXCEPT ![t] = "again"]
      /\ node' = [node EXCEPT ![t] = Null]
      /\ head_' = head_ /\ old_head' = old_head /\ res' = res
  BY DEF giveBack, Goto
<1> DEFINE i == internal_count_[n]
           h == Held(n)
<1>3. IF i = 1 THEN Delete(n)
      ELSE /\ internal_count_' = [internal_count_ EXCEPT ![n] = Sub(i, 1)]
           /\ heap' = heap /\ data_' = data_ /\ next_' = next_
  BY <1>1 DEF giveBack
<1>4. /\ pc'[t] = "again" /\ node'[t] = Null
      /\ \A u \in Threads \ {t} : pc'[u] = pc[u] /\ node'[u] = node[u]
  BY <1>2 DEF TypeOK
<1>5. t \in Holders(n) /\ n # Null
  BY <1>1, <1>2, NullAssumption DEF Holders
<1>6. /\ i \in 0 .. CountMod - 1 /\ h \in Nat \ {0} /\ h <= CountMod - 1
      /\ CountMod \in Nat \ {0} /\ 1 \in 0 .. CountMod - 1
  BY <1>5, HeldBounds, CountBounds DEF TypeOK
<1>7. Held(n)' = h - 1 /\ \A m \in Nodes : m # n => Held(m)' = Held(m)
  <2>1. t \notin Holders(n)'
    BY <1>4 DEF Holders
  <2>2. Held(n)' = Held(n) - 1
    BY <1>4, <1>5, <2>1, HeldChanges
  <2>3. \A m \in Nodes : m # n => Held(m)' = Held(m)
    BY <1>1, <1>2, <1>4, HeldChanges, CountAssumption DEF Holders
  <2>4. QED
    BY <2>2, <2>3
\* Nobody pushes the node, and if the count says one it has been removed.
<1>8. n \notin New
  BY <1>1, <1>2 DEF NodesOwned, Working, New
<1>9. \A k \in 1 .. Len(InOrder) : InOrder[k] = n =>
        i # 1 /\ Balanced(Pointer(k).external_count_, Sub(i, 1), h - 1, 1)
  <2>1. SUFFICES ASSUME NEW k \in 1 .. Len(InOrder), InOrder[k] = n
                 PROVE  i # 1 /\ Balanced(Pointer(k).external_count_, Sub(i, 1), h - 1, 1)
    OBVIOUS
  <2> DEFINE e == Pointer(k).external_count_
  <2>2. Balanced(e, i, h, 1)
    BY <2>1 DEF CountsExact
  <2>3. e \in 0 .. CountMod - 1
    <3>1. CASE k = 1
      BY <3>1 DEF Pointer, TypeOK, CountedNodePtr
    <3>2. CASE k # 1
      <4>1. k - 1 \in 1 .. Len(InOrder)
        BY <3>2, ListFacts
      <4>2. InOrder[k - 1] \in Nodes
        BY <4>1, ListFacts
      <4>3. QED
        BY <3>2, <4>2 DEF Pointer, TypeOK, CountedNodePtr
    <3>3. QED
      BY <3>1, <3>2
  <2> HIDE DEF e, i, h
  <2>4. QED
    BY <1>6, <2>2, <2>3, GiveBalance DEF e
<1>10. \A u \in Threads : pc[u] \in {"swap", "add"} /\ node[u] = n =>
         i # 1 /\ Balanced(old_head[u].external_count_, Sub(i, 1), h - 1, 2)
  <2>1. SUFFICES ASSUME NEW u \in Threads, pc[u] \in {"swap", "add"}, node[u] = n
                 PROVE  i # 1 /\ Balanced(old_head[u].external_count_, Sub(i, 1), h - 1, 2)
    OBVIOUS
  <2> DEFINE e == old_head[u].external_count_
  <2>2. Balanced(e, i, h, 2) /\ e \in 0 .. CountMod - 1
    BY <2>1 DEF CountsExact, TypeOK, CountedNodePtr
  <2> HIDE DEF e, i, h
  <2>3. QED
    BY <1>6, <2>2, GiveBalance DEF e
<1>11. n \notin Listed /\ n \notin Removed => i = h
  BY <1>1, <1>8 DEF CountsExact
<1>12. /\ i = 1 => n \notin Listed /\ n \notin Removed /\ h = 1
       /\ n \notin Listed /\ n \notin Removed /\ i # 1 =>
            Sub(i, 1) = h - 1 /\ h - 1 # 0
  <2>1. i = 1 => n \notin Listed
    BY <1>9, ListFacts DEF Members
  <2>2. i = 1 => n \notin Removed
    BY <1>10 DEF Removed
  <2> HIDE DEF i, h
  <2>3. i = h => Sub(i, 1) = h - 1
    BY <1>6, Counters DEF Sub
  <2>4. QED
    BY <1>6, <1>11, <2>1, <2>2, <2>3
<1>13. i = 1 => \A u \in Threads \ {t} : pc[u] \in Working => node[u] # n
  <2>1. ASSUME i = 1, NEW u \in Threads \ {t}, pc[u] \in Working, node[u] = n PROVE FALSE
    <3>1. pc[u] \in {"remove", "giveBack"}
      BY <1>8, <1>12, <2>1 DEF Working, New, Removed
    <3>2. u \in Holders(n) /\ u \in Holders(n)'
      BY <1>4, <2>1, <3>1 DEF Holders
    <3>3. Held(n)' # 0
      <4>1. \A u1 \in Threads : u1 \in Holders(n)' => Cardinality(Holders(n)') # 0
        <5>1. IsFiniteSet(Threads) /\ Holders(n)' \subseteq Threads
          BY NullAssumption DEF Holders
        <5>2. QED
          BY <5>1, FS_Subset, FS_EmptySet
      <4>2. QED
        BY <3>2, <4>1 DEF Held
    <3>4. QED
      BY <1>7, <1>12, <2>1, <3>3
  <2>2. QED
    BY <2>1
<1>14. /\ heap' = heap \/ heap' = heap \ {n}
       /\ n \notin heap' <=> i = 1
       /\ \A m \in Nodes : m # n =>
            /\ next_'[m] = next_[m] /\ data_'[m] = data_[m]
            /\ internal_count_'[m] = internal_count_[m]
       /\ i = 1 => internal_count_'[n] = 0
       /\ i # 1 => /\ internal_count_'[n] = Sub(i, 1)
                   /\ next_' = next_ /\ data_' = data_
  <2> HIDE DEF i
  <2>1. CASE i = 1
    BY <1>1, <1>3, <2>1 DEF Delete, TypeOK
  <2>2. CASE i # 1
    BY <1>1, <1>3, <2>2 DEF TypeOK
  <2>3. QED
    BY <2>1, <2>2
<1>15. /\ \A m \in Listed : next_'[m] = next_[m] /\ data_'[m] = data_[m]
       /\ \A u \in Threads : pc[u] = "push" => data_'[node[u]] = data_[node[u]]
  <2>1. \A m \in Listed : next_'[m] = next_[m] /\ data_'[m] = data_[m]
    BY <1>12, <1>14, ListFacts
  <2>2. ASSUME NEW u \in Threads, pc[u] = "push" PROVE data_'[node[u]] = data_[node[u]]
    BY <1>8, <1>14, <2>2 DEF New, NodesOwned, Working, TypeOK
  <2>3. QED
    BY <2>1, <2>2
<1>16. TypeOK'
  <2>1. Sub(i, 1) \in 0 .. CountMod - 1 /\ 0 \in 0 .. CountMod - 1
    <3> HIDE DEF i
    <3>1. QED
      BY <1>6, Counters DEF Sub
  <2> HIDE DEF i
  <2>2. /\ heap' \subseteq Nodes
        /\ data_' \in [Nodes -> Values \cup {NoValue}]
        /\ next_' \in [Nodes -> CountedNodePtr]
        /\ internal_count_' \in [Nodes -> 0 .. CountMod - 1]
    <3>1. NullPtr \in CountedNodePtr
      BY <2>1 DEF NullPtr, CountedNodePtr
    <3>2. QED
      BY <1>3, <2>1, <3>1 DEF Delete, TypeOK
  <2>3. QED
    BY <1>2, <2>2 DEF TypeOK
<1>17. StackIsList' /\ CountsExact' /\ Listed' = Listed /\ InOrder' = InOrder
  <2>1. New' = New /\ Removed' = Removed
    <3>1. New' = New
      BY <1>2, <1>4 DEF New
    <3>2. Removed' = Removed
      BY <1>2, <1>4 DEF Removed
    <3>3. QED
      BY <3>1, <3>2
  <2>2. \A u \in Threads : pc'[u] \in {"swap", "add"} =>
              /\ pc[u] \in {"swap", "add"}
              /\ old_head'[u] = old_head[u] /\ node'[u] = node[u]
    BY <1>2, <1>4
  <2>3. n \notin heap' => internal_count_'[n] = 0 /\ n \notin Listed
    BY <1>12, <1>14
  <2>4. \A k \in 1 .. Len(InOrder) : InOrder[k] = n =>
          Balanced(Pointer(k).external_count_, internal_count_'[n], Held(n)', 1)
    BY <1>7, <1>9, <1>14
  <2>5. \A u \in Threads : pc'[u] \in {"swap", "add"} /\ node[u] = n =>
          Balanced(old_head[u].external_count_, internal_count_'[n], Held(n)', 2)
    BY <1>7, <1>10, <1>14, <2>2
  <2>6. n \in heap' /\ n \notin Listed /\ n \notin Removed' =>
          internal_count_'[n] = Held(n)' /\ Held(n)' # 0
    BY <1>7, <1>12, <1>14, <2>1
  <2>7. /\ n \in heap \ New /\ (heap' = heap \/ heap' = heap \ {n})
        /\ \A m \in Listed : next_'[m] = next_[m]
        /\ \A m \in Nodes : m # n =>
             internal_count_'[m] = internal_count_[m] /\ Held(m)' = Held(m)
        /\ Removed' \ {n} = Removed \ {n}
    BY <1>1, <1>7, <1>8, <1>14, <1>15, <2>1
  <2> HIDE DEF i, h, IInv
  <2>8. TypeOK /\ StackIsList /\ NodesOwned /\ CountsExact
    BY DEF IInv
  <2>9. QED
    BY <1>2, <2>1, <2>2, <2>3, <2>4, <2>5, <2>6, <2>7, <2>8, CountsAtNode
<1>18. NodesOwned'
  BY <1>1, <1>2, <1>4, <1>12, <1>13, <1>14, <1>17 DEF NodesOwned, Working
<1>19. DataKept'
  BY <1>2, <1>4, <1>15, <1>17 DEF DataKept
<1>20. ValuesKept(t)
  <2>1. ASSUME NEW u \in Threads \ {t}, pc[u] \in {"push", "swap"}
        PROVE  data_'[node[u]] = data_[node[u]]
    <3>1. node[u] \in Nodes
      BY <2>1 DEF NodesOwned, TypeOK, Working
    <3>2. i = 1 => node[u] # n
      BY <1>13, <2>1 DEF Working
    <3>3. QED
      BY <1>14, <3>1, <3>2
  <2>2. QED
    BY <1>15, <2>1 DEF ValuesKept
<1>21. QED
  BY <1>16, <1>17, <1>18, <1>19, <1>20

-------------------------------------------------------------------------------
LEMMA StutterKeeps ==
    ASSUME IInv, UNCHANGED vars
    PROVE  IInv' /\ InOrder' = InOrder /\ Listed' = Listed
<1> USE DEF IInv
<1>1. /\ head_' = head_ /\ heap' = heap /\ data_' = data_ /\ next_' = next_
      /\ internal_count_' = internal_count_ /\ pc' = pc /\ node' = node
      /\ old_head' = old_head /\ res' = res
  BY DEF vars
<1>2. TypeOK'
  BY <1>1 DEF TypeOK
<1>3. New' = New /\ Removed' = Removed /\ \A n \in Nodes : Held(n)' = Held(n)
  BY <1>1 DEF New, Removed, Held, Holders
<1>4. StackIsList' /\ CountsExact' /\ Listed' = Listed /\ InOrder' = InOrder
  BY <1>1, <1>3, CountsKept
<1>5. NodesOwned' /\ DataKept'
  BY <1>1, <1>4 DEF NodesOwned, DataKept
<1>6. QED
  BY <1>2, <1>4, <1>5

LEMMA InitHolds == Init => IInv /\ InOrder = <<>>
<1> SUFFICES ASSUME Init PROVE IInv /\ InOrder = <<>>
  OBVIOUS
<1> USE DEF Init
<1>1. TypeOK
  <2>1. 0 \in 0 .. CountMod - 1
    BY CountBounds
  <2>2. NullPtr \in CountedNodePtr
    BY <2>1 DEF NullPtr, CountedNodePtr
  <2>3. QED
    BY <2>1, <2>2 DEF TypeOK
<1>2. InOrder = <<>> /\ Listed = {} /\ StackIsList
  <2> DEFINE nxt == NextNode
  <2>1. IsFiniteSet(Nodes) /\ Null \notin Nodes /\ head_.node_ = Null
    BY NullAssumption DEF NullPtr
  <2> HIDE DEF nxt
  <2>2. IsChain(Nodes, Null, nxt, <<>>, Null) /\ Members(<<>>) = {}
    BY EmptyChain
  <2>3. From(Nodes, Null, nxt) = {} /\ Line(Nodes, Null, nxt) = <<>>
    BY <2>1, <2>2, ChainIsLine
  <2>4. InOrder = <<>> /\ Listed = {}
    BY <2>1, <2>3 DEF InOrder, Listed, nxt
  <2>5. QED
    BY <2>1, <2>2, <2>4 DEF StackIsList, nxt
<1>3. NodesOwned
  BY <1>2 DEF NodesOwned, Working
<1>4. CountsExact
  <2>1. New = {} /\ Len(InOrder) = 0
    BY <1>2, EmptySeq DEF New
  <2>2. QED
    BY <2>1 DEF CountsExact
<1>5. DataKept
  BY <1>2 DEF DataKept
<1>6. QED
  BY <1>1, <1>2, <1>3, <1>4, <1>5 DEF IInv

LEMMA StepKeeps ==
    ASSUME ~MayWrap, IInv, [Next]_vars
    PROVE  IInv'
<1>1. ASSUME NEW t \in Threads, Step(t) PROVE IInv'
  <2>1. ASSUME NEW v \in Values, Push(t, v) PROVE IInv'
    BY <2>1, PushKeeps
  <2>2. CASE pushSucceeds(t)
    BY <2>2, PushSucceedsKeeps
  <2>3. CASE pushFails(t)
    BY <2>3, PushFailsKeeps
  <2>4. CASE Pop(t)
    BY <2>4, PopKeeps
  <2>5. CASE IncreaseHeadCount(t)
    BY <2>5, IncreaseKeeps
  <2>6. CASE remove(t)
    BY <2>6, RemoveKeeps
  <2>7. CASE swap(t)
    BY <2>7, SwapKeeps
  <2>8. CASE addCount(t)
    BY <2>8, AddCountKeeps
  <2>9. CASE giveBack(t)
    BY <2>9, GiveBackKeeps
  <2>10. CASE return(t)
    BY <2>10, ReturnKeeps
  <2>11. QED
    BY <1>1, <2>1, <2>2, <2>3, <2>4, <2>5, <2>6, <2>7, <2>8, <2>9, <2>10 DEF Step
<1>2. CASE UNCHANGED vars
  BY <1>2, StutterKeeps
<1>3. QED
  BY <1>1, <1>2 DEF Next, Rest

LEMMA StackInvariance ==
    ASSUME ~MayWrap
    PROVE  Spec => []IInv
<1>1. Init => IInv
  BY InitHolds
<1>2. IInv /\ [Next]_vars => IInv'
  BY StepKeeps
<1>3. QED
  BY <1>1, <1>2, PTL DEF Spec

-------------------------------------------------------------------------------
\* The variables keep their types.
THEOREM RefCountTypes ==
    ASSUME ~MayWrap
    PROVE  Spec => []TypeOK
<1>1. IInv => TypeOK
  BY DEF IInv
<1>2. QED
  BY <1>1, StackInvariance, PTL

\* A node is never deleted, and its address never allocated again, while a thread
\* between its two atomic operations still looks at it.
THEOREM NoUseAfterDelete ==
    ASSUME ~MayWrap
    PROVE  Spec => []NodesInUseExist
<1>1. IInv => NodesInUseExist
  BY DEF IInv, TypeOK, NodesOwned, NodesInUseExist, Working
<1>2. QED
  BY <1>1, StackInvariance, PTL

\* Sum of the two counts of a node.
LEMMA BalancedSum ==
    ASSUME NEW e \in 0 .. CountMod - 1, NEW i \in 0 .. CountMod - 1,
           NEW h \in Nat, NEW d \in {1, 2}, Balanced(e, i, h, d)
    PROVE  Sub(Add(e, i), d) = h
<1>1. CountMod \in Nat \ {0} /\ e >= h + d /\ d \in 0 .. CountMod - 1
  BY CountBounds DEF Balanced
<1>2. i = IF e = h + d THEN 0 ELSE CountMod + h + d - e
  BY DEF Balanced
<1>3. Add(e, i) = (IF e + i < CountMod THEN e + i ELSE e + i - CountMod)
      /\ Add(e, i) \in 0 .. CountMod - 1
  BY <1>1, Counters DEF Add
<1>4. Add(e, i) = h + d
  <2>1. CASE e = h + d
    BY <1>1, <1>2, <1>3, <2>1
  <2>2. CASE e # h + d
    BY <1>1, <1>2, <1>3, <2>2
  <2>3. QED
    BY <2>1, <2>2
<1>5. Sub(h + d, d) = IF d <= h + d THEN h + d - d ELSE h + d + CountMod - d
  BY <1>1, <1>3, <1>4, Counters DEF Sub
<1>6. QED
  BY <1>1, <1>4, <1>5

\* The two counts of a node always add up to the threads that look at it.
THEOREM CountsAddUp ==
    ASSUME ~MayWrap
    PROVE  Spec => []ReferencesCounted
<1>1. ASSUME IInv PROVE ReferencesCounted
  <2> USE <1>1 DEF IInv
  <2>1. ASSUME NEW k \in DOMAIN InOrder
        PROVE  Sub(Add(Pointer(k).external_count_, internal_count_[InOrder[k]]), 1)
                 = Cardinality(Holders(InOrder[k]))
    <3> DEFINE e == Pointer(k).external_count_
               i == internal_count_[InOrder[k]]
               h == Held(InOrder[k])
    <3>1. k \in 1 .. Len(InOrder) /\ InOrder[k] \in Nodes
      BY ListFacts
    <3>2. Balanced(e, i, h, 1) /\ i \in 0 .. CountMod - 1 /\ h \in Nat
      BY <3>1, HeldBounds DEF CountsExact, TypeOK
    <3>3. e \in 0 .. CountMod - 1
      <4>1. CASE k = 1
        BY <4>1 DEF Pointer, TypeOK, CountedNodePtr
      <4>2. CASE k # 1
        <5>1. k - 1 \in 1 .. Len(InOrder)
          BY <3>1, <4>2, ListFacts
        <5>2. InOrder[k - 1] \in Nodes
          BY <5>1, ListFacts
        <5>3. QED
          BY <4>2, <5>2 DEF Pointer, TypeOK, CountedNodePtr
      <4>3. QED
        BY <4>1, <4>2
    <3> HIDE DEF e, i, h
    <3>4. Sub(Add(e, i), 1) = h
      BY <3>2, <3>3, BalancedSum
    <3>5. QED
      BY <3>4 DEF e, i, h, Held
  <2>2. ASSUME NEW t \in Threads, pc[t] \in {"swap", "add"}
        PROVE  Sub(Add(old_head[t].external_count_, internal_count_[node[t]]), 2)
                 = Cardinality(Holders(node[t]))
    <3> DEFINE e == old_head[t].external_count_
               i == internal_count_[node[t]]
               h == Held(node[t])
    <3>1. node[t] \in Nodes
      BY <2>2 DEF NodesOwned, TypeOK, Working
    <3>2. /\ Balanced(e, i, h, 2) /\ i \in 0 .. CountMod - 1 /\ h \in Nat
          /\ e \in 0 .. CountMod - 1
      BY <2>2, <3>1, HeldBounds DEF CountsExact, TypeOK, CountedNodePtr
    <3> HIDE DEF e, i, h
    <3>3. Sub(Add(e, i), 2) = h
      BY <3>2, BalancedSum
    <3>4. QED
      BY <3>3 DEF e, i, h, Held
  <2>3. ASSUME NEW n \in heap \ (Listed \cup New \cup Removed)
        PROVE  internal_count_[n] = Cardinality(Holders(n)) /\ Holders(n) # {}
    BY HeldBounds DEF CountsExact, Held
  <2>4. QED
    BY <2>1, <2>2, <2>3 DEF ReferencesCounted
<1>2. QED
  BY <1>1, StackInvariance, PTL

\* When no thread is inside a call, the stack is all that is allocated.
THEOREM EveryNodeDeleted ==
    ASSUME ~MayWrap
    PROVE  Spec => []NothingLeaked
<1>1. ASSUME IInv, \A t \in Threads : pc[t] = "idle" PROVE heap = Listed
  <2>1. New = {} /\ Removed = {}
    BY <1>1 DEF New, Removed
  <2>2. ASSUME NEW n \in heap, n \notin Listed PROVE FALSE
    <3>1. Held(n) # 0
      BY <1>1, <2>1, <2>2 DEF IInv, CountsExact
    <3>2. Holders(n) = {}
      BY <1>1 DEF Holders
    <3>3. QED
      BY <3>1, <3>2, HeldBounds
  <2>3. QED
    BY <1>1, <2>2 DEF IInv, NodesOwned
<1>2. IInv => NothingLeaked
  BY <1>1 DEF NothingLeaked
<1>3. QED
  BY <1>2, StackInvariance, PTL

-------------------------------------------------------------------------------
\* The stack of the abstract specification is the contents of the list.
LEMMA StackFacts ==
    ASSUME IInv
    PROVE  /\ InOrder \in Seq(Nodes) /\ \A n \in Members(InOrder) : data_[n] \in Values
           /\ Listed = Members(InOrder)
           /\ Stack = <<>> <=> InOrder = <<>>
<1> DEFINE s == InOrder
           d == data_
<1>1. s \in Seq(Nodes) /\ Listed = Members(s)
  BY ListFacts DEF IInv
<1>2. \A n \in Members(s) : d[n] \in Values
  BY <1>1 DEF IInv, DataKept
<1> HIDE DEF s, d
<1>3. Contents(s, d) = <<>> <=> s = <<>>
  BY <1>1, <1>2, ContentsFacts
<1>4. QED
  BY <1>1, <1>2, <1>3 DEF Stack, s, d

LEMMA StackKept ==
    ASSUME IInv, InOrder' = InOrder, \A m \in Listed : data_'[m] = data_[m]
    PROVE  Stack' = Stack
<1> DEFINE s == InOrder
           d == data_
           d2 == data_'
<1>1. s \in Seq(Nodes) /\ \A m \in Members(s) : d2[m] = d[m]
  BY StackFacts
<1> HIDE DEF s, d, d2
<1>2. Contents(s, d2) = Contents(s, d)
  BY <1>1, ContentsFrame
<1>3. QED
  BY <1>2 DEF Stack, s, d, d2

\* A step of a thread changes the call of no other thread.
LEMMA CallChanges ==
    ASSUME NEW t \in Threads, NEW c,
           \A u \in Threads \ {t} : /\ pc'[u] = pc[u] /\ res'[u] = res[u]
                                    /\ pc[u] \in {"push", "swap"} =>
                                         data_'[node'[u]] = data_[node[u]],
           Call'[t] = c
    PROVE  Call' = [Call EXCEPT ![t] = c]
<1>1. \A u \in Threads \ {t} : Call'[u] = Call[u]
  BY DEF Call
<1>2. /\ Call = [u \in Threads |-> Call[u]] /\ Call' = [u \in Threads |-> Call'[u]]
  BY DEF Call
<1>3. QED
  BY <1>1, <1>2

LEMMA CallKept ==
    ASSUME NEW t \in Threads,
           \A u \in Threads \ {t} : /\ pc'[u] = pc[u] /\ res'[u] = res[u]
                                    /\ pc[u] \in {"push", "swap"} =>
                                         data_'[node'[u]] = data_[node[u]],
           Call'[t] = Call[t]
    PROVE  Call' = Call
<1>1. \A u \in Threads \ {t} : Call'[u] = Call[u]
  BY DEF Call
<1>2. /\ Call = [u \in Threads |-> Call[u]] /\ Call' = [u \in Threads |-> Call'[u]]
  BY DEF Call
<1>3. QED
  BY <1>1, <1>2

LEMMA PushSteps ==
    ASSUME IInv, NEW t \in Threads, NEW v \in Values, Push(t, v)
    PROVE  Abstract!Next
<1>1. PICK n \in Nodes \ heap : data_' = [data_ EXCEPT ![n] = v]
                                /\ node' = [node EXCEPT ![t] = n]
                                /\ next_' = [next_ EXCEPT ![n] = head_]
  BY DEF Push
<1>2. /\ pc[t] = "idle" /\ pc' = [pc EXCEPT ![t] = "push"] /\ res' = res /\ head_' = head_
  BY DEF Push, Goto
<1>3. /\ data_'[n] = v /\ \A m \in heap : data_'[m] = data_[m]
      /\ node'[t] = n /\ pc'[t] = "push"
      /\ \A u \in Threads \ {t} : pc'[u] = pc[u] /\ node'[u] = node[u]
  BY <1>1, <1>2 DEF IInv, TypeOK
<1>4. \A u \in Threads \ {t} : /\ pc'[u] = pc[u] /\ res'[u] = res[u]
                               /\ pc[u] \in {"push", "swap"} =>
                                    data_'[node'[u]] = data_[node[u]]
  BY <1>2, <1>3 DEF IInv, NodesOwned, Working
<1> DEFINE c == [op |-> "push", value |-> v]
<1>5. Call[t] = Abstract!Idle /\ Call'[t] = c /\ c \in Abstract!Pushing
  BY <1>2, <1>3 DEF Call, Abstract!Idle, Abstract!Pushing
<1> HIDE DEF c
<1>6. Call' = [Call EXCEPT ![t] = c]
  BY <1>4, <1>5, CallChanges
<1>7. Stack' = Stack
  <2>1. InOrder' = InOrder
    <3>1. \A m \in Listed : next_'[m] = next_[m]
      BY <1>1 DEF IInv, NodesOwned, TypeOK
    <3>2. QED
      BY <1>2, <3>1, ListKept DEF IInv
  <2>2. QED
    BY <1>3, <2>1, StackKept DEF IInv, NodesOwned
<1>8. Abstract!Begin(t)
  BY <1>5, <1>6, <1>7 DEF Abstract!Begin
<1>9. QED
  BY <1>8 DEF Abstract!Next

LEMMA PushSucceedsSteps ==
    ASSUME IInv, NEW t \in Threads, pushSucceeds(t)
    PROVE  Abstract!Next
<1>1. PICK n \in Nodes : n = node[t] /\ n \notin Listed /\ data_[n] \in Values
  BY DEF pushSucceeds, IInv, TypeOK, NodesOwned, DataKept, Working
<1>2. /\ pc[t] = "push" /\ pc' = [pc EXCEPT ![t] = "idle"] /\ res' = res
      /\ node' = [node EXCEPT ![t] = Null] /\ data_' = data_
  BY DEF pushSucceeds, Goto, nodes
<1>3. /\ pc'[t] = "idle"
      /\ \A u \in Threads \ {t} : pc'[u] = pc[u] /\ node'[u] = node[u]
  BY <1>2 DEF IInv, TypeOK
<1>4. /\ Call[t] \in Abstract!Pushing /\ Call[t].value = data_[n]
      /\ Call'[t] = Abstract!Idle
  BY <1>1, <1>2, <1>3 DEF Call, Abstract!Idle, Abstract!Pushing
<1>5. Call' = [Call EXCEPT ![t] = Abstract!Idle]
  BY <1>2, <1>3, <1>4, CallChanges
<1>6. Stack' = <<Call[t].value>> \o Stack
  <2> DEFINE s == InOrder
             d == data_
  <2>1. InOrder' = <<n>> \o s
    BY <1>1, PushSucceedsKeeps
  <2>2. s \in Seq(Nodes) /\ d[n] \in Values /\ \A m \in Members(s) : d[m] \in Values
    BY <1>1, StackFacts
  <2>3. Stack' = Contents(<<n>> \o s, d) /\ Stack = Contents(s, d) /\ Call[t].value = d[n]
    BY <1>2, <1>4, <2>1 DEF Stack
  <2> HIDE DEF s, d
  <2>4. Contents(<<n>> \o s, d) = <<d[n]>> \o Contents(s, d)
    BY <2>2, ContentsPush
  <2>5. QED
    BY <2>3, <2>4
<1>7. Abstract!Push(t)
  BY <1>4, <1>5, <1>6 DEF Abstract!Push
<1>8. QED
  BY <1>7 DEF Abstract!Next

\* The steps that begin a Pop, find the stack empty, take the top node, or return.
LEMMA PopSteps ==
    ASSUME IInv, NEW t \in Threads, Pop(t)
    PROVE  Abstract!Next \/ UNCHANGED <<Stack, Call>>
<1>1. /\ pc[t] \in {"idle", "again"} /\ pc' = [pc EXCEPT ![t] = "count"]
      /\ data_' = data_ /\ node' = node /\ res' = res /\ InOrder' = InOrder
  BY PopKeeps DEF Pop, Goto, nodes
<1>2. pc'[t] = "count" /\ \A u \in Threads \ {t} : pc'[u] = pc[u]
  BY <1>1 DEF IInv, TypeOK
<1>3. Stack' = Stack
  BY <1>1, StackKept
<1>4. Call'[t] = Abstract!Popping
  BY <1>2 DEF Call, Abstract!Popping
<1>5. CASE pc[t] = "idle"
  <2>1. Call' = [Call EXCEPT ![t] = Abstract!Popping]
    BY <1>1, <1>2, <1>4, CallChanges
  <2>2. Call[t] = Abstract!Idle
    BY <1>5 DEF Call, Abstract!Idle
  <2>3. QED
    BY <1>3, <2>1, <2>2 DEF Abstract!Begin, Abstract!Next
<1>6. CASE pc[t] = "again"
  <2>1. Call[t] = Abstract!Popping
    BY <1>6 DEF Call, Abstract!Popping
  <2>2. Call' = Call
    BY <1>1, <1>2, <1>4, <2>1, CallKept
  <2>3. QED
    BY <1>3, <2>2
<1>7. QED
  BY <1>1, <1>5, <1>6

LEMMA IncreaseSteps ==
    ASSUME ~MayWrap, IInv, NEW t \in Threads, IncreaseHeadCount(t)
    PROVE  Abstract!Next \/ UNCHANGED <<Stack, Call>>
<1>1. /\ pc[t] = "count" /\ res[t] = NoValue /\ data_' = data_ /\ res' = res
      /\ InOrder' = InOrder
  BY IncreaseKeeps DEF IncreaseHeadCount, IInv, DataKept
<1>2. Stack' = Stack
  BY <1>1, StackKept
<1>3. Call[t] = Abstract!Popping
  BY <1>1 DEF Call, Abstract!Popping
<1>4. CASE pc' = pc /\ node' = node
  BY <1>1, <1>2, <1>4 DEF Call
<1>5. CASE /\ pc' = [pc EXCEPT ![t] = "remove"]
           /\ node' = [node EXCEPT ![t] = head_.node_]
  <2>1. /\ pc'[t] = "remove"
        /\ \A u \in Threads \ {t} : pc'[u] = pc[u] /\ node'[u] = node[u]
    BY <1>5 DEF IInv, TypeOK
  <2>2. Call'[t] = Call[t]
    BY <1>3, <2>1 DEF Call, Abstract!Popping
  <2>3. Call' = Call
    BY <1>1, <2>1, <2>2, CallKept
  <2>4. QED
    BY <1>2, <2>3
<1>6. CASE InOrder = <<>> /\ pc' = [pc EXCEPT ![t] = "return"] /\ node' = node
  <2>1. pc'[t] = "return" /\ \A u \in Threads \ {t} : pc'[u] = pc[u]
    BY <1>6 DEF IInv, TypeOK
  <2>2. Call'[t] = Abstract!Popped(NoValue)
    BY <1>1, <2>1 DEF Call, Abstract!Popped
  <2>3. Call' = [Call EXCEPT ![t] = Abstract!Popped(NoValue)]
    BY <1>1, <1>6, <2>1, <2>2, CallChanges
  <2>4. Stack = <<>>
    BY <1>6, StackFacts
  <2>5. QED
    BY <1>2, <1>3, <2>3, <2>4 DEF Abstract!Pop, Abstract!Next
<1>7. QED
  BY <1>4, <1>5, <1>6, IncreaseKeeps

LEMMA RemoveSteps ==
    ASSUME IInv, NEW t \in Threads, remove(t)
    PROVE  Abstract!Next \/ UNCHANGED <<Stack, Call>>
<1>1. /\ pc[t] = "remove" /\ data_' = data_ /\ res' = res /\ node' = node
  BY DEF remove, nodes, locals
<1>2. Call[t] = Abstract!Popping
  BY <1>1 DEF Call, Abstract!Popping
<1>3. CASE pc' = [pc EXCEPT ![t] = "giveBack"] /\ InOrder' = InOrder
  <2>1. pc'[t] = "giveBack" /\ \A u \in Threads \ {t} : pc'[u] = pc[u]
    BY <1>3 DEF IInv, TypeOK
  <2>2. Call'[t] = Call[t]
    BY <1>2, <2>1 DEF Call, Abstract!Popping
  <2>3. Call' = Call
    BY <1>1, <2>1, <2>2, CallKept
  <2>4. Stack' = Stack
    BY <1>1, <1>3, StackKept
  <2>5. QED
    BY <2>3, <2>4
<1>4. CASE /\ pc' = [pc EXCEPT ![t] = "swap"] /\ InOrder # <<>>
           /\ node[t] = InOrder[1] /\ InOrder' = Tail(InOrder)
  <2>1. pc'[t] = "swap" /\ \A u \in Threads \ {t} : pc'[u] = pc[u]
    BY <1>4 DEF IInv, TypeOK
  <2>2. /\ Stack' = Tail(Stack) /\ Stack # <<>> /\ Head(Stack) = data_[node[t]]
    <3> DEFINE s == InOrder
               d == data_
    <3>1. s \in Seq(Nodes) /\ s # <<>> /\ \A m \in Members(s) : d[m] \in Values
      BY <1>4, StackFacts
    <3>2. /\ Stack = Contents(s, d) /\ Stack' = Contents(Tail(s), d)
          /\ data_[node[t]] = d[s[1]]
      BY <1>1, <1>4 DEF Stack
    <3> HIDE DEF s, d
    <3>3. /\ Contents(Tail(s), d) = Tail(Contents(s, d))
          /\ Head(Contents(s, d)) = d[s[1]] /\ Contents(s, d) # <<>>
      BY <3>1, ContentsPop
    <3>4. QED
      BY <3>2, <3>3
  <2>3. Call'[t] = Abstract!Popped(Head(Stack))
    BY <1>1, <2>1, <2>2 DEF Call, Abstract!Popped
  <2>4. Call' = [Call EXCEPT ![t] = Abstract!Popped(Head(Stack))]
    BY <1>1, <2>1, <2>3, CallChanges
  <2>5. Abstract!Pop(t)
    BY <1>2, <2>2, <2>4 DEF Abstract!Pop
  <2>6. QED
    BY <2>5 DEF Abstract!Next
<1>5. QED
  BY <1>3, <1>4, RemoveKeeps

LEMMA ReturnSteps ==
    ASSUME IInv, NEW t \in Threads, return(t)
    PROVE  Abstract!Next
<1>1. /\ pc[t] = "return" /\ pc' = [pc EXCEPT ![t] = "idle"]
      /\ res' = [res EXCEPT ![t] = NoValue]
      /\ data_' = data_ /\ node' = node /\ InOrder' = InOrder
  BY ReturnKeeps DEF return, Goto, nodes
<1>2. pc'[t] = "idle" /\ \A u \in Threads \ {t} : pc'[u] = pc[u] /\ res'[u] = res[u]
  BY <1>1 DEF IInv, TypeOK
<1>3. Call[t].op = "popped" /\ Call'[t] = Abstract!Idle
  BY <1>1, <1>2 DEF Call, Abstract!Idle
<1>4. Call' = [Call EXCEPT ![t] = Abstract!Idle]
  BY <1>1, <1>2, <1>3, CallChanges
<1>5. Stack' = Stack
  BY <1>1, StackKept
<1>6. QED
  BY <1>3, <1>4, <1>5 DEF Abstract!Return, Abstract!Next

\* The steps nobody outside can see.
LEMMA HiddenSteps ==
    ASSUME IInv, NEW t \in Threads,
           pushFails(t) \/ swap(t) \/ addCount(t) \/ giveBack(t)
    PROVE  UNCHANGED <<Stack, Call>>
<1>1. CASE pushFails(t)
  <2>1. InOrder' = InOrder /\ data_' = data_ /\ pc' = pc /\ node' = node /\ res' = res
    BY <1>1, PushFailsKeeps DEF pushFails, locals
  <2>2. QED
    BY <2>1, StackKept DEF Call
<1>2. CASE swap(t)
  <2>1. /\ pc[t] = "swap" /\ pc' = [pc EXCEPT ![t] = "add"] /\ node' = node
        /\ res' = [res EXCEPT ![t] = data_[node[t]]]
        /\ data_' = [data_ EXCEPT ![node[t]] = NoValue] /\ InOrder' = InOrder
    BY <1>2, SwapKeeps DEF swap, Goto
  <2>2. /\ pc'[t] = "add" /\ res'[t] = data_[node[t]]
        /\ \A u \in Threads \ {t} : pc'[u] = pc[u] /\ res'[u] = res[u]
        /\ \A m \in Nodes : m # node[t] => data_'[m] = data_[m]
    BY <2>1 DEF IInv, TypeOK
  <2>3. node[t] \notin Listed /\ Listed \subseteq Nodes
    BY <2>1, ListFacts DEF IInv, NodesOwned
  <2>4. ASSUME NEW u \in Threads \ {t}, pc[u] \in {"push", "swap"}
        PROVE  data_'[node[u]] = data_[node[u]]
    <3>1. node[u] \in Nodes /\ node[u] # node[t]
      BY <2>1, <2>4 DEF IInv, NodesOwned, TypeOK, Working
    <3>2. QED
      BY <2>2, <3>1
  <2>5. Call'[t] = Call[t]
    BY <2>1, <2>2 DEF Call
  <2>6. Call' = Call
    BY <2>1, <2>2, <2>4, <2>5, CallKept
  <2>7. Stack' = Stack
    BY <2>1, <2>2, <2>3, StackKept
  <2>8. QED
    BY <2>6, <2>7
<1>3. CASE addCount(t)
  <2>1. /\ pc[t] = "add" /\ pc' = [pc EXCEPT ![t] = "return"] /\ res' = res
        /\ node' = [node EXCEPT ![t] = Null] /\ InOrder' = InOrder /\ ValuesKept(t)
    BY <1>3, AddCountKeeps DEF addCount, Goto
  <2>2. /\ pc'[t] = "return"
        /\ \A u \in Threads \ {t} : pc'[u] = pc[u] /\ node'[u] = node[u]
    BY <2>1 DEF IInv, TypeOK
  <2>3. Call'[t] = Call[t]
    BY <2>1, <2>2 DEF Call
  <2>4. Call' = Call
    BY <2>1, <2>2, <2>3, CallKept DEF ValuesKept
  <2>5. Stack' = Stack
    BY <2>1, StackKept DEF ValuesKept
  <2>6. QED
    BY <2>4, <2>5
<1>4. CASE giveBack(t)
  <2>1. /\ pc[t] = "giveBack" /\ pc' = [pc EXCEPT ![t] = "again"] /\ res' = res
        /\ node' = [node EXCEPT ![t] = Null] /\ InOrder' = InOrder /\ ValuesKept(t)
    BY <1>4, GiveBackKeeps DEF giveBack, Goto
  <2>2. /\ pc'[t] = "again"
        /\ \A u \in Threads \ {t} : pc'[u] = pc[u] /\ node'[u] = node[u]
    BY <2>1 DEF IInv, TypeOK
  <2>3. Call'[t] = Call[t]
    BY <2>1, <2>2 DEF Call
  <2>4. Call' = Call
    BY <2>1, <2>2, <2>3, CallKept DEF ValuesKept
  <2>5. Stack' = Stack
    BY <2>1, StackKept DEF ValuesKept
  <2>6. QED
    BY <2>4, <2>5
<1>5. QED
  BY <1>1, <1>2, <1>3, <1>4

LEMMA StepRefines ==
    ASSUME ~MayWrap, IInv, [Next]_vars
    PROVE  [Abstract!Next]_<<Stack, Call>>
<1>1. ASSUME NEW t \in Threads, Step(t)
      PROVE  Abstract!Next \/ UNCHANGED <<Stack, Call>>
  BY <1>1, PushSteps, PushSucceedsSteps, PopSteps, IncreaseSteps, RemoveSteps,
     ReturnSteps, HiddenSteps DEF Step
<1>2. CASE UNCHANGED vars
  <2>1. InOrder' = InOrder /\ data_' = data_ /\ pc' = pc /\ node' = node /\ res' = res
    BY <1>2, StutterKeeps DEF vars
  <2>2. QED
    BY <2>1, StackKept DEF Call
<1>3. QED
  BY <1>1, <1>2 DEF Next, Rest

\* Push and Pop are those of a stack: each of them takes effect at one moment
\* between its call and its return, whatever the other threads do.
THEOREM RefCountIsAStack ==
    ASSUME ~MayWrap
    PROVE  Spec => IsAStack
<1>1. Init => Abstract!Init
  <2> SUFFICES ASSUME Init PROVE Abstract!Init
    OBVIOUS
  <2>1. Stack = <<>>
    BY InitHolds, StackFacts
  <2>2. Call = [t \in Threads |-> Abstract!Idle]
    BY DEF Init, Call, Abstract!Idle
  <2>3. QED
    BY <2>1, <2>2 DEF Abstract!Init
<1>2. IInv /\ [Next]_vars => [Abstract!Next]_Abstract!vars
  BY StepRefines DEF Abstract!vars
<1>3. QED
  BY <1>1, <1>2, StackInvariance, PTL DEF Spec, IsAStack, Abstract!Spec
===============================================================================
