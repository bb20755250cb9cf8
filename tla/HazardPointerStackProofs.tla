----------------------- MODULE HazardPointerStackProofs -----------------------
(***************************************************************************)
(* Proofs about the table of hazard pointers and about the stack that uses *)
(* it, for any number of threads, nodes and slots.  The table is used as   *)
(* HazardSlots says also when stores become visible late.  When they do    *)
(* not, no node is deleted in the hands of a thread, every node is         *)
(* accounted for, and Push and Pop act like those of a stack.              *)
(***************************************************************************)
EXTENDS HazardPointerStack, LinkedListProofs

-------------------------------------------------------------------------------
\* The table of hazard pointers.  A search counts the threads it leaves behind: to
\* go past slot k it must find it owned, and the owner is a thread that has not
\* gone past k.
\* A search starts at the first slot.
StartsAtZero == \A t \in Threads : hp_owner[t] = "none" => i[t] = 0

SlotsInv == SlotsTypeOK /\ StartsAtZero /\ SlotsSuffice

LEMMA ReachedFinite ==
    ASSUME NEW k
    PROVE  /\ Reached(k) \subseteq Threads
           /\ IsFiniteSet(Reached(k))
           /\ Cardinality(Reached(k)) \in Nat
           /\ Cardinality(Reached(k)) <= Cardinality(Threads)
           /\ Cardinality(Threads) \in Nat
<1>1. Reached(k) \subseteq Threads
  BY DEF Reached
<1>2. QED
  BY <1>1, NullAssumption, FS_Subset, FS_CardinalityType

\* Fewer threads are no harm.
LEMMA FewerReached ==
    ASSUME NEW S, NEW T, IsFiniteSet(T), S \subseteq T, NEW k \in Nat, NEW m \in Nat,
           T # {} => Cardinality(T) + k <= m
    PROVE  S # {} => Cardinality(S) + k <= m
<1> SUFFICES ASSUME S # {} PROVE Cardinality(S) + k <= m
  OBVIOUS
<1>1. Cardinality(S) \in Nat /\ Cardinality(T) \in Nat
  BY FS_Subset, FS_CardinalityType
<1>2. Cardinality(S) <= Cardinality(T)
  BY FS_Subset
<1>3. T # {}
  OBVIOUS
<1>4. QED
  BY <1>1, <1>2, <1>3

LEMMA SlotsInitInv == SlotsInit => SlotsInv
<1> SUFFICES ASSUME SlotsInit PROVE SlotsInv
  OBVIOUS
<1> USE SlotsAssumption
<1>1. SlotsTypeOK
  BY DEF SlotsInit, SlotsTypeOK
<1>2. StartsAtZero
  BY DEF SlotsInit, StartsAtZero
<1>3. \A k : Reached(k) = {}
  BY DEF SlotsInit, Reached
<1>4. QED
  BY <1>1, <1>2, <1>3 DEF SlotsInv, SlotsSuffice

-------------------------------------------------------------------------------
LEMMA SlotsTypesKept == SlotsInv /\ [SlotsNext]_slots => SlotsTypeOK' /\ StartsAtZero'
<1> SUFFICES ASSUME SlotsInv, [SlotsNext]_slots
             PROVE  SlotsTypeOK' /\ StartsAtZero'
  OBVIOUS
<1> USE SlotsAssumption DEF SlotsInv, SlotsTypeOK, StartsAtZero, Slots
<1>1. ASSUME NEW t \in Threads, Construct(t)
      PROVE  SlotsTypeOK' /\ StartsAtZero'
  BY <1>1 DEF Construct
<1>2. ASSUME NEW t \in Threads, TrySlot(t)
      PROVE  SlotsTypeOK' /\ StartsAtZero'
  <2>1. CASE thread_id_[i[t]] = NoThread
    <3>1. i[t] \in Slots
      BY <1>2 DEF TrySlot
    <3>2. /\ thread_id_' = [thread_id_ EXCEPT ![i[t]] = t]
          /\ hp_owner' = [hp_owner EXCEPT ![t] = "own"]
          /\ UNCHANGED <<i, hp_>>
      BY <1>2, <2>1 DEF TrySlot
    <3>3. QED
      BY <2>1, <3>1, <3>2
  <2>2. CASE thread_id_[i[t]] # NoThread
    <3>1. /\ i' = [i EXCEPT ![t] = @ + 1]
          /\ hp_owner[t] = "search" /\ i[t] < max_hazard_pointers
          /\ UNCHANGED <<thread_id_, hp_owner, hp_>>
      BY <1>2, <2>2 DEF TrySlot
    <3>2. i' \in [Threads -> 0 .. max_hazard_pointers]
      BY <3>1
    <3>3. \A w \in Threads : w # t => i'[w] = i[w]
      BY <3>1
    <3>4. \A w \in Threads : hp_owner[w] # "search" => i'[w] = i[w]
      BY <3>1, <3>3
    <3>5. \A w \in Threads : hp_owner'[w] = "own" =>
            i'[w] \in Slots /\ thread_id_'[i'[w]] = w
      BY <3>1, <3>4
    <3>6. \A s \in Slots : thread_id_'[s] # NoThread =>
            hp_owner'[thread_id_'[s]] = "own" /\ i'[thread_id_'[s]] = s
      BY <3>1, <3>4
    <3>7. StartsAtZero'
      BY <3>1, <3>4
    <3>8. QED
      BY <3>1, <3>2, <3>5, <3>6, <3>7
  <2>3. QED
    BY <2>1, <2>2
<1>3. ASSUME NEW t \in Threads, Throw(t)
      PROVE  SlotsTypeOK' /\ StartsAtZero'
  BY <1>3 DEF Throw
<1>4. ASSUME NEW t \in Threads, Destruct(t)
      PROVE  SlotsTypeOK' /\ StartsAtZero'
  BY <1>4 DEF Destruct
<1>5. ASSUME NEW t \in Threads, NEW n \in Nodes \cup {Null}, SetHazard(t, n)
      PROVE  SlotsTypeOK' /\ StartsAtZero'
  BY <1>5 DEF SetHazard
<1>6. CASE UNCHANGED slots
  BY <1>6 DEF slots
<1>7. QED
  BY <1>1, <1>2, <1>3, <1>4, <1>5, <1>6 DEF SlotsNext

\* The step past slot k: the owner of k stays behind.
LEMMA OwnerStaysBehind ==
    ASSUME SlotsInv, NEW t \in Threads, TrySlot(t), thread_id_[i[t]] # NoThread,
           NEW k \in 0 .. max_hazard_pointers, k = i[t] + 1
    PROVE  Reached(k)' # {} => Cardinality(Reached(k)') + k <= Cardinality(Threads)
<1> DEFINE u == thread_id_[i[t]]
           j == i[t]
<1>1. /\ j \in Slots /\ j \in Nat /\ k = j + 1
      /\ j \in 0 .. max_hazard_pointers
  BY SlotsAssumption DEF SlotsInv, SlotsTypeOK, TrySlot, Slots
<1>2. u \in Threads /\ hp_owner[u] = "own" /\ i[u] = j
  BY <1>1 DEF SlotsInv, SlotsTypeOK
<1>3. t \in Reached(j) /\ u \in Reached(j)
  BY <1>1, <1>2 DEF Reached, TrySlot
<1>4. Reached(k)' \subseteq Reached(j) \ {u}
  <2> SUFFICES ASSUME NEW w \in Threads, hp_owner'[w] # "none", i'[w] >= k
               PROVE  w \in Reached(j) \ {u}
    BY DEF Reached
  <2>1. /\ hp_owner' = hp_owner /\ i' = [i EXCEPT ![t] = j + 1]
        /\ i \in [Threads -> 0 .. max_hazard_pointers]
        /\ hp_owner[t] = "search"
    BY DEF TrySlot, SlotsInv, SlotsTypeOK
  <2>2. u # t
    BY <1>2, <2>1
  <2>3. w # u
    BY <1>1, <1>2, <2>1, <2>2
  <2>4. CASE w = t
    BY <1>3, <2>3, <2>4
  <2>5. CASE w # t
    <3>1. i[w] >= k /\ i[w] \in Nat
      BY <2>1, <2>5
    <3>2. i[w] >= j
      BY <1>1, <3>1
    <3>3. QED
      BY <2>1, <2>3, <3>2 DEF Reached
  <2>6. QED
    BY <2>4, <2>5
<1>5. Cardinality(Reached(j)) + j <= Cardinality(Threads)
  BY <1>1, <1>3 DEF SlotsInv, SlotsSuffice
<1>6. /\ IsFiniteSet(Reached(j) \ {u})
      /\ Cardinality(Reached(j) \ {u}) = Cardinality(Reached(j)) - 1
  BY <1>3, ReachedFinite, FS_RemoveElement
<1>7. /\ Cardinality(Reached(k)') <= Cardinality(Reached(j) \ {u})
      /\ Cardinality(Reached(k)') \in Nat
  BY <1>4, <1>6, FS_Subset, FS_CardinalityType
<1>8. Cardinality(Reached(j)) \in Nat /\ Cardinality(Threads) \in Nat
  BY ReachedFinite
<1>9. QED
  BY <1>1, <1>5, <1>6, <1>7, <1>8

LEMMA SlotsSufficeKept == SlotsInv /\ [SlotsNext]_slots => SlotsSuffice'
<1> SUFFICES ASSUME SlotsInv, [SlotsNext]_slots, NEW k \in 0 .. max_hazard_pointers
             PROVE  Reached(k)' # {} =>
                      Cardinality(Reached(k)') + k <= Cardinality(Threads)
  BY DEF SlotsSuffice
<1>0. k \in Nat /\ max_hazard_pointers \in Nat
  BY SlotsAssumption
<1>a. i \in [Threads -> 0 .. max_hazard_pointers]
  BY DEF SlotsInv, SlotsTypeOK
<1>1. CASE Reached(k)' \subseteq Reached(k)
  <2>1. Reached(k) # {} => Cardinality(Reached(k)) + k <= Cardinality(Threads)
    BY DEF SlotsInv, SlotsSuffice
  <2>2. IsFiniteSet(Reached(k)) /\ Cardinality(Threads) \in Nat
    BY ReachedFinite
  <2>3. QED
    BY <1>0, <1>1, <2>1, <2>2, FewerReached
<1>2. ASSUME NEW t \in Threads, Construct(t)
      PROVE  Reached(k)' # {} =>
               Cardinality(Reached(k)') + k <= Cardinality(Threads)
  <2>1. CASE k = 0
    <3>1. Reached(k)' \subseteq Threads
      BY DEF Reached
    <3>2. /\ Cardinality(Reached(k)') <= Cardinality(Threads)
          /\ Cardinality(Reached(k)') \in Nat
      BY <3>1, NullAssumption, FS_Subset, FS_CardinalityType
    <3>3. QED
      BY <2>1, <3>2
  <2>2. CASE k # 0
    <3>1. i[t] = 0 /\ i' = i
      BY <1>2 DEF Construct, SlotsInv, StartsAtZero
    <3>2. \A w \in Threads : w # t => hp_owner'[w] = hp_owner[w]
      BY <1>2 DEF Construct, SlotsInv, SlotsTypeOK
    <3>3. ~(i[t] >= k)
      BY <1>0, <2>2, <3>1
    <3>4. Reached(k)' \subseteq Reached(k)
      BY <3>1, <3>2, <3>3 DEF Reached
    <3>5. QED
      BY <1>1, <3>4
  <2>3. QED
    BY <2>1, <2>2
<1>3. ASSUME NEW t \in Threads, TrySlot(t)
      PROVE  Reached(k)' # {} =>
               Cardinality(Reached(k)') + k <= Cardinality(Threads)
  <2>1. CASE thread_id_[i[t]] = NoThread
    <3>1. i' = i /\ hp_owner[t] = "search"
          /\ \A w \in Threads : w # t => hp_owner'[w] = hp_owner[w]
      BY <1>3, <2>1 DEF TrySlot, SlotsInv, SlotsTypeOK
    <3>2. Reached(k)' \subseteq Reached(k)
      BY <3>1 DEF Reached
    <3>3. QED
      BY <1>1, <3>2
  <2>2. CASE thread_id_[i[t]] # NoThread /\ k = i[t] + 1
    BY <1>3, <2>2, OwnerStaysBehind
  <2>3. CASE thread_id_[i[t]] # NoThread /\ k # i[t] + 1
    <3>1. hp_owner' = hp_owner /\ i' = [i EXCEPT ![t] = @ + 1]
          /\ hp_owner[t] = "search"
      BY <1>3, <2>3 DEF TrySlot
    <3>2. i[t] + 1 >= k => i[t] >= k
      BY <1>0, <1>a, <2>3
    <3>3. \A w \in Threads : i'[w] >= k => i[w] >= k
      BY <1>a, <3>1, <3>2
    <3>4. Reached(k)' \subseteq Reached(k)
      BY <3>1, <3>3 DEF Reached
    <3>5. QED
      BY <1>1, <3>4
  <2>4. QED
    BY <2>1, <2>2, <2>3
<1>4. ASSUME NEW t \in Threads, Throw(t) \/ Destruct(t)
      PROVE  Reached(k)' # {} =>
               Cardinality(Reached(k)') + k <= Cardinality(Threads)
  <2>1. /\ hp_owner' = [hp_owner EXCEPT ![t] = "none"]
        /\ i' = [i EXCEPT ![t] = 0]
        /\ hp_owner \in [Threads -> {"none", "search", "own"}]
    BY <1>4 DEF Throw, Destruct, SlotsInv, SlotsTypeOK
  <2>2. Reached(k)' \subseteq Reached(k)
    BY <1>a, <2>1 DEF Reached
  <2>3. QED
    BY <1>1, <2>2
<1>5. ASSUME NEW t \in Threads, NEW n \in Nodes \cup {Null}, SetHazard(t, n)
      PROVE  Reached(k)' # {} =>
               Cardinality(Reached(k)') + k <= Cardinality(Threads)
  <2>1. Reached(k)' \subseteq Reached(k)
    BY <1>5 DEF SetHazard, Reached
  <2>2. QED
    BY <1>1, <2>1
<1>6. CASE UNCHANGED slots
  <2>1. Reached(k)' \subseteq Reached(k)
    BY <1>6 DEF slots, Reached
  <2>2. QED
    BY <1>1, <2>1
<1>7. QED
  BY <1>2, <1>3, <1>4, <1>5, <1>6 DEF SlotsNext

-------------------------------------------------------------------------------
LEMMA SlotsInvariance == SlotsSpec => []SlotsInv
<1>1. SlotsInv /\ [SlotsNext]_slots => SlotsInv'
  BY SlotsTypesKept, SlotsSufficeKept DEF SlotsInv
<1>2. QED
  BY SlotsInitInv, <1>1, PTL DEF SlotsSpec

\* Every slot has at most one owner, who knows it, whatever threads begin, end
\* and search at the same time.
THEOREM SlotsTypeCorrect == SlotsSpec => []SlotsTypeOK
<1>1. SlotsInv => SlotsTypeOK
  BY DEF SlotsInv
<1>2. QED
  BY <1>1, SlotsInvariance, PTL

\* At most Cardinality(Threads) - k threads have reached slot k.
THEOREM SlotsNeverWasted == SlotsSpec => []SlotsSuffice
<1>1. SlotsInv => SlotsSuffice
  BY DEF SlotsInv
<1>2. QED
  BY <1>1, SlotsInvariance, PTL

\* As long as there are no more threads than slots, the constructor of HpOwner
\* finds a slot, although it looks at every slot only once.
THEOREM EnoughSlots == SlotsSpec => []ThrowsOnlyWhenCrowded
<1>1. SlotsInv => ThrowsOnlyWhenCrowded
  <2> SUFFICES ASSUME SlotsInv, NEW t \in Threads, hp_owner[t] = "search",
                      i[t] = max_hazard_pointers
               PROVE  Cardinality(Threads) > max_hazard_pointers
    BY DEF ThrowsOnlyWhenCrowded
  <2> DEFINE m == max_hazard_pointers
  <2>1. m \in Nat /\ m \in 0 .. m
    BY SlotsAssumption
  <2>2. t \in Reached(m)
    BY <2>1 DEF Reached
  <2>3. Cardinality(Reached(m)) + m <= Cardinality(Threads)
    BY <2>1, <2>2 DEF SlotsInv, SlotsSuffice
  <2>4. /\ Cardinality(Reached(m)) \in Nat /\ Cardinality(Threads) \in Nat
        /\ IsFiniteSet(Reached(m))
    BY ReachedFinite
  <2>5. Cardinality(Reached(m)) # 0
    BY <2>2, <2>4, FS_EmptySet
  <2>6. QED
    BY <2>1, <2>3, <2>4, <2>5
<1>2. QED
  BY <1>1, SlotsInvariance, PTL

-------------------------------------------------------------------------------
\* The stack does to the table what the table allows.
Pointers == Nodes \cup {Null}

\* Pointers are nodes or null.
PointerInv ==
    /\ head_ \in Pointers /\ heap \subseteq Nodes
    /\ next_ \in [Nodes -> Pointers]
    /\ nodes_to_reclaim_ \subseteq Pointers
    /\ node \in [Threads -> Pointers]
    /\ old_head \in [Threads -> Pointers]
    /\ new_head \in [Threads -> Pointers]
    /\ buffer \in [Threads -> Pointers \cup {Empty}]
    /\ taken \in [Threads -> SUBSET Pointers]

LEMMA InitPointers == Init => PointerInv
BY DEF Init, PointerInv, Pointers

LEMMA StepPointers == PointerInv /\ [Next]_vars => PointerInv'
<1> SUFFICES ASSUME PointerInv, [Next]_vars PROVE PointerInv'
  OBVIOUS
<1> USE DEF PointerInv, Pointers
<1>1. ASSUME NEW t \in Threads, NEW v \in Values, Push(t, v)
      PROVE  PointerInv'
  BY <1>1 DEF Push
<1>2. ASSUME NEW t \in Threads, pushSucceeds(t) \/ pushFails(t)
      PROVE  PointerInv'
  BY <1>2 DEF pushSucceeds, pushFails, nodes, locals
<1>3. ASSUME NEW t \in Threads, GetHazardPointer(t) \/ exit(t)
      PROVE  PointerInv'
  BY <1>3 DEF GetHazardPointer, exit, shared, nodes, locals
<1>4. ASSUME NEW t \in Threads, Pop(t) \/ storeHazard(t) \/ flush(t) \/ check(t)
      PROVE  PointerInv'
  BY <1>4 DEF Pop, storeHazard, flush, check, shared, nodes
<1>5. ASSUME NEW t \in Threads, readNext(t)
      PROVE  PointerInv'
  <2>1. NextOf(old_head[t]) \subseteq Pointers
    BY DEF NextOf
  <2>2. QED
    BY <1>5, <2>1 DEF readNext, shared, nodes
<1>6. ASSUME NEW t \in Threads, remove(t) \/ clear(t)
      PROVE  PointerInv'
  BY <1>6 DEF remove, clear, nodes
<1>7. ASSUME NEW t \in Threads, compareSlot(t) \/ keep(t) \/ delete(t)
      PROVE  PointerInv'
  BY <1>7 DEF compareSlot, keep, delete, Examined, shared, nodes
<1>8. ASSUME NEW t \in Threads, takeList(t) \/ walk(t) \/ return(t)
      PROVE  PointerInv'
  BY <1>8 DEF takeList, walk, return, shared, nodes
<1>9. CASE UNCHANGED vars
  BY <1>9 DEF vars, shared, nodes, locals
<1>10. QED
  BY <1>1, <1>2, <1>3, <1>4, <1>5, <1>6, <1>7, <1>8, <1>9 DEF Next, Step

\* What a step of a thread does to the table is an operation of the table.
LEMMA StepOfSlots == PointerInv /\ [Next]_vars => [SlotsNext]_slots
<1> SUFFICES ASSUME PointerInv, [Next]_vars PROVE [SlotsNext]_slots
  OBVIOUS
<1>1. ASSUME NEW t \in Threads, GetHazardPointer(t)
      PROVE  SlotsNext
  BY <1>1 DEF GetHazardPointer, SlotsNext
<1>2. ASSUME NEW t \in Threads, flush(t)
      PROVE  SlotsNext
  <2>1. buffer[t] \in Nodes \cup {Null} /\ SetHazard(t, buffer[t])
    BY <1>2 DEF flush, PointerInv, Pointers
  <2>2. QED
    BY <2>1 DEF SlotsNext
<1>3. ASSUME NEW t \in Threads, clear(t)
      PROVE  SlotsNext
  BY <1>3 DEF clear, SlotsNext
<1>4. ASSUME NEW t \in Threads, exit(t)
      PROVE  SlotsNext
  BY <1>4 DEF exit, SlotsNext
<1>5. ASSUME NEW t \in Threads,
             \/ \E v \in Values : Push(t, v)
             \/ pushSucceeds(t) \/ pushFails(t) \/ Pop(t) \/ storeHazard(t)
             \/ check(t) \/ readNext(t) \/ remove(t) \/ compareSlot(t)
             \/ keep(t) \/ delete(t) \/ takeList(t) \/ walk(t) \/ return(t)
      PROVE  UNCHANGED slots
  BY <1>5 DEF Push, pushSucceeds, pushFails, Pop, storeHazard, check, readNext,
              remove, compareSlot, keep, delete, Examined, takeList, walk, return
<1>6. CASE UNCHANGED vars
  BY <1>6 DEF vars
<1>7. QED
  BY <1>1, <1>2, <1>3, <1>4, <1>5, <1>6 DEF Next, Step

\* The stack implements the specification of its table.
THEOREM StackUsesSlots == Spec => SlotsSpec
<1>1. Init => SlotsInit
  BY DEF Init
<1>2. QED
  BY <1>1, InitPointers, StepPointers, StepOfSlots, PTL DEF Spec, SlotsSpec

\* Of the threads that push and pop, at most Cardinality(Threads) - k have
\* reached slot k, so Pop throws only if there are more threads than slots.
THEOREM StackSlotsSuffice == Spec => [](SlotsSuffice /\ ThrowsOnlyWhenCrowded)
BY StackUsesSlots, SlotsNeverWasted, EnoughSlots, PTL

-------------------------------------------------------------------------------
\* The invariant of the stack.
Types ==
    /\ head_ \in Nodes \cup {Null} /\ heap \subseteq Nodes
    /\ data_ \in [Nodes -> Values \cup {NoValue}]
    /\ next_ \in [Nodes -> Nodes \cup {Null}]
    /\ nodes_to_reclaim_ \subseteq Nodes
    /\ pc \in [Threads -> Guarding \cup
                {"idle", "push", "search", "load", "store", "scan", "keep",
                 "delete", "exchange", "walk", "return"}]
    /\ node \in [Threads -> Nodes \cup {Null}]
    /\ \A t \in Threads :
         node[t] # Null <=> pc[t] \in {"push", "scan", "keep", "delete"}
    /\ old_head \in [Threads -> Nodes \cup {Null}]
    /\ new_head \in [Threads -> Nodes \cup {Null}]
    /\ buffer \in [Threads -> Nodes \cup {Null, Empty}]
    /\ scan \in [Threads -> Slots]
    /\ taken \in [Threads -> SUBSET Nodes]
    /\ res \in [Threads -> Values \cup {NoValue}]

StackIsList == IsChain(Nodes, head_, next_, InOrder, Null)

FreeSlotsEmpty == \A s \in Slots : thread_id_[s] = NoThread => hp_[s] = Null

\* A thread in the loop of Pop owns a slot, and when it has found head_ unchanged
\* everybody can see the node in the slot.
Guarded(t) ==
    /\ pc[t] = "search" <=> hp_owner[t] = "search"
    /\ pc[t] \in Guarding \cup {"load", "store"} => hp_owner[t] = "own"
    /\ buffer[t] # Empty => pc[t] = "check" /\ buffer[t] = old_head[t]
    /\ pc[t] = "check" /\ buffer[t] = Empty => hp_[i[t]] = old_head[t]
    /\ pc[t] \in {"read", "remove"} => hp_[i[t]] = old_head[t] /\ old_head[t] # Null
    /\ hp_owner[t] = "own" /\ hp_[i[t]] # Null => pc[t] \in Guarding \cup {"store"}

\* The nodes of a thread, those it pushes included, are nobody else's.
Own(t) == Removed(t) \cup (IF pc[t] = "push" THEN {node[t]} ELSE {})

OneOwner ==
    /\ heap = Listed \cup nodes_to_reclaim_ \cup UNION {Own(t) : t \in Threads}
    /\ Listed \cap nodes_to_reclaim_ = {}
    /\ \A t \in Threads : Own(t) \cap (Listed \cup nodes_to_reclaim_) = {}
    /\ \A t, u \in Threads : t # u => Own(t) \cap Own(u) = {}

Examining == {"scan", "keep", "delete"}

\* The end of a Pop: first the node it removed, then the list.
InTurn(t) ==
    /\ pc[t] # "scan" => scan[t] = 0
    /\ taken[t] # {} => pc[t] \in Examining \cup {"walk"} /\ old_head[t] = Null
    /\ pc[t] \in {"exchange", "walk"} => old_head[t] = Null
    /\ pc[t] \in Examining => node[t] \notin taken[t]

\* A node that is being read is there, and a thread that wants to delete it has yet
\* to look at the slot of the reader; so next_ is what the reader has read.
Protects(t) ==
    pc[t] \in {"read", "remove"} =>
      /\ old_head[t] \in heap \ New
      /\ pc[t] = "remove" => new_head[t] = next_[old_head[t]]
      /\ \A u \in Threads : node[u] = old_head[t] =>
           pc[u] # "delete" /\ (pc[u] = "scan" => scan[u] <= i[t])

\* A value is in its node until the thread that removed the node takes it out.
ValuesKept ==
    /\ \A n \in Listed : data_[n] \in Values
    /\ \A t \in Threads :
         /\ pc[t] = "push" => data_[node[t]] \in Values
         /\ pc[t] \notin Examining \cup {"exchange", "walk", "return"} =>
              res[t] = NoValue

StackInv ==
    /\ SlotsInv /\ FreeSlotsEmpty
    /\ Types /\ StackIsList
    /\ \A t \in Threads : Guarded(t)
    /\ OneOwner
    /\ \A t \in Threads : InTurn(t)
    /\ \A t \in Threads : Protects(t)
    /\ ValuesKept

-------------------------------------------------------------------------------
\* The list.
LEMMA ListFacts ==
    ASSUME StackIsList
    PROVE  /\ InOrder \in Seq(Nodes)
           /\ Listed = Members(InOrder) /\ Listed \subseteq Nodes
           /\ InOrder = <<>> <=> head_ = Null
           /\ InOrder # <<>> => head_ = InOrder[1] /\ head_ \in Listed
<1>1. IsFiniteSet(Nodes) /\ Null \notin Nodes
  BY NullAssumption
<1>2. Listed = Members(InOrder)
  BY <1>1, ChainIsLine DEF StackIsList, Listed
<1>3. InOrder \in Seq(Nodes)
  BY DEF StackIsList, IsChain
<1> DEFINE s == InOrder
<1>4. IsChain(Nodes, head_, next_, s, Null)
  BY DEF StackIsList
<1> HIDE DEF s
<1>5. /\ Members(s) \subseteq Nodes
      /\ s = <<>> <=> head_ = Null
      /\ s # <<>> => head_ = s[1] /\ head_ \in Members(s)
  BY <1>1, <1>4, ChainFirst, Zenon
<1>6. QED
  BY <1>2, <1>3, <1>5 DEF s

LEMMA ListBecomes ==
    ASSUME NEW s, IsChain(Nodes, head_', next_', s, Null)
    PROVE  InOrder' = s /\ Listed' = Members(s) /\ StackIsList'
<1>1. IsFiniteSet(Nodes) /\ Null \notin Nodes
  BY NullAssumption
<1> DEFINE first == head_'
           nxt == next_'
<1> HIDE DEF first, nxt
<1>2. IsChain(Nodes, first, nxt, s, Null)
  BY DEF first, nxt
<1>3. From(Nodes, first, nxt) = Members(s) /\ Line(Nodes, first, nxt) = s
  BY <1>1, <1>2, ChainIsLine
<1>4. InOrder' = s /\ Listed' = Members(s)
  BY <1>3 DEF InOrder, Listed, first, nxt
<1>5. QED
  BY <1>4 DEF StackIsList

LEMMA ListKept ==
    ASSUME StackIsList, head_' = head_, \A n \in Listed : next_'[n] = next_[n]
    PROVE  InOrder' = InOrder /\ Listed' = Listed /\ StackIsList'
<1>1. Listed = Members(InOrder)
  BY ListFacts
<1> DEFINE s == InOrder
           nxt == next_
           nxt2 == next_'
<1>2. IsChain(Nodes, head_', nxt, s, Null) /\ \A n \in Members(s) : nxt2[n] = nxt[n]
  BY <1>1 DEF StackIsList
<1> HIDE DEF s, nxt, nxt2
<1>3. IsChain(Nodes, head_', nxt2, s, Null)
  BY <1>2, ChainFrame
<1>4. InOrder' = s /\ Listed' = Members(s) /\ StackIsList'
  BY <1>3, ListBecomes DEF nxt2
<1>5. QED
  BY <1>1, <1>4 DEF s

-------------------------------------------------------------------------------
\* What a step of a thread leaves alone: the other threads, and the nodes that are
\* not its own; a node stays as it is allocated, and only delete frees one.
Frames(a) ==
    /\ \A u \in Threads \ {a} :
         /\ pc'[u] = pc[u] /\ node'[u] = node[u] /\ res'[u] = res[u]
         /\ old_head'[u] = old_head[u] /\ new_head'[u] = new_head[u]
         /\ buffer'[u] = buffer[u] /\ scan'[u] = scan[u] /\ taken'[u] = taken[u]
    /\ \A n \in heap \ Own(a) : data_'[n] = data_[n]
    /\ \A n \in heap : n \notin heap' => pc[a] = "delete" /\ n = node[a]
    /\ \A n \in heap \ New : n \notin New' /\ (n \in heap' => next_'[n] = next_[n])

LEMMA OthersStay ==
    ASSUME NEW a \in Threads, NEW f, NEW S, f \in [Threads -> S], NEW g, NEW e,
           g = [f EXCEPT ![a] = e]
    PROVE  \A u \in Threads \ {a} : g[u] = f[u]
OBVIOUS

LEMMA NewKept ==
    ASSUME Types, NEW a \in Threads,
           \A u \in Threads \ {a} : pc'[u] = pc[u] /\ node'[u] = node[u],
           pc'[a] = "push" => node'[a] \notin heap \/ node'[a] \in New
    PROVE  \A n \in heap \ New : n \notin New'
BY DEF New

LEMMA StepFrames ==
    ASSUME Types, NEW a \in Threads, Step(a)
    PROVE  Frames(a)
<1> USE DEF Types
<1>1. ASSUME NEW v \in Values, Push(a, v) PROVE Frames(a)
  <2>1. PICK n \in Nodes \ heap :
        /\ heap' = heap \cup {n}
        /\ data_' = [data_ EXCEPT ![n] = v]
        /\ next_' = [next_ EXCEPT ![n] = head_]
        /\ node' = [node EXCEPT ![a] = n]
    BY <1>1 DEF Push
  <2>2. pc' = [pc EXCEPT ![a] = "push"] /\ UNCHANGED <<old_head, new_head, buffer, scan, taken, res>>
    BY <1>1 DEF Push, Goto
  <2>3. \A m \in heap \ New : m \notin New'
    BY <2>1, <2>2, NewKept
  <2>4. QED
    BY <2>1, <2>2, <2>3 DEF Frames
<1>2. CASE pushSucceeds(a)
  <2>1. /\ pc' = [pc EXCEPT ![a] = "idle"] /\ node' = [node EXCEPT ![a] = Null]
        /\ UNCHANGED <<heap, data_, next_, old_head, new_head, buffer, scan, taken, res>>
    BY <1>2 DEF pushSucceeds, Goto, nodes
  <2>2. \A m \in heap \ New : m \notin New'
    BY <2>1, NewKept
  <2>3. QED
    BY <2>1, <2>2 DEF Frames
<1>3. CASE pushFails(a)
  <2>1. /\ pc[a] = "push" /\ next_' = [next_ EXCEPT ![node[a]] = head_]
        /\ UNCHANGED <<heap, data_, pc, node, old_head, new_head, buffer, scan, taken, res>>
    BY <1>3 DEF pushFails, locals
  <2>2. node[a] \in New /\ New' = New
    BY <2>1 DEF New
  <2>3. QED
    BY <2>1, <2>2 DEF Frames
<1>4. ASSUME /\ UNCHANGED <<heap, data_, next_>> /\ pc'[a] # "push"
             /\ \A u \in Threads \ {a} :
                  /\ pc'[u] = pc[u] /\ node'[u] = node[u] /\ res'[u] = res[u]
                  /\ old_head'[u] = old_head[u] /\ new_head'[u] = new_head[u]
                  /\ buffer'[u] = buffer[u] /\ scan'[u] = scan[u] /\ taken'[u] = taken[u]
      PROVE  Frames(a)
  <2>1. \A m \in heap \ New : m \notin New'
    BY <1>4, NewKept
  <2>2. QED
    BY <1>4, <2>1 DEF Frames
<1>5. CASE GetHazardPointer(a) \/ Pop(a) \/ return(a)
  BY <1>4, <1>5 DEF GetHazardPointer, Pop, return, Goto, shared, nodes, locals
<1>6. CASE flush(a) \/ exit(a)
  <2>1. /\ UNCHANGED <<heap, data_, next_, pc, node, old_head, new_head, scan, taken, res>>
        /\ \A u \in Threads \ {a} : buffer'[u] = buffer[u]
    BY <1>6 DEF flush, exit, shared, nodes, locals
  <2>2. New' = New
    BY <2>1 DEF New
  <2>3. QED
    BY <2>1, <2>2 DEF Frames
<1>7. CASE storeHazard(a) \/ check(a) \/ readNext(a) \/ remove(a)
  BY <1>4, <1>7 DEF storeHazard, check, readNext, remove, Goto, shared, nodes, locals
<1>8. CASE clear(a)
  <2>1. /\ pc[a] = "clear" /\ pc'[a] # "push"
        /\ \A u \in Threads \ {a} : pc'[u] = pc[u] /\ node'[u] = node[u] /\ res'[u] = res[u]
        /\ UNCHANGED <<heap, next_, old_head, new_head, buffer, scan, taken>>
    BY <1>8 DEF clear, Goto
  <2>2. \A m \in heap \ New : m \notin New'
    BY <2>1, NewKept
  <2>3. \A n \in heap \ Own(a) : data_'[n] = data_[n]
    <3>1. old_head[a] # Null => old_head[a] \in Own(a)
      BY <2>1 DEF Own, Removed
    <3>2. CASE old_head[a] = Null
      BY <1>8, <3>2 DEF clear
    <3>3. CASE old_head[a] # Null
      BY <1>8, <3>1, <3>3 DEF clear
    <3>4. QED
      BY <3>2, <3>3
  <2>4. QED
    BY <2>1, <2>2, <2>3 DEF Frames
<1>9. CASE compareSlot(a) \/ takeList(a) \/ walk(a)
  BY <1>4, <1>9 DEF compareSlot, takeList, walk, Goto, shared, nodes
<1>10. CASE keep(a)
  BY <1>4, <1>10 DEF keep, Examined, Goto, nodes
<1>11. CASE delete(a)
  <2>1. /\ pc[a] = "delete" /\ pc'[a] # "push"
        /\ \A u \in Threads \ {a} :
             pc'[u] = pc[u] /\ node'[u] = node[u] /\ old_head'[u] = old_head[u]
        /\ heap' = heap \ {node[a]}
        /\ data_' = [data_ EXCEPT ![node[a]] = NoValue]
        /\ next_' = [next_ EXCEPT ![node[a]] = Null]
        /\ UNCHANGED <<new_head, buffer, scan, taken, res>>
    BY <1>11 DEF delete, Examined, Goto
  <2>2. \A m \in heap \ New : m \notin New'
    BY <2>1, NewKept
  <2>3. node[a] \in Own(a)
    BY <2>1 DEF Own, Removed
  <2>4. QED
    BY <2>1, <2>2, <2>3 DEF Frames
<1>12. QED
  BY <1>1, <1>2, <1>3, <1>5, <1>6, <1>7, <1>8, <1>9, <1>10, <1>11 DEF Step

\* So the nodes of the other threads, and the list, are as before.
LEMMA FramesOthers ==
    ASSUME StackInv, NEW a \in Threads, Frames(a)
    PROVE  /\ \A u \in Threads \ {a} : Own(u)' = Own(u)
           /\ \A u \in Threads \ {a} : pc[u] = "push" => data_'[node[u]] = data_[node[u]]
           /\ \A u \in Threads \ {a} : pc[u] = "clear" /\ old_head[u] # Null =>
                data_'[old_head[u]] = data_[old_head[u]]
           /\ \A n \in Listed : data_'[n] = data_[n]
<1> USE DEF StackInv
<1>1. ASSUME NEW u \in Threads \ {a}
      PROVE  /\ Own(u)' = Own(u) /\ Own(u) \subseteq heap /\ Own(u) \cap Own(a) = {}
             /\ pc[u] = "push" => node[u] \in Own(u)
             /\ pc[u] = "clear" /\ old_head[u] # Null => old_head[u] \in Own(u)
  <2>1. Own(u)' = Own(u)
    BY DEF Frames, Own, Removed
  <2>2. Own(u) \subseteq heap /\ Own(u) \cap Own(a) = {}
    BY DEF OneOwner
  <2>3. /\ pc[u] = "push" => node[u] \in Own(u)
        /\ pc[u] = "clear" /\ old_head[u] # Null => old_head[u] \in Own(u)
    BY DEF Own, Removed
  <2>4. QED
    BY <2>1, <2>2, <2>3
<1>2. Listed \subseteq heap /\ Listed \cap Own(a) = {}
  BY DEF OneOwner
<1>3. \A n \in heap \ Own(a) : data_'[n] = data_[n]
  BY DEF Frames
<1>4. QED
  BY <1>1, <1>2, <1>3

-------------------------------------------------------------------------------
\* A slot that holds the node, the last slot, and any other.
LEMMA CompareFacts ==
    ASSUME NEW t \in Threads, compareSlot(t)
    PROVE  /\ pc[t] = "scan"
           /\ \/ /\ hp_[scan[t]] = node[t]
                 /\ pc' = [pc EXCEPT ![t] = "keep"] /\ scan' = [scan EXCEPT ![t] = 0]
              \/ /\ hp_[scan[t]] # node[t] /\ scan[t] + 1 = max_hazard_pointers
                 /\ pc' = [pc EXCEPT ![t] = "delete"] /\ scan' = [scan EXCEPT ![t] = 0]
              \/ /\ hp_[scan[t]] # node[t] /\ scan[t] + 1 # max_hazard_pointers
                 /\ pc' = [pc EXCEPT ![t] = "scan"]
                 /\ scan' = [scan EXCEPT ![t] = scan[t] + 1]
<1>1. CASE hp_[scan[t]] = node[t]
  BY <1>1 DEF compareSlot, Goto
<1>2. CASE hp_[scan[t]] # node[t] /\ scan[t] + 1 = max_hazard_pointers
  BY <1>2 DEF compareSlot, Goto
<1>3. CASE hp_[scan[t]] # node[t] /\ scan[t] + 1 # max_hazard_pointers
  BY <1>3 DEF compareSlot, Goto
<1>4. QED
  BY <1>1, <1>2, <1>3

\* Each part of the invariant is kept by every step.
LEMMA TypesKept ==
    ASSUME Types, NEW a \in Threads, Step(a)
    PROVE  Types'
<1>0. Null \notin Nodes /\ Empty \notin Nodes \cup {Null}
  BY StackAssumption, NullAssumption
<1> USE <1>0 DEF Types, Guarding
<1>1. ASSUME NEW v \in Values, Push(a, v) PROVE Types'
  <2>1. PICK n \in Nodes \ heap :
        /\ heap' = heap \cup {n}
        /\ data_' = [data_ EXCEPT ![n] = v]
        /\ next_' = [next_ EXCEPT ![n] = head_]
        /\ node' = [node EXCEPT ![a] = n]
    BY <1>1 DEF Push
  <2>2. pc' = [pc EXCEPT ![a] = "push"]
        /\ UNCHANGED <<head_, nodes_to_reclaim_, old_head, new_head, buffer, scan, taken, res>>
    BY <1>1 DEF Push, Goto
  <2>3. QED
    BY <2>1, <2>2
<1>2. CASE pushSucceeds(a)
  BY <1>2 DEF pushSucceeds, Goto, nodes
<1>3. CASE pushFails(a)
  BY <1>3 DEF pushFails, locals
<1>4. CASE GetHazardPointer(a)
  BY <1>4 DEF GetHazardPointer, Goto, Construct, TrySlot, Throw, shared, nodes, locals
<1>5. CASE Pop(a) \/ storeHazard(a) \/ check(a)
  BY <1>5 DEF Pop, storeHazard, check, Goto, shared, nodes
<1>6. CASE flush(a) \/ exit(a)
  BY <1>6 DEF flush, exit, shared, nodes, locals
<1>7. CASE readNext(a)
  <2>1. NextOf(old_head[a]) \subseteq Nodes \cup {Null}
    BY DEF NextOf
  <2>2. QED
    BY <1>7, <2>1 DEF readNext, Goto, shared, nodes
<1>8. CASE remove(a)
  BY <1>8 DEF remove, Goto, nodes
<1>9. CASE clear(a)
  BY <1>9 DEF clear, Goto
<1>10. CASE compareSlot(a)
  <2>1. scan[a] \in Slots /\ (scan[a] + 1 # max_hazard_pointers => scan[a] + 1 \in Slots)
        /\ 0 \in Slots
    BY SlotsAssumption DEF Slots
  <2>2. UNCHANGED <<head_, heap, data_, next_, nodes_to_reclaim_, node, old_head,
                    new_head, buffer, taken, res>>
    BY <1>10 DEF compareSlot, shared, nodes
  <2>3. QED
    BY <1>10, <2>1, <2>2, CompareFacts
<1>11. CASE keep(a) \/ delete(a)
  BY <1>11 DEF keep, delete, Examined, Goto, nodes
<1>12. CASE takeList(a) \/ walk(a) \/ return(a)
  BY <1>12 DEF takeList, walk, return, Goto, shared, nodes
<1>13. QED
  BY <1>1, <1>2, <1>3, <1>4, <1>5, <1>6, <1>7, <1>8, <1>9, <1>10, <1>11, <1>12 DEF Step

\* The slots of the other threads are as before.
LEMMA SlotsOthers ==
    ASSUME SlotsInv, Types, NEW a \in Threads, Step(a)
    PROVE  /\ \A u \in Threads \ {a} :
                /\ hp_owner'[u] = hp_owner[u] /\ i'[u] = i[u]
                /\ hp_owner[u] = "own" => hp_'[i[u]] = hp_[i[u]]
           /\ FreeSlotsEmpty => FreeSlotsEmpty'
<1> USE DEF SlotsInv, SlotsTypeOK, FreeSlotsEmpty
<1>1. CASE UNCHANGED slots
  BY <1>1 DEF slots
<1>2. ASSUME NEW n \in Nodes \cup {Null}, SetHazard(a, n)
      PROVE  /\ \A u \in Threads \ {a} :
                  /\ hp_owner'[u] = hp_owner[u] /\ i'[u] = i[u]
                  /\ hp_owner[u] = "own" => hp_'[i[u]] = hp_[i[u]]
             /\ FreeSlotsEmpty => FreeSlotsEmpty'
  BY <1>2, SlotsAssumption DEF SetHazard
<1>3. CASE Construct(a)
  BY <1>3 DEF Construct
<1>4. CASE TrySlot(a)
  <2>1. /\ i[a] \in Slots /\ hp_' = hp_
        /\ \A u \in Threads \ {a} : hp_owner'[u] = hp_owner[u] /\ i'[u] = i[u]
        /\ thread_id_' = thread_id_ \/ thread_id_' = [thread_id_ EXCEPT ![i[a]] = a]
    BY <1>4, SlotsAssumption DEF TrySlot, Slots
  <2>2. \A s \in Slots : thread_id_'[s] = NoThread => thread_id_[s] = NoThread
    BY <2>1, SlotsAssumption
  <2>3. QED
    BY <2>1, <2>2
<1>5. CASE Throw(a)
  BY <1>5 DEF Throw
<1>6. CASE Destruct(a)
  BY <1>6, SlotsAssumption DEF Destruct
<1>7. CASE GetHazardPointer(a)
  BY <1>3, <1>4, <1>5, <1>7 DEF GetHazardPointer
<1>8. CASE flush(a)
  <2>1. buffer[a] \in Nodes \cup {Null} /\ SetHazard(a, buffer[a])
    BY <1>8 DEF flush, Types
  <2>2. QED
    BY <1>2, <2>1
<1>9. CASE clear(a)
  BY <1>2, <1>9 DEF clear
<1>10. CASE exit(a)
  BY <1>6, <1>10 DEF exit
<1>11. CASE \/ \E v \in Values : Push(a, v)
            \/ pushSucceeds(a) \/ pushFails(a) \/ Pop(a) \/ storeHazard(a)
            \/ check(a) \/ readNext(a) \/ remove(a) \/ compareSlot(a)
            \/ keep(a) \/ delete(a) \/ takeList(a) \/ walk(a) \/ return(a)
  <2>1. UNCHANGED slots
    BY <1>11 DEF Push, pushSucceeds, pushFails, Pop, storeHazard, check, readNext,
                 remove, compareSlot, keep, delete, Examined, takeList, walk, return
  <2>2. QED
    BY <1>1, <2>1
<1>12. QED
  BY <1>7, <1>8, <1>9, <1>10, <1>11 DEF Step

-------------------------------------------------------------------------------
\* What a step does to the list.
LEMMA ListedApart ==
    ASSUME StackInv
    PROVE  /\ Listed \subseteq heap \ New
           /\ \A t \in Threads : /\ pc[t] = "push" => node[t] \in Own(t)
                                 /\ pc[t] \in Examining => node[t] \in Own(t)
                                 /\ Own(t) \subseteq heap /\ Own(t) \cap Listed = {}
<1>1. \A t \in Threads : /\ pc[t] = "push" => node[t] \in Own(t)
                         /\ pc[t] \in Examining => node[t] \in Own(t)
  BY DEF Own, Removed, Examining
<1>2. \A t \in Threads : Own(t) \subseteq heap /\ Own(t) \cap Listed = {}
  BY DEF StackInv, OneOwner
<1>3. Listed \subseteq heap
  BY DEF StackInv, OneOwner
<1>4. Listed \cap New = {}
  BY <1>1, <1>2 DEF New
<1>5. QED
  BY <1>1, <1>2, <1>3, <1>4

LEMMA ListUntouched ==
    ASSUME StackInv, NEW a \in Threads, Step(a), head_' = head_
    PROVE  InOrder' = InOrder /\ Listed' = Listed /\ StackIsList'
<1>1. Frames(a)
  BY StepFrames DEF StackInv
<1>2. Listed \subseteq heap \ New
      /\ \A n \in Listed : pc[a] = "delete" => n # node[a]
  BY ListedApart DEF Examining
<1>3. \A n \in Listed : next_'[n] = next_[n]
  BY <1>1, <1>2 DEF Frames
<1>4. QED
  BY <1>3, ListKept DEF StackInv

LEMMA ListPushed ==
    ASSUME StackInv, NEW a \in Threads, pushSucceeds(a)
    PROVE  /\ InOrder' = <<node[a]>> \o InOrder
           /\ Listed' = Listed \cup {node[a]} /\ node[a] \notin Listed
           /\ StackIsList'
<1>1. /\ pc[a] = "push" /\ head_ = next_[node[a]] /\ head_' = node[a] /\ next_' = next_
  BY DEF pushSucceeds, nodes
<1>2. PICK n \in Nodes : n = node[a] /\ n \notin Listed
  BY <1>1, ListedApart DEF StackInv, Types
<1>3. Listed = Members(InOrder) /\ IsChain(Nodes, head_, next_, InOrder, Null)
  BY ListFacts DEF StackInv, StackIsList
<1> DEFINE s == InOrder
           nxt == next_
<1>4. IsChain(Nodes, nxt[n], nxt, s, Null) /\ n \notin Members(s)
  BY <1>1, <1>2, <1>3
<1> HIDE DEF s, nxt
<1>5. /\ IsChain(Nodes, n, nxt, <<n>> \o s, Null)
      /\ Members(<<n>> \o s) = Members(s) \cup {n}
      /\ Len(<<n>> \o s) = Len(s) + 1 /\ (<<n>> \o s)[1] = n
      /\ \A k \in 1 .. Len(s) : (<<n>> \o s)[k + 1] = s[k]
  BY <1>4, ChainPush
<1>6. IsChain(Nodes, head_', next_', <<n>> \o s, Null)
  BY <1>1, <1>2, <1>5 DEF nxt
<1>7. InOrder' = <<n>> \o s /\ Listed' = Members(<<n>> \o s) /\ StackIsList'
  BY <1>6, ListBecomes
<1>8. QED
  BY <1>2, <1>3, <1>5, <1>7 DEF s

LEMMA ListPopped ==
    ASSUME StackInv, NEW a \in Threads, remove(a), head_ = old_head[a]
    PROVE  /\ InOrder # <<>> /\ InOrder[1] = old_head[a] /\ InOrder' = Tail(InOrder)
           /\ Listed' = Listed \ {old_head[a]} /\ old_head[a] \in Listed
           /\ StackIsList'
<1>1. pc[a] = "remove" /\ head_' = new_head[a] /\ next_' = next_
  BY DEF remove, nodes
<1>2. old_head[a] # Null /\ new_head[a] = next_[old_head[a]]
  BY <1>1 DEF StackInv, Guarded, Protects
<1>3. /\ InOrder # <<>> /\ head_ = InOrder[1] /\ head_ \in Listed
      /\ Listed = Members(InOrder)
  BY <1>2, ListFacts DEF StackInv
<1> DEFINE s == InOrder
           nxt == next_
<1>4. IsChain(Nodes, head_, nxt, s, Null) /\ s # <<>>
  BY <1>3 DEF StackInv, StackIsList
<1> HIDE DEF s, nxt
<1>5. /\ IsChain(Nodes, nxt[head_], nxt, Tail(s), Null)
      /\ Members(Tail(s)) = Members(s) \ {head_}
  BY <1>4, ChainPop
<1>6. IsChain(Nodes, head_', next_', Tail(s), Null)
  BY <1>1, <1>2, <1>5 DEF nxt
<1>7. InOrder' = Tail(s) /\ Listed' = Members(Tail(s)) /\ StackIsList'
  BY <1>6, ListBecomes
<1>8. QED
  BY <1>3, <1>5, <1>7 DEF s

\* Only these two steps change head_.
LEMMA HeadKept ==
    ASSUME NEW a \in Threads, Step(a), ~pushSucceeds(a),
           ~(remove(a) /\ head_ = old_head[a])
    PROVE  head_' = head_
BY DEF Step, Push, pushFails, GetHazardPointer, Pop, storeHazard, flush, check,
       readNext, remove, clear, compareSlot, keep, delete, Examined, takeList, walk,
       return, exit, shared

LEMMA ListStays ==
    ASSUME StackInv, NEW a \in Threads, Step(a), ~pushSucceeds(a),
           ~(remove(a) /\ head_ = old_head[a])
    PROVE  InOrder' = InOrder /\ Listed' = Listed /\ StackIsList'
BY HeadKept, ListUntouched

-------------------------------------------------------------------------------
LEMMA GuardedKept ==
    ASSUME Ordered, StackInv, NEW a \in Threads, Step(a)
    PROVE  \A t \in Threads : Guarded(t)'
<1>1. ASSUME NEW u \in Threads \ {a} PROVE Guarded(u)'
  <2>1. /\ pc'[u] = pc[u] /\ buffer'[u] = buffer[u] /\ old_head'[u] = old_head[u]
        /\ hp_owner'[u] = hp_owner[u] /\ i'[u] = i[u]
        /\ hp_owner[u] = "own" => hp_'[i[u]] = hp_[i[u]]
        /\ Guarded(u)
    BY StepFrames, SlotsOthers DEF StackInv, Frames
  <2>2. QED
    BY <2>1 DEF Guarded, Guarding
<1> SUFFICES Guarded(a)'
  BY <1>1
<1> USE DEF Guarded, Guarding
<1>2. /\ Guarded(a) /\ Types /\ FreeSlotsEmpty
      /\ thread_id_ \in [Slots -> Threads \cup {NoThread}]
      /\ hp_ \in [Slots -> Nodes \cup {Null}]
      /\ hp_owner \in [Threads -> {"none", "search", "own"}]
      /\ i \in [Threads -> 0 .. max_hazard_pointers]
      /\ hp_owner[a] = "own" => i[a] \in Slots
  BY DEF StackInv, SlotsInv, SlotsTypeOK
<1>3. /\ pc \in [Threads -> {pc[t] : t \in Threads}]
      /\ buffer \in [Threads -> Nodes \cup {Null, Empty}]
      /\ old_head \in [Threads -> Nodes \cup {Null}]
      /\ Empty \notin Nodes \cup {Null}
  BY <1>2, StackAssumption DEF Types
<1>4. CASE \/ \E v \in Values : Push(a, v)
           \/ pushSucceeds(a) \/ pushFails(a) \/ compareSlot(a)
           \/ keep(a) \/ delete(a) \/ takeList(a) \/ walk(a) \/ return(a)
  <2>1. /\ UNCHANGED slots /\ buffer' = buffer
        /\ pc[a] \in {"idle", "push", "scan", "keep", "delete", "exchange", "walk", "return"}
    BY <1>4 DEF Push, pushSucceeds, pushFails, locals, compareSlot, keep, delete,
                Examined, takeList, walk, return
  <2>2. pc'[a] \in {"idle", "push", "scan", "keep", "delete", "exchange", "walk", "return"}
    <3>1. CASE compareSlot(a)
      BY <1>3, <3>1, CompareFacts
    <3>2. CASE \/ \E v \in Values : Push(a, v)
               \/ pushSucceeds(a) \/ pushFails(a) \/ return(a)
      BY <1>3, <3>2 DEF Push, pushSucceeds, pushFails, return, Goto
    <3>3. CASE keep(a) \/ delete(a) \/ takeList(a) \/ walk(a)
      BY <1>3, <3>3 DEF keep, delete, takeList, walk, Examined, Goto
    <3>4. QED
      BY <1>4, <3>1, <3>2, <3>3
  <2>3. /\ hp_owner' = hp_owner /\ i' = i /\ hp_' = hp_
        /\ hp_owner[a] # "search" /\ buffer[a] = Empty
        /\ hp_owner[a] = "own" => hp_[i[a]] = Null
    BY <1>2, <2>1 DEF slots
  <2>4. QED
    BY <2>1, <2>2, <2>3
<1>5. CASE GetHazardPointer(a)
  <2>1. /\ pc[a] \in {"idle", "search"} /\ buffer' = buffer /\ buffer[a] = Empty
        /\ hp_' = hp_
    BY <1>2, <1>5 DEF GetHazardPointer, Construct, TrySlot, Throw, locals
  <2>2. CASE pc[a] = "idle" /\ Construct(a) /\ Goto(a, "search")
    BY <1>2, <1>3, <2>1, <2>2 DEF Construct, Goto
  <2>3. CASE TrySlot(a) /\ Goto(a, IF hp_owner'[a] = "own" THEN "load" ELSE "search")
    <3>1. CASE thread_id_[i[a]] = NoThread
      <4>1. hp_owner'[a] = "own" /\ i' = i /\ i[a] \in Slots
        BY <1>2, <2>3, <3>1, SlotsAssumption DEF TrySlot, Slots
      <4>2. pc'[a] = "load" /\ hp_[i[a]] = Null
        BY <1>2, <1>3, <2>3, <3>1, <4>1 DEF Goto, FreeSlotsEmpty
      <4>3. QED
        BY <2>1, <4>1, <4>2
    <3>2. CASE thread_id_[i[a]] # NoThread
      <4>1. hp_owner'[a] = "search"
        BY <2>3, <3>2 DEF TrySlot
      <4>2. pc'[a] = "search"
        BY <1>3, <2>3, <4>1 DEF Goto
      <4>3. QED
        BY <2>1, <4>1, <4>2
    <3>3. QED
      BY <3>1, <3>2
  <2>4. CASE Throw(a) /\ Goto(a, "idle")
    BY <1>2, <1>3, <2>1, <2>4 DEF Throw, Goto
  <2>5. QED
    BY <1>5, <2>2, <2>3, <2>4 DEF GetHazardPointer
<1>6. CASE Pop(a) \/ remove(a)
  <2>1. /\ UNCHANGED slots /\ buffer' = buffer /\ buffer[a] = Empty
        /\ hp_owner[a] = "own" /\ pc'[a] \in {"store", "clear"}
    BY <1>2, <1>3, <1>6 DEF Pop, remove, Goto
  <2>2. QED
    BY <2>1 DEF slots
<1>7. CASE storeHazard(a)
  <2>1. /\ UNCHANGED slots /\ hp_owner[a] = "own" /\ old_head' = old_head
        /\ buffer'[a] = old_head[a] /\ pc'[a] = "check"
    BY <1>2, <1>3, <1>7 DEF storeHazard, Goto
  <2>2. buffer'[a] # Empty
    BY <1>3, <2>1
  <2>3. QED
    BY <2>1, <2>2 DEF slots
<1>8. CASE flush(a)
  <2>1. /\ buffer[a] # Empty /\ pc' = pc /\ old_head' = old_head
        /\ hp_owner' = hp_owner /\ i' = i /\ hp_owner[a] = "own"
        /\ hp_' = [hp_ EXCEPT ![i[a]] = buffer[a]]
        /\ buffer'[a] = Empty
    BY <1>3, <1>8 DEF flush, SetHazard
  <2>2. hp_'[i[a]] = old_head[a] /\ pc[a] = "check"
    BY <1>2, <2>1
  <2>3. QED
    BY <2>1, <2>2
<1>9. CASE check(a)
  <2>1. /\ UNCHANGED slots /\ buffer' = buffer /\ buffer[a] = Empty /\ pc[a] = "check"
        /\ old_head'[a] = head_
        /\ pc'[a] = IF head_ # old_head[a] THEN "store"
                    ELSE IF head_ = Null THEN "clear" ELSE "read"
    BY <1>3, <1>9 DEF check, Goto
  <2>2. hp_owner[a] = "own" /\ hp_[i[a]] = old_head[a]
    BY <1>2, <2>1
  <2>3. QED
    BY <2>1, <2>2 DEF slots
<1>10. CASE readNext(a)
  <2>1. /\ UNCHANGED slots /\ buffer' = buffer /\ buffer[a] = Empty /\ pc[a] = "read"
        /\ old_head' = old_head /\ pc'[a] = "remove"
    BY <1>2, <1>3, <1>10 DEF readNext, Goto
  <2>2. QED
    BY <1>2, <2>1 DEF slots
<1>11. CASE clear(a)
  <2>1. /\ pc'[a] \in {"return", "scan"} /\ buffer' = buffer /\ buffer[a] = Empty
        /\ hp_owner' = hp_owner /\ i' = i /\ hp_owner[a] = "own"
        /\ hp_' = [hp_ EXCEPT ![i[a]] = Null]
    BY <1>3, <1>11 DEF clear, Goto, SetHazard
  <2>2. hp_'[i[a]] = Null
    BY <1>2, <2>1
  <2>3. QED
    BY <2>1, <2>2
<1>12. CASE exit(a)
  <2>1. /\ pc' = pc /\ pc[a] = "idle" /\ buffer' = buffer /\ buffer[a] = Empty
        /\ hp_owner'[a] = "none"
    BY <1>2, <1>12 DEF exit, Destruct, locals
  <2>2. QED
    BY <2>1
<1>13. QED
  BY <1>4, <1>5, <1>6, <1>7, <1>8, <1>9, <1>10, <1>11, <1>12 DEF Step

-------------------------------------------------------------------------------
\* A thread passes on its nodes and takes those of the list; it allocates the nodes
\* of more, or deletes those of less.
LEMMA OwnersChange ==
    ASSUME StackInv, NEW a \in Threads, Frames(a),
           NEW more, more \cap heap = {}, NEW less, less \subseteq Own(a),
           heap' = (heap \cup more) \ less,
           Listed' \cup nodes_to_reclaim_' \cup Own(a)' =
             (Listed \cup nodes_to_reclaim_ \cup Own(a) \cup more) \ less,
           Listed' \cap nodes_to_reclaim_' = {},
           Own(a)' \cap (Listed' \cup nodes_to_reclaim_') = {}
    PROVE  OneOwner'
<1> DEFINE G == Listed \cup nodes_to_reclaim_ \cup Own(a)
           G2 == Listed' \cup nodes_to_reclaim_' \cup Own(a)'
<1>1. \A u \in Threads \ {a} : Own(u)' = Own(u)
  BY FramesOthers
<1>2. OneOwner
  BY DEF StackInv
<1>3. ASSUME NEW u \in Threads \ {a}
      PROVE  Own(u) \cap G2 = {} /\ Own(u) \subseteq heap /\ Own(u) \cap less = {}
  <2>1. Own(u) \subseteq heap /\ Own(u) \cap G = {}
    BY <1>2 DEF OneOwner
  <2>2. QED
    BY <2>1
<1>4. heap = G \cup UNION {Own(u) : u \in Threads \ {a}}
  <2>1. UNION {Own(u) : u \in Threads} = Own(a) \cup UNION {Own(u) : u \in Threads \ {a}}
    OBVIOUS
  <2>2. QED
    BY <1>2, <2>1 DEF OneOwner
<1>5. heap' = G2 \cup UNION {Own(u) : u \in Threads \ {a}}
  BY <1>3, <1>4
<1>6. heap' = Listed' \cup nodes_to_reclaim_' \cup UNION {Own(u)' : u \in Threads}
  <2>1. UNION {Own(u)' : u \in Threads}
          = Own(a)' \cup UNION {Own(u)' : u \in Threads \ {a}}
    OBVIOUS
  <2>2. UNION {Own(u)' : u \in Threads \ {a}} = UNION {Own(u) : u \in Threads \ {a}}
    BY <1>1
  <2>3. QED
    BY <1>5, <2>1, <2>2
<1>7. \A u \in Threads : Own(u)' \cap (Listed' \cup nodes_to_reclaim_') = {}
  BY <1>1, <1>3
<1>8. \A t, u \in Threads : t # u => Own(t)' \cap Own(u)' = {}
  <2> SUFFICES ASSUME NEW t \in Threads, NEW u \in Threads, t # u
               PROVE  Own(t)' \cap Own(u)' = {}
    OBVIOUS
  <2>1. CASE t = a
    BY <1>1, <1>3, <2>1
  <2>2. CASE u = a
    BY <1>1, <1>3, <2>2
  <2>3. CASE t # a /\ u # a
    BY <1>1, <1>2, <2>3 DEF OneOwner
  <2>4. QED
    BY <2>1, <2>2, <2>3
<1>9. QED
  BY <1>6, <1>7, <1>8 DEF OneOwner

\* The nodes of a thread in each of its places.
LEMMA OwnNodes ==
    ASSUME StackInv, NEW a \in Threads
    PROVE  /\ pc[a] = "push" => Own(a) = {node[a]}
           /\ pc[a] \in Examining => Own(a) = taken[a] \cup {node[a]}
           /\ pc[a] = "walk" => Own(a) = taken[a]
           /\ pc[a] = "clear" => Own(a) = {old_head[a]} \ {Null}
           /\ pc[a] \notin Examining \cup {"push", "walk", "clear"} => Own(a) = {}
<1>1. /\ pc[a] # "walk" /\ pc[a] \notin Examining => taken[a] = {}
  BY DEF StackInv, InTurn
<1>2. QED
  BY <1>1 DEF Own, Removed, Examining

LEMMA OwnNodesNext ==
    ASSUME NEW a \in Threads, taken'[a] = {} \/ pc'[a] \in Examining \cup {"walk"}
    PROVE  /\ pc'[a] = "push" => Own(a)' = {node'[a]}
           /\ pc'[a] \in Examining => Own(a)' = taken'[a] \cup {node'[a]}
           /\ pc'[a] = "walk" => Own(a)' = taken'[a]
           /\ pc'[a] = "clear" => Own(a)' = {old_head'[a]} \ {Null}
           /\ pc'[a] \notin Examining \cup {"push", "walk", "clear"} => Own(a)' = {}
BY DEF Own, Removed, Examining

LEMMA OneOwnerKept ==
    ASSUME Ordered, StackInv, NEW a \in Threads, Step(a)
    PROVE  OneOwner'
<1>1. Frames(a) /\ Types /\ InTurn(a) /\ OneOwner
  BY StepFrames DEF StackInv
<1>2. /\ pc \in [Threads -> {pc[t] : t \in Threads}]
      /\ node \in [Threads -> Nodes \cup {Null}]
      /\ old_head \in [Threads -> Nodes \cup {Null}]
      /\ taken \in [Threads -> SUBSET Nodes]
  BY <1>1 DEF Types
<1>3. /\ Listed \cap nodes_to_reclaim_ = {}
      /\ Own(a) \cap (Listed \cup nodes_to_reclaim_) = {} /\ Own(a) \subseteq heap
  BY <1>1 DEF OneOwner
<1>4. ASSUME UNCHANGED <<Listed, heap, nodes_to_reclaim_>>, Own(a)' = Own(a)
      PROVE  OneOwner'
  <2>1. /\ heap' = (heap \cup {}) \ {} /\ {} \cap heap = {} /\ {} \subseteq Own(a)
        /\ Listed' \cup nodes_to_reclaim_' \cup Own(a)' =
             (Listed \cup nodes_to_reclaim_ \cup Own(a) \cup {}) \ {}
        /\ Listed' \cap nodes_to_reclaim_' = {}
        /\ Own(a)' \cap (Listed' \cup nodes_to_reclaim_') = {}
    BY <1>3, <1>4
  <2>2. QED
    BY <1>1, <2>1, OwnersChange
<1>5. ASSUME NEW v \in Values, Push(a, v) PROVE OneOwner'
  <2>1. PICK n \in Nodes \ heap : heap' = heap \cup {n} /\ node' = [node EXCEPT ![a] = n]
    BY <1>5 DEF Push
  <2>2. /\ pc[a] = "idle" /\ pc' = [pc EXCEPT ![a] = "push"] /\ taken' = taken
        /\ nodes_to_reclaim_' = nodes_to_reclaim_ /\ Step(a)
        /\ ~pushSucceeds(a) /\ ~remove(a)
    BY <1>5 DEF Push, Goto, Step, pushSucceeds, remove
  <2>3. Own(a) = {} /\ taken'[a] = {}
    BY <1>1, <2>2, OwnNodes DEF Examining, InTurn
  <2>4. Own(a)' = {n}
    BY <1>2, <2>1, <2>2, <2>3, OwnNodesNext
  <2>5. Listed' = Listed
    BY <2>2, ListStays
  <2>6. Listed \subseteq heap /\ nodes_to_reclaim_ \subseteq heap
    BY <1>1 DEF OneOwner
  <2>7. /\ heap' = (heap \cup {n}) \ {} /\ {n} \cap heap = {} /\ {} \subseteq Own(a)
        /\ Listed' \cup nodes_to_reclaim_' \cup Own(a)' =
             (Listed \cup nodes_to_reclaim_ \cup Own(a) \cup {n}) \ {}
        /\ Listed' \cap nodes_to_reclaim_' = {}
        /\ Own(a)' \cap (Listed' \cup nodes_to_reclaim_') = {}
    BY <1>3, <2>1, <2>2, <2>3, <2>4, <2>5, <2>6
  <2>8. QED
    BY <1>1, <2>7, OwnersChange
<1>6. ASSUME heap' = heap,
             Listed' \cup nodes_to_reclaim_' \cup Own(a)' =
               Listed \cup nodes_to_reclaim_ \cup Own(a),
             Listed' \cap nodes_to_reclaim_' = {},
             Own(a)' \cap (Listed' \cup nodes_to_reclaim_') = {}
      PROVE  OneOwner'
  <2>1. /\ heap' = (heap \cup {}) \ {} /\ {} \cap heap = {} /\ {} \subseteq Own(a)
        /\ Listed' \cup nodes_to_reclaim_' \cup Own(a)' =
             (Listed \cup nodes_to_reclaim_ \cup Own(a) \cup {}) \ {}
    BY <1>6
  <2>2. QED
    BY <1>1, <1>6, <2>1, OwnersChange
<1>7. CASE pushSucceeds(a)
  <2>1. /\ pc[a] = "push" /\ pc'[a] = "idle" /\ taken' = taken /\ heap' = heap
        /\ nodes_to_reclaim_' = nodes_to_reclaim_
    BY <1>2, <1>7 DEF pushSucceeds, Goto, nodes
  <2>2. taken[a] = {}
    BY <1>1, <2>1 DEF InTurn, Examining
  <2>3. Own(a) = {node[a]} /\ Own(a)' = {}
    BY <2>1, <2>2, OwnNodes, OwnNodesNext DEF Examining
  <2>4. Listed' = Listed \cup {node[a]}
    BY <1>7, ListPushed
  <2>5. QED
    BY <1>3, <1>6, <2>1, <2>3, <2>4
<1>8. CASE remove(a) /\ head_ = old_head[a]
  <2>1. /\ pc[a] = "remove" /\ pc'[a] = "clear" /\ taken' = taken /\ heap' = heap
        /\ nodes_to_reclaim_' = nodes_to_reclaim_ /\ old_head' = old_head
    BY <1>2, <1>8 DEF remove, Goto, nodes
  <2>2. taken[a] = {} /\ old_head[a] # Null
    BY <2>1 DEF StackInv, InTurn, Examining, Guarded
  <2>3. Own(a) = {} /\ Own(a)' = {old_head[a]}
    BY <2>1, <2>2, OwnNodes, OwnNodesNext DEF Examining
  <2>4. Listed' = Listed \ {old_head[a]} /\ old_head[a] \in Listed
    BY <1>8, ListPopped
  <2>5. QED
    BY <1>3, <1>6, <2>1, <2>3, <2>4
<1>9. CASE keep(a)
  <2>1. /\ pc[a] = "keep" /\ pc'[a] \in {"exchange", "walk"} /\ taken' = taken
        /\ heap' = heap /\ nodes_to_reclaim_' = nodes_to_reclaim_ \cup {node[a]}
        /\ pc'[a] = "exchange" => old_head[a] # Null
        /\ Step(a) /\ ~pushSucceeds(a) /\ ~remove(a)
    BY <1>2, <1>9 DEF keep, Examined, Goto, nodes, Step, pushSucceeds, remove
  <2>2. node[a] \notin taken[a] /\ (pc'[a] = "exchange" => taken[a] = {})
    BY <1>1, <2>1 DEF InTurn, Examining
  <2>3. Own(a) = taken[a] \cup {node[a]} /\ Own(a)' = taken[a]
    BY <2>1, <2>2, OwnNodes, OwnNodesNext DEF Examining
  <2>4. Listed' = Listed
    BY <2>1, ListStays
  <2>5. QED
    BY <1>3, <1>6, <2>1, <2>2, <2>3, <2>4
<1>10. CASE delete(a)
  <2>1. /\ pc[a] = "delete" /\ pc'[a] \in {"exchange", "walk"} /\ taken' = taken
        /\ heap' = heap \ {node[a]} /\ nodes_to_reclaim_' = nodes_to_reclaim_
        /\ pc'[a] = "exchange" => old_head[a] # Null
        /\ Step(a) /\ ~pushSucceeds(a) /\ ~remove(a)
    BY <1>2, <1>10 DEF delete, Examined, Goto, Step, pushSucceeds, remove
  <2>2. node[a] \notin taken[a] /\ (pc'[a] = "exchange" => taken[a] = {})
    BY <1>1, <2>1 DEF InTurn, Examining
  <2>3. Own(a) = taken[a] \cup {node[a]} /\ Own(a)' = taken[a]
    BY <2>1, <2>2, OwnNodes, OwnNodesNext DEF Examining
  <2>4. Listed' = Listed
    BY <2>1, ListStays
  <2>5. /\ heap' = (heap \cup {}) \ {node[a]} /\ {} \cap heap = {} /\ {node[a]} \subseteq Own(a)
        /\ Listed' \cup nodes_to_reclaim_' \cup Own(a)' =
             (Listed \cup nodes_to_reclaim_ \cup Own(a) \cup {}) \ {node[a]}
        /\ Listed' \cap nodes_to_reclaim_' = {}
        /\ Own(a)' \cap (Listed' \cup nodes_to_reclaim_') = {}
    BY <1>3, <2>1, <2>2, <2>3, <2>4
  <2>6. QED
    BY <1>1, <2>5, OwnersChange
<1>11. CASE takeList(a)
  <2>1. /\ pc[a] = "exchange" /\ pc'[a] = "walk" /\ taken'[a] = nodes_to_reclaim_
        /\ heap' = heap /\ nodes_to_reclaim_' = {}
        /\ Step(a) /\ ~pushSucceeds(a) /\ ~remove(a)
    BY <1>2, <1>11 DEF takeList, Goto, nodes, Step, pushSucceeds, remove
  <2>2. Own(a) = {} /\ Own(a)' = nodes_to_reclaim_
    BY <2>1, OwnNodes, OwnNodesNext DEF Examining
  <2>3. Listed' = Listed
    BY <2>1, ListStays
  <2>4. QED
    BY <1>3, <1>6, <2>1, <2>2, <2>3
<1>12. CASE \/ pushFails(a) \/ GetHazardPointer(a) \/ Pop(a) \/ storeHazard(a)
            \/ flush(a) \/ check(a) \/ readNext(a)
            \/ remove(a) /\ head_ # old_head[a]
            \/ clear(a) \/ compareSlot(a) \/ walk(a) \/ return(a) \/ exit(a)
  <2>1. heap' = heap /\ nodes_to_reclaim_' = nodes_to_reclaim_ /\ head_' = head_
    BY <1>12 DEF pushFails, GetHazardPointer, Pop, storeHazard, flush, check, readNext,
       remove, clear, compareSlot, walk, return, exit, shared, nodes
  <2>3. Listed' = Listed
    BY <1>12, <2>1, ListUntouched DEF Step
  <2>4. Own(a)' = Own(a)
    <3>1. CASE pushFails(a) \/ flush(a) \/ exit(a)
      <4>1. pc' = pc /\ node' = node /\ taken' = taken /\ old_head' = old_head
        BY <3>1 DEF pushFails, flush, exit, locals
      <4>2. QED
        BY <4>1 DEF Own, Removed
    <3>2. CASE GetHazardPointer(a) \/ Pop(a) \/ storeHazard(a) \/ readNext(a) \/ return(a)
      <4>1. /\ pc[a] \notin Examining \cup {"push", "walk", "clear"}
            /\ pc'[a] \notin Examining \cup {"push", "walk", "clear"}
            /\ taken' = taken
        BY <1>2, <3>2 DEF GetHazardPointer, Pop, storeHazard, readNext, return, Goto,
           Examining, locals
      <4>2. taken'[a] = {}
        BY <1>1, <4>1 DEF InTurn
      <4>3. QED
        BY <4>1, <4>2, OwnNodes, OwnNodesNext
    <3>3. CASE check(a)
      <4>1. /\ pc[a] = "check" /\ taken' = taken /\ old_head'[a] = head_
            /\ pc'[a] = IF head_ # old_head[a] THEN "store"
                        ELSE IF head_ = Null THEN "clear" ELSE "read"
        BY <1>2, <3>3 DEF check, Goto
      <4>2. taken'[a] = {} /\ Own(a) = {}
        BY <1>1, <4>1, OwnNodes DEF InTurn, Examining
      <4>3. QED
        BY <4>1, <4>2, OwnNodesNext DEF Examining
    <3>4. CASE remove(a) /\ head_ # old_head[a]
      <4>1. pc[a] = "remove" /\ taken' = taken /\ pc'[a] = "store"
        BY <1>2, <3>4 DEF remove, Goto
      <4>2. taken'[a] = {} /\ Own(a) = {}
        BY <1>1, <4>1, OwnNodes DEF InTurn, Examining
      <4>3. QED
        BY <4>1, <4>2, OwnNodesNext DEF Examining
    <3>5. CASE clear(a)
      <4>1. /\ pc[a] = "clear" /\ taken' = taken
            /\ IF old_head[a] = Null THEN pc'[a] = "return"
               ELSE pc'[a] = "scan" /\ node'[a] = old_head[a]
        BY <1>2, <3>5 DEF clear, Goto
      <4>2. taken[a] = {} /\ Own(a) = {old_head[a]} \ {Null}
        BY <1>1, <4>1, OwnNodes DEF InTurn, Examining
      <4>3. QED
        BY <4>1, <4>2, OwnNodesNext DEF Examining
    <3>6. CASE compareSlot(a)
      <4>1. /\ pc[a] \in Examining /\ pc'[a] \in Examining
            /\ taken' = taken /\ node' = node
        BY <1>2, <3>6, CompareFacts DEF compareSlot, Examining
      <4>2. QED
        BY <4>1, OwnNodes, OwnNodesNext
    <3>7. CASE walk(a)
      <4>1. CASE taken[a] = {} /\ pc' = [pc EXCEPT ![a] = "return"] /\ taken' = taken
        <5>1. pc[a] = "walk" /\ pc'[a] = "return"
          BY <1>2, <3>7, <4>1 DEF walk
        <5>2. QED
          BY <4>1, <5>1, OwnNodes, OwnNodesNext DEF Examining
      <4>2. CASE \E n \in taken[a] : /\ node' = [node EXCEPT ![a] = n]
                                     /\ taken' = [taken EXCEPT ![a] = @ \ {n}]
                                     /\ Goto(a, "scan")
        <5>1. PICK n \in taken[a] : /\ node' = [node EXCEPT ![a] = n]
                                    /\ taken' = [taken EXCEPT ![a] = @ \ {n}]
                                    /\ Goto(a, "scan")
          BY <4>2
        <5>2. /\ pc[a] = "walk" /\ pc'[a] = "scan" /\ node'[a] = n
              /\ taken'[a] = taken[a] \ {n}
          BY <1>2, <3>7, <5>1 DEF walk, Goto
        <5>3. Own(a) = taken[a] /\ Own(a)' = (taken[a] \ {n}) \cup {n}
          BY <5>2, OwnNodes, OwnNodesNext DEF Examining
        <5>4. QED
          BY <5>1, <5>3
      <4>3. QED
        BY <3>7, <4>1, <4>2 DEF walk, Goto
    <3>8. QED
      BY <1>12, <3>1, <3>2, <3>3, <3>4, <3>5, <3>6, <3>7
  <2>5. QED
    BY <1>4, <2>1, <2>3, <2>4
<1>13. QED
  BY <1>5, <1>7, <1>8, <1>9, <1>10, <1>11, <1>12 DEF Step

-------------------------------------------------------------------------------
LEMMA InTurnKept ==
    ASSUME Ordered, StackInv, NEW a \in Threads, Step(a)
    PROVE  \A t \in Threads : InTurn(t)'
<1>1. ASSUME NEW u \in Threads \ {a} PROVE InTurn(u)'
  <2>1. /\ pc'[u] = pc[u] /\ scan'[u] = scan[u] /\ taken'[u] = taken[u]
        /\ old_head'[u] = old_head[u] /\ node'[u] = node[u] /\ InTurn(u)
    BY StepFrames DEF StackInv, Frames
  <2>2. QED
    BY <2>1 DEF InTurn, Examining
<1> SUFFICES InTurn(a)'
  BY <1>1
<1>2. /\ InTurn(a) /\ Guarded(a) /\ OneOwner
      /\ pc \in [Threads -> {pc[t] : t \in Threads}]
      /\ node \in [Threads -> Nodes \cup {Null}]
      /\ old_head \in [Threads -> Nodes \cup {Null}]
      /\ taken \in [Threads -> SUBSET Nodes]
      /\ scan \in [Threads -> Slots]
  BY DEF StackInv, Types
<1> USE DEF InTurn, Examining
<1>3. CASE \/ \E v \in Values : Push(a, v)
           \/ pushSucceeds(a) \/ GetHazardPointer(a) \/ Pop(a) \/ storeHazard(a)
           \/ check(a) \/ readNext(a) \/ remove(a)
  <2>1. /\ pc[a] \in {"idle", "push", "search", "load", "store", "check", "read", "remove"}
        /\ pc'[a] \in {"idle", "push", "search", "load", "store", "check", "read",
                       "remove", "clear"}
        /\ scan' = scan /\ taken' = taken
    BY <1>2, <1>3 DEF Push, pushSucceeds, GetHazardPointer, Pop, storeHazard,
       check, readNext, remove, Goto, locals
  <2>2. QED
    BY <1>2, <2>1
<1>4. CASE pushFails(a) \/ flush(a) \/ exit(a)
  BY <1>2, <1>4 DEF pushFails, flush, exit, locals
<1>5. CASE clear(a)
  <2>1. /\ pc[a] = "clear" /\ pc'[a] \in {"return", "scan"}
        /\ scan' = scan /\ taken' = taken
    BY <1>2, <1>5 DEF clear, Goto
  <2>2. QED
    BY <1>2, <2>1
<1>6. CASE compareSlot(a)
  <2>1. /\ taken' = taken /\ old_head' = old_head /\ node' = node
    BY <1>6 DEF compareSlot
  <2>2. /\ pc[a] = "scan" /\ pc'[a] \in Examining
        /\ pc'[a] # "scan" => scan'[a] = 0
    BY <1>2, <1>6, CompareFacts
  <2>3. QED
    BY <1>2, <2>1, <2>2
<1>7. CASE keep(a) \/ delete(a)
  <2>1. /\ pc[a] \in Examining /\ pc[a] # "scan"
        /\ pc'[a] = IF old_head[a] # Null THEN "exchange" ELSE "walk"
        /\ old_head'[a] = Null /\ scan' = scan /\ taken' = taken
    BY <1>2, <1>7 DEF keep, delete, Examined, Goto
  <2>2. QED
    BY <1>2, <2>1
<1>8. CASE takeList(a) \/ return(a)
  <2>1. \/ pc[a] = "exchange" /\ pc'[a] = "walk"
        \/ pc[a] = "return" /\ pc'[a] = "idle" /\ taken' = taken
    BY <1>2, <1>8 DEF takeList, return, Goto
  <2>2. scan' = scan /\ old_head' = old_head
    BY <1>8 DEF takeList, return
  <2>3. QED
    BY <1>2, <2>1, <2>2
<1>9. CASE walk(a)
  <2>1. pc[a] = "walk" /\ scan' = scan /\ old_head' = old_head
    BY <1>9 DEF walk
  <2>2. CASE taken[a] = {} /\ Goto(a, "return") /\ taken' = taken
    BY <1>2, <2>1, <2>2 DEF Goto
  <2>3. ASSUME NEW n \in taken[a], node' = [node EXCEPT ![a] = n],
               taken' = [taken EXCEPT ![a] = @ \ {n}], Goto(a, "scan")
        PROVE  InTurn(a)'
    BY <1>2, <2>1, <2>3 DEF Goto
  <2>4. QED
    BY <1>9, <2>2, <2>3 DEF walk
<1>10. QED
  BY <1>3, <1>4, <1>5, <1>6, <1>7, <1>8, <1>9 DEF Step

\* The steps after which a thread is about to look at a slot or to delete.
LEMMA ToExamine ==
    ASSUME StackInv, NEW a \in Threads, Step(a), pc'[a] \in {"scan", "delete"}
    PROVE  /\ compareSlot(a) \/ clear(a) \/ walk(a)
           /\ ~compareSlot(a) => pc'[a] = "scan" /\ scan'[a] = 0
<1>1. /\ pc \in [Threads -> {pc[t] : t \in Threads}]
      /\ buffer[a] # Empty => pc[a] = "check"
  BY DEF StackInv, Types, Guarded
<1>2. CASE \/ \E v \in Values : Push(a, v)
           \/ pushSucceeds(a) \/ GetHazardPointer(a) \/ Pop(a) \/ storeHazard(a)
           \/ check(a) \/ readNext(a) \/ remove(a) \/ keep(a) \/ delete(a)
           \/ takeList(a) \/ return(a)
  BY <1>1, <1>2 DEF Push, pushSucceeds, GetHazardPointer, Pop, storeHazard, check,
     readNext, remove, keep, delete, Examined, takeList, return, Goto
<1>3. CASE pushFails(a) \/ flush(a) \/ exit(a)
  BY <1>1, <1>3 DEF pushFails, flush, exit
<1>4. CASE compareSlot(a)
  BY <1>4
<1>5. CASE clear(a) \/ walk(a)
  <2>1. pc[a] \in {"clear", "walk"} /\ pc'[a] \in {"scan", "return"} /\ scan' = scan
    BY <1>1, <1>5 DEF clear, walk, Goto
  <2>2. scan[a] = 0
    BY <2>1 DEF StackInv, InTurn
  <2>3. QED
    BY <1>5, <2>1, <2>2
<1>6. QED
  BY <1>2, <1>3, <1>4, <1>5 DEF Step

\* The steps after which a thread is about to read a node or to remove it.
LEMMA ToRead ==
    ASSUME Ordered, StackInv, NEW a \in Threads, Step(a), pc'[a] \in {"read", "remove"}
    PROVE  \/ check(a) /\ pc'[a] = "read" /\ head_ # Null /\ old_head'[a] = head_
           \/ readNext(a)
<1>1. /\ pc \in [Threads -> {pc[t] : t \in Threads}]
      /\ old_head \in [Threads -> Nodes \cup {Null}]
      /\ buffer[a] # Empty => pc[a] = "check"
  BY DEF StackInv, Types, Guarded
<1>2. CASE \/ \E v \in Values : Push(a, v)
           \/ pushSucceeds(a) \/ GetHazardPointer(a) \/ Pop(a) \/ storeHazard(a)
           \/ remove(a) \/ keep(a) \/ delete(a) \/ takeList(a) \/ return(a)
           \/ clear(a) \/ walk(a)
  BY <1>1, <1>2 DEF Push, pushSucceeds, GetHazardPointer, Pop, storeHazard, clear,
     remove, keep, delete, Examined, takeList, return, walk, Goto
<1>3. CASE pushFails(a) \/ flush(a) \/ exit(a)
  BY <1>1, <1>3 DEF pushFails, flush, exit
<1>4. CASE compareSlot(a)
  BY <1>1, <1>4, CompareFacts
<1>5. CASE check(a)
  <2>1. /\ old_head'[a] = head_
        /\ pc'[a] = IF head_ # old_head[a] THEN "store"
                    ELSE IF head_ = Null THEN "clear" ELSE "read"
    BY <1>1, <1>5 DEF check, Goto
  <2>2. QED
    BY <1>5, <2>1
<1>6. QED
  BY <1>2, <1>3, <1>4, <1>5 DEF Step

\* While a thread reads a node, no thread gets past its slot in order to delete it.
LEMMA ProtectsKept ==
    ASSUME Ordered, StackInv, NEW a \in Threads, Step(a)
    PROVE  \A t \in Threads : Protects(t)'
<1>1. /\ Frames(a) /\ Types
      /\ \A t \in Threads : Guarded(t) /\ Protects(t) /\ InTurn(t)
      /\ \A u \in Threads \ {a} : /\ hp_owner'[u] = hp_owner[u] /\ i'[u] = i[u]
                                  /\ hp_owner[u] = "own" => hp_'[i[u]] = hp_[i[u]]
      /\ \A u \in Threads : hp_owner[u] = "own" => i[u] \in Slots
  BY StepFrames, SlotsOthers DEF StackInv, SlotsInv, SlotsTypeOK
<1>2. ASSUME NEW t \in Threads \ {a}, pc'[t] \in {"read", "remove"}
      PROVE  Protects(t)'
  <2>1. /\ pc'[t] = pc[t] /\ old_head'[t] = old_head[t] /\ new_head'[t] = new_head[t]
        /\ i'[t] = i[t] /\ i[t] \in Slots
        /\ hp_[i[t]] = old_head[t] /\ old_head[t] # Null
    BY <1>1, <1>2 DEF Frames, Guarded, Guarding
  <2>2. PICK n \in heap \ New : n = old_head[t]
    BY <1>1, <1>2, <2>1 DEF Protects
  <2>3. \A u \in Threads : node[u] = n =>
          pc[u] # "delete" /\ (pc[u] = "scan" => scan[u] <= i[t])
    BY <1>1, <1>2, <2>1, <2>2 DEF Protects
  <2>4. n \in heap' /\ n \notin New' /\ next_'[n] = next_[n]
    BY <1>1, <2>2, <2>3 DEF Frames
  <2>5. pc'[t] = "remove" => new_head'[t] = next_'[n]
    BY <1>1, <2>1, <2>2, <2>4 DEF Protects
  <2>6. ASSUME NEW u \in Threads \ {a}, node'[u] = n
        PROVE  pc'[u] # "delete" /\ (pc'[u] = "scan" => scan'[u] <= i[t])
    BY <1>1, <2>3, <2>6 DEF Frames
  <2>7. ASSUME node'[a] = n, pc'[a] \in {"scan", "delete"}
        PROVE  pc'[a] = "scan" /\ scan'[a] <= i[t]
    <3>1. CASE compareSlot(a)
      <4>1. /\ node' = node /\ pc[a] = "scan" /\ scan[a] <= i[t]
            /\ pc \in [Threads -> {pc[w] : w \in Threads}]
            /\ scan \in [Threads -> Slots]
        BY <1>1, <2>3, <2>7, <3>1, CompareFacts DEF compareSlot, Types
      <4>2. hp_[scan[a]] # n => scan[a] # i[t]
        BY <2>1, <2>2
      <4>3. /\ scan[a] \in Nat /\ i[t] \in Nat /\ i[t] < max_hazard_pointers
            /\ max_hazard_pointers \in Nat
        BY <2>1, <4>1, SlotsAssumption DEF Slots
      <4>4. hp_[scan[a]] # n =>
              scan[a] + 1 <= i[t] /\ scan[a] + 1 # max_hazard_pointers
        BY <4>1, <4>2, <4>3
      <4>5. CASE hp_[scan[a]] = n
        BY <2>7, <3>1, <4>1, <4>5, CompareFacts
      <4>6. CASE hp_[scan[a]] # n
        BY <2>7, <3>1, <4>1, <4>4, <4>6, CompareFacts
      <4>7. QED
        BY <4>5, <4>6
    <3>2. CASE ~compareSlot(a)
      <4>1. pc'[a] = "scan" /\ scan'[a] = 0
        BY <2>7, <3>2, ToExamine
      <4>2. 0 <= i[t]
        BY <2>1, SlotsAssumption DEF Slots
      <4>3. QED
        BY <4>1, <4>2
    <3>3. QED
      BY <3>1, <3>2
  <2>8. \A u \in Threads : node'[u] = n =>
          pc'[u] # "delete" /\ (pc'[u] = "scan" => scan'[u] <= i[t])
    BY <2>6, <2>7
  <2>9. QED
    BY <2>1, <2>2, <2>4, <2>5, <2>8 DEF Protects
<1>3. ASSUME pc'[a] \in {"read", "remove"} PROVE Protects(a)'
  <2>1. CASE check(a) /\ pc'[a] = "read" /\ head_ # Null /\ old_head'[a] = head_
    <3>1. head_ \in Listed
      BY <2>1, ListFacts DEF StackInv
    <3>2. /\ head_ \in heap \ New
          /\ \A u \in Threads : node[u] = head_ => pc[u] # "scan" /\ pc[u] # "delete"
      BY <3>1, ListedApart DEF Examining
    <3>3. heap' = heap /\ node' = node /\ scan' = scan /\ pc[a] = "check"
      BY <2>1 DEF check, shared, nodes
    <3>4. New' = New
      BY <1>1, <2>1, <3>3 DEF Frames, New
    <3>5. \A u \in Threads : node'[u] = head_ => pc'[u] # "scan" /\ pc'[u] # "delete"
      BY <1>1, <2>1, <3>2, <3>3 DEF Frames
    <3>6. QED
      BY <2>1, <3>2, <3>3, <3>4, <3>5 DEF Protects
  <2>2. CASE readNext(a)
    <3>1. /\ pc[a] = "read" /\ pc' = [pc EXCEPT ![a] = "remove"]
          /\ \E p \in NextOf(old_head[a]) : new_head' = [new_head EXCEPT ![a] = p]
          /\ UNCHANGED <<heap, next_, node, scan, old_head, i>>
      BY <2>2 DEF readNext, Goto, shared, nodes, slots
    <3>2. old_head[a] \in heap \ New /\ old_head[a] # Null
      BY <1>1, <3>1 DEF Protects, Guarded
    <3>3. new_head'[a] = next_[old_head[a]] /\ pc'[a] = "remove"
      BY <1>1, <3>1, <3>2 DEF NextOf, Types
    <3>4. New' = New
      BY <1>1, <3>1, <3>3 DEF Frames, New
    <3>5. \A u \in Threads : node[u] = old_head[a] =>
            pc[u] # "delete" /\ (pc[u] = "scan" => scan[u] <= i[a])
      BY <1>1, <3>1 DEF Protects
    <3>6. \A u \in Threads : node'[u] = old_head'[a] =>
            pc'[u] # "delete" /\ (pc'[u] = "scan" => scan'[u] <= i'[a])
      BY <1>1, <3>1, <3>3, <3>5 DEF Frames
    <3>7. QED
      BY <3>1, <3>2, <3>3, <3>4, <3>6 DEF Protects
  <2>3. QED
    BY <1>3, <2>1, <2>2, ToRead
<1>4. QED
  BY <1>2, <1>3 DEF Protects

LEMMA ValuesKeptKept ==
    ASSUME Ordered, StackInv, NEW a \in Threads, Step(a)
    PROVE  ValuesKept'
<1>1. /\ Frames(a) /\ Types /\ ValuesKept
      /\ \A n \in Listed : data_'[n] = data_[n]
      /\ \A u \in Threads \ {a} : pc[u] = "push" => data_'[node[u]] = data_[node[u]]
  BY StepFrames, FramesOthers DEF StackInv
<1>2. \A n \in Listed' : data_'[n] \in Values
  <2>1. CASE pushSucceeds(a)
    <3>1. /\ pc[a] = "push" /\ data_' = data_
          /\ Listed' = Listed \cup {node[a]}
      BY <2>1, ListPushed DEF pushSucceeds, nodes
    <3>2. QED
      BY <1>1, <3>1 DEF ValuesKept
  <2>2. CASE remove(a) /\ head_ = old_head[a]
    <3>1. Listed' = Listed \ {old_head[a]}
      BY <2>2, ListPopped
    <3>2. QED
      BY <1>1, <3>1 DEF ValuesKept
  <2>3. CASE ~pushSucceeds(a) /\ ~(remove(a) /\ head_ = old_head[a])
    <3>1. Listed' = Listed
      BY <2>3, ListStays
    <3>2. QED
      BY <1>1, <3>1 DEF ValuesKept
  <2>4. QED
    BY <2>1, <2>2, <2>3
<1>3. /\ pc \in [Threads -> {pc[t] : t \in Threads}]
      /\ node \in [Threads -> Nodes \cup {Null}]
      /\ res \in [Threads -> Values \cup {NoValue}]
      /\ data_ \in [Nodes -> Values \cup {NoValue}]
      /\ buffer[a] # Empty => pc[a] = "check"
  BY DEF StackInv, Types, Guarded
<1>4. /\ pc'[a] = "push" => data_'[node'[a]] \in Values
      /\ pc'[a] \notin Examining \cup {"exchange", "walk", "return"} => res'[a] = NoValue
  <2> USE DEF Examining
  <2>0. /\ pc[a] = "push" => data_[node[a]] \in Values
        /\ pc[a] \notin Examining \cup {"exchange", "walk", "return"} => res[a] = NoValue
    BY <1>1 DEF ValuesKept
  <2>1. ASSUME NEW v \in Values, Push(a, v)
        PROVE  data_'[node'[a]] \in Values /\ res'[a] = NoValue
    <3>1. PICK n \in Nodes \ heap : /\ data_' = [data_ EXCEPT ![n] = v]
                                    /\ node' = [node EXCEPT ![a] = n]
      BY <2>1 DEF Push
    <3>2. pc[a] = "idle" /\ res' = res
      BY <2>1 DEF Push
    <3>3. QED
      BY <1>3, <2>0, <3>1, <3>2
  <2>2. CASE pushFails(a) \/ flush(a) \/ exit(a)
    <3>1. UNCHANGED <<pc, node, data_, res>>
      BY <2>2 DEF pushFails, flush, exit, locals, shared, nodes
    <3>2. QED
      BY <2>0, <3>1
  <2>3. CASE \/ pushSucceeds(a) \/ GetHazardPointer(a) \/ Pop(a) \/ storeHazard(a)
             \/ check(a) \/ readNext(a) \/ remove(a)
    <3>1. /\ res' = res /\ pc'[a] # "push"
          /\ pc[a] \notin Examining \cup {"exchange", "walk", "return"}
      BY <1>3, <2>3 DEF pushSucceeds, GetHazardPointer, Pop, storeHazard, check,
         readNext, remove, Goto, locals
    <3>2. QED
      BY <2>0, <3>1
  <2>4. CASE clear(a) \/ keep(a) \/ delete(a) \/ takeList(a) \/ walk(a)
    <3>1. pc'[a] \in Examining \cup {"exchange", "walk", "return"}
      BY <1>3, <2>4 DEF clear, keep, delete, Examined, takeList, walk, Goto
    <3>2. QED
      BY <3>1
  <2>5. CASE compareSlot(a)
    BY <1>3, <2>5, CompareFacts
  <2>6. CASE return(a)
    BY <1>3, <2>6 DEF return, Goto
  <2>7. QED
    BY <2>1, <2>2, <2>3, <2>4, <2>5, <2>6 DEF Step
<1>5. ASSUME NEW u \in Threads \ {a}
      PROVE  /\ pc'[u] = "push" => data_'[node'[u]] \in Values
             /\ pc'[u] \notin Examining \cup {"exchange", "walk", "return"} =>
                  res'[u] = NoValue
  BY <1>1 DEF Frames, ValuesKept
<1>6. QED
  BY <1>2, <1>4, <1>5 DEF ValuesKept, Examining

-------------------------------------------------------------------------------
LEMMA StackInit == Init => StackInv
<1> SUFFICES ASSUME Init PROVE StackInv
  OBVIOUS
<1>0. Null \notin Nodes /\ max_hazard_pointers \in Nat \ {0}
  BY SlotsAssumption, NullAssumption
<1>1. SlotsInv
  BY SlotsInitInv DEF Init
<1>2. FreeSlotsEmpty
  BY DEF Init, SlotsInit, FreeSlotsEmpty
<1>3. Types
  <2>1. 0 \in Slots
    BY <1>0 DEF Slots
  <2>2. QED
    BY <1>0, <2>1 DEF Init, Types
<1>4. InOrder = <<>> /\ Listed = {} /\ StackIsList
  <2> DEFINE nxt == next_
  <2>1. IsChain(Nodes, Null, nxt, <<>>, Null) /\ Members(<<>>) = {}
    BY EmptyChain
  <2>2. IsFiniteSet(Nodes) /\ Null \notin Nodes
    BY NullAssumption
  <2> HIDE DEF nxt
  <2>3. From(Nodes, Null, nxt) = Members(<<>>) /\ Line(Nodes, Null, nxt) = <<>>
    BY <2>1, <2>2, ChainIsLine
  <2>4. QED
    BY <2>1, <2>3 DEF Init, InOrder, Listed, StackIsList, nxt
<1>5. \A t \in Threads : Guarded(t) /\ InTurn(t) /\ Protects(t)
  BY DEF Init, SlotsInit, Guarded, Guarding, InTurn, Examining, Protects
<1>6. OneOwner /\ ValuesKept
  <2>1. \A t \in Threads : Own(t) = {}
    BY DEF Init, Own, Removed
  <2>2. QED
    BY <1>4, <2>1 DEF Init, OneOwner, ValuesKept
<1>7. QED
  BY <1>1, <1>2, <1>3, <1>4, <1>5, <1>6 DEF StackInv

LEMMA StackStep ==
    ASSUME Ordered, StackInv, [Next]_vars
    PROVE  StackInv'
<1>1. ASSUME NEW a \in Threads, Step(a) PROVE StackInv'
  <2>1. Types' /\ FreeSlotsEmpty'
    BY <1>1, TypesKept, SlotsOthers DEF StackInv
  <2>2. SlotsInv'
    <3>1. PointerInv
      BY DEF StackInv, Types, PointerInv, Pointers
    <3>2. [SlotsNext]_slots
      BY <1>1, <3>1, StepOfSlots DEF Next
    <3>3. QED
      BY <3>2, SlotsTypesKept, SlotsSufficeKept DEF StackInv, SlotsInv
  <2>3. StackIsList'
    BY <1>1, ListPushed, ListPopped, ListStays
  <2>4. \A t \in Threads : Guarded(t)' /\ InTurn(t)' /\ Protects(t)'
    BY <1>1, GuardedKept, InTurnKept, ProtectsKept
  <2>5. OneOwner' /\ ValuesKept'
    BY <1>1, OneOwnerKept, ValuesKeptKept
  <2>6. QED
    BY <2>1, <2>2, <2>3, <2>4, <2>5 DEF StackInv
<1>2. CASE UNCHANGED vars
  <2> USE <1>2 DEF StackInv, vars, slots, shared, nodes, locals
  <2>1. SlotsInv' /\ FreeSlotsEmpty'
    BY DEF SlotsInv, SlotsTypeOK, StartsAtZero, SlotsSuffice, Reached, FreeSlotsEmpty
  <2>2. Types'
    BY DEF Types
  <2>3. Listed' = Listed /\ InOrder' = InOrder
    BY DEF Listed, InOrder
  <2>4. StackIsList'
    BY <2>3 DEF StackIsList
  <2>5. \A t \in Threads : Guarded(t)' /\ InTurn(t)'
    BY DEF Guarded, InTurn
  <2>6. \A t \in Threads : Protects(t)'
    BY DEF Protects, New
  <2>7. \A t \in Threads : Own(t)' = Own(t)
    BY DEF Own, Removed
  <2>8. OneOwner'
    BY <2>3, <2>7 DEF OneOwner
  <2>9. ValuesKept'
    BY <2>3 DEF ValuesKept
  <2>10. QED
    BY <2>1, <2>2, <2>4, <2>5, <2>6, <2>8, <2>9
<1>3. QED
  BY <1>1, <1>2 DEF Next

LEMMA StackInvariance ==
    ASSUME Ordered
    PROVE  Spec => []StackInv
<1>1. StackInv /\ [Next]_vars => StackInv'
  BY StackStep
<1>2. QED
  BY StackInit, <1>1, PTL DEF Spec

\* A thread that reads or writes a node finds it there: the one that would delete
\* it must compare it with the slot of every reader first.
THEOREM HazardsProtect ==
    ASSUME Ordered
    PROVE  Spec => []NodesInUseExist
<1>1. ASSUME StackInv, NEW t \in Threads
      PROVE  /\ pc[t] \in {"read", "remove"} => old_head[t] \in heap
             /\ pc[t] = "clear" /\ old_head[t] # Null => old_head[t] \in heap
             /\ node[t] # Null => node[t] \in heap
  <2>1. Own(t) \subseteq heap /\ Protects(t)
    BY <1>1 DEF StackInv, OneOwner
  <2>2. node[t] # Null => pc[t] \in Examining \cup {"push"}
    BY <1>1 DEF StackInv, Types, Examining
  <2>3. QED
    BY <1>1, <2>1, <2>2, OwnNodes DEF Protects, Examining
<1>2. StackInv => NodesInUseExist
  BY <1>1 DEF NodesInUseExist
<1>3. QED
  BY <1>2, StackInvariance, PTL

\* A node is in the stack, on the list, or in the hands of one thread; a slot
\* holds a pointer only while its owner is in the loop of Pop.
THEOREM EveryNodeAccounted ==
    ASSUME Ordered
    PROVE  Spec => []NodesAccounted
<1>1. ASSUME StackInv PROVE NodesAccounted
  <2>1. TypeOK
    <3>1. ASSUME NEW s \in Slots, hp_[s] # Null
          PROVE  thread_id_[s] # NoThread
                 /\ pc[thread_id_[s]] \in Guarding \cup {"store"}
      <4>1. thread_id_[s] # NoThread
        BY <1>1, <3>1 DEF StackInv, FreeSlotsEmpty
      <4>2. PICK u \in Threads : u = thread_id_[s] /\ hp_owner[u] = "own" /\ i[u] = s
        BY <1>1, <4>1 DEF StackInv, SlotsInv, SlotsTypeOK
      <4>3. QED
        BY <1>1, <3>1, <4>1, <4>2 DEF StackInv, Guarded
    <3>2. QED
      BY <1>1, <3>1 DEF StackInv, SlotsInv, Types, TypeOK
  <2>2. /\ \A t \in Threads : Removed(t) \subseteq Own(t)
        /\ \A t \in Threads : pc[t] = "push" => node[t] \in Own(t)
        /\ UNION {Own(t) : t \in Threads} = New \cup UNION {Removed(t) : t \in Threads}
    BY DEF Own, New
  <2>3. OneOwner
    BY <1>1 DEF StackInv
  <2>4. heap = Listed \cup New \cup nodes_to_reclaim_
                 \cup UNION {Removed(t) : t \in Threads}
    BY <2>2, <2>3 DEF OneOwner
  <2>5. (New \cup Listed) \cap nodes_to_reclaim_ = {}
    BY <2>2, <2>3 DEF OneOwner, New
  <2>6. ASSUME NEW t \in Threads
        PROVE  Removed(t) \cap (Listed \cup New \cup nodes_to_reclaim_) = {}
    <3>1. Removed(t) \cap (Listed \cup nodes_to_reclaim_) = {}
      BY <2>2, <2>3 DEF OneOwner
    <3>2. ASSUME NEW u \in Threads, pc[u] = "push" PROVE node[u] \notin Removed(t)
      <4>1. CASE u = t
        <5>1. Removed(t) = {}
          BY <1>1, <3>2, <4>1 DEF StackInv, InTurn, Removed, Examining
        <5>2. QED
          BY <5>1
      <4>2. CASE u # t
        BY <2>2, <2>3, <3>2, <4>2 DEF OneOwner
      <4>3. QED
        BY <4>1, <4>2
    <3>3. QED
      BY <3>1, <3>2 DEF New
  <2>7. \A t, u \in Threads : t # u => Removed(t) \cap Removed(u) = {}
    BY <2>2, <2>3 DEF OneOwner
  <2>8. QED
    BY <2>1, <2>4, <2>5, <2>6, <2>7 DEF NodesAccounted
<1>2. QED
  BY <1>1, StackInvariance, PTL

-------------------------------------------------------------------------------
\* The stack of the abstract specification is the contents of the list.
LEMMA ContentsOfStack ==
    ASSUME StackInv
    PROVE  /\ InOrder \in Seq(Nodes) /\ \A n \in Members(InOrder) : data_[n] \in Values
           /\ Listed = Members(InOrder)
           /\ Stack = <<>> <=> InOrder = <<>>
<1> DEFINE s == InOrder
           d == data_
<1>1. s \in Seq(Nodes) /\ Listed = Members(s)
  BY ListFacts DEF StackInv
<1>2. \A n \in Members(s) : d[n] \in Values
  BY <1>1 DEF StackInv, ValuesKept
<1> HIDE DEF s, d
<1>3. Contents(s, d) = <<>> <=> s = <<>>
  BY <1>1, <1>2, ContentsFacts
<1>4. QED
  BY <1>1, <1>2, <1>3 DEF Stack, s, d

LEMMA StackStays ==
    ASSUME StackInv, NEW a \in Threads, Step(a), ~pushSucceeds(a),
           ~(remove(a) /\ head_ = old_head[a])
    PROVE  Stack' = Stack
<1> DEFINE s == InOrder
           d == data_
           d2 == data_'
<1>1. s \in Seq(Nodes) /\ \A m \in Members(s) : d2[m] = d[m]
  BY ContentsOfStack, StepFrames, FramesOthers DEF StackInv
<1>2. InOrder' = s
  BY ListStays
<1> HIDE DEF s, d, d2
<1>3. Contents(s, d2) = Contents(s, d)
  BY <1>1, ContentsFrame
<1>4. QED
  BY <1>2, <1>3 DEF Stack, s, d, d2

\* A step of a thread changes the call of no other thread.
LEMMA CallOthers ==
    ASSUME StackInv, NEW a \in Threads, Step(a)
    PROVE  \A u \in Threads \ {a} : Call'[u] = Call[u]
<1> SUFFICES ASSUME NEW u \in Threads \ {a} PROVE Call'[u] = Call[u]
  OBVIOUS
<1>1. /\ pc'[u] = pc[u] /\ node'[u] = node[u] /\ res'[u] = res[u]
      /\ old_head'[u] = old_head[u]
      /\ pc[u] = "push" => data_'[node[u]] = data_[node[u]]
      /\ pc[u] = "clear" /\ old_head[u] # Null =>
           data_'[old_head[u]] = data_[old_head[u]]
  BY StepFrames, FramesOthers DEF StackInv, Frames
<1>2. QED
  BY <1>1 DEF Call

LEMMA CallChanges ==
    ASSUME NEW a \in Threads, NEW c,
           \A u \in Threads \ {a} : Call'[u] = Call[u], Call'[a] = c
    PROVE  Call' = [Call EXCEPT ![a] = c]
<1>1. /\ Call = [u \in Threads |-> Call[u]] /\ Call' = [u \in Threads |-> Call'[u]]
  BY DEF Call
<1>2. QED
  BY <1>1

LEMMA CallKept ==
    ASSUME NEW a \in Threads,
           \A u \in Threads \ {a} : Call'[u] = Call[u], Call'[a] = Call[a]
    PROVE  Call' = Call
<1>1. /\ Call = [u \in Threads |-> Call[u]] /\ Call' = [u \in Threads |-> Call'[u]]
  BY DEF Call
<1>2. QED
  BY <1>1

\* What a thread shows of its place in a call.
LEMMA CallOf ==
    ASSUME NEW a \in Threads
    PROVE  /\ pc[a] \in {"idle", "search", "load"} => Call[a] = Abstract!Idle
           /\ pc[a] = "push" => Call[a] = [op |-> "push", value |-> data_[node[a]]]
           /\ pc[a] \in {"store", "check", "read", "remove"} => Call[a] = Abstract!Popping
           /\ pc[a] = "clear" =>
                Call[a] = Abstract!Popped(IF old_head[a] = Null THEN NoValue
                                          ELSE data_[old_head[a]])
           /\ pc[a] \in {"scan", "keep", "delete", "exchange", "walk", "return"} =>
                Call[a] = Abstract!Popped(res[a])
BY DEF Call, Abstract!Idle, Abstract!Popping, Abstract!Popped

LEMMA CallOfNext ==
    ASSUME NEW a \in Threads
    PROVE  /\ pc'[a] \in {"idle", "search", "load"} => Call'[a] = Abstract!Idle
           /\ pc'[a] = "push" => Call'[a] = [op |-> "push", value |-> data_'[node'[a]]]
           /\ pc'[a] \in {"store", "check", "read", "remove"} => Call'[a] = Abstract!Popping
           /\ pc'[a] = "clear" =>
                Call'[a] = Abstract!Popped(IF old_head'[a] = Null THEN NoValue
                                           ELSE data_'[old_head'[a]])
           /\ pc'[a] \in {"scan", "keep", "delete", "exchange", "walk", "return"} =>
                Call'[a] = Abstract!Popped(res'[a])
BY DEF Call, Abstract!Idle, Abstract!Popping, Abstract!Popped

\* The steps nobody outside can see.
LEMMA HiddenSteps ==
    ASSUME StackInv, NEW a \in Threads, Step(a), Call'[a] = Call[a],
           ~pushSucceeds(a), ~(remove(a) /\ head_ = old_head[a])
    PROVE  UNCHANGED <<Stack, Call>>
BY StackStays, CallOthers, CallKept

LEMMA PushSteps ==
    ASSUME StackInv, NEW a \in Threads, NEW v \in Values, Push(a, v)
    PROVE  Abstract!Next
<1>1. PICK n \in Nodes \ heap : data_' = [data_ EXCEPT ![n] = v]
                                /\ node' = [node EXCEPT ![a] = n]
  BY DEF Push
<1>2. /\ pc[a] = "idle" /\ pc' = [pc EXCEPT ![a] = "push"] /\ Step(a)
      /\ ~pushSucceeds(a) /\ ~remove(a)
  BY DEF Push, Goto, Step, pushSucceeds, remove
<1>3. data_'[n] = v /\ node'[a] = n /\ pc'[a] = "push"
  BY <1>1, <1>2 DEF StackInv, Types
<1> DEFINE c == [op |-> "push", value |-> v]
<1>4. Call[a] = Abstract!Idle /\ Call'[a] = c /\ c \in Abstract!Pushing
  BY <1>2, <1>3, CallOf, CallOfNext DEF Abstract!Pushing
<1> HIDE DEF c
<1>5. Call' = [Call EXCEPT ![a] = c] /\ Stack' = Stack
  BY <1>2, <1>4, CallChanges, CallOthers, StackStays
<1>6. QED
  BY <1>4, <1>5 DEF Abstract!Begin, Abstract!Next

LEMMA PushSucceedsSteps ==
    ASSUME StackInv, NEW a \in Threads, pushSucceeds(a)
    PROVE  Abstract!Next
<1>1. /\ pc[a] = "push" /\ pc' = [pc EXCEPT ![a] = "idle"] /\ data_' = data_ /\ Step(a)
  BY DEF pushSucceeds, Goto, nodes, Step
<1>2. PICK n \in Nodes : n = node[a] /\ data_[n] \in Values
  BY <1>1 DEF StackInv, Types, ValuesKept
<1>3. pc'[a] = "idle"
  BY <1>1 DEF StackInv, Types
<1>4. /\ Call[a] \in Abstract!Pushing /\ Call[a].value = data_[n]
      /\ Call'[a] = Abstract!Idle
  <2>1. Call[a] = [op |-> "push", value |-> data_[n]] /\ Call'[a] = Abstract!Idle
    BY <1>1, <1>2, <1>3, CallOf, CallOfNext
  <2>2. QED
    BY <1>2, <2>1 DEF Abstract!Pushing
<1>5. Call' = [Call EXCEPT ![a] = Abstract!Idle]
  BY <1>1, <1>4, CallOthers, CallChanges
<1>6. Stack' = <<Call[a].value>> \o Stack
  <2> DEFINE s == InOrder
             d == data_
  <2>1. InOrder' = <<n>> \o s
    BY <1>2, ListPushed
  <2>2. s \in Seq(Nodes) /\ d[n] \in Values /\ \A m \in Members(s) : d[m] \in Values
    BY <1>2, ContentsOfStack
  <2>3. Stack' = Contents(<<n>> \o s, d) /\ Stack = Contents(s, d) /\ Call[a].value = d[n]
    BY <1>1, <1>4, <2>1 DEF Stack
  <2> HIDE DEF s, d
  <2>4. Contents(<<n>> \o s, d) = <<d[n]>> \o Contents(s, d)
    BY <2>2, ContentsPush
  <2>5. QED
    BY <2>3, <2>4
<1>7. Abstract!Push(a)
  BY <1>4, <1>5, <1>6 DEF Abstract!Push
<1>8. QED
  BY <1>7 DEF Abstract!Next

\* The look at head_ that finds no node.
LEMMA CheckSteps ==
    ASSUME StackInv, NEW a \in Threads, check(a)
    PROVE  Abstract!Next \/ UNCHANGED <<Stack, Call>>
<1>1. /\ pc[a] = "check" /\ old_head'[a] = head_ /\ Step(a)
      /\ pc'[a] = IF head_ # old_head[a] THEN "store"
                  ELSE IF head_ = Null THEN "clear" ELSE "read"
      /\ ~pushSucceeds(a) /\ ~remove(a)
  BY DEF check, Goto, StackInv, Types, Step, pushSucceeds, remove
<1>2. Call[a] = Abstract!Popping
  BY <1>1, CallOf
<1>3. CASE pc'[a] \in {"store", "read"}
  <2>1. Call'[a] = Call[a]
    BY <1>2, <1>3, CallOfNext
  <2>2. QED
    BY <1>1, <2>1, HiddenSteps
<1>4. CASE pc'[a] = "clear" /\ head_ = Null
  <2>1. Call'[a] = Abstract!Popped(NoValue)
    BY <1>1, <1>4, CallOfNext
  <2>2. Call' = [Call EXCEPT ![a] = Abstract!Popped(NoValue)] /\ Stack' = Stack
    BY <1>1, <2>1, CallChanges, CallOthers, StackStays
  <2>3. Stack = <<>>
    BY <1>4, ContentsOfStack, ListFacts DEF StackInv
  <2>4. QED
    BY <1>2, <2>2, <2>3 DEF Abstract!Pop, Abstract!Next
<1>5. QED
  BY <1>1, <1>3, <1>4

\* The compare-exchange that takes the top node.
LEMMA RemoveSteps ==
    ASSUME StackInv, NEW a \in Threads, remove(a)
    PROVE  Abstract!Next \/ UNCHANGED <<Stack, Call>>
<1>1. pc[a] = "remove" /\ data_' = data_ /\ Step(a) /\ ~pushSucceeds(a)
  BY DEF remove, nodes, Step, pushSucceeds
<1>2. Call[a] = Abstract!Popping /\ old_head[a] # Null
  BY <1>1, CallOf DEF StackInv, Guarded
<1>3. CASE head_ # old_head[a]
  <2>1. pc'[a] = "store"
    BY <1>3 DEF remove, Goto, StackInv, Types
  <2>2. Call'[a] = Call[a]
    BY <1>2, <2>1, CallOfNext
  <2>3. QED
    BY <1>1, <1>3, <2>2, HiddenSteps
<1>4. CASE head_ = old_head[a]
  <2>1. pc'[a] = "clear" /\ old_head' = old_head
    BY <1>4 DEF remove, Goto, StackInv, Types
  <2>2. InOrder # <<>> /\ InOrder[1] = old_head[a] /\ InOrder' = Tail(InOrder)
    BY <1>4, ListPopped
  <2>3. /\ Stack' = Tail(Stack) /\ Stack # <<>> /\ Head(Stack) = data_[old_head[a]]
    <3> DEFINE s == InOrder
               d == data_
    <3>1. s \in Seq(Nodes) /\ s # <<>> /\ \A m \in Members(s) : d[m] \in Values
      BY <2>2, ContentsOfStack
    <3>2. /\ Stack = Contents(s, d) /\ Stack' = Contents(Tail(s), d)
          /\ data_[old_head[a]] = d[s[1]]
      BY <1>1, <2>2 DEF Stack
    <3> HIDE DEF s, d
    <3>3. /\ Contents(Tail(s), d) = Tail(Contents(s, d))
          /\ Head(Contents(s, d)) = d[s[1]] /\ Contents(s, d) # <<>>
      BY <3>1, ContentsPop
    <3>4. QED
      BY <3>2, <3>3
  <2>4. Call'[a] = Abstract!Popped(Head(Stack))
    BY <1>1, <1>2, <2>1, <2>3, CallOfNext
  <2>5. Call' = [Call EXCEPT ![a] = Abstract!Popped(Head(Stack))]
    BY <1>1, <2>4, CallOthers, CallChanges
  <2>6. Abstract!Pop(a)
    BY <1>2, <2>3, <2>5 DEF Abstract!Pop
  <2>7. QED
    BY <2>6 DEF Abstract!Next
<1>5. QED
  BY <1>3, <1>4

LEMMA PopSteps ==
    ASSUME StackInv, NEW a \in Threads, Pop(a)
    PROVE  Abstract!Next
<1>1. /\ pc[a] \in {"idle", "load"} /\ pc'[a] = "store" /\ Step(a)
      /\ ~pushSucceeds(a) /\ ~remove(a)
  BY DEF Pop, Goto, Step, pushSucceeds, remove, StackInv, Types
<1>2. Call[a] = Abstract!Idle /\ Call'[a] = Abstract!Popping
  BY <1>1, CallOf, CallOfNext
<1>3. Call' = [Call EXCEPT ![a] = Abstract!Popping] /\ Stack' = Stack
  BY <1>1, <1>2, CallChanges, CallOthers, StackStays
<1>4. QED
  BY <1>2, <1>3 DEF Abstract!Begin, Abstract!Next

LEMMA ReturnSteps ==
    ASSUME StackInv, NEW a \in Threads, return(a)
    PROVE  Abstract!Next
<1>1. /\ pc[a] = "return" /\ pc'[a] = "idle" /\ Step(a) /\ ~pushSucceeds(a) /\ ~remove(a)
  BY DEF return, Goto, Step, pushSucceeds, remove, StackInv, Types
<1>2. Call[a].op = "popped" /\ Call'[a] = Abstract!Idle
  <2>1. Call[a] = Abstract!Popped(res[a]) /\ Call'[a] = Abstract!Idle
    BY <1>1, CallOf, CallOfNext
  <2>2. QED
    BY <2>1 DEF Abstract!Popped
<1>3. Call' = [Call EXCEPT ![a] = Abstract!Idle] /\ Stack' = Stack
  BY <1>1, <1>2, CallChanges, CallOthers, StackStays
<1>4. QED
  BY <1>2, <1>3 DEF Abstract!Return, Abstract!Next

LEMMA OtherSteps ==
    ASSUME StackInv, NEW a \in Threads,
           \/ pushFails(a) \/ GetHazardPointer(a) \/ storeHazard(a) \/ flush(a)
           \/ readNext(a) \/ clear(a) \/ compareSlot(a) \/ keep(a) \/ delete(a)
           \/ takeList(a) \/ walk(a) \/ exit(a)
    PROVE  Call'[a] = Call[a] /\ ~pushSucceeds(a) /\ ~remove(a)
<1>1. /\ pc \in [Threads -> {pc[t] : t \in Threads}]
      /\ res \in [Threads -> Values \cup {NoValue}]
      /\ node \in [Threads -> Nodes \cup {Null}]
      /\ buffer[a] # Empty => pc[a] = "check"
      /\ pc[a] = "clear" => res[a] = NoValue
  BY DEF StackInv, Types, Guarded, ValuesKept, Examining
<1>2. CASE pushFails(a) \/ flush(a) \/ exit(a)
  <2>1. UNCHANGED <<pc, node, data_, res, old_head>>
    BY <1>2 DEF pushFails, flush, exit, locals, shared, nodes
  <2>2. Call'[a] = Call[a]
    BY <2>1 DEF Call
  <2>3. /\ pc[a] \in {"push", "idle"} \/ buffer[a] # Empty
        /\ pc[a] = "push" => pc'[a] # "idle"
    BY <1>2, <2>1 DEF pushFails, flush, exit
  <2>4. ~remove(a)
    BY <2>3 DEF remove
  <2>5. ~pushSucceeds(a)
    BY <1>1, <2>3 DEF pushSucceeds, Goto
  <2>6. QED
    BY <2>2, <2>4, <2>5
<1>3. CASE GetHazardPointer(a)
  <2>1. pc[a] \in {"idle", "search"} /\ pc'[a] \in {"idle", "search", "load"}
    BY <1>1, <1>3 DEF GetHazardPointer, Goto
  <2>2. QED
    BY <2>1, CallOf, CallOfNext DEF pushSucceeds, remove
<1>4. CASE storeHazard(a) \/ readNext(a)
  <2>1. pc[a] \in {"store", "read"} /\ pc'[a] \in {"check", "remove"}
    BY <1>1, <1>4 DEF storeHazard, readNext, Goto
  <2>2. QED
    BY <2>1, CallOf, CallOfNext DEF pushSucceeds, remove
<1>5. CASE clear(a)
  <2>1. CASE old_head[a] = Null
    <3>1. pc[a] = "clear" /\ pc'[a] = "return" /\ res' = res
      BY <1>1, <1>5, <2>1 DEF clear, Goto
    <3>2. QED
      BY <1>1, <2>1, <3>1, CallOf, CallOfNext DEF pushSucceeds, remove
  <2>2. CASE old_head[a] # Null
    <3>1. pc[a] = "clear" /\ pc'[a] = "scan" /\ res'[a] = data_[old_head[a]]
      BY <1>1, <1>5, <2>2 DEF clear, Goto
    <3>2. QED
      BY <2>2, <3>1, CallOf, CallOfNext DEF pushSucceeds, remove
  <2>3. QED
    BY <2>1, <2>2
<1>6. CASE compareSlot(a) \/ keep(a) \/ delete(a) \/ takeList(a) \/ walk(a)
  <2> DEFINE Late == {"scan", "keep", "delete", "exchange", "walk", "return"}
  <2>1. pc[a] \in Late /\ pc'[a] \in Late
    <3>1. CASE compareSlot(a)
      BY <1>1, <3>1, CompareFacts
    <3>2. CASE keep(a) \/ delete(a) \/ takeList(a) \/ walk(a)
      BY <1>1, <3>2 DEF keep, delete, Examined, takeList, walk, Goto
    <3>3. QED
      BY <1>6, <3>1, <3>2
  <2>2. res' = res
    BY <1>6 DEF compareSlot, keep, delete, Examined, takeList, walk
  <2>3. QED
    BY <2>1, <2>2, CallOf, CallOfNext DEF pushSucceeds, remove
<1>7. QED
  BY <1>2, <1>3, <1>4, <1>5, <1>6

LEMMA StepRefines ==
    ASSUME StackInv, [Next]_vars
    PROVE  [Abstract!Next]_<<Stack, Call>>
<1>1. ASSUME NEW a \in Threads, Step(a)
      PROVE  Abstract!Next \/ UNCHANGED <<Stack, Call>>
  <2>1. CASE \/ \E v \in Values : Push(a, v)
             \/ pushSucceeds(a) \/ Pop(a) \/ check(a) \/ remove(a) \/ return(a)
    BY <2>1, PushSteps, PushSucceedsSteps, PopSteps, CheckSteps, RemoveSteps, ReturnSteps
  <2>2. CASE \/ pushFails(a) \/ GetHazardPointer(a) \/ storeHazard(a) \/ flush(a)
             \/ readNext(a) \/ clear(a) \/ compareSlot(a) \/ keep(a) \/ delete(a)
             \/ takeList(a) \/ walk(a) \/ exit(a)
    BY <1>1, <2>2, OtherSteps, HiddenSteps
  <2>3. QED
    BY <1>1, <2>1, <2>2 DEF Step
<1>2. CASE UNCHANGED vars
  <2>1. UNCHANGED <<head_, next_, data_, pc, node, res, old_head>>
    BY <1>2 DEF vars, shared, nodes, locals
  <2>2. InOrder' = InOrder
    BY <2>1 DEF InOrder
  <2>3. QED
    BY <2>1, <2>2 DEF Stack, Call
<1>3. QED
  BY <1>1, <1>2 DEF Next

\* Push and Pop are those of a stack: a Pop takes effect when it looks at head_
\* and finds no node, or when its compare-exchange takes the node.
THEOREM HazardPointerIsAStack ==
    ASSUME Ordered
    PROVE  Spec => IsAStack
<1>1. Init => Abstract!Init
  <2> SUFFICES ASSUME Init PROVE Abstract!Init
    OBVIOUS
  <2>1. Stack = <<>>
    BY StackInit, ContentsOfStack, ListFacts DEF Init, StackInv
  <2>2. Call = [t \in Threads |-> Abstract!Idle]
    BY DEF Init, Call, Abstract!Idle
  <2>3. QED
    BY <2>1, <2>2 DEF Abstract!Init
<1>2. StackInv /\ [Next]_vars => [Abstract!Next]_Abstract!vars
  BY StepRefines DEF Abstract!vars
<1>3. QED
  BY <1>1, <1>2, StackInvariance, PTL DEF Spec, IsAStack, Abstract!Spec
===============================================================================
