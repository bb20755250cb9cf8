------------------------------ MODULE HazardSlots ------------------------------
(***************************************************************************)
(* The table hazard_pointers and HpOwner, the thread-local object through  *)
(* which a thread owns a slot of it from its first Pop until it ends.      *)
(* HpOwner searches the table once, slot by slot, while other threads take *)
(* slots and give them back; the next search of that thread starts anew.   *)
(***************************************************************************)
EXTENDS StackNodes, Naturals

CONSTANTS
    max_hazard_pointers,   \* 100 in the code
    NoThread

ASSUME SlotsAssumption ==
    max_hazard_pointers \in Nat \ {0} /\ NoThread \notin Threads

VARIABLES
    thread_id_,   \* who owns each slot
    hp_,          \* the hazard pointer in each slot
    hp_owner,     \* the HpOwner of each thread: "none", "search" or "own"
    i             \* the slot that it looks at or owns

slots == <<thread_id_, hp_, hp_owner, i>>

Slots == 0 .. max_hazard_pointers - 1

SlotsInit ==
    /\ thread_id_ = [s \in Slots |-> NoThread]
    /\ hp_ = [s \in Slots |-> Null]
    /\ hp_owner = [t \in Threads |-> "none"]
    /\ i = [t \in Threads |-> 0]

Construct(t) ==
    /\ hp_owner[t] = "none"
    /\ hp_owner' = [hp_owner EXCEPT ![t] = "search"]
    /\ UNCHANGED <<thread_id_, hp_, i>>

\* Faulty: compare_exchange_weak, which may fail on a free slot.
TrySlotWeakly(t) ==
    /\ hp_owner[t] = "search" /\ i[t] < max_hazard_pointers
    /\ \/ /\ thread_id_[i[t]] = NoThread
          /\ thread_id_' = [thread_id_ EXCEPT ![i[t]] = t]
          /\ hp_owner' = [hp_owner EXCEPT ![t] = "own"]
          /\ UNCHANGED i
       \/ /\ i' = [i EXCEPT ![t] = @ + 1]
          /\ UNCHANGED <<thread_id_, hp_owner>>
    /\ UNCHANGED hp_

\* One compare_exchange_strong of the search.
TrySlot(t) ==
    /\ hp_owner[t] = "search" /\ i[t] < max_hazard_pointers
    /\ \/ /\ thread_id_[i[t]] = NoThread
          /\ thread_id_' = [thread_id_ EXCEPT ![i[t]] = t]
          /\ hp_owner' = [hp_owner EXCEPT ![t] = "own"]
          /\ UNCHANGED i
       \/ /\ thread_id_[i[t]] # NoThread
          /\ i' = [i EXCEPT ![t] = @ + 1]
          /\ UNCHANGED <<thread_id_, hp_owner>>
    /\ UNCHANGED hp_

\* The exception of a search that found no slot.
Throw(t) ==
    /\ hp_owner[t] = "search" /\ i[t] = max_hazard_pointers
    /\ hp_owner' = [hp_owner EXCEPT ![t] = "none"]
    /\ i' = [i EXCEPT ![t] = 0]
    /\ UNCHANGED <<thread_id_, hp_>>

\* What Pop stores in its slot.
SetHazard(t, n) ==
    /\ hp_owner[t] = "own"
    /\ hp_' = [hp_ EXCEPT ![i[t]] = n]
    /\ UNCHANGED <<thread_id_, hp_owner, i>>

\* ~HpOwner, when the thread ends; the thread may be started again.
Destruct(t) ==
    /\ hp_owner[t] = "own"
    /\ hp_' = [hp_ EXCEPT ![i[t]] = Null]
    /\ thread_id_' = [thread_id_ EXCEPT ![i[t]] = NoThread]
    /\ hp_owner' = [hp_owner EXCEPT ![t] = "none"]
    /\ i' = [i EXCEPT ![t] = 0]

SlotsNext ==
    \E t \in Threads :
      \/ Construct(t) \/ TrySlot(t) \/ Throw(t) \/ Destruct(t)
      \/ \E n \in Nodes \cup {Null} : SetHazard(t, n)

SlotsSpec == SlotsInit /\ [][SlotsNext]_slots

-------------------------------------------------------------------------------
\* The types of the variables, and one owner for every slot.
SlotsTypeOK ==
    /\ thread_id_ \in [Slots -> Threads \cup {NoThread}]
    /\ hp_ \in [Slots -> Nodes \cup {Null}]
    /\ hp_owner \in [Threads -> {"none", "search", "own"}]
    /\ i \in [Threads -> 0 .. max_hazard_pointers]
    /\ \A t \in Threads : hp_owner[t] = "own" =>
         i[t] \in Slots /\ thread_id_[i[t]] = t
    /\ \A s \in Slots : thread_id_[s] # NoThread =>
         hp_owner[thread_id_[s]] = "own" /\ i[thread_id_[s]] = s

\* The threads whose search has reached slot k, or ended there or beyond.
Reached(k) == {t \in Threads : hp_owner[t] # "none" /\ i[t] >= k}

\* A search that goes past a slot leaves the owner of that slot behind, however
\* slots are taken and given back meanwhile.
SlotsSuffice ==
    \A k \in 0 .. max_hazard_pointers :
      Reached(k) # {} => Cardinality(Reached(k)) + k <= Cardinality(Threads)

\* So Pop throws only if there may be more threads than slots.
ThrowsOnlyWhenCrowded ==
    \A t \in Threads :
      hp_owner[t] = "search" /\ i[t] = max_hazard_pointers
        => Cardinality(Threads) > max_hazard_pointers
===============================================================================
