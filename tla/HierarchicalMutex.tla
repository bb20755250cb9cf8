--------------------------- MODULE HierarchicalMutex ---------------------------
(***************************************************************************)
(* playground::HierarchicalMutex (hierarchical_mutex.hpp): mutexes with a  *)
(* level.  A thread may lock a mutex only below the level of every mutex   *)
(* it holds; the check reads one thread-local value, and what the value    *)
(* was before is kept inside the mutex.                                    *)
(*                                                                         *)
(* The thread-local value and the calls of m_ are steps of their own.  An  *)
(* exception changes nothing: the thread goes on with what it holds.       *)
(***************************************************************************)
EXTENDS Naturals

CONSTANTS
    Threads,
    Mutexes,
    ULongMax,   \* ULONG_MAX, the value of a thread that holds nothing
    Level,      \* hierarchy_value_ of each mutex
    Misused,    \* those that threads unlock also without holding them
    Nobody, NoMutex

LevelAssumption ==
    /\ ULongMax \in Nat
    /\ Level \in [Mutexes -> 0 .. ULongMax]

NameAssumption == Nobody \notin Threads /\ NoMutex \notin Mutexes

VARIABLES
    m_,         \* the std::mutex inside each mutex: its owner
    previous_hierarchy_value_,
    this_thread_hierarchy_value_,
    pc,         \* "idle" outside every call, "block" in m_.lock(), "update"
                \* with m_ locked and the value not yet set, "release" with the
                \* value restored and m_ not yet unlocked
    target      \* the mutex of the call the thread is in

vars == <<m_, previous_hierarchy_value_, this_thread_hierarchy_value_, pc, target>>

values == <<previous_hierarchy_value_, this_thread_hierarchy_value_>>

Init ==
    /\ m_ = [m \in Mutexes |-> Nobody]
    /\ previous_hierarchy_value_ = [m \in Mutexes |-> 0]
    /\ this_thread_hierarchy_value_ = [t \in Threads |-> ULongMax]
    /\ pc = [t \in Threads |-> "idle"]
    /\ target = [t \in Threads |-> NoMutex]

\* Faulty: a mutex of the same level passes the check.
PassesEqual(t, m) == this_thread_hierarchy_value_[t] >= Level[m]

\* check_for_hierarchy_violation does not throw.
Passes(t, m) == this_thread_hierarchy_value_[t] > Level[m]

lock(t, m) ==
    /\ pc[t] = "idle"
    /\ Passes(t, m)
    /\ pc' = [pc EXCEPT ![t] = "block"]
    /\ target' = [target EXCEPT ![t] = m]
    /\ UNCHANGED <<m_, values>>

acquire(t) ==
    /\ pc[t] = "block"
    /\ m_[target[t]] = Nobody
    /\ m_' = [m_ EXCEPT ![target[t]] = t]
    /\ pc' = [pc EXCEPT ![t] = "update"]
    /\ UNCHANGED <<values, target>>

\* Faulty: the two assignments are swapped.
updateSwapped(t) ==
    /\ pc[t] = "update"
    /\ previous_hierarchy_value_' =
         [previous_hierarchy_value_ EXCEPT ![target[t]] = Level[target[t]]]
    /\ this_thread_hierarchy_value_' =
         [this_thread_hierarchy_value_ EXCEPT ![t] = Level[target[t]]]
    /\ pc' = [pc EXCEPT ![t] = "idle"]
    /\ target' = [target EXCEPT ![t] = NoMutex]
    /\ UNCHANGED m_

\* update_hierarchy_value, the end of lock and of try_lock.
update(t) ==
    /\ pc[t] = "update"
    /\ previous_hierarchy_value_' =
         [previous_hierarchy_value_ EXCEPT
            ![target[t]] = this_thread_hierarchy_value_[t]]
    /\ this_thread_hierarchy_value_' =
         [this_thread_hierarchy_value_ EXCEPT ![t] = Level[target[t]]]
    /\ pc' = [pc EXCEPT ![t] = "idle"]
    /\ target' = [target EXCEPT ![t] = NoMutex]
    /\ UNCHANGED m_

\* m_.try_lock succeeds, or fails (which it may do although m_ is free).
try_lock(t, m) ==
    /\ pc[t] = "idle"
    /\ Passes(t, m)
    /\ \/ /\ m_[m] = Nobody
          /\ m_' = [m_ EXCEPT ![m] = t]
          /\ pc' = [pc EXCEPT ![t] = "update"]
          /\ target' = [target EXCEPT ![t] = m]
          /\ UNCHANGED values
       \/ UNCHANGED vars

\* Faulty: no check, whoever calls unlocks.
unlockUnchecked(t, m) ==
    /\ pc[t] = "idle"
    /\ this_thread_hierarchy_value_' =
         [this_thread_hierarchy_value_ EXCEPT ![t] = previous_hierarchy_value_[m]]
    /\ pc' = [pc EXCEPT ![t] = "release"]
    /\ target' = [target EXCEPT ![t] = m]
    /\ UNCHANGED <<m_, previous_hierarchy_value_>>

\* unlock looks at the level of the mutex and not at its owner.
unlock(t, m) ==
    /\ pc[t] = "idle"
    /\ this_thread_hierarchy_value_[t] = Level[m]
    /\ this_thread_hierarchy_value_' =
         [this_thread_hierarchy_value_ EXCEPT ![t] = previous_hierarchy_value_[m]]
    /\ pc' = [pc EXCEPT ![t] = "release"]
    /\ target' = [target EXCEPT ![t] = m]
    /\ UNCHANGED <<m_, previous_hierarchy_value_>>

release(t) ==
    /\ pc[t] = "release"
    /\ m_' = [m_ EXCEPT ![target[t]] = Nobody]
    /\ pc' = [pc EXCEPT ![t] = "idle"]
    /\ target' = [target EXCEPT ![t] = NoMutex]
    /\ UNCHANGED values

\* lock, try_lock or unlock throws.
refuse(t, m) ==
    /\ pc[t] = "idle"
    /\ \/ ~Passes(t, m)
       \/ this_thread_hierarchy_value_[t] # Level[m]
    /\ UNCHANGED vars

\* Who calls unlock is not up to the mutex: the thread that locked it, in any
\* order of its mutexes, and others by mistake.
CallsUnlock(t, m) == m_[m] = t \/ m \in Misused

Next ==
    \E t \in Threads :
      \/ acquire(t) \/ update(t) \/ release(t)
      \/ \E m \in Mutexes :
           \/ lock(t, m) \/ try_lock(t, m) \/ refuse(t, m)
           \/ CallsUnlock(t, m) /\ unlock(t, m)

Spec == Init /\ [][Next]_vars

-------------------------------------------------------------------------------
\* The mutexes a thread holds, and those of them that its value accounts for.
HeldBy(t)  == {m \in Mutexes : m_[m] = t}
Counted(t) == {m \in HeldBy(t) : ~(pc[t] \in {"update", "release"} /\ target[t] = m)}

\* The value that a set of mutexes gives to a thread: the lowest of their levels.
IsValueOf(v, held) ==
    /\ \A m \in held : v <= Level[m]
    /\ (held = {} /\ v = ULongMax) \/ \E m \in held : v = Level[m]

\* The types of the variables; a thread inside a call has a mutex at hand.
TypeOK ==
    /\ m_ \in [Mutexes -> Threads \cup {Nobody}]
    /\ previous_hierarchy_value_ \in [Mutexes -> 0 .. ULongMax]
    /\ this_thread_hierarchy_value_ \in [Threads -> 0 .. ULongMax]
    /\ pc \in [Threads -> {"idle", "block", "update", "release"}]
    /\ target \in [Threads -> Mutexes \cup {NoMutex}]
    /\ \A t \in Threads : target[t] = NoMutex <=> pc[t] = "idle"

\* The one thread-local value stands for all the mutexes a thread holds, also
\* after any sequence of locks, failed locks, refused and accepted unlocks.
ValueTracksHeld ==
    \A t \in Threads : IsValueOf(this_thread_hierarchy_value_[t], Counted(t))

\* What a mutex has saved is the value that the mutexes above it gave to its
\* holder, so that unlocking it restores the value.
SavedValueRestores ==
    \A t \in Threads : \A m \in Counted(t) :
      IsValueOf(previous_hierarchy_value_[m],
                {n \in Counted(t) : Level[n] > Level[m]})

\* The check of unlock can tell the mutex: no other has its level, and it is not
\* the level of a thread that holds nothing.
Distinguishable(m) ==
    /\ Level[m] # ULongMax
    /\ \A n \in Mutexes : Level[n] = Level[m] => n = m

\* By mistake, unlock is called only where the check can tell.
CallersAssumption == \A m \in Misused : Distinguishable(m)

\* A mutex that the check can tell from others is unlocked only by the thread
\* that locked it, whoever calls unlock on it.
OwnerReleases ==
    \A t \in Threads :
      pc[t] = "release" /\ Distinguishable(target[t]) => m_[target[t]] = t

\* No thread unlocks a mutex that another one holds: unlock throws "mutex
\* hierarchy violated!" (hierarchical_mutex.hpp:21-22).  Without CallersAssumption
\* it need not throw.
ForeignUnlockThrows ==
    \A t \in Threads : pc[t] = "release" => m_[target[t]] \in {t, Nobody}

\* Threads that lock more than one mutex, in whatever order they try to, never
\* wait for each other in a circle.
NoCircularWait ==
    \A S \in (SUBSET Threads) \ {{}} :
      ~ \A t \in S : pc[t] = "block" /\ m_[target[t]] \in S
===============================================================================
