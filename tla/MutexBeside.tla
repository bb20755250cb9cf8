------------------------------ MODULE MutexBeside ------------------------------
(***************************************************************************)
(* The hierarchical mutex with variables of its own, which begin with m_:  *)
(* beside the stack in MCStackAndMutex, and in HierarchicalMutexProofs.    *)
(***************************************************************************)
EXTENDS Naturals

CONSTANTS
    Lockers,      \* the threads that lock
    Mutexes, ULongMax, Level, Misused, Nobody, NoMutex

VARIABLES m_owner, m_previous, m_value, m_pc, m_target

Mutex == INSTANCE HierarchicalMutex WITH
    Threads <- Lockers,
    m_ <- m_owner, previous_hierarchy_value_ <- m_previous,
    this_thread_hierarchy_value_ <- m_value, pc <- m_pc, target <- m_target

\* The values of the threads: ValueTracksHeld of the mutex.
ValueTracksHeld == Mutex!ValueTracksHeld

\* The values in the mutexes: SavedValueRestores of the mutex.
SavedValueRestores == Mutex!SavedValueRestores

\* Who unlocks: OwnerReleases of the mutex.
OwnerReleases == Mutex!OwnerReleases

\* Who waits for whom: NoCircularWait of the mutex.
NoCircularWait == Mutex!NoCircularWait
===============================================================================
