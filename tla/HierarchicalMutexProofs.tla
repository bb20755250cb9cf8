------------------------ MODULE HierarchicalMutexProofs ------------------------
(***************************************************************************)
(* Proofs about HierarchicalMutex, as Mutex of MutexBeside, for any        *)
(* threads, mutexes and levels, as long as threads that do not hold a      *)
(* mutex call unlock on it only where the check can tell: the thread-local *)
(* value is the lowest level a thread holds, and so no set of threads      *)
(* waits in a circle.                                                      *)
(***************************************************************************)
EXTENDS MutexBeside, FiniteSetTheorems, TLAPS

Levels == 0 .. ULongMax

\* The levels of counted mutexes differ, and a mutex that is held or waited for
\* lies below the value its thread had.
LevelsDiffer ==
    \A t \in Lockers : \A m, n \in Mutex!Counted(t) : Level[m] = Level[n] => m = n

HeldBelowMax == \A m \in Mutexes : m_owner[m] # Nobody => Level[m] < ULongMax

TargetBelow ==
    \A t \in Lockers :
      m_pc[t] # "idle" => Level[m_target[t]] < m_value[t]

Holds == \A t \in Lockers : m_pc[t] \in {"update", "release"} => m_owner[m_target[t]] = t

IInv ==
    /\ Mutex!TypeOK
    /\ Mutex!ValueTracksHeld
    /\ Mutex!SavedValueRestores
    /\ LevelsDiffer
    /\ HeldBelowMax
    /\ TargetBelow
    /\ Holds

-------------------------------------------------------------------------------
\* A nonempty set of natural numbers has a least element.
LEMMA LeastNumber ==
    ASSUME NEW T \in SUBSET Nat, T # {}
    PROVE  \E x \in T : \A y \in T : x <= y
<1>1. IsWellFoundedOn(StrictSubsetOrdering(Nat), FiniteSubsetsOf(Nat))
  BY FS_StrictSubsetOrderingWellFounded
<1>2. {1 .. x : x \in T} \subseteq FiniteSubsetsOf(Nat)
  <2>1. ASSUME NEW x \in T PROVE IsFiniteSet(1 .. x) /\ 1 .. x \subseteq Nat
    BY FS_Interval
  <2>2. QED
    BY <2>1 DEF FiniteSubsetsOf
<1>3. {1 .. x : x \in T} # {}
  OBVIOUS
<1>4. PICK U \in {1 .. x : x \in T} :
        \A V \in {1 .. x : x \in T} : <<V, U>> \notin StrictSubsetOrdering(Nat)
  BY <1>1, <1>2, <1>3, WFMin
<1>5. PICK x \in T : U = 1 .. x
  BY <1>4
<1>6. ASSUME NEW y \in T, y < x PROVE FALSE
  <2>1. /\ 1 .. y \subseteq 1 .. x /\ 1 .. y # 1 .. x
        /\ 1 .. y \in SUBSET Nat /\ 1 .. x \in SUBSET Nat
    <3>1. x \in 1 .. x /\ x \notin 1 .. y
      BY <1>6
    <3>2. QED
      BY <1>6, <3>1
  <2>2. <<1 .. y, 1 .. x>> \in StrictSubsetOrdering(Nat)
    BY <2>1 DEF StrictSubsetOrdering
  <2>3. QED
    BY <1>4, <1>5, <2>2
<1>7. QED
  BY <1>6


-------------------------------------------------------------------------------
\* The invariant holds at the start: nobody holds anything.
LEMMA InitHolds ==
    ASSUME Mutex!LevelAssumption, Mutex!NameAssumption, Mutex!Init
    PROVE  IInv
<1> USE DEF Mutex!LevelAssumption, Mutex!NameAssumption
<1>1. Mutex!TypeOK
  BY DEF Mutex!Init, Mutex!TypeOK
<1>2. \A t \in Lockers : Mutex!Counted(t) = {}
  BY DEF Mutex!Init, Mutex!Counted, Mutex!HeldBy
<1>3. Mutex!ValueTracksHeld
  BY <1>2 DEF Mutex!Init, Mutex!ValueTracksHeld, Mutex!IsValueOf
<1>4. Mutex!SavedValueRestores /\ LevelsDiffer
  BY <1>2 DEF Mutex!SavedValueRestores, LevelsDiffer
<1>5. HeldBelowMax /\ TargetBelow /\ Holds
  BY DEF Mutex!Init, HeldBelowMax, TargetBelow, Holds
<1>6. QED
  BY <1>1, <1>3, <1>4, <1>5 DEF IInv

\* A step that changes no counted mutex, no value and nothing saved keeps what
\* the invariant says of them.
LEMMA SameCounted ==
    ASSUME Mutex!ValueTracksHeld, Mutex!SavedValueRestores, LevelsDiffer,
           \A t \in Lockers : Mutex!Counted(t)' = Mutex!Counted(t),
           UNCHANGED Mutex!values
    PROVE  /\ Mutex!ValueTracksHeld'
           /\ Mutex!SavedValueRestores'
           /\ LevelsDiffer'
<1>1. /\ m_value' = m_value
      /\ m_previous' = m_previous
  BY DEF Mutex!values
<1>2. Mutex!ValueTracksHeld'
  BY <1>1 DEF Mutex!ValueTracksHeld, Mutex!IsValueOf
<1>3. Mutex!SavedValueRestores'
  BY <1>1 DEF Mutex!SavedValueRestores, Mutex!IsValueOf
<1>4. LevelsDiffer'
  BY DEF LevelsDiffer
<1>5. QED
  BY <1>2, <1>3, <1>4

\* A call that ends up in block, or gets m_, enters with the level of its mutex
\* below the value of its thread.
LEMMA LockStep ==
    ASSUME Mutex!LevelAssumption, Mutex!NameAssumption,
           IInv, NEW t \in Lockers, NEW m \in Mutexes, Mutex!lock(t, m)
    PROVE  IInv'
<1> USE DEF Mutex!LevelAssumption, Mutex!NameAssumption
<1>1. Mutex!TypeOK'
  BY DEF IInv, Mutex!TypeOK, Mutex!lock, Mutex!values
<1>2. \A u \in Lockers : Mutex!Counted(u)' = Mutex!Counted(u)
  BY DEF IInv, Mutex!TypeOK, Mutex!lock, Mutex!Counted, Mutex!HeldBy
<1>3. Mutex!ValueTracksHeld' /\ Mutex!SavedValueRestores' /\ LevelsDiffer'
  BY <1>2, SameCounted DEF IInv, Mutex!lock
<1>4. HeldBelowMax'
  BY DEF IInv, HeldBelowMax, Mutex!lock
<1>5. TargetBelow'
  BY DEF IInv, Mutex!TypeOK, TargetBelow, Mutex!lock, Mutex!Passes, Mutex!values
<1>6. Holds'
  BY DEF IInv, Mutex!TypeOK, Holds, Mutex!lock
<1>7. QED
  BY <1>1, <1>3, <1>4, <1>5, <1>6 DEF IInv

\* Both ways to obtain m_: the mutex is not counted before update.
LEMMA TakenStep ==
    ASSUME Mutex!LevelAssumption, Mutex!NameAssumption,
           IInv, NEW t \in Lockers, NEW m \in Mutexes,
           m_pc[t] \in {"idle", "block"},
           Level[m] < m_value[t],
           m_owner[m] = Nobody,
           m_owner' = [m_owner EXCEPT ![m] = t],
           m_pc' = [m_pc EXCEPT ![t] = "update"],
           m_target' = [m_target EXCEPT ![t] = m],
           UNCHANGED Mutex!values
    PROVE  IInv'
<1> USE DEF Mutex!LevelAssumption, Mutex!NameAssumption
<1>1. Mutex!TypeOK'
  BY DEF IInv, Mutex!TypeOK, Mutex!values
<1>2. ASSUME NEW u \in Lockers PROVE Mutex!Counted(u)' = Mutex!Counted(u)
  <2>1. CASE u = t
    BY <2>1 DEF IInv, Mutex!TypeOK, Mutex!Counted, Mutex!HeldBy
  <2>2. CASE u # t
    BY <2>2 DEF IInv, Mutex!TypeOK, Mutex!Counted, Mutex!HeldBy
  <2>3. QED
    BY <2>1, <2>2
<1>3. Mutex!ValueTracksHeld' /\ Mutex!SavedValueRestores' /\ LevelsDiffer'
  BY <1>2, SameCounted DEF IInv
<1>4. HeldBelowMax'
  <2>1. m_value[t] \in 0 .. ULongMax /\ Level[m] \in 0 .. ULongMax
    BY DEF IInv, Mutex!TypeOK
  <2>2. Level[m] < ULongMax
    BY <2>1
  <2>3. QED
    BY <2>2 DEF IInv, Mutex!TypeOK, HeldBelowMax
<1>5. TargetBelow'
  BY DEF IInv, Mutex!TypeOK, TargetBelow, Mutex!values
<1>6. Holds'
  BY DEF IInv, Mutex!TypeOK, Holds
<1>7. QED
  BY <1>1, <1>3, <1>4, <1>5, <1>6 DEF IInv

LEMMA AcquireStep ==
    ASSUME Mutex!LevelAssumption, Mutex!NameAssumption,
           IInv, NEW t \in Lockers, Mutex!acquire(t)
    PROVE  IInv'
<1>1. m_target[t] \in Mutexes /\ Level[m_target[t]] < m_value[t]
  BY DEF IInv, Mutex!TypeOK, TargetBelow, Mutex!acquire, Mutex!NameAssumption
<1>2. m_target' = [m_target EXCEPT ![t] = m_target[t]]
  BY DEF IInv, Mutex!TypeOK, Mutex!acquire
<1>3. QED
  BY <1>1, <1>2, TakenStep DEF Mutex!acquire

LEMMA TryLockStep ==
    ASSUME Mutex!LevelAssumption, Mutex!NameAssumption,
           IInv, NEW t \in Lockers, NEW m \in Mutexes, Mutex!try_lock(t, m)
    PROVE  IInv' \/ UNCHANGED Mutex!vars
<1>1. Level[m] < m_value[t]
  BY DEF IInv, Mutex!TypeOK, Mutex!try_lock, Mutex!Passes, Mutex!LevelAssumption
<1>2. QED
  BY <1>1, TakenStep DEF Mutex!try_lock

\* update: the mutex becomes the lowest of the counted ones, and what it saves
\* is the value that the others give.
LEMMA UpdateStep ==
    ASSUME Mutex!LevelAssumption, Mutex!NameAssumption,
           IInv, NEW t \in Lockers, Mutex!update(t)
    PROVE  IInv'
<1> DEFINE m == m_target[t]
           v == m_value
           prev == m_previous
<1> USE DEF Mutex!LevelAssumption, Mutex!NameAssumption
<1>1. /\ m_pc[t] = "update" /\ m \in Mutexes /\ m_owner[m] = t
      /\ Level[m] < v[t]
      /\ v[t] \in Levels /\ Level \in [Mutexes -> Levels]
  BY DEF IInv, Mutex!TypeOK, Mutex!update, Holds, TargetBelow, Levels
<1>2. /\ prev' = [prev EXCEPT ![m] = v[t]]
      /\ v' = [v EXCEPT ![t] = Level[m]]
      /\ m_owner' = m_owner
      /\ m_pc' = [m_pc EXCEPT ![t] = "idle"]
      /\ m_target' = [m_target EXCEPT ![t] = NoMutex]
  BY DEF Mutex!update
<1>3. Mutex!TypeOK'
  BY <1>1, <1>2 DEF IInv, Mutex!TypeOK, Levels
<1>4. /\ Mutex!Counted(t)' = Mutex!Counted(t) \cup {m} /\ m \notin Mutex!Counted(t)
      /\ Mutex!Counted(t) \subseteq Mutexes
  BY <1>1, <1>2 DEF IInv, Mutex!TypeOK, Mutex!Counted, Mutex!HeldBy
<1>5. ASSUME NEW u \in Lockers, u # t
      PROVE  /\ Mutex!Counted(u)' = Mutex!Counted(u) /\ m \notin Mutex!Counted(u)
             /\ v'[u] = v[u] /\ Mutex!Counted(u) \subseteq Mutexes
  BY <1>1, <1>2, <1>5 DEF IInv, Mutex!TypeOK, Mutex!Counted, Mutex!HeldBy
<1>6. \A n \in Mutexes : n # m => prev'[n] = prev[n]
  BY <1>2 DEF IInv, Mutex!TypeOK
<1>7. v'[t] = Level[m] /\ prev'[m] = v[t]
  BY <1>1, <1>2 DEF IInv, Mutex!TypeOK
<1>8. \A n \in Mutex!Counted(t) : v[t] <= Level[n] /\ Level[m] < Level[n]
  <2>1. \A n \in Mutex!Counted(t) : v[t] <= Level[n]
    BY DEF IInv, Mutex!ValueTracksHeld, Mutex!IsValueOf
  <2>2. QED
    BY <1>1, <1>4, <2>1 DEF Levels
<1>9. Mutex!ValueTracksHeld'
  <2>1. ASSUME NEW u \in Lockers PROVE Mutex!IsValueOf(v'[u], Mutex!Counted(u)')
    <3>1. CASE u = t
      <4>1. \A n \in Mutex!Counted(t) \cup {m} : Level[m] <= Level[n]
        BY <1>1, <1>4, <1>8 DEF Levels
      <4>2. QED
        BY <3>1, <4>1, <1>4, <1>7 DEF Mutex!IsValueOf
    <3>2. CASE u # t
      BY <3>2, <1>5 DEF IInv, Mutex!ValueTracksHeld
    <3>3. QED
      BY <3>1, <3>2
  <2>2. QED
    BY <2>1 DEF Mutex!ValueTracksHeld, Mutex!IsValueOf
<1>10. Mutex!SavedValueRestores'
  <2>1. ASSUME NEW u \in Lockers, NEW n \in Mutex!Counted(u)'
        PROVE  Mutex!IsValueOf(prev'[n], {k \in Mutex!Counted(u)' : Level[k] > Level[n]})
    <3>1. CASE u = t /\ n = m
      <4>1. {k \in Mutex!Counted(t)' : Level[k] > Level[m]} = Mutex!Counted(t)
        BY <1>1, <1>4, <1>8 DEF Levels
      <4>2. QED
        BY <3>1, <4>1, <1>7 DEF IInv, Mutex!ValueTracksHeld
    <3>2. CASE u = t /\ n # m
      <4>1. n \in Mutex!Counted(t) /\ prev'[n] = prev[n]
        BY <3>2, <1>4, <1>6
      <4>2. {k \in Mutex!Counted(t)' : Level[k] > Level[n]} =
            {k \in Mutex!Counted(t) : Level[k] > Level[n]}
        <5>1. ~(Level[m] > Level[n])
          BY <1>1, <1>4, <1>8, <4>1 DEF Levels
        <5>2. QED
          BY <5>1, <1>4
      <4>3. QED
        BY <3>2, <4>1, <4>2 DEF IInv, Mutex!SavedValueRestores
    <3>3. CASE u # t
      <4>1. /\ n \in Mutex!Counted(u) /\ Mutex!Counted(u)' = Mutex!Counted(u)
            /\ prev'[n] = prev[n]
        BY <3>3, <1>5, <1>6
      <4>2. QED
        BY <4>1 DEF IInv, Mutex!SavedValueRestores
    <3>4. QED
      BY <3>1, <3>2, <3>3
  <2>2. QED
    BY <2>1 DEF Mutex!SavedValueRestores, Mutex!IsValueOf
<1>11. LevelsDiffer'
  <2>1. ASSUME NEW u \in Lockers, NEW k \in Mutex!Counted(u)', NEW n \in Mutex!Counted(u)',
               Level[k] = Level[n]
        PROVE  k = n
    <3>1. CASE u = t
      <4>1. k \in Mutex!Counted(t) /\ n \in Mutex!Counted(t) => k = n
        BY <2>1 DEF IInv, LevelsDiffer
      <4>2. k = m /\ n \in Mutex!Counted(t) => FALSE
        BY <2>1, <1>1, <1>4, <1>8 DEF Levels
      <4>3. n = m /\ k \in Mutex!Counted(t) => FALSE
        BY <2>1, <1>1, <1>4, <1>8 DEF Levels
      <4>4. QED
        BY <3>1, <1>4, <4>1, <4>2, <4>3
    <3>2. CASE u # t
      BY <2>1, <3>2, <1>5 DEF IInv, LevelsDiffer
    <3>3. QED
      BY <3>1, <3>2
  <2>2. QED
    BY <2>1 DEF LevelsDiffer
<1>12. HeldBelowMax'
  BY <1>2 DEF IInv, HeldBelowMax
<1>13. TargetBelow' /\ Holds'
  BY <1>2, <1>5 DEF IInv, Mutex!TypeOK, TargetBelow, Holds
<1>14. QED
  BY <1>3, <1>9, <1>10, <1>11, <1>12, <1>13 DEF IInv

\* Only the lowest mutex that the caller has locked passes the check of unlock.
LEMMA UnlockedIsHeld ==
    ASSUME Mutex!CallersAssumption, IInv, NEW t \in Lockers, NEW m \in Mutexes,
           Mutex!CallsUnlock(t, m), Mutex!unlock(t, m)
    PROVE  m \in Mutex!Counted(t)
<1>1. m_pc[t] = "idle" /\ m_value[t] = Level[m]
  BY DEF Mutex!unlock
<1>2. CASE m_owner[m] = t
  BY <1>1, <1>2 DEF Mutex!Counted, Mutex!HeldBy
<1>3. CASE m \in Misused
  <2>1. Mutex!Distinguishable(m)
    BY <1>3 DEF Mutex!CallersAssumption
  <2>2. PICK n \in Mutex!Counted(t) : Level[n] = Level[m]
    BY <1>1, <2>1 DEF IInv, Mutex!ValueTracksHeld, Mutex!IsValueOf, Mutex!Distinguishable
  <2>3. n = m
    BY <2>1, <2>2 DEF Mutex!Distinguishable, Mutex!Counted, Mutex!HeldBy
  <2>4. QED
    BY <2>2, <2>3
<1>4. QED
  BY <1>2, <1>3 DEF Mutex!CallsUnlock

\* unlock: the mutex is no longer counted, and the value it had saved is the one
\* that the other mutexes give.
LEMMA UnlockStep ==
    ASSUME Mutex!LevelAssumption, Mutex!NameAssumption, Mutex!CallersAssumption,
           IInv, NEW t \in Lockers, NEW m \in Mutexes,
           Mutex!CallsUnlock(t, m), Mutex!unlock(t, m)
    PROVE  IInv'
<1> DEFINE v == m_value
           prev == m_previous
<1> USE DEF Mutex!LevelAssumption, Mutex!NameAssumption
<1>1. /\ m \in Mutex!Counted(t) /\ m_owner[m] = t /\ m_pc[t] = "idle" /\ v[t] = Level[m]
      /\ Level \in [Mutexes -> Levels]
  BY UnlockedIsHeld DEF Mutex!unlock, Mutex!Counted, Mutex!HeldBy, Levels
<1>2. /\ v' = [v EXCEPT ![t] = prev[m]]
      /\ prev' = prev /\ m_owner' = m_owner
      /\ m_pc' = [m_pc EXCEPT ![t] = "release"]
      /\ m_target' = [m_target EXCEPT ![t] = m]
  BY DEF Mutex!unlock
<1>3. Mutex!TypeOK'
  BY <1>1, <1>2 DEF IInv, Mutex!TypeOK
<1>4. Mutex!Counted(t)' = Mutex!Counted(t) \ {m} /\ Mutex!Counted(t) \subseteq Mutexes
  BY <1>1, <1>2 DEF IInv, Mutex!TypeOK, Mutex!Counted, Mutex!HeldBy
<1>5. ASSUME NEW u \in Lockers, u # t
      PROVE  Mutex!Counted(u)' = Mutex!Counted(u) /\ v'[u] = v[u]
  BY <1>2, <1>5 DEF IInv, Mutex!TypeOK, Mutex!Counted, Mutex!HeldBy
<1>6. v'[t] = prev[m] /\ prev[m] \in Levels /\ ULongMax \in Nat
  BY <1>2 DEF IInv, Mutex!TypeOK, Levels
<1>7. {n \in Mutex!Counted(t) : Level[n] > Level[m]} = Mutex!Counted(t) \ {m}
  <2>1. ASSUME NEW n \in Mutex!Counted(t), n # m PROVE Level[n] > Level[m]
    <3>1. Level[m] <= Level[n]
      BY <1>1 DEF IInv, Mutex!ValueTracksHeld, Mutex!IsValueOf
    <3>2. Level[n] # Level[m]
      BY <1>1, <2>1 DEF IInv, LevelsDiffer
    <3>3. QED
      BY <1>1, <1>4, <3>1, <3>2 DEF Levels
  <2>2. ~(Level[m] > Level[m])
    BY <1>1 DEF Levels
  <2>3. QED
    BY <2>1, <2>2
<1>8. Mutex!IsValueOf(prev[m], Mutex!Counted(t) \ {m})
  BY <1>1, <1>7 DEF IInv, Mutex!SavedValueRestores
<1>9. Mutex!ValueTracksHeld'
  <2>1. ASSUME NEW u \in Lockers PROVE Mutex!IsValueOf(v'[u], Mutex!Counted(u)')
    BY <1>4, <1>5, <1>6, <1>8 DEF IInv, Mutex!ValueTracksHeld
  <2>2. QED
    BY <2>1 DEF Mutex!ValueTracksHeld, Mutex!IsValueOf
<1>10. Mutex!SavedValueRestores'
  <2>1. ASSUME NEW u \in Lockers, NEW n \in Mutex!Counted(u)'
        PROVE  Mutex!IsValueOf(prev'[n], {k \in Mutex!Counted(u)' : Level[k] > Level[n]})
    <3>1. CASE u = t
      <4>1. n \in Mutex!Counted(t) /\ Level[n] > Level[m]
        BY <3>1, <1>4, <1>7
      <4>2. ~(Level[m] > Level[n])
        BY <1>1, <1>4, <4>1 DEF Levels
      <4>3. {k \in Mutex!Counted(t)' : Level[k] > Level[n]} =
            {k \in Mutex!Counted(t) : Level[k] > Level[n]}
        BY <1>4, <4>2
      <4>4. QED
        BY <3>1, <1>2, <4>1, <4>3 DEF IInv, Mutex!SavedValueRestores
    <3>2. CASE u # t
      BY <3>2, <1>2, <1>5 DEF IInv, Mutex!SavedValueRestores
    <3>3. QED
      BY <3>1, <3>2
  <2>2. QED
    BY <2>1 DEF Mutex!SavedValueRestores, Mutex!IsValueOf
<1>11. LevelsDiffer'
  <2>1. \A u \in Lockers : Mutex!Counted(u)' \subseteq Mutex!Counted(u)
    BY <1>4, <1>5
  <2>2. QED
    BY <2>1 DEF IInv, LevelsDiffer
<1>12. HeldBelowMax'
  BY <1>2 DEF IInv, HeldBelowMax
<1>13. TargetBelow'
  <2>1. Level[m] < prev[m]
    <3>1. CASE prev[m] = ULongMax
      BY <1>1, <3>1 DEF IInv, HeldBelowMax
    <3>2. CASE prev[m] # ULongMax
      <4>1. PICK n \in Mutex!Counted(t) \ {m} : prev[m] = Level[n]
        BY <1>8, <3>2 DEF Mutex!IsValueOf
      <4>2. Level[n] > Level[m]
        BY <4>1, <1>7
      <4>3. QED
        BY <1>1, <1>4, <4>1, <4>2 DEF Levels
    <3>3. QED
      BY <3>1, <3>2
  <2>2. QED
    BY <2>1, <1>2, <1>5, <1>6 DEF IInv, Mutex!TypeOK, TargetBelow
<1>14. Holds'
  BY <1>1, <1>2 DEF IInv, Mutex!TypeOK, Holds
<1>15. QED
  BY <1>3, <1>9, <1>10, <1>11, <1>12, <1>13, <1>14 DEF IInv

\* release: the mutex was not counted any more.
LEMMA ReleaseStep ==
    ASSUME Mutex!LevelAssumption, Mutex!NameAssumption,
           IInv, NEW t \in Lockers, Mutex!release(t)
    PROVE  IInv'
<1> USE DEF Mutex!LevelAssumption, Mutex!NameAssumption
<1>1. m_pc[t] = "release" /\ m_target[t] \in Mutexes /\ m_owner[m_target[t]] = t
  BY DEF IInv, Mutex!TypeOK, Mutex!release, Holds
<1>2. Mutex!TypeOK'
  BY <1>1 DEF IInv, Mutex!TypeOK, Mutex!release, Mutex!values
<1>3. ASSUME NEW u \in Lockers PROVE Mutex!Counted(u)' = Mutex!Counted(u)
  <2>1. CASE u = t
    BY <1>1, <2>1 DEF IInv, Mutex!TypeOK, Mutex!release, Mutex!Counted, Mutex!HeldBy
  <2>2. CASE u # t
    BY <1>1, <2>2 DEF IInv, Mutex!TypeOK, Mutex!release, Mutex!Counted, Mutex!HeldBy
  <2>3. QED
    BY <2>1, <2>2
<1>4. Mutex!ValueTracksHeld' /\ Mutex!SavedValueRestores' /\ LevelsDiffer'
  BY <1>3, SameCounted DEF IInv, Mutex!release
<1>5. HeldBelowMax'
  BY <1>1 DEF IInv, Mutex!TypeOK, HeldBelowMax, Mutex!release
<1>6. TargetBelow'
  BY DEF IInv, Mutex!TypeOK, TargetBelow, Mutex!release, Mutex!values
<1>7. Holds'
  <2>1. ASSUME NEW u \in Lockers, u # t, m_pc[u] \in {"update", "release"}
        PROVE  m_owner'[m_target[u]] = u /\ m_pc'[u] = m_pc[u] /\ m_target'[u] = m_target[u]
    <3>1. m_owner[m_target[u]] = u /\ m_target[u] # m_target[t]
      BY <1>1, <2>1 DEF IInv, Holds
    <3>2. QED
      BY <1>1, <2>1, <3>1 DEF IInv, Mutex!TypeOK, Mutex!release
  <2>2. m_pc'[t] = "idle"
    BY DEF IInv, Mutex!TypeOK, Mutex!release
  <2>3. \A u \in Lockers : u # t => m_pc'[u] = m_pc[u]
    BY DEF IInv, Mutex!TypeOK, Mutex!release
  <2>4. QED
    BY <2>1, <2>2, <2>3 DEF Holds
<1>8. QED
  BY <1>2, <1>4, <1>5, <1>6, <1>7 DEF IInv

LEMMA Stutter ==
    ASSUME IInv, UNCHANGED Mutex!vars
    PROVE  IInv'
BY DEF IInv, Mutex!TypeOK, Mutex!ValueTracksHeld, Mutex!SavedValueRestores, LevelsDiffer,
       HeldBelowMax, TargetBelow, Holds, Mutex!IsValueOf, Mutex!Counted, Mutex!HeldBy,
       Mutex!vars

LEMMA StepKeeps ==
    ASSUME Mutex!LevelAssumption, Mutex!NameAssumption, Mutex!CallersAssumption,
           IInv, [Mutex!Next]_(Mutex!vars)
    PROVE  IInv'
<1>1. ASSUME NEW t \in Lockers, Mutex!acquire(t) PROVE IInv'
  BY <1>1, AcquireStep
<1>2. ASSUME NEW t \in Lockers, Mutex!update(t) PROVE IInv'
  BY <1>2, UpdateStep
<1>3. ASSUME NEW t \in Lockers, Mutex!release(t) PROVE IInv'
  BY <1>3, ReleaseStep
<1>4. ASSUME NEW t \in Lockers, NEW m \in Mutexes, Mutex!lock(t, m) PROVE IInv'
  BY <1>4, LockStep
<1>5. ASSUME NEW t \in Lockers, NEW m \in Mutexes, Mutex!try_lock(t, m) PROVE IInv'
  BY <1>5, TryLockStep, Stutter
<1>6. ASSUME NEW t \in Lockers, NEW m \in Mutexes, Mutex!CallsUnlock(t, m), Mutex!unlock(t, m)
      PROVE  IInv'
  BY <1>6, UnlockStep
<1>7. ASSUME NEW t \in Lockers, NEW m \in Mutexes, Mutex!refuse(t, m) PROVE IInv'
  BY <1>7, Stutter DEF Mutex!refuse
<1>8. CASE UNCHANGED Mutex!vars
  BY <1>8, Stutter
<1>9. QED
  BY <1>1, <1>2, <1>3, <1>4, <1>5, <1>6, <1>7, <1>8 DEF Mutex!Next

\* The strengthening of every invariant of the module is inductive.
THEOREM HierarchyInvariance ==
    ASSUME Mutex!LevelAssumption, Mutex!NameAssumption, Mutex!CallersAssumption
    PROVE  Mutex!Spec => []IInv
<1>1. Mutex!Init => IInv
  BY InitHolds
<1>2. IInv /\ [Mutex!Next]_(Mutex!vars) => IInv'
  BY StepKeeps
<1>3. QED
  BY <1>1, <1>2, PTL DEF Mutex!Spec

\* Type correctness of the mutexes and the threads, for every set of levels.
THEOREM HierarchyTypeCorrect ==
    ASSUME Mutex!LevelAssumption, Mutex!NameAssumption, Mutex!CallersAssumption
    PROVE  Mutex!Spec => []Mutex!TypeOK
<1>1. IInv => Mutex!TypeOK
  BY DEF IInv
<1>2. QED
  BY <1>1, HierarchyInvariance, PTL

\* this_thread_hierarchy_value_ is the lowest level the thread holds, whatever
\* it locked, tried, unlocked or was refused before.
THEOREM ValueIsLowestHeld ==
    ASSUME Mutex!LevelAssumption, Mutex!NameAssumption, Mutex!CallersAssumption
    PROVE  Mutex!Spec => []ValueTracksHeld
<1>1. IInv => ValueTracksHeld
  BY DEF IInv, ValueTracksHeld
<1>2. QED
  BY <1>1, HierarchyInvariance, PTL

\* previous_hierarchy_value_ of a held mutex is what unlocking it must restore.
THEOREM SavedIsNextLowest ==
    ASSUME Mutex!LevelAssumption, Mutex!NameAssumption, Mutex!CallersAssumption
    PROVE  Mutex!Spec => []SavedValueRestores
<1>1. IInv => SavedValueRestores
  BY DEF IInv, SavedValueRestores
<1>2. QED
  BY <1>1, HierarchyInvariance, PTL

\* Whoever calls unlock on a mutex that the check can tell from others, m_.unlock()
\* is reached only in the thread that locked m_; on the others, only their holders
\* may call it.
THEOREM UnlockByOwner ==
    ASSUME Mutex!LevelAssumption, Mutex!NameAssumption, Mutex!CallersAssumption
    PROVE  Mutex!Spec => []OwnerReleases
<1>1. IInv => OwnerReleases
  BY DEF IInv, Holds, OwnerReleases, Mutex!OwnerReleases
<1>2. QED
  BY <1>1, HierarchyInvariance, PTL

\* Of the threads that are blocked in a set, the one that waits for the lowest
\* mutex waits for a thread that is not blocked, or is not in the set: each of
\* them waits below the value it has, which is at most what the other waits for.
LEMMA LowestWaiterEscapes ==
    ASSUME Mutex!LevelAssumption, Mutex!NameAssumption, IInv
    PROVE  Mutex!NoCircularWait
<1> SUFFICES ASSUME NEW S \in (SUBSET Lockers) \ {{}},
                    \A t \in S : m_pc[t] = "block" /\ m_owner[m_target[t]] \in S
             PROVE  FALSE
  BY DEF Mutex!NoCircularWait
<1> USE DEF Mutex!LevelAssumption, Mutex!NameAssumption
<1>1. ASSUME NEW t \in S
      PROVE  t \in Lockers /\ m_target[t] \in Mutexes /\ Level[m_target[t]] \in Nat
  <2>1. t \in Lockers /\ m_pc[t] = "block"
    OBVIOUS
  <2>2. m_target[t] \in Mutexes
    BY <2>1 DEF IInv, Mutex!TypeOK
  <2>3. QED
    BY <2>1, <2>2
<1>2. PICK l \in {Level[m_target[t]] : t \in S} :
        \A k \in {Level[m_target[t]] : t \in S} : l <= k
  <2> DEFINE W == {Level[m_target[t]] : t \in S}
  <2>1. W \in SUBSET Nat
    BY <1>1
  <2>2. W # {}
    <3>1. PICK t : t \in S
      OBVIOUS
    <3>2. Level[m_target[t]] \in W
      BY <3>1
    <3>3. QED
      BY <3>2
  <2> HIDE DEF W
  <2>3. \E l \in W : \A k \in W : l <= k
    BY <2>1, <2>2, LeastNumber, Zenon
  <2>4. QED
    BY <2>3 DEF W
<1>3. PICK t \in S : Level[m_target[t]] = l
  BY <1>2
<1>4. PICK u \in S : m_owner[m_target[t]] = u
  OBVIOUS
<1>5. m_target[t] \in Mutex!Counted(u)
  BY <1>1, <1>4 DEF Mutex!Counted, Mutex!HeldBy
<1>6. m_value[u] <= Level[m_target[t]]
  BY <1>5 DEF IInv, Mutex!ValueTracksHeld, Mutex!IsValueOf
<1>7. Level[m_target[u]] < m_value[u]
  BY DEF IInv, TargetBelow
<1>8. l <= Level[m_target[u]]
  BY <1>2
<1>9. m_value[u] \in Nat
  BY DEF IInv, Mutex!TypeOK
<1>10. QED
  BY <1>1, <1>3, <1>6, <1>7, <1>8, <1>9

\* No deadlock: threads that wait for these mutexes never wait in a circle.
THEOREM DeadlockFree ==
    ASSUME Mutex!LevelAssumption, Mutex!NameAssumption, Mutex!CallersAssumption
    PROVE  Mutex!Spec => []NoCircularWait
<1>1. IInv => NoCircularWait
  BY LowestWaiterEscapes DEF NoCircularWait
<1>2. QED
  BY <1>1, HierarchyInvariance, PTL
===============================================================================
