------------------------------- MODULE LookupTable -------------------------------
(***************************************************************************)
(* playground::ThreadsafeLookupTable.  AddOrUpdate, Remove and ValueFor    *)
(* hold the mutex of one bucket, and are one step each; GetMap locks the   *)
(* buckets one after the other, copies them, and unlocks them.             *)
(***************************************************************************)
EXTENDS Naturals, Sequences

Seqs == INSTANCE SequencesExt

CONSTANTS
    Threads, Keys, Values, NoValue, NoThread,
    bucket_num,
    hasher_     \* the hash of each key

TableAssumption ==
    /\ bucket_num \in Nat \ {0}
    /\ hasher_ \in [Keys -> Nat]
    /\ NoValue \notin Values /\ NoThread \notin Threads

Buckets == 0 .. bucket_num - 1
FindBucket(key) == hasher_[key] % bucket_num

VARIABLES
    data_,    \* the list of each bucket
    mtx_,     \* the thread whose GetMap has the mutex of each bucket
    locks,    \* how many buckets each GetMap has locked
    copied,   \* and how many it has copied
    res       \* to this map

vars == <<data_, mtx_, locks, copied, res>>

Nothing == [key \in Keys |-> NoValue]

Init ==
    /\ data_ = [b \in Buckets |-> <<>>]
    /\ mtx_ = [b \in Buckets |-> NoThread]
    /\ locks = [t \in Threads |-> 0] /\ copied = [t \in Threads |-> 0]
    /\ res = [t \in Threads |-> Nothing]

Calls(t) == locks[t] = 0
Lockable(t, key) == Calls(t) /\ mtx_[FindBucket(key)] = NoThread

\* FindEntryFor: the first entry with the key, or the place behind the last.
FindEntryFor(list, key) ==
    IF \E i \in DOMAIN list : list[i].key = key
    THEN CHOOSE i \in DOMAIN list :
           list[i].key = key /\ \A j \in 1 .. i - 1 : list[j].key # key
    ELSE Len(list) + 1

ValueFor(list, key) ==
    LET i == FindEntryFor(list, key)
    IN  IF i > Len(list) THEN NoValue ELSE list[i].value

AddOrUpdate(t, key, val) ==
    LET b == FindBucket(key)
        i == FindEntryFor(data_[b], key)
    IN  /\ Lockable(t, key)
        /\ data_' = [data_ EXCEPT ![b] =
             IF i > Len(@) THEN Append(@, [key |-> key, value |-> val])
             ELSE [@ EXCEPT ![i].value = val]]
        /\ UNCHANGED <<mtx_, locks, copied, res>>

Remove(t, key) ==
    LET b == FindBucket(key)
        i == FindEntryFor(data_[b], key)
    IN  /\ Lockable(t, key)
        /\ i <= Len(data_[b])
        /\ data_' = [data_ EXCEPT ![b] = Seqs!RemoveAt(@, i)]
        /\ UNCHANGED <<mtx_, locks, copied, res>>

-------------------------------------------------------------------------------
\* Faulty: a bucket is unlocked when the next one is locked.
lockOneBucket(t) ==
    /\ locks[t] < bucket_num /\ mtx_[locks[t]] = NoThread
    /\ mtx_' = [b \in Buckets |-> IF b = locks[t] THEN t
                                  ELSE IF mtx_[b] = t THEN NoThread ELSE mtx_[b]]
    /\ locks' = [locks EXCEPT ![t] = @ + 1]
    /\ UNCHANGED <<data_, copied, res>>

\* GetMap.
lockBucket(t) ==
    /\ locks[t] < bucket_num /\ mtx_[locks[t]] = NoThread
    /\ mtx_' = [mtx_ EXCEPT ![locks[t]] = t]
    /\ locks' = [locks EXCEPT ![t] = @ + 1]
    /\ UNCHANGED <<data_, copied, res>>

\* A later entry of the list takes the place of an earlier one.
copyBucket(t) ==
    LET list == data_[copied[t]]
    IN  /\ locks[t] = bucket_num /\ copied[t] < bucket_num
        /\ res' = [res EXCEPT ![t] =
             [key \in Keys |->
                IF \E i \in DOMAIN list : list[i].key = key
                THEN ValueFor(Seqs!Reverse(list), key) ELSE @[key]]]
        /\ copied' = [copied EXCEPT ![t] = @ + 1]
        /\ UNCHANGED <<data_, mtx_, locks>>

unlockAll(t) ==
    /\ copied[t] = bucket_num
    /\ mtx_' = [b \in Buckets |-> IF mtx_[b] = t THEN NoThread ELSE mtx_[b]]
    /\ locks' = [locks EXCEPT ![t] = 0]
    /\ copied' = [copied EXCEPT ![t] = 0]
    /\ res' = [res EXCEPT ![t] = Nothing]
    /\ UNCHANGED data_

Step(t) ==
    \/ \E key \in Keys, val \in Values : AddOrUpdate(t, key, val)
    \/ \E key \in Keys : Remove(t, key)
    \/ lockBucket(t) \/ copyBucket(t) \/ unlockAll(t)

Next == \E t \in Threads : Step(t)

Spec == Init /\ [][Next]_vars

-------------------------------------------------------------------------------
Entry == [key : Keys, value : Values]

TypeOK ==
    /\ data_ \in [Buckets -> Seq(Entry)]
    /\ mtx_ \in [Buckets -> Threads \cup {NoThread}]
    /\ locks \in [Threads -> 0 .. bucket_num]
    /\ copied \in [Threads -> 0 .. bucket_num]
    /\ res \in [Threads -> [Keys -> Values \cup {NoValue}]]

\* GetMap returns what is in the table at one moment, while other threads change
\* buckets that it has copied already or has still to copy; a key
\* is in its bucket once.
SnapshotIsACut ==
    \A t \in Threads : copied[t] = bucket_num =>
      \A key \in Keys : res[t][key] = ValueFor(data_[FindBucket(key)], key)
===============================================================================
