--------------------------------- MODULE RWLock ---------------------------------
(***************************************************************************)
(* rw_lock.  lock_cnt_ counts what a thread has locked, so that a thread   *)
(* that writes may lock again; a thread that only reads is not counted in  *)
(* lock_read, but unlock_read takes one off, and the count wraps.  Every   *)
(* operation is one step under mtx_, which a wait gives up.                *)
(***************************************************************************)
EXTENDS Naturals, FiniteSets

CONSTANTS
    Threads,
    UIntMod,  \* the counters are unsigned: 2^32
    MaxHeld   \* bound: locks that a thread holds at a time

RWLockAssumption ==
    /\ UIntMod \in Nat \ {0, 1}
    /\ MaxHeld \in Nat /\ MaxHeld < UIntMod

VARIABLES
    writing_, readers_, writer_waiting_,
    lock_cnt_,       \* of each thread
    waits,           \* the condition each thread waits for, or has been woken from
    reads, writes,   \* the locks each thread holds
    wrapped          \* history: readers_ has gone from its maximum to zero

counts == <<writing_, readers_, writer_waiting_, lock_cnt_, wrapped>>
held   == <<reads, writes>>
vars   == <<counts, waits, held>>

Init ==
    /\ writing_ = FALSE /\ readers_ = 0 /\ writer_waiting_ = 0
    /\ lock_cnt_ = [t \in Threads |-> 0]
    /\ waits = [t \in Threads |-> "no"]
    /\ reads = [t \in Threads |-> 0] /\ writes = [t \in Threads |-> 0]
    /\ wrapped = FALSE

Inc(n) == (n + 1) % UIntMod
Dec(n) == (n + UIntMod - 1) % UIntMod

MayRead  == ~writing_ /\ writer_waiting_ = 0

\* Faulty: readers are not waited for.
MayWriteBesideReaders == ~writing_

MayWrite == ~writing_ /\ readers_ = 0

\* The thread runs, and may still lock.
Calls(t) == waits[t] = "no"
Locks(t) == Calls(t) /\ reads[t] + writes[t] < MaxHeld

Waits(t, condition) == waits' = [waits EXCEPT ![t] = condition]

-------------------------------------------------------------------------------
\* Since unlock_read seldom takes one off, the number of calls decides when
\* readers_ wraps, and not how many threads read at a time.
Reads(t) ==
    /\ readers_' = Inc(readers_)
    /\ wrapped' = (wrapped \/ readers_' = 0)
    /\ reads' = [reads EXCEPT ![t] = @ + 1]
    /\ UNCHANGED <<writing_, writer_waiting_, writes>>

\* A thread with a count does not wait.
lockReadAgain(t) ==
    /\ Locks(t) /\ lock_cnt_[t] > 0
    /\ lock_cnt_' = [lock_cnt_ EXCEPT ![t] = Inc(@)]
    /\ Reads(t)
    /\ UNCHANGED waits

lock_read(t) ==
    /\ Locks(t) /\ lock_cnt_[t] = 0
    /\ IF MayRead THEN Reads(t) /\ UNCHANGED waits
       ELSE Waits(t, "rd_cond_") /\ UNCHANGED <<writing_, readers_, writer_waiting_, wrapped, held>>
    /\ UNCHANGED lock_cnt_

wokenToRead(t) ==
    /\ waits[t] = "woken to read"
    /\ IF MayRead THEN Reads(t) /\ Waits(t, "no")
       ELSE Waits(t, "rd_cond_") /\ UNCHANGED <<writing_, readers_, writer_waiting_, wrapped, held>>
    /\ UNCHANGED lock_cnt_

\* notify_one on wt_cond_, and notify_all on rd_cond_.
NotifyWriter ==
    LET sleeping == {t \in Threads : waits[t] = "wt_cond_"}
    IN  IF sleeping = {} THEN UNCHANGED waits
        ELSE \E t \in sleeping : Waits(t, "woken to write")

NotifyReaders ==
    waits' = [t \in Threads |-> IF waits[t] = "rd_cond_" THEN "woken to read"
                                ELSE waits[t]]

\* readers_ goes down only when the count of the thread reaches zero.
unlock_read(t) ==
    /\ Calls(t) /\ reads[t] > 0
    /\ reads' = [reads EXCEPT ![t] = @ - 1]
    /\ lock_cnt_' = [lock_cnt_ EXCEPT ![t] = Dec(@)]
    /\ readers_' = IF lock_cnt_'[t] = 0 THEN Dec(readers_) ELSE readers_
    /\ IF lock_cnt_'[t] = 0 /\ readers_' = 0 /\ writer_waiting_ > 0
       THEN NotifyWriter ELSE UNCHANGED waits
    /\ UNCHANGED <<writing_, writer_waiting_, writes, wrapped>>

-------------------------------------------------------------------------------
Writes(t) ==
    /\ writing_' = TRUE
    /\ lock_cnt_' = [lock_cnt_ EXCEPT ![t] = Inc(@)]
    /\ writes' = [writes EXCEPT ![t] = @ + 1]
    /\ UNCHANGED <<readers_, reads, wrapped>>

lockWriteAgain(t) ==
    /\ Locks(t) /\ lock_cnt_[t] # 0 /\ writing_
    /\ Writes(t)
    /\ UNCHANGED <<writer_waiting_, waits>>

lock_write(t) ==
    /\ Locks(t) /\ (lock_cnt_[t] = 0 \/ ~writing_)
    /\ IF MayWrite THEN Writes(t) /\ UNCHANGED <<writer_waiting_, waits>>
       ELSE /\ writer_waiting_' = Inc(writer_waiting_)
            /\ Waits(t, "wt_cond_")
            /\ UNCHANGED <<writing_, readers_, lock_cnt_, wrapped, held>>

wokenToWrite(t) ==
    /\ waits[t] = "woken to write"
    /\ IF MayWrite
       THEN /\ Writes(t)
            /\ writer_waiting_' = Dec(writer_waiting_)
            /\ Waits(t, "no")
       ELSE Waits(t, "wt_cond_") /\ UNCHANGED <<counts, held>>

unlock_write(t) ==
    /\ Calls(t) /\ writes[t] > 0
    /\ writes' = [writes EXCEPT ![t] = @ - 1]
    /\ lock_cnt_' = [lock_cnt_ EXCEPT ![t] = Dec(@)]
    /\ IF lock_cnt_'[t] = 0
       THEN /\ writing_' = FALSE
            /\ IF writer_waiting_ > 0 THEN NotifyWriter ELSE NotifyReaders
       ELSE UNCHANGED <<writing_, waits>>
    /\ UNCHANGED <<readers_, writer_waiting_, reads, wrapped>>

\* Both conditions may wake a thread for no reason.
spurious(t) ==
    /\ waits[t] \in {"rd_cond_", "wt_cond_"}
    /\ Waits(t, IF waits[t] = "rd_cond_" THEN "woken to read" ELSE "woken to write")
    /\ UNCHANGED <<counts, held>>

Step(t) ==
    \/ lockReadAgain(t) \/ lock_read(t) \/ wokenToRead(t) \/ unlock_read(t)
    \/ lockWriteAgain(t) \/ lock_write(t) \/ wokenToWrite(t) \/ unlock_write(t)
    \/ spurious(t)

Next == \E t \in Threads : Step(t)

Spec == Init /\ [][Next]_vars

-------------------------------------------------------------------------------
Count == 0 .. UIntMod - 1

TypeOK ==
    /\ writing_ \in BOOLEAN
    /\ readers_ \in Count /\ writer_waiting_ \in Count
    /\ lock_cnt_ \in [Threads -> Count]
    /\ waits \in [Threads -> {"no", "rd_cond_", "wt_cond_", "woken to read",
                              "woken to write"}]
    /\ reads \in [Threads -> Nat] /\ writes \in [Threads -> Nat]
    /\ wrapped \in BOOLEAN

\* While a thread writes no other thread reads or writes, although the count of a
\* thread that has finished reading looks like that of one that holds the lock;
\* but only until 2^32 readings, which readers_ keeps long after they have ended,
\* have brought it back to zero.
WritersAlone ==
    \A t, u \in Threads :
      t # u /\ writes[t] > 0 => wrapped \/ (reads[u] = 0 /\ writes[u] = 0)
===============================================================================
