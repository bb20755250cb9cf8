--------------------------- MODULE InterruptibleWait ---------------------------
(***************************************************************************)
(* An InterruptiableThread that runs a function which waits, again and     *)
(* again, with one of the two InterruptibleWait; a thread that interrupts  *)
(* it; and a thread that makes the predicate true and notifies.  The       *)
(* mutexes and the condition variables are those of the standard library:  *)
(* a condition variable releases its lock and sleeps in one step, may wake *)
(* for no reason, and takes the lock again afterwards.                     *)
(***************************************************************************)
CONSTANTS Free, Waiter, Interrupter, Notifier

OwnersDiffer ==
    /\ Free \notin {Waiter, Interrupter, Notifier}
    /\ Waiter # Interrupter /\ Waiter # Notifier

VARIABLES
    variable,          \* the condition variable: "any", or "plain" with predicate
    flag_,
    registered,        \* cv_any_ or cv_ points to it
    set_clear_mutex_,
    lock,              \* the mutex of the caller
    pred,
    pc,                \* of the thread that waits
    interrupt, notify  \* where the other two are

owner   == <<set_clear_mutex_, lock>>
vars == <<variable, flag_, registered, owner, pred, pc, interrupt, notify>>

Init ==
    /\ variable \in {"any", "plain"}
    /\ flag_ = FALSE /\ registered = FALSE
    /\ set_clear_mutex_ = Free /\ lock = Free
    /\ pred = FALSE
    /\ pc = "out" /\ interrupt = "idle" /\ notify = "idle"

others == <<variable, flag_, interrupt, notify>>

-------------------------------------------------------------------------------
\* The function locks its mutex and waits.
enter ==
    /\ pc = "out" /\ lock = Free
    /\ lock' = Waiter
    /\ pc' = IF variable = "any" THEN "register" ELSE "first point"
    /\ UNCHANGED <<others, registered, set_clear_mutex_, pred>>

\* The constructor of CustomLock, or SetConditionVariable.
register ==
    /\ pc = "register" /\ set_clear_mutex_ = Free
    /\ registered' = TRUE
    /\ IF variable = "any" THEN set_clear_mutex_' = Waiter /\ pc' = "first point"
       ELSE UNCHANGED set_clear_mutex_ /\ pc' = "test"
    /\ UNCHANGED <<others, lock, pred>>

\* InterruptPoint before the wait.
firstPoint ==
    /\ pc = "first point"
    /\ pc' = IF variable = "any" THEN IF flag_ THEN "throw" ELSE "wait"
             ELSE IF flag_ THEN "gone" ELSE "register"
    /\ lock' = IF pc' = "gone" THEN Free ELSE lock
    /\ UNCHANGED <<others, registered, set_clear_mutex_, pred>>

\* The loop with the predicate tests the flag and the predicate.
test ==
    /\ pc = "test"
    /\ pc' = IF flag_ \/ pred THEN "last point" ELSE "wait"
    /\ UNCHANGED <<others, registered, owner, pred>>

\* CustomLock releases both mutexes; the plain variable only that of the caller.
wait ==
    /\ pc = "wait"
    /\ lock' = Free
    /\ set_clear_mutex_' = IF variable = "any" THEN Free ELSE set_clear_mutex_
    /\ pc' = "asleep"
    /\ UNCHANGED <<others, registered, pred>>

spurious ==
    /\ pc = "asleep"
    /\ pc' = "awake"
    /\ UNCHANGED <<others, registered, owner, pred>>

\* Faulty: the wait has no limit.
timeoutNever ==
    /\ pc = "asleep" /\ variable = "plain" /\ notify # "idle"
    /\ pc' = "awake"
    /\ UNCHANGED <<others, registered, owner, pred>>

\* wait_for returns after a millisecond.
timeout ==
    /\ pc = "asleep" /\ variable = "plain"
    /\ pc' = "awake"
    /\ UNCHANGED <<others, registered, owner, pred>>

\* CustomLock takes both mutexes again, by std::lock.
relock ==
    /\ pc = "awake" /\ lock = Free
    /\ lock' = Waiter
    /\ IF variable = "any"
       THEN /\ set_clear_mutex_ = Free
            /\ set_clear_mutex_' = Waiter
            /\ pc' = "last point"
       ELSE pc' = "test" /\ UNCHANGED set_clear_mutex_
    /\ UNCHANGED <<others, registered, pred>>

lastPoint ==
    /\ pc = "last point"
    /\ pc' = IF flag_ THEN "throw" ELSE "return"
    /\ UNCHANGED <<others, registered, owner, pred>>

\* The destructor of CustomLock, which holds the mutex, or of the guard, which
\* takes it; then the function unlocks its own mutex, and the exception ends it.
leave ==
    /\ pc \in {"throw", "return"}
    /\ variable = "plain" => set_clear_mutex_ = Free
    /\ registered' = FALSE
    /\ set_clear_mutex_' = Free
    /\ lock' = Free
    /\ pred' = FALSE
    /\ pc' = IF pc = "throw" THEN "gone" ELSE "out"
    /\ UNCHANGED others

-------------------------------------------------------------------------------
\* Interrupt: the flag first, then the notification under the mutex.
Interrupt ==
    /\ interrupt = "idle"
    /\ flag_' = TRUE
    /\ interrupt' = "lock"
    /\ UNCHANGED <<variable, registered, owner, pred, pc, notify>>

lockToNotify ==
    /\ interrupt = "lock" /\ set_clear_mutex_ = Free
    /\ set_clear_mutex_' = Interrupter
    /\ interrupt' = "notify"
    /\ UNCHANGED <<variable, flag_, registered, lock, pred, pc, notify>>

Wake == pc' = IF pc = "asleep" THEN "awake" ELSE pc

notifyRegistered ==
    /\ interrupt = "notify"
    /\ IF registered THEN Wake ELSE UNCHANGED pc
    /\ set_clear_mutex_' = Free
    /\ interrupt' = "done"
    /\ UNCHANGED <<variable, flag_, registered, lock, pred, notify>>

\* Somebody else makes the predicate true.
change ==
    /\ notify = "idle" /\ lock = Free
    /\ lock' = Notifier
    /\ pred' = TRUE
    /\ notify' = "locked"
    /\ UNCHANGED <<variable, flag_, registered, set_clear_mutex_, pc, interrupt>>

announce ==
    /\ notify = "locked"
    /\ lock' = Free
    /\ Wake
    /\ notify' = "idle"
    /\ UNCHANGED <<variable, flag_, registered, set_clear_mutex_, pred, interrupt>>

Run == \/ register \/ firstPoint \/ test \/ wait \/ lastPoint \/ leave

Next ==
    \/ enter \/ Run \/ spurious \/ timeout \/ relock
    \/ Interrupt \/ lockToNotify \/ notifyRegistered
    \/ change \/ announce

\* Every thread runs, wait_for ends, and whoever waits for a mutex that is free
\* again and again gets it.  Nobody need notify, interrupt or wait.
Fairness ==
    /\ WF_vars(Run) /\ WF_vars(timeout) /\ SF_vars(relock)
    /\ WF_vars(lockToNotify) /\ WF_vars(notifyRegistered) /\ WF_vars(announce)

Spec == Init /\ [][Next]_vars /\ Fairness

-------------------------------------------------------------------------------
\* A thread that waits when it is interrupted, or begins to wait around that
\* moment, does not go on to wait.
InterruptEndsWait == (flag_ /\ pc # "gone") ~> pc \in {"out", "gone"}
===============================================================================
