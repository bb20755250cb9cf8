------------------------------ MODULE ThreadPool ------------------------------
(***************************************************************************)
(* playground::ThreadPool (thread_pool.h, thread_pool.cpp).                *)
(*                                                                         *)
(* One action is one critical section of mtx_: nothing in this class reads *)
(* or writes task_list_ or stop_ outside the mutex.  What happens between  *)
(* critical sections is visible: a worker that was notified competes for   *)
(* the mutex again, a task runs for as long as it likes and may itself     *)
(* call addTask, stop and abort, and stop and abort wake the workers only  *)
(* after they have released the mutex.                                     *)
(***************************************************************************)
EXTENDS Naturals, Sequences, FiniteSets

CONSTANTS
    UIntMax,    \* the largest unsigned int, which is also (unsigned)-1
    Num,        \* the argument of the constructor
    Hardware,   \* what hardware_concurrency() returns, 0 when unknown
    Clients,    \* threads outside the pool that use it
    Tasks,      \* the calls of addTask, each of them one task
    NoTask

\* The number of threads the constructor starts.
WorkerCount ==
    LET maxNum == (2 * Hardware) % (UIntMax + 1)
        num == IF Num = UIntMax THEN Hardware
               ELSE IF Hardware # 0 /\ Num > maxNum THEN maxNum
               ELSE Num
    IN  IF num = 0 THEN 1 ELSE num

Workers == 1 .. WorkerCount

ASSUME NumAssumption ==
    /\ UIntMax \in Nat
    /\ Num \in 0 .. UIntMax
    /\ Hardware \in 0 .. UIntMax

ASSUME NamesAssumption == NoTask \notin Tasks /\ Clients \cap Workers = {}

VARIABLES
    task_list_,  \* the queue of accepted tasks
    stop_,       \* the flag that ends the workers
    pc,          \* where each worker is: "check" wants mtx_, "wait" sleeps on
                 \* cv_, "run" executes a task, "exited" has left its loop
    task,        \* the task each worker executes
    future,      \* what the future returned by addTask shows
    notifying,   \* threads in stop or abort that have yet to notify the workers
    life         \* "live", then the destructor: "stopping" (stop_ is set, the
                 \* workers are not notified), "joining", "destroyed"

vars == <<task_list_, stop_, pc, task, future, notifying, life>>

Waiting  == {w \in Workers : pc[w] = "wait"}
Checking == {w \in Workers : pc[w] = "check"}
Running  == {w \in Workers : pc[w] = "run"}

Queued == {task_list_[i] : i \in DOMAIN task_list_}

-------------------------------------------------------------------------------
Init ==
    /\ task_list_ = <<>>
    /\ stop_ = FALSE
    /\ pc = [w \in Workers |-> "check"]
    /\ task = [w \in Workers |-> NoTask]
    /\ future = [t \in Tasks |-> "none"]
    /\ notifying = {}
    /\ life = "live"

\* A thread that may call the pool: a client before it destroys the pool, or a
\* task in execution, even while the destructor waits for it.
CanCall(x) ==
    /\ x \notin notifying
    /\ \/ x \in Clients /\ life = "live"
       \/ x \in Running

\* Faulty: addTask notifies only when the queue was empty before the push.
NotifyIfEmpty ==
    \/ (Waiting = {} \/ task_list_ # <<>>) /\ UNCHANGED pc
    \/ task_list_ = <<>> /\ \E w \in Waiting : pc' = [pc EXCEPT ![w] = "check"]

\* Faulty: addTask does not notify.
NotifyNone == UNCHANGED pc

NotifyOne ==
    \/ Waiting = {} /\ UNCHANGED pc
    \/ \E w \in Waiting : pc' = [pc EXCEPT ![w] = "check"]

NotifyAll ==
    pc' = [w \in Workers |-> IF pc[w] = "wait" THEN "check" ELSE pc[w]]

\* Faulty: addTask does not look at stop_.
AcceptAlways(x, t) ==
    /\ CanCall(x)
    /\ future[t] = "none"
    /\ task_list_' = Append(task_list_, t)
    /\ future' = [future EXCEPT ![t] = "pending"]
    /\ NotifyOne
    /\ UNCHANGED <<stop_, task, notifying, life>>

\* addTask, before stop: push and notify_one inside the critical section.
Accept(x, t) ==
    /\ CanCall(x)
    /\ future[t] = "none"
    /\ ~stop_
    /\ task_list_' = Append(task_list_, t)
    /\ future' = [future EXCEPT ![t] = "pending"]
    /\ NotifyOne
    /\ UNCHANGED <<stop_, task, notifying, life>>

\* addTask, after stop: the exception.
Reject(x, t) ==
    /\ CanCall(x)
    /\ future[t] = "none"
    /\ stop_
    /\ future' = [future EXCEPT ![t] = "rejected"]
    /\ UNCHANGED <<task_list_, stop_, pc, task, notifying, life>>

Stop(x) ==
    /\ CanCall(x)
    /\ stop_' = TRUE
    /\ notifying' = notifying \cup {x}
    /\ UNCHANGED <<task_list_, pc, task, future, life>>

\* The queue is emptied: the promises of the tasks in it are broken.
Abort(x) ==
    /\ CanCall(x)
    /\ task_list_' = <<>>
    /\ future' = [t \in Tasks |->
                    IF t \in Queued THEN "broken" ELSE future[t]]
    /\ stop_' = TRUE
    /\ notifying' = notifying \cup {x}
    /\ UNCHANGED <<pc, task, life>>

\* Faulty: stop and abort wake one worker.
WakeOneWorker(x) ==
    /\ x \in notifying
    /\ notifying' = notifying \ {x}
    /\ NotifyOne
    /\ UNCHANGED <<task_list_, stop_, task, future, life>>

\* The end of stop and of abort.
WakeWorkers(x) ==
    /\ x \in notifying
    /\ notifying' = notifying \ {x}
    /\ NotifyAll
    /\ UNCHANGED <<task_list_, stop_, task, future, life>>

-------------------------------------------------------------------------------
\* Faulty: the task is copied from the front and not popped.
TakeWithoutPop(w) ==
    /\ pc[w] = "check"
    /\ task_list_ # <<>>
    /\ task' = [task EXCEPT ![w] = Head(task_list_)]
    /\ pc' = [pc EXCEPT ![w] = "run"]
    /\ UNCHANGED <<task_list_, stop_, future, notifying, life>>

\* One pass of a worker through its critical section ends in one of three ways.
Take(w) ==
    /\ pc[w] = "check"
    /\ task_list_ # <<>>
    /\ task' = [task EXCEPT ![w] = Head(task_list_)]
    /\ task_list_' = Tail(task_list_)
    /\ pc' = [pc EXCEPT ![w] = "run"]
    /\ UNCHANGED <<stop_, future, notifying, life>>

Wait(w) ==
    /\ pc[w] = "check"
    /\ task_list_ = <<>> /\ ~stop_
    /\ pc' = [pc EXCEPT ![w] = "wait"]
    /\ UNCHANGED <<task_list_, stop_, task, future, notifying, life>>

\* Faulty: the worker leaves its loop as soon as stop_ is set.
ExitEarly(w) ==
    /\ pc[w] = "check"
    /\ stop_
    /\ pc' = [pc EXCEPT ![w] = "exited"]
    /\ UNCHANGED <<task_list_, stop_, task, future, notifying, life>>

Exit(w) ==
    /\ pc[w] = "check"
    /\ task_list_ = <<>> /\ stop_
    /\ pc' = [pc EXCEPT ![w] = "exited"]
    /\ UNCHANGED <<task_list_, stop_, task, future, notifying, life>>

\* The task returns or throws; either way packaged_task makes the future ready.
Finish(w) ==
    /\ pc[w] = "run"
    /\ w \notin notifying
    /\ future' = [future EXCEPT ![task[w]] = "ready"]
    /\ task' = [task EXCEPT ![w] = NoTask]
    /\ pc' = [pc EXCEPT ![w] = "check"]
    /\ UNCHANGED <<task_list_, stop_, notifying, life>>

\* A condition variable may wake a waiter for no reason.
SpuriousWake(w) ==
    /\ pc[w] = "wait"
    /\ pc' = [pc EXCEPT ![w] = "check"]
    /\ UNCHANGED <<task_list_, stop_, task, future, notifying, life>>

-------------------------------------------------------------------------------
\* ~ThreadPool: no client is inside another call.
DestroyStop ==
    /\ life = "live"
    /\ notifying \cap Clients = {}
    /\ stop_' = TRUE
    /\ life' = "stopping"
    /\ UNCHANGED <<task_list_, pc, task, future, notifying>>

\* Faulty: the destructor sets stop_ without a notification.
DestroyQuietly ==
    /\ life = "stopping"
    /\ life' = "joining"
    /\ UNCHANGED <<task_list_, stop_, pc, task, future, notifying>>

DestroyNotify ==
    /\ life = "stopping"
    /\ life' = "joining"
    /\ NotifyAll
    /\ UNCHANGED <<task_list_, stop_, task, future, notifying>>

DestroyJoin ==
    /\ life = "joining"
    /\ \A w \in Workers : pc[w] = "exited"
    /\ life' = "destroyed"
    /\ UNCHANGED <<task_list_, stop_, pc, task, future, notifying>>

\* The end of the program: nothing is left to do, which is not a deadlock.
Destroyed == life = "destroyed" /\ UNCHANGED vars

-------------------------------------------------------------------------------
Call(x) ==
    \/ \E t \in Tasks : Accept(x, t) \/ Reject(x, t)
    \/ Stop(x) \/ Abort(x) \/ WakeWorkers(x)

Pass(w) == Take(w) \/ Wait(w) \/ Exit(w)

Next ==
    \/ \E x \in Clients \cup Workers : Call(x)
    \/ \E w \in Workers : Pass(w) \/ Finish(w) \/ SpuriousWake(w)
    \/ DestroyStop \/ DestroyNotify \/ DestroyJoin \/ Destroyed

SafeSpec == Init /\ [][Next]_vars

\* The scheduler runs a thread that is not blocked, the mutex is free again
\* after every critical section, and tasks terminate: strong fairness, because
\* a task that calls stop cannot finish until stop has returned, and one that
\* called it for ever would not terminate.  No client is obliged to call
\* anything, and no waiter is woken without a reason.
Fairness ==
    /\ \A w \in Workers : WF_vars(Pass(w)) /\ SF_vars(Finish(w))
    /\ \A x \in Clients \cup Workers : WF_vars(WakeWorkers(x))
    /\ WF_vars(DestroyNotify) /\ WF_vars(DestroyJoin)

Spec == SafeSpec /\ Fairness

-------------------------------------------------------------------------------
\* The type of every variable; a worker holds a task exactly while it runs.
TypeOK ==
    /\ task_list_ \in Seq(Tasks)
    /\ stop_ \in BOOLEAN
    /\ pc \in [Workers -> {"check", "wait", "run", "exited"}]
    /\ task \in [Workers -> Tasks \cup {NoTask}]
    /\ \A w \in Workers : task[w] \in Tasks <=> pc[w] = "run"
    /\ future \in [Tasks -> {"none", "pending", "ready", "broken", "rejected"}]
    /\ notifying \subseteq Clients \cup Workers
    /\ life \in {"live", "stopping", "joining", "destroyed"}

\* No task is lost, duplicated or run twice: a future is pending exactly as long
\* as its task is in the queue, at one place, or in the hands of one worker.
Conservation ==
    /\ \A t \in Tasks :
         future[t] = "pending" <=> t \in Queued \/ \E w \in Workers : task[w] = t
    /\ \A i, j \in DOMAIN task_list_ : task_list_[i] = task_list_[j] => i = j
    /\ \A w \in Workers : task[w] \notin Queued
    /\ \A v, w \in Running : task[v] = task[w] => v = w

\* No wakeup is lost.  A worker sleeps only while every queued task has another
\* worker on its way to it, although addTask wakes one worker, which may find
\* that a worker that never slept has taken the task.
NoLostWakeup == Waiting # {} => Len(task_list_) <= Cardinality(Checking)

\* The flag set under the mutex and the notification after it leave no worker
\* asleep for ever: a thread that is still to notify stands behind each of them.
StopReachesSleepers ==
    stop_ /\ Waiting # {} => notifying # {} \/ life = "stopping"

\* When the destructor returns, every task that was ever accepted has a result
\* or was dropped by abort, and no thread of the pool is left inside it.
DrainBeforeDestroy ==
    life = "destroyed" =>
        /\ task_list_ = <<>>
        /\ \A t \in Tasks : future[t] # "pending"
        /\ notifying = {}

-------------------------------------------------------------------------------
\* What has become of a task, as its submitter could tell.
PoolStatus ==
    [t \in Tasks |->
       CASE future[t] = "none"     -> "new"
         [] future[t] = "rejected" -> "refused"
         [] future[t] = "ready"    -> "done"
         [] future[t] = "broken"   -> "dropped"
         [] OTHER -> IF t \in Queued THEN "queued" ELSE "started"]

\* The pool as its callers see it.
Pool == INSTANCE TaskPool WITH
    Capacity <- WorkerCount,
    queue <- task_list_,
    status <- PoolStatus,
    open <- ~stop_,
    alive <- life # "destroyed"

\* The safety half of the promise: order, exactly one start, capacity, no start
\* after a drop, no task left behind when the pool goes.
PoolSafety == Pool!SafeSpec

\* The whole promise: free workers start queued tasks.
PoolPromise == Pool!Spec

\* Every future that addTask returned becomes ready or broken, also when the
\* pool is stopped, aborted or destroyed meanwhile.
EveryTaskSettles ==
    \A t \in Tasks : future[t] = "pending" ~> future[t] \in {"ready", "broken"}

\* A destructor that has begun returns.
DestructorReturns == life = "stopping" ~> life = "destroyed"
===============================================================================
