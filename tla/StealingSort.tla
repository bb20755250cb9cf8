------------------------------ MODULE StealingSort ------------------------------
(***************************************************************************)
(* SorterThreadPool (sort.hpp) on the work-stealing ThreadPool             *)
(* (thread_pool.hpp of concurrent_algorithms), with the ThreadsafeQueue    *)
(* and the ThreadsGuard that the pool is made of.                          *)
(*                                                                         *)
(* DoSort gives the lower part of its list to the pool, sorts the higher   *)
(* part itself, and runs tasks of the pool while it waits for the lower    *)
(* part, so the stack of a thread mixes calls of several sorts.  Every     *)
(* queue is locked for one operation at a time; looking for a task is a    *)
(* sequence of such operations.                                            *)
(*                                                                         *)
(* local_queue_ and local_queue_index_ are static but not thread_local: a  *)
(* single pointer and a single index, written by every worker that starts, *)
(* for all threads and all pools.  They are written without an order; a    *)
(* read finds what some worker wrote.  When a pool is destroyed they stay. *)
(***************************************************************************)
EXTENDS Selections, FiniteSets

CONSTANTS
    Callers,   \* the threads that call DoSort
    Size,      \* thread_count: workers and local queues
    Lists,     \* the arguments of the calls
    Leftovers, \* what local_queue_ may hold at first: NoQueue, and Dangling when
               \* the process has destroyed another pool before
    NoQueue, Dangling, NoTask, Pending

SortAssumption ==
    /\ Size \in Nat \ {0}
    /\ Lists \subseteq Seq(Nat)
    /\ Leftovers \subseteq {NoQueue, Dangling}
    /\ (Callers \cup {NoQueue, Dangling}) \cap (0 .. Size - 1) = {}
    /\ NoTask \notin Nat /\ Pending \notin Seq(Nat)

Workers == 0 .. Size - 1
Threads == Callers \cup Workers

VARIABLES
    built,     \* queues and threads that the constructor has made
    done_,
    local_queue_, local_queue_index_,
    pool_work_queue_, queues_,
    worker,    \* where each worker is in ThreadTask
    stack,     \* the calls of DoSort on each thread
    look,      \* where each thread is in RunPendingTasks
    tried,     \* the queues it has tried to steal from
    future,    \* what the task with each number returned, or Pending
    input, sorted  \* what each caller passed to DoSort and got back

statics == <<local_queue_, local_queue_index_>>
life    == <<built, done_>>
tasks   == <<pool_work_queue_, queues_>>
search  == <<look, tried>>
calls   == <<input, sorted>>
vars == <<life, statics, tasks, worker, stack, search, future, calls>>

Init ==
    /\ local_queue_ \in Leftovers /\ local_queue_index_ = 0
    /\ built = 0 /\ done_ = FALSE
    /\ pool_work_queue_ = <<>> /\ queues_ = [w \in Workers |-> <<>>]
    /\ worker = [w \in Workers |-> "off"]
    /\ stack = [t \in Threads |-> <<>>]
    /\ look = [t \in Threads |-> "no"] /\ tried = [t \in Threads |-> 0]
    /\ future = <<>>
    /\ input = [t \in Callers |-> Pending] /\ sorted = [t \in Callers |-> Pending]

-------------------------------------------------------------------------------
\* The constructor makes a queue and starts its worker, which writes the two
\* static variables.
construct ==
    /\ built < Size
    /\ built' = built + 1
    /\ worker' = [worker EXCEPT ![built] = "start"]
    /\ UNCHANGED <<done_, statics, tasks, stack, search, future, calls>>

setIndex(w) ==
    /\ worker[w] = "start"
    /\ local_queue_index_' = w
    /\ worker' = [worker EXCEPT ![w] = "index"]
    /\ UNCHANGED <<life, local_queue_, tasks, stack, search, future, calls>>

setQueue(w) ==
    /\ worker[w] = "index"
    /\ local_queue_' = w
    /\ worker' = [worker EXCEPT ![w] = "run"]
    /\ UNCHANGED <<life, local_queue_index_, tasks, stack, search, future, calls>>

leave(w) ==
    /\ worker[w] = "run" /\ stack[w] = <<>> /\ look[w] = "no"
    /\ done_
    /\ worker' = [worker EXCEPT ![w] = "left"]
    /\ UNCHANGED <<life, statics, tasks, stack, search, future, calls>>

-------------------------------------------------------------------------------
\* MoveMedianOfThree2Begin.
Swapped(s, i, j) == [s EXCEPT ![i] = s[j], ![j] = s[i]]
InOrder(s, i, j) == IF s[i] > s[j] THEN Swapped(s, i, j) ELSE s

MedianFirst(s) ==
    LET last == Len(s)
        mid  == Len(s) \div 2 + 1
    IN  IF last < 3 THEN s
        ELSE Swapped(InOrder(InOrder(InOrder(s, 1, mid), 1, last), mid, last),
                     1, mid)

\* A call of DoSort that has not begun; task is what it was queued as.
Call(task, list) == [task |-> task, list |-> list, higher |-> Pending,
                     lower |-> NoTask, at |-> "sort"]

Top(t) == stack[t][Len(stack[t])]
Below(t) == SubSeq(stack[t], 1, Len(stack[t]) - 1)
In(t, at) == stack[t] # <<>> /\ look[t] = "no" /\ Top(t).at = at

DoSort(t, list) ==
    /\ t \in Callers /\ input[t] = Pending /\ built = Size /\ ~done_
    /\ input' = [input EXCEPT ![t] = list]
    /\ stack' = [stack EXCEPT ![t] = <<Call(NoTask, list)>>]
    /\ UNCHANGED <<life, statics, tasks, worker, search, future, sorted>>

\* local_queue_ may be used.
LocalAlive == local_queue_ # Dangling

\* AddTask, by whichever thread: to the queue that local_queue_ points to.
AddTask(task) ==
    /\ LocalAlive
    /\ IF local_queue_ # NoQueue
       THEN /\ queues_' = [queues_ EXCEPT ![local_queue_] = Append(@, task)]
            /\ UNCHANGED pool_work_queue_
       ELSE /\ pool_work_queue_' = Append(pool_work_queue_, task)
            /\ UNCHANGED queues_

\* The first half of DoSort: the lower part becomes a task, and the call for the
\* higher part begins.  partition may leave both in any order; it is kept here.
divide(t) ==
    /\ In(t, "sort") /\ Len(Top(t).list) >= 2
    /\ LET list   == MedianFirst(Top(t).list)
           point  == Head(list)
           low    == {v \in Nat : v < point}
           high   == {v \in Nat : v >= point}
           n      == Len(future) + 1
           wait   == [Top(t) EXCEPT !.list = <<point>>, !.lower = n, !.at = "wait"]
       IN  /\ AddTask([task |-> n, list |-> Those(Tail(list), low)])
           /\ future' = Append(future, Pending)
           /\ stack' = [stack EXCEPT ![t] =
                Below(t) \o <<wait, Call(NoTask, Those(Tail(list), high))>>]
    /\ UNCHANGED <<life, statics, worker, search, calls>>

\* A call returns: to the future, to the call it belongs to, or to the caller.
Return(t, list) ==
    IF Top(t).task # NoTask
    THEN /\ future' = [future EXCEPT ![Top(t).task] = list]
         /\ stack' = [stack EXCEPT ![t] = Below(t)]
         /\ UNCHANGED sorted
    ELSE IF Len(stack[t]) > 1
    THEN /\ stack' = [stack EXCEPT ![t] =
              [Below(t) EXCEPT ![Len(stack[t]) - 1].higher = list]]
         /\ UNCHANGED <<future, sorted>>
    ELSE /\ sorted' = [sorted EXCEPT ![t] = list]
         /\ stack' = [stack EXCEPT ![t] = <<>>]
         /\ UNCHANGED future

short(t) ==
    /\ In(t, "sort") /\ Len(Top(t).list) < 2
    /\ Return(t, Top(t).list)
    /\ UNCHANGED <<life, statics, tasks, worker, search, input>>

\* Faulty: the result is taken whether it is there or not.
ReadyAlways(t) == In(t, "wait")

Ready(t) == In(t, "wait") /\ future[Top(t).lower] # Pending

collect(t) ==
    /\ Ready(t)
    /\ LET lower == future[Top(t).lower]
       IN  Return(t, (IF lower = Pending THEN <<>> ELSE lower)
                     \o Top(t).list \o Top(t).higher)
    /\ UNCHANGED <<life, statics, tasks, worker, search, input>>

-------------------------------------------------------------------------------
\* RunPendingTasks, by a worker that has no call, or by a call that waits.
Search(t, where, n) ==
    /\ look' = [look EXCEPT ![t] = where]
    /\ tried' = [tried EXCEPT ![t] = n]

Idles(t) ==
    \/ t \in Workers /\ worker[t] = "run" /\ stack[t] = <<>> /\ ~done_
    \/ In(t, "wait") /\ ~Ready(t)

RunPendingTasks(t) ==
    /\ look[t] = "no" /\ Idles(t)
    /\ Search(t, "local", 0)
    /\ UNCHANGED <<life, statics, tasks, worker, stack, future, calls>>

Run(t, task) ==
    /\ stack' = [stack EXCEPT ![t] = Append(@, Call(task.task, task.list))]
    /\ Search(t, "no", 0)

popLocal(t) ==
    /\ look[t] = "local" /\ LocalAlive
    /\ IF local_queue_ # NoQueue /\ queues_[local_queue_] # <<>>
       THEN /\ Run(t, Head(queues_[local_queue_]))
            /\ queues_' = [queues_ EXCEPT ![local_queue_] = Tail(@)]
       ELSE Search(t, "pool", 0) /\ UNCHANGED <<stack, queues_>>
    /\ UNCHANGED <<life, statics, pool_work_queue_, worker, future, calls>>

popPool(t) ==
    /\ look[t] = "pool"
    /\ IF pool_work_queue_ # <<>>
       THEN /\ Run(t, Head(pool_work_queue_))
            /\ pool_work_queue_' = Tail(pool_work_queue_)
       ELSE Search(t, "steal", 0) /\ UNCHANGED <<stack, pool_work_queue_>>
    /\ UNCHANGED <<life, statics, queues_, worker, future, calls>>

\* Faulty: the stolen task stays in the queue.
LeftBySteal(q) == q

LeftAfterSteal(q) == SubSeq(q, 1, Len(q) - 1)

\* Faulty: the queue that the index names is left out.
TriedOthers(t) == tried[t] = built - 1

TriedAll(t) == tried[t] = built

\* The index is read anew for every queue, and another worker may change it.
steal(t) ==
    /\ look[t] = "steal"
    /\ LET victim == (local_queue_index_ + 1 + tried[t]) % built
           q == queues_[victim]
       IN  IF TriedAll(t)
           THEN Search(t, "no", 0) /\ UNCHANGED <<stack, queues_>>
           ELSE IF q = <<>>
           THEN Search(t, "steal", tried[t] + 1) /\ UNCHANGED <<stack, queues_>>
           ELSE /\ Run(t, q[Len(q)])
                /\ queues_' = [queues_ EXCEPT ![victim] = LeftAfterSteal(q)]
    /\ UNCHANGED <<life, statics, pool_work_queue_, worker, future, calls>>

-------------------------------------------------------------------------------
\* The destructor, once every call has returned; the guard joins the workers.
Returned == \A t \in Callers : sorted[t] # Pending

destroy ==
    /\ built = Size /\ Returned /\ ~done_
    /\ done_' = TRUE
    /\ UNCHANGED <<built, statics, tasks, worker, stack, search, future, calls>>

Joined == done_ /\ \A w \in Workers : worker[w] = "left"

Finished == Joined /\ UNCHANGED vars

Step(t) ==
    \/ divide(t) \/ short(t) \/ collect(t)
    \/ RunPendingTasks(t) \/ popLocal(t) \/ popPool(t) \/ steal(t)

Start(w) == setIndex(w) \/ setQueue(w) \/ leave(w)

Next ==
    \/ construct \/ destroy \/ Finished
    \/ \E w \in Workers : Start(w)
    \/ \E t \in Callers, list \in Lists : DoSort(t, list)
    \/ \E t \in Threads : Step(t)

\* Every thread runs, the constructor and the destructor too.
Fairness ==
    /\ WF_vars(construct)
    /\ \A w \in Workers : WF_vars(Start(w))
    /\ \A t \in Threads : WF_vars(Step(t))

Spec == Init /\ [][Next]_vars /\ Fairness

-------------------------------------------------------------------------------
Tasks == [task : Nat, list : Seq(Nat)]
Calls == [task : Nat \cup {NoTask}, list : Seq(Nat), higher : Seq(Nat) \cup {Pending},
          lower : Nat \cup {NoTask}, at : {"sort", "wait"}]

TypeOK ==
    /\ built \in 0 .. Size /\ done_ \in BOOLEAN
    /\ local_queue_ \in Workers \cup {NoQueue, Dangling}
    /\ local_queue_index_ \in Workers
    /\ pool_work_queue_ \in Seq(Tasks) /\ queues_ \in [Workers -> Seq(Tasks)]
    /\ worker \in [Workers -> {"off", "start", "index", "run", "left"}]
    /\ stack \in [Threads -> Seq(Calls)]
    /\ look \in [Threads -> {"no", "local", "pool", "steal"}]
    /\ tried \in [Threads -> Nat]
    /\ future \in Seq(Seq(Nat) \cup {Pending})
    /\ input \in [Callers -> Seq(Nat) \cup {Pending}]
    /\ sorted \in [Callers -> Seq(Nat) \cup {Pending}]

Count(q, n) == Cardinality({i \in DOMAIN q : q[i].task = n})

\* Every task is in one place: in one queue, on one stack, or done.
TasksAccounted ==
    \A n \in DOMAIN future :
      Count(pool_work_queue_, n)
        + Cardinality({w \in Workers : Count(queues_[w], n) = 1})
        + Cardinality({t \in Threads : Count(stack[t], n) = 1})
        + (IF future[n] # Pending THEN 1 ELSE 0) = 1

IsSortOf(r, s) ==
    /\ Len(r) = Len(s)
    /\ \A i \in 1 .. Len(r) - 1 : r[i] <= r[i + 1]
    /\ \A v \in {s[i] : i \in DOMAIN s} :
         Cardinality({i \in DOMAIN r : r[i] = v})
           = Cardinality({i \in DOMAIN s : s[i] = v})

\* What a call returns is its list, sorted, and when all calls have returned no
\* task of theirs is left, so that the destructor drops none.
SortedAndQuiet ==
    /\ \A t \in Callers : sorted[t] # Pending => IsSortOf(sorted[t], input[t])
    /\ (Returned /\ \A t \in Callers : stack[t] = <<>>) =>
         /\ pool_work_queue_ = <<>>
         /\ \A w \in Workers : queues_[w] = <<>> /\ stack[w] = <<>>

\* A call returns, although every thread that waits may be buried under the task
\* of another one, and also before any worker has started.
SortReturns == \A t \in Callers : input[t] # Pending ~> sorted[t] # Pending

\* The queue that AddTask and RunPendingTasks use is one of the living pool; the
\* tests create pools one after the other (test_sort.cpp:26, 35).
LocalQueueAlive ==
    \A t \in Threads :
      (look[t] = "local" \/ (In(t, "sort") /\ Len(Top(t).list) >= 2)) => LocalAlive
===============================================================================
