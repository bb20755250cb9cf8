# A verification of playground_cpp

`playground_cpp` is a library of concurrency utilities (`include/playground/threading`,
`src/threading`), a set of experiments with parallel algorithms (`experiments`) and a
sketch of a Qt event loop (`examples`). This directory holds TLA+ models of the parts
where threads meet, the TLC runs that check them on small instances, and proofs, checked
by TLAPS, that hold for every number of threads, tasks, lines, mutexes, levels, nodes and
nested loops.

Paths below are relative to the repository (`src/` in `PROJECT.json`).
`PROJECT.json` maps every definition that models code to its lines.

## The system

The components do not call each other, except that the parallel algorithms and the
work-stealing pool use `ThreadsGuard` and `ThreadsafeQueue`. Each is an object that
several threads share.

| Component | State | Operations | What is hard | What makes it correct |
|---|---|---|---|---|
| `ThreadPool` (`thread_pool.h`, `.cpp`) | `task_list_`, `stop_`, a mutex, a condition variable, futures | `addTask`, `stop`, `abort`, destructor, the worker loop | wakeups, shutdown while tasks run and call the pool, dropped tasks | no task lost or run twice, every future settles, the destructor drains and returns |
| `CAsyncLog` (`async_log.h`, `.cpp`) | a queue under a mutex; file, sizes, level and flags without one | `init`, `uninit`, `setLevel`, `output`, `outputBinary`, the writer thread | exit flag without the mutex, FATAL lines written behind the writer's back, rolling, failing files | order, nothing dropped, bounded files, flush at exit |
| `HierarchicalMutex` | owner, level and saved level of each mutex; one value per thread | `lock`, `try_lock`, `unlock` | nested locks in any order, exceptions, wrong unlocks | no deadlock; the value of a thread is that of what it holds |
| `LockfreeStackReferenceCounting` | `head_` with an external count, nodes with an internal one | `Push`, `Pop` | ABA, who deletes a node, counters that wrap | linearizable, no use after deletion, no leak |
| `LockfreeStackHazardPointer` | `head_`, a table of hazard pointers with an owner each, a reclaim list | `Push`, `Pop`, `HpOwner` | a hazard pointer that is set but not yet visible; threads that begin and end | as above; no node guarded by a hazard pointer is deleted; a slot for every thread |
| `LockfreeStackDeleteList` | `head_`, `thread_in_loop_`, a delete list | `Push`, `Pop` | the window between the two reads of the counter | as above |
| `LockfreeStackSharedPtr` | `head_` as an atomic `shared_ptr` | `Push`, `Pop` | `next_` is cleared while others read it | as above |
| `ThreadsafeList` | nodes, each with a mutex | `PushFront`, `ForEach`, `FindFirstIf`, `RemoveIf` | hand-over-hand locking, deletion under a traversal | every traversal sees what was there throughout |
| `ThreadsafeQueue` | a list with a head and a tail mutex | `push`, `try_pop`, `empty`, waiting pops | notification without the head mutex | FIFO, no element lost |
| `ThreadsafeLookupTable` | buckets with shared mutexes | `ValueFor`, `AddOrUpdate`, `Remove`, `GetMap` | the snapshot over all buckets | `GetMap` returns one state |
| `ThreadsafeStack` | a `std::stack` and a mutex | `Push`, `Pop`, `Size` | nothing interleaves | |
| `InterruptiableThread` | a flag, two condition variable pointers, a mutex | `Interrupt`, `InterruptibleWait`, `InterruptPoint` | interrupt between check and wait, life time of the flag | an interrupted wait ends |
| `rw_lock` | counts of readers and writers, counts per thread | `lock_*`, `unlock_*` | readers are not recorded, counts wrap | a writer is alone |
| Parallel algorithms | promises, futures, a done flag | `Find`, `FindRecursive`, `ForEach`, `PartialSum`, `ParallelAccumulate` | races for one promise, exceptions in one block | the answer of the sequential algorithm |
| `SorterThreadPool` | the lists of its calls | `DoSort` | threads that wait run each other's tasks | a sorted permutation, every call returns |
| Work-stealing pool | a pool queue and local queues, two static variables | `AddTask`, `RunPendingTasks`, the workers, destructor | `local_queue_` is one variable for all threads and pools | no task lost or run twice |
| Event loop sketch | a stack of loops, a queue and timers per thread | `post`, `exec`, `exit`, `processEvents`, timers | nested loops ended by other threads through a pointer to a local variable | `exit` finds its loop and the loop ends, timers are served |

`PROJECT.json` lists all components, with the reason where one is not modelled, and
under `hazards` what can go wrong in each at its line, with the properties that would
catch it.

## Plan

Written, in the order of how much depends on them:

1. `TaskPool`, `ThreadPool`, `ThreadPoolProofs`
2. `AsyncLog`, `AsyncLogProofs`
3. `HierarchicalMutex`, `MutexBeside`, `HierarchicalMutexProofs`
4. `StackNodes`, `AbstractStack`, `LinkedLists`, `LinkedListProofs`, `RefCountStack`,
   `RefCountStackProofs`
5. `HazardSlots`, `HazardPointerStack`, `HazardPointerStackProofs`
6. `DeleteListStack`, `DeleteListBeside`, `DeleteListStackProofs`
7. `EventLoop`
8. `StealingSort`: the sort, the work-stealing pool and its queues together
9. `ParallelAlgorithms`
10. `ThreadsafeList`, `SharedPtrStack`, `LookupTable`, `InterruptibleWait`, `RWLock`
11. `SortOnPool`, `Components`, `ComponentsProofs`: proofs about 7, 9 and 10; those about 8
    are in `ThreadPoolProofs`
12. `MCStackAndMutex` and `MCStacks`, which check 3 to 6, `MCComponents`, which checks 7 to
    10, and `MCFind` and `MCEventLoop`

Worth adding:

13. `ThreadsafeQueue` with its two mutexes as steps of their own, under the FIFO queue that
    `StealingSort` takes it for.

## The modules

### TaskPool and ThreadPool

`TaskPool` is the promise to a submitter: tasks start in the order of acceptance, at most
`Capacity` run at a time, each accepted task runs once unless it is dropped before it
starts, and the pool disappears only when nothing is queued or running.

`ThreadPool` has the variables of the class (`task_list_`, `stop_`), a place for every
worker (`pc`, `task`), what each future shows, and the callers that are between the
critical section of `stop` or `abort` and their `notify_all` (`notifying`). Because
`task_list_` and `stop_` are only touched under `mtx_`, one action is one critical
section. The wait with a predicate is split: a worker that finds nothing waits and is
then only moved back to "check" by a notification or spuriously.

| Code | Actions |
|---|---|
| `addTask` (`thread_pool.h:32`) | `Accept`, `Reject` |
| `stop`, `abort` (`thread_pool.cpp:51-67`) | `Stop`, `Abort`, then `WakeWorkers` |
| worker loop (`thread_pool.cpp:23-40`) | `Take`, `Wait`, `Exit`, then `Finish`; `SpuriousWake` |
| destructor (`thread_pool.cpp:44-49`) | `DestroyStop`, `DestroyNotify`, `DestroyJoin` |
| constructor (`thread_pool.cpp:6-19`) | `WorkerCount` |

A caller is a client before the destructor runs, or a task in execution, which may call
`addTask`, `stop` and `abort` also while the destructor waits for it. The constructor's
arithmetic is unsigned (`UIntMax`).

### AsyncLog

Steps that the mutex does not protect are steps of their own: `uninit` (the flag),
`uninitNotify`, `uninitJoin`; a FATAL line is `outputFilter`, `fatalCheck`, `fatalCreate`,
`fatalWrite`, `crash`; the writer is `writerStart`, `writerRoll`, `writerCreate`, then
`writerTake` or `writerTest` and `writerWait`, then `writerPrint` and `writerWrite`.
`writerTest` and `writerWait` are apart because `uninit` sets `m_bExit` and notifies
without the mutex; the writer holds the mutex between them, so `outputPush` cannot happen
there.

File names are the second in which a file is opened; opening an existing name empties it
(`fopen` with `"w+"`). Any creation or write may fail. A write with no open file gives
`fwrite` a null pointer and ends the process. The text of a line is abstracted to its
size; `outputBinary` is a line that no level filters (`BINARY`). `init` is called again
only after `uninit` has returned: another call would assign to a joinable `std::thread`.
Two calls of stdio on one `FILE` that overlap in time are not modelled: every `fopen`,
`fclose` and `fwrite` is one step.

### HierarchicalMutex

`m_` is the owner of the inner mutex. `lock` is the check, `acquire` the return of
`m_.lock()`, `update` the assignment of the two values; `unlock` restores the value and
`release` unlocks `m_`. `try_lock` may fail although the mutex is free, as the standard
allows. An exception changes nothing (`refuse`).

`unlock` is the code alone, which compares the level of the mutex with the value of the
calling thread and knows nothing of owners. Who calls it is a matter of the callers and
stands in `Next` (`CallsUnlock`): a thread calls `unlock` on any mutex it holds, in any
order, and on those in `Misused` also without holding them. The check cannot tell a mutex
from another of its level, nor one of level `ULONG_MAX` from no mutex at all
(`Distinguishable` says that neither is the case). So the passing run and the theorems make
a condition on callers, `CallersAssumption`: the mutexes in `Misused` are distinguishable.
Without it the properties fail, and `mutex_foreign_unlock` shows how.

### Selections

`Those` is the part of a sequence that lies in a set, in the same order: what
`std::partition` leaves on each side of the pivot in `StealingSort`, and the lines of one
thread in `AsyncLog`.

### LinkedLists

What the stacks have in common: `Walk` follows a pointer from node to node, `From` is the
set of nodes met on the way, `Line` the sequence, `Contents` what is in them. The stack of
values in each refinement is `Contents(InOrder, data_)`.

### StackNodes, AbstractStack and RefCountStack

`StackNodes` declares what the three stacks have in common that delete nodes themselves:
threads, addresses, what is pushed, and the null pointer.

`AbstractStack` is what all four lock-free stacks promise: each call takes effect at one
moment between its begin and its return, as on a sequential stack.

`RefCountStack` has one action per atomic operation. `remove` reads `next_` together with
the compare-exchange, because `next_` of a node in the stack does not change and the
invariant `NodesInUseExist` says that the node is there to be read. Nodes are addresses:
after `Delete` another `Push` may get the same one, so ABA can occur. Arithmetic is modulo
`CountMod`. The external count of a `head_` without node also grows, is copied into
`next_` by the next `Push`, and may wrap in all runs, which is harmless. With
`MayWrap = FALSE` a thread cannot look at a node whose count is at its maximum; `Rest`
says that the model, not the code, stops there.

### HazardSlots and HazardPointerStack

`HazardSlots` is the global table with `HpOwner`, the thread-local object of each thread:
`Construct`, one `TrySlot` for each slot it looks at, `Throw` or, when the thread ends,
`Destruct`. `HazardPointerStack` extends it: a thread enters Pop through
`GetHazardPointer`, sets its slot in `storeHazard`, `check` is the inner loop, `readNext`
and `remove` the two halves of the compare-exchange, `clear` the last store. Then
`compareSlot` looks at one slot of the table at a time, and the node is deleted (`delete`)
or put on the list (`keep`); `takeList` and `walk` do the same for the list. Its order is
abstracted, since every node on it is examined alone.

The store of the hazard pointer is the only operation that is not sequentially consistent:
`storeHazard` puts it in `buffer`, `flush` makes it visible, at the latest before the
thread's next store or compare-exchange. With `Ordered = TRUE` the load of `head_` waits for
the flush, which is what the algorithm needs (a store with `memory_order_seq_cst`); with
`Ordered = FALSE` it may overtake the store, as the code allows.

### DeleteListStack

Pop is `Pop` (the increment), `load`, `readNext`, `removeSucceeds` or `removeFails` (which
may be spurious). `TryReclaim` is the first look at `thread_in_loop_`; `takeList` and `sub`
follow for a thread that was alone, and then `DeleteNodes` or `ChainPendingNodes`. The delete
list is linked through `next_`, as in the code, because other threads may be reading it.

### SharedPtrStack

The fourth implementation of `AbstractStack`. Every `std::atomic_*` call on a `shared_ptr`
is one action. A node is alive while `head_`, or a pointer of a thread, reaches it
(`Alive`), which is what the counts of `shared_ptr` establish; `Push` takes any other
node, so an address comes back. `resetNext` is the store that cuts a removed node off,
while other threads may still load its `next_`.

### ThreadsafeList

One action per mutex that is taken: `begin` locks `head_`, `lockNext` the next node,
`moveOn`, `remove`, `leaveEarly` and `end` unlock. A predicate is the set of values it
holds for. The history variables `visited` and `present` say what a traversal has seen and
what has been in the list since it began. The destructor has no action, since nobody may
use the list then.

### LookupTable

The three operations on one key are one step each, because they hold the mutex of the
bucket throughout. `GetMap` is `lockBucket` for each bucket, `copyBucket` for each bucket,
and `unlockAll`. A shared lock is not told from an exclusive one, since `ValueFor`
changes nothing.

### InterruptibleWait

One thread that waits again and again, with the `condition_variable_any` or, with a
predicate, with the `condition_variable`; one that interrupts it; one that makes the
predicate true and notifies. `CustomLock` is in `register`, `wait`, `relock` and `leave`,
which take and release `set_clear_mutex_` together with the mutex of the caller. The
plain variable releases only the caller's mutex, so an interrupt can fall between the test
and the wait; only the `timeout` of one millisecond ends this wait. `flag_` is read and
written in one step, although `Set` and `IsSet` are not ordered by a mutex.

### RWLock

Each operation is one step under `mtx_`, and a wait with a predicate is a step that goes
to sleep and one that tests again. `lock_cnt_` counts modulo `UIntMod`. Threads unlock
only what they hold (`reads`, `writes`), and a thread holds fewer locks at a time than the
counters can count (a bound, `MaxHeld`). `readers_` wraps too: it counts readings that
have long ended, so it does not take many readers but many calls. The history variable
`wrapped` records that this has happened.

### StealingSort

`SorterThreadPool::DoSort` with the pool it runs on. `stack` holds the calls of `DoSort` of
each thread, because a thread that waits for its lower part (`Ready`) calls
`RunPendingTasks`, and the task it finds is another call. `RunPendingTasks` is a sequence
of queue operations: `popLocal`, `popPool`, and `steal` for one queue after the other.
`AddTask` is used by callers and workers alike: `local_queue_` is a static variable, not a
`thread_local` one, so after the first worker has set it every thread pushes to and pops
from the queue of the worker that wrote last. The two variables are written by `setIndex`
and `setQueue`; a read finds one of the values written. `ThreadsafeQueue` and
`WorkStealingQueue` are sequences, as their operations hold their mutexes.

### ParallelAlgorithms

One call of one of five algorithms. Blocks are computed as in the code from the length,
`min_per_thread` and `hardware_threads`. Threads start one after the other (`start`) while
earlier ones already work; `Find` compares element by element and settles the promise
(`Settle`) before it sets the flag (`storeDone`). `FindRecursive` halves its range
(`divide`), and `combine` is the caller of two halves. `PartialSum` sums its block,
waits for the sum of the one before, adds it to its last element, hands on, and adds to the
others (`sumBlock`, `addToLast`, `addToOthers`), each of which may throw. `join` computes
what the caller sees.

### EventLoop

The loops of one thread: `stack` holds the calls of `EventLoop::exec` and `processEvents`,
with the place each is at. A loop is named by its place, because a nested loop is a local
variable of `Widget::event`; `exit` writes to the place (`storeExit`, `storeRc`). The
event handlers of the demo are `clickFiltered`, `click`, `timer`, `system` and `quit`.
`Tick` is the clock, seen from the widget's timer. `Beginnings` stands for what the
thread of the loop has posted before it calls `exec`; `EventDispatcher::instance()` is
`thread_local`, so what other threads post never gets to this loop. `MCEventLoop` is this
module alone, for the run `timer_stops`.

### SortOnPool, Components and MCComponents

`SortOnPool` is `StealingSort`, as `Sort`, with variables of its own (`s_`), to stand beside
other modules. `Components` extends it and puts six more modules beside it, for any
constants: `EventLoop` under its own names, `LookupTable` as `Table` (`t_`), `RWLock` as `Lock`
(`w_`), `ThreadsafeList` as `List` (`l_`), `SharedPtrStack` as `Shared` (`h_`) and
`ParallelAlgorithms` as `Parallel` (`p_`). `Clients` use the table or the stack, `Users` the
lock or the list, `Callers` sort. `ComponentsProofs` proves about them, except for the sort,
whose proofs stand beside those of `ThreadPool` in `ThreadPoolProofs`: both are about a thread
pool. `MCComponents` gives the constants values and adds `InterruptibleWait`.

The eight modules from `SharedPtrStack` to `EventLoop` share no state, so one run checks
them all: the variable `component` is chosen in `AllInit` and says which module the
behavior is about, and the variables of the other seven stay as they were at the start.
The reachable states are the union, not the product, of those of the parts. Fairness is
that of each module, required only while the behavior is about it. In the same way
`MCStackAndMutex` puts `HierarchicalMutex` (`m_`) beside `RefCountStack`, and `MCStacks` puts
`DeleteListStack` (`d_`) beside `HazardPointerStack`. `MutexBeside` and `DeleteListBeside`
are these two with variables of their own; the proofs about them are stated in the same
variables as the runs.

## The runs

| Run | Instance | States | What it shows |
|---|---|---|---|
| `thread_pool` | default argument on 2 processors, 2 clients, 3 tasks | 7 thousand | all invariants, refinement of `TaskPool` with its fairness, every future settles, the destructor returns |
| `async_log` | 2 threads, 3 lines of one or two bytes (one filtered by level, one FATAL), 2 sessions, 2 seconds, files full at 2 bytes | 721 thousand | order, size and contents of files, flush at exit, every line printed |
| `async_log_exit` | 1 thread, 1 session | | `uninit` may hang (below) |
| `async_log_files` | 1 thread, 1 session | | files may be erased (below) |
| `stack_and_mutex` | stack: 3 threads, 2 nodes, 2 values, counters modulo 5; mutex: 3 threads, 5 mutexes, two of one level, one of level `ULONG_MAX`, two unlocked by mistake | 648 thousand | exact counts, no use after deletion, no leak, refinement of `AbstractStack`; the values track what is held, only owners unlock what the check can tell, no circular wait |
| `mutex_foreign_unlock` | 2 threads, 3 mutexes, two of one level, all unlocked by mistake | | a mutex is unlocked while another thread holds it (below) |
| `ref_count_wrap` | 2 threads, 2 nodes, counters modulo 4, wrapping | | a node is deleted in the stack (below) |
| `two_stacks` | hazard pointers: 3 threads that end and start again, 3 nodes, 2 values, 2 slots, `Ordered`; delete list: 3 threads, 3 nodes, 2 values | 429 thousand | no guarded node and none that is read is deleted, each node in one place, slots suffice, both are refinements of `AbstractStack` |
| `hazard_pointer_tso` | 2 threads, 3 nodes, not `Ordered` | | values are lost (below) |
| `components` | see below | 394 thousand | the twelve properties of the eight modules that share no state |
| `find_first` | 2 lists in blocks of two, 1 or 3 processors | | a later match may be returned (below) |
| `timer_stops` | three clicks, two events in a round | | a killed timer ticks once more (below) |

Why the bounds are enough. *Pool*: a lost wakeup needs one sleeping worker, one that
never slept and two tasks; the third task is for tasks that submit tasks. The clamping of
the constructor is proved for all arguments instead. *Log*: a line of one byte leaves room
for another and two lines fill a file, so rolling happens with a line still to come, and
two seconds give both a fresh and a repeated name; a second session is where `m_bExit` is still set. *Mutex*: a circle of two or three
threads, nested locks three deep and two mutexes of one level are all possible. *Stack*:
three threads are one that removes a node and two that look at it; two nodes are enough
for a node to be deleted and reused under another one. With hazard pointers three threads
share two slots, so a search can fail, and two threads are in Pop while the third pushes.
In `components`: *event loop*: three
clicks with a `Quit` among them give two nested loops, either of which may be told to
exit first; a source that pokes again whenever it runs fills the queue of three with
`MaxCount` two. *Sort*: two workers and a caller
sort up to five elements, so that each of them can wait at once. *Algorithms*: nine lists
of up to six elements in up to three blocks (`min_per_thread` is 2 here and 25 in the
code) have no match, one or several, elements that throw before and behind them, and sums
that exceed the limit in a block and across blocks. *List*: three threads on two nodes are
one that removes the first node while the others stand before and behind it. *Table*: two
buckets for three keys, two threads. *`shared_ptr` stack*: two threads and three nodes, so
that a node comes back while it is compared. *`rw_lock`*: three threads hold up to two
locks each, and counts modulo 4 wrap down and up, `readers_` after four calls of `lock_read`.
Symmetry is used for threads, nodes and values in `stack_and_mutex` and `two_stacks`, whose
properties are invariants and safety refinements and name none of them.

`CHECK_DEADLOCK` is on everywhere. The explicit stuttering steps are the end of the
program (`Destroyed`, `Rest` of the log, `Ended`, `Finished`), a refused call (`refuse`), and the bound of the
stack (`Rest`).

Each property of a passing run has a mutant in its module, marked "Faulty", that changes
one definition as a plausible mistake in the code would and makes TLC refute the property
(`Answers` has two, for a search and for `PartialSum`). The runs do not check `TypeOK`: it
is proved where there is a proof module, and the invariants of the stacks include it.

### Disagreements found

- **`uninit` may never return** (`async_log_exit`). `async_log.cpp:60` sets `m_bExit` and
  notifies without `m_mutexWrite`. If this falls between the writer's test and its wait,
  the notification is lost and the join waits for a writer that nobody wakes.
  `async_log.h:111` calls the flag the exit flag.
- **A new file may erase an old one** (`async_log_files`). `async_log.cpp:394` says that a
  file is always created anew; two creations in one second have the same name, and `"w+"`
  empties the file. Even a FATAL line can be erased so, by the writer's first file.
- **The internal count may reach 1 too early** (`ref_count_wrap`). It counts failed
  attempts, not threads as the comment of `lockfree_stack_reference_counting.hpp:65` says,
  so 2^32 - 1 failures on a node that stays in the stack, then one more, delete it. The
  run does this with counters of two bits; two threads that keep failing are enough.
- **A hazard pointer may be set too late** (`hazard_pointer_tso`).
  `lockfree_stack_hazard_pointer.hpp:82-83` stores with release and loads with acquire; the
  load may come first. Another thread then removes the node, finds no hazard pointer and
  deletes it, and the reader goes on with a deleted node. The test of all stacks
  (`test_lockfree_stack.cpp:113`) asks for no loss and no duplication.
- **`Find` need not find the first match** (`find_first`). `test_find.cpp:57` and `:172` say
  that for repeated values the first place is guaranteed. `find.hpp:20` keeps the match of
  the thread that sets the promise first, and in `FindRecursive` the first half gives up
  when the second has found something. The tests use lists too short for a second thread.
- **A thread may unlock what another one holds** (`mutex_foreign_unlock`).
  `hierarchical_mutex.hpp:21-22` throws when the caller's value is not the level of the
  mutex. A caller that holds a mutex of the same level, or nothing while the level is
  `ULONG_MAX`, passes. Its value then becomes what the foreign mutex has saved and forgets
  the one it holds, which it may lock again and wait for itself: `NoCircularWait` is violated
  under the same configuration, although line 2 of the header is about deadlocks that the
  class is to prevent.
- **The timer does not always stop after three ticks** (`timer_stops`). `main.cpp:354` says
  "stop timer after 3 ticks", but `killTimer` (`main.cpp:96`) leaves the events in the queue.
  Two are there at once when a nested loop is told to exit after it has pumped the timers
  and the outer round, which has used up its events (256 in the code, 2 in the run), pumps
  them again.

What the models show besides, without a run of its own:

- `local_queue_` (`thread_pool.hpp:179`) still points to the queue of a worker after its pool
  is destroyed. A task added to the next pool before its workers have started goes there;
  `test_sort.cpp` makes one pool after the other. `LocalQueueAlive` states that this
  does not happen, and `Leftovers = {NoQueue, Dangling}` violates it. The run checks a
  process with one pool.
- `PartialSum` terminates the program when an addition throws in a thread that has handed
  its sum on (`partial_sum.hpp:37` sets the promise again, out of a handler). `Answers` allows
  `Terminated` where the sum of a part of the list exceeds the limit.
- `NestedLoopsEnd` excepts a nested loop whose `exit` came before `exec` had reset `exit_`
  (`main.cpp:246`, `ExitLost`); such a loop never ends. The demo sleeps 500 ms before.
- `exit` stores `rc_` after `exit_` (`main.cpp:270`), so `exec` may return 0 although it
  was ended with another code; `ExecReturnsCode` states the contrary and no run checks it.
- The `Quit` of `main.cpp:408` is posted by another thread, to a dispatcher of its own.
- `WritersAlone` holds only until `readers_` wraps. A reader that had no count leaves
  `readers_` increased when it unlocks (`rw_lock.hpp:28`), every later writer waits, and
  after 2^32 calls of `lock_read` (4 in the run) `readers_` is zero with a reader inside, and
  `rw_lock.hpp:37` lets a writer in. `WritersAlone` excepts what follows this (`wrapped`).
- A writer of an `rw_lock` that also reads and unlocks the writing first leaves `writing_`
  set for ever: only `unlock_write` resets it, and only when the count becomes zero
  (`rw_lock.hpp:46`).

## Fairness

- *Pool*: weak fairness for a worker's pass through its critical section, for the
  notification that ends `stop` and `abort`, and for the steps of a destructor that has
  begun: a thread that is not blocked runs, and the mutex is free after every critical
  section. Strong fairness for `Finish`: a task terminates, and it is not enabled while
  the task is inside `stop`. Nobody has to call anything, and spurious wakeups are never
  assumed. A task that waits for another task is outside this assumption.
- *Log*: weak fairness for the writer, for an `uninit` that has begun, and for a call of
  `output` that has begun. `async_log_exit` is a counterexample under exactly this
  fairness: the writer waits and nothing can wake it.
- *Event loop*: weak fairness for the thread of the loop, for each thread that will call
  `exit`, and for time. Nobody has to quit.
- *Sort*: weak fairness for the constructor and for every thread; all of them run freely, as
  their waits are loops that yield. Calls of `DoSort` and the destructor are not assumed.
- *Interruptible waits*: weak fairness for the steps of each thread and for the end of
  `wait_for`, strong fairness for taking a mutex again after a wait: it is free again and
  again, and whoever waits for it long enough gets it. Nobody has to interrupt or notify.
- *Mutex, stacks, list, table, `rw_lock`, algorithms*: no fairness; only safety is claimed. `std::mutex` does not promise to
  serve every thread, and the reference counting stack is not lock free: every look at `head_` changes its
  count, so two threads can fail for ever.

## Proofs

All proofs follow one argument: an inductive strengthening (`IInv`, `LogFilesInv`,
`StackInv`, `TableInv`, `LockInv`, `ListInv`, `SharedInv`, `SortInv`, `ParallelInv`), one
lemma for each action, and the theorems from the strengthening by one temporal step. The
assumptions are those named in the modules (`NumAssumption`, `NamesAssumption`,
`LogAssumption`, `NullAssumption` (finitely many threads and nodes), `SlotsAssumption`,
`CountAssumption`, `StackAssumption`, `EventLoopAssumption`), or, as hypotheses of the
theorems, `LevelAssumption`, `NameAssumption` and `CallersAssumption` of the mutex,
`RWLockAssumption`, `TableAssumption`, `ListAssumption`, `SharedPtrAssumption` (finitely many
nodes), `SortAssumption` and `ParallelAssumption`. TLC evaluates all of them in the runs.

**`ThreadPoolProofs`, the pool.** `WorkerCountBounds` is arithmetic. `IInv` joins `TypeOK`,
`Conservation`, `NoLostWakeup`, `StopReachesSleepers` and what the destructor relies on.
`NoLostWakeup` compares the length of the queue with a cardinality: `Accept` lengthens the
queue by one, and either nobody sleeps or the notification moves one worker to "check";
`Take` shortens both. It is not enough to say that a worker sleeps only on an empty queue,
which is false. `DrainBeforeDestroy` needs that a worker that has left found `stop_` set and
the queue empty, and that nobody but a running task can add to the queue after the
destructor began. `PoolIsATaskPool` shows `SafeSpec => PoolSafety` action by action, with
`Cardinality(Started) < Capacity` from the fact that the worker that takes a task runs none.

**`ThreadPoolProofs`, the sort on the work-stealing pool.** A task that is not done is in
one queue or on one stack, and in one place there (`Placed`), as adding, finding, running
and giving back a task moves it from one holder to another or puts a new one at one holder.
This is `TasksAccounted`. What the threads have computed is compared with what each task and
each call was given, which no variable keeps (`arg` and `own` in `Fit`; the invariant says
that there are such lists). A call has the elements of its list, divided by the pivot, and
the parts that are done are sorted permutations of theirs; that sorted parts around the
pivot make a sorted whole (`MergeSorted`, `Parts`), and that dividing and joining lose no
element, is shown by counting the places of each value. That nothing is left at the end
needs that somebody waits for every task that is not done (`Waited`), and that what a thread
waits for was added later than every task on its stack below. Of the tasks that are left one
is the earliest; the thread that waits for it is running an earlier one, which is then left
too, unless it is a caller whose `DoSort` has not returned. So when all calls have returned
there are none. The theorems hold for any number of workers and calling threads and for
lists of any length. `Leftovers` may contain `Dangling`, but they then say nothing beyond
the first use of the destroyed queue, which has no step in the model (`LocalAlive`).

**`AsyncLogProofs`.** `OrderKept` (`printed`, the line in hand and the queue make up what
was pushed) is inductive with the types; the proof needs two lemmas about sequences.
`UninitFlushes` also needs that in the first session `owed` lines are among those pushed and
that the writer leaves only with an empty queue and nothing in its hand.

`RollBound` and `FilesFollowConsole` speak of the lines of the writer in each file
(`OwnLines`), among which FATAL lines of other threads are interspersed. A closed file does
not change while no file of its name is created, and a created one has no lines; so the
question is what is known of the open file (`FilesInv`). Its own bytes are at most
`m_nCurrentWrittenSize`, which a FATAL line may only leave too big, and less than `RollSize`
between the writer's look at the size and its write (`OpenFileBound`). Its own lines end
where the console is, or one line before while the last one is still to be written
(`OpenFileFollows`), for which one needs that this line is the last one printed
(`LastPrinted`). `OwnLines` and the sum of the sizes are defined by recursion. The lemmas
`Iterates` and `SameSteps` of `LinkedListProofs` say that such a recursion has a solution
and only one, and from them follows what both become when a line is appended.

**`HierarchicalMutexProofs`.** `ValueTracksHeld` alone is not inductive: `unlock` puts back
what the mutex saved, so `SavedValueRestores` says what that is, for all held mutexes at
once. `LevelsDiffer`, `HeldBelowMax` and `TargetBelow` make the order strict. While a thread
has `m_` but not yet, or no longer, the value, the mutex is not counted (`Counted`).
`UnlockedIsHeld` shows that the check of `unlock` accepts only the lowest mutex of the
caller; it is here that `CallersAssumption` is needed, and it is needed for all four
theorems, because one foreign unlock that is accepted leaves a wrong value behind, with
which the check then accepts others. `DeadlockFree`: in a set of blocked threads, look at
one that waits for the lowest level; the thread that holds this mutex waits below its own value, which is at most that
level, so it would wait for a lower one. That a set of levels has a least one
(`LeastNumber`) comes from the library's theorem that strict inclusion of finite sets is
well founded. The set of threads may be infinite.

**`LinkedListProofs`.** The lists of the stacks are computed by a recursive function, about
which the provers know nothing. So the proofs deal with chains instead: a sequence of
different nodes, each linked to the next, from the first pointer to null (`IsChain`).
`ChainIsLine` shows that a chain is what `Walk` computes, so there is at most one, and a
family of lemmas says what a chain becomes when a node is put in front, the first is taken
off, two lists are joined, or a node is written that is not on it. All of this needs a
finite set of nodes, and the argument by induction is replaced by a least counterexample
(`LeastNumber`), which comes from the library's theorem that strict inclusion of finite sets
is well founded.

**`RefCountStackProofs`**, with `MayWrap = FALSE`. `Balanced` relates the two counts of a
node to the threads that hold a reference (`Holders`): what the internal count is below
zero, modulo `CountMod`, is what has been added to the external one and given back. So a
thread that gives its reference back finds 1 exactly when it is the last and the node is
removed, and the thread that removes finds a sum of zero exactly when it is alone
(`CountsExact`). `NodesOwned` says that a node that is pushed or has been removed is in the
hands of one thread. A node cannot come back at its address while a thread has a reference
to it, and `next_` of a node in the list does not change, so a compare-exchange that
succeeds puts the right node into `head_`. `RefCountIsAStack` is the refinement, action by
action: `pushSucceeds` and `removeSucceeds` are the moments at which `AbstractStack`
changes.
`NoUseAfterDelete`, `CountsAddUp` and `EveryNodeDeleted` are the invariants of the run,
which follow from the same strengthening.

**`HazardPointerStackProofs`.** First the table. A thread looks at every slot once, while
others take slots and give them back, so it is not obvious that a search cannot miss a free
one again and again. `SlotsSuffice`: at most `Cardinality(Threads) - k` threads have reached
slot k. To pass slot k a thread must find it owned, and the owner, who stands at k, does not
pass with it (`OwnerStaysBehind`). With a slot for every thread nobody gets past the last
one (`EnoughSlots`). `StackUsesSlots` shows that the stack does with its table nothing else,
for which it needs that what it stores there is a pointer (`PointerInv`). All this holds
with late stores too. Then the stack, with `Ordered = TRUE`: a thread that has found `head_`
unchanged has its hazard pointer visible (`Guarded`), so a node that it reads is there, and
whoever wants to delete it has yet to come to the slot of the reader (`Protects`). Since the
node is there it cannot be allocated again, its `next_` stays what was read, and a
compare-exchange that finds it in `head_` puts the right node there.

**`DeleteListStackProofs`.** The invariant that carries the proof is `Protects`: of a thread
between its load of `head_` and its compare-exchange, nobody who will delete something
without another look at `thread_in_loop_` (`WillDelete`) has the node in hand, and no list
that is being deleted contains it. It is kept because whoever decides to delete was alone in
the loop (`CounterExact`: `thread_in_loop_` is the number of threads in it) when its own
node, and the list it then took, were already out of the stack; who enters later loads
`head_`, which is none of these. The `next_` of a node is rewritten only when it is out of
the stack, where no compare-exchange can succeed with it. The delete list, and the list of a
thread, which ends at `last` although the memory goes on, are chains too (`Upto`), and
`OneOwner` says that all of these are disjoint.

**`ComponentsProofs`, the event loop.** `TypeOK` and `ExitFindsItsLoop` together are
inductive. The steps of a thread that exits a loop at place d keep the loop there, because
that loop is asked to exit by this thread alone: `quit` sets `exit_` of the main loop, whose
place no sleeping thread has, and `return` takes the top of the stack only when its `exit_`
is set, which the invariant excludes while a thread still sleeps for it. `click` puts the
new loop at a place above the stack, where by the invariant no thread sleeps. The theorem
holds for any depth and any posted events.

**`ComponentsProofs`, the table.** `SnapshotIsACut` needs three things. A `GetMap` has the
mutexes of all buckets below `locks` (`LocksHeld`), so that while one thread has copied
anything no other operation gets at any bucket (`NobodyCopies`). A key is once in the list
of its bucket and in no other (`ListsSound`), which `AddOrUpdate` and `Remove` keep; so the
last entry with a key is the first (`SameFromBehind`), and no later bucket replaces it. And
what has been copied is the table, the rest of the map is empty (`Copying`).

**`ComponentsProofs`, the lock.** `WritersAlone` is not obvious, because a reader is not
counted in `lock_cnt_` when it locks and is taken off when it unlocks: its count wraps to
the maximum, and from then on looks like that of a thread with many locks, which may lock
again without waiting. The invariant counts, for each thread, the readings that were never
counted (`Uncounted`). While nobody writes these are at most `readers_` (`ReadersOnly`),
because a count that has wrapped cannot come down to zero before `readers_` is full. So a
writer, who finds `readers_` zero, finds all other counts zero as well, and from then on its
own count is exact (`OneWriter`). All this (`Exact`) is kept by every step in which
`readers_` does not wrap, and since `wrapped` is never reset `LockInv` says that it holds as
long as `wrapped` is false; the types hold in any case. The theorem needs that a thread
holds fewer than `UIntMod` locks at a time.

**`ComponentsProofs`, the list.** A traversal stands on a node that is in the list and holds
its mutex (`Standing`), so nobody else can change `next_` of this node or delete the next
one: `RemoveIf` holds both mutexes when it takes a node out. No two nodes have the same
`next_` (`ListShape`), so what is behind a node loses just the node that is removed, and
what a traversal has not visited and was there throughout stays in front of it
(`NothingPassed`).

**`ComponentsProofs`, the `shared_ptr` stack.** The model allocates any node that nobody
reaches, so the proof has to show that the node which a thread still points to is not
allocated again: a set that contains what the pointers point to and is closed under `next_`
contains `Alive`. Therefore nobody pushes a node that another thread points to
(`SharedApart`), a node that was read from `head_` and is on the stack has been there since,
and its `next_` is what was loaded (`SharedOwn`). `resetNext` writes only to a node that is
no longer on the stack.

**`ComponentsProofs`, the parallel algorithms.** `Answers` is proved for lists of any length,
any `min_per_thread` and any number that `hardware_concurrency` gives. The division of the
code gives blocks that follow one another and cover the list (`Division`, `Covered`), and
`ParallelInv` says of each algorithm what its threads have done so far:

- `Find`: nothing before the place of a thread was a hit as long as nothing is found, and a
  thread that has settled the promise, and nobody else, raises the flag. So if `result_` is
  never settled, every thread came to the end of its block.
- `FindRecursive`: the ranges of two calls are nested or apart, and every call but the first
  is a half of one that has divided (`Nested`, `InHalves`, `HalvesCalled`). A call that ends
  with "not found" while the flag is down stands for its whole range.
- `PartialSum`: what a thread has handed on is the sum up to the end of its block (`HandedOn`),
  or an exception, and then the sum of some part of the list is above the limit; its elements
  hold the sums within the block until it adds what came before (`BlockData`).
- `ParallelAccumulate`: the sum of the sums of the blocks is the sum of the list.

A sum is a recursive function. Its equation comes from `Iterates` of `LinkedListProofs`, and
two laws suffice from there on: the sum of a range is that of its beginning and that of its
rest (`SumJoins`), and lists that agree on a range have the same sum there (`SameSums`).

Only model-checked:

- the liveness properties and the liveness half of `PoolPromise`, as fairness is out of the
  prover's reach.

## Not modelled

- Memory orders weaker than sequential consistency, except for the store of a hazard
  pointer, and data races on plain variables such as `m_bExit` and `m_hLogFile` beyond the
  interleaving of whole accesses.
- Failing allocation and failing creation of threads.
- What does not compile when it is instantiated: `ForEachRecursive`, `Sorter`, and
  `wait_and_pop` and `empty` of `ThreadsafeQueue`. `ThreadsafeStack::Pop(T&)` compiles and
  never assigns to its argument (`threadsafe_stack.hpp:35` moves a variable to itself).
- `Interrupt` after its thread has ended, which uses a destroyed `thread_local` flag.
- A loop that is left by an exception, and receivers that are destroyed while events for
  them are queued: the demo has neither.
- `ThreadsafeStack`, `JoiningThread` and `ScopedThread`, the coroutine, C++17 and cache
  experiments, `print_class`, macros, benchmarks and `sandbox.cpp`: nothing in them
  interleaves, or they have no state.
