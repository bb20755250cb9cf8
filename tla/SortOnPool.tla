------------------------------- MODULE SortOnPool -------------------------------
(***************************************************************************)
(* The parallel sort on the work-stealing pool, with variables of its own, *)
(* which begin with s_: beside the other components in Components, and     *)
(* beside ThreadPool in ThreadPoolProofs.                                  *)
(***************************************************************************)
EXTENDS Integers

CONSTANTS
    Callers,      \* the threads that sort
    Size, Lists, Leftovers, NoQueue, Dangling, Pending,
    NoPart        \* instead of a task, for a call that is not the part of another

VARIABLES
    s_built, s_done, s_local, s_index, s_pool, s_queues, s_worker, s_stack,
    s_look, s_tried, s_future, s_input, s_sorted

Sort == INSTANCE StealingSort WITH
    NoTask <- NoPart,
    built <- s_built, done_ <- s_done, local_queue_ <- s_local,
    local_queue_index_ <- s_index, pool_work_queue_ <- s_pool,
    queues_ <- s_queues, worker <- s_worker, stack <- s_stack, look <- s_look,
    tried <- s_tried, future <- s_future, input <- s_input, sorted <- s_sorted

\* The tasks of the work-stealing pool: TasksAccounted of its module.
TasksAccounted == Sort!TasksAccounted

\* What the calls of the parallel sort return, and what they leave:
\* SortedAndQuiet of its module.
SortedAndQuiet == Sort!SortedAndQuiet
=================================================================================
