------------------------------- MODULE Components -------------------------------
(***************************************************************************)
(* Parts of the repository that share no state, side by side: the event    *)
(* loop, whose names are those of its module, and the lookup table, the    *)
(* lock, the list, the stack with shared pointers and the parallel         *)
(* algorithms, whose variables begin with t_, w_, l_, h_, p_.  With them   *)
(* comes SortOnPool.                                                       *)
(***************************************************************************)
EXTENDS EventLoop, SortOnPool

CONSTANTS
    Clients,      \* the threads that use the table or the stack
    Users,        \* and those that use the lock or the list
    Keys, Values, NoValue, Free,
    bucket_num, hasher_,
    UIntMod, MaxHeld,
    Nodes, ListNodes, ListHead, Null,
    Inputs,       \* the lists of the parallel algorithms
    Match, Bad, Limit, min_per_thread, Hardware,
    None, Thrown, NotFound, Terminated

VARIABLES
    t_data, t_mtx, t_locks, t_copied, t_res,
    w_writing, w_readers, w_waiting, w_count, w_waits, w_reads, w_writes,
    w_wrapped,
    l_heap, l_data, l_next, l_mtx, l_op, l_pc, l_current, l_visited, l_present,
    h_head, h_data, h_next, h_pc, h_new, h_old, h_load,
    p_algorithm, p_list, p_hardware, p_data, p_started, p_pc, p_at, p_done,
    p_found, p_future, p_result

Table == INSTANCE LookupTable WITH
    Threads <- Clients, NoThread <- Free,
    data_ <- t_data, mtx_ <- t_mtx, locks <- t_locks, copied <- t_copied,
    res <- t_res

Lock == INSTANCE RWLock WITH
    Threads <- Users,
    writing_ <- w_writing, readers_ <- w_readers, writer_waiting_ <- w_waiting,
    lock_cnt_ <- w_count, waits <- w_waits, reads <- w_reads, writes <- w_writes,
    wrapped <- w_wrapped

List == INSTANCE ThreadsafeList WITH
    Threads <- Users, Nodes <- ListNodes, head_ <- ListHead,
    heap <- l_heap, data_ <- l_data, next_ <- l_next,
    mtx_ <- l_mtx, op <- l_op, pc <- l_pc, current <- l_current,
    visited <- l_visited, present <- l_present

Shared == INSTANCE SharedPtrStack WITH
    Threads <- Clients,
    head_ <- h_head, data_ <- h_data, next_ <- h_next, pc <- h_pc,
    new_node <- h_new, old_head <- h_old, next <- h_load

Parallel == INSTANCE ParallelAlgorithms WITH
    Lists <- Inputs,
    algorithm <- p_algorithm, list <- p_list, hardware_threads <- p_hardware,
    data <- p_data, started <- p_started, pc <- p_pc, at <- p_at,
    done_flag <- p_done, found <- p_found, future <- p_future,
    result <- p_result

\* GetMap of the table: SnapshotIsACut of its module.
SnapshotIsACut == Table!SnapshotIsACut

\* Readers and writers of the lock: WritersAlone of its module.
WritersAlone == Lock!WritersAlone

\* The traversals of the list: TraversalsAreSafe of its module.
TraversalsAreSafe == List!TraversalsAreSafe

\* Push and Pop of the stack with shared pointers: IsAStack of its module.
IsAStack == Shared!IsAStack

\* What the parallel algorithms return: Answers of their module.
Answers == Parallel!Answers
=================================================================================
