------------------------------ MODULE MCComponents ------------------------------
(***************************************************************************)
(* Eight parts of the repository that share no state, checked in one run.  *)
(* component is the part that a behavior is about; the variables of the    *)
(* others keep their initial values.                                       *)
(***************************************************************************)
EXTENDS Components

VARIABLES
    component,
    i_variable, i_flag, i_registered, i_mutex, i_lock, i_pred, i_pc,
    i_interrupt, i_notify

sortVars  == <<s_built, s_done, s_local, s_index, s_pool, s_queues, s_worker,
                s_stack, s_look, s_tried, s_future, s_input, s_sorted>>
parallelVars == <<p_algorithm, p_list, p_hardware, p_data, p_started, p_pc,
                p_at, p_done, p_found, p_future, p_result>>
listVars  == <<l_heap, l_data, l_next, l_mtx, l_op, l_pc, l_current,
                l_visited, l_present>>
sharedVars == <<h_head, h_data, h_next, h_pc, h_new, h_old, h_load>>
interruptVars == <<i_variable, i_flag, i_registered, i_mutex, i_lock, i_pred,
                i_pc, i_interrupt, i_notify>>
tableVars == <<t_data, t_mtx, t_locks, t_copied, t_res>>
lockVars  == <<w_writing, w_readers, w_waiting, w_count, w_waits, w_reads,
                w_writes, w_wrapped>>

\* What main has posted: clicks with a Quit between them, a source that may poke
\* for ever, and one among clicks.
MCBeginnings == {<<"User", "User", "Quit", "User">>, <<"SystemMessage", "Quit">>,
                 <<"User", "SystemMessage", "User">>}

\* The arguments of DoSort; with the last one a worker waits like the caller.
SortLists == {<<1>>, <<1, 1>>, <<1, 3, 2, 3>>, <<4, 1, 5, 2, 3>>}

\* Lists of up to six elements in up to three blocks: without a match, with one
\* and with several, with an element that throws before and behind a match, and
\* with sums that exceed the limit in a block and across blocks.
SearchLists == {<<>>, <<2>>, <<5, 3, 5, 2, 3>>, <<1, 9, 2, 5, 1>>, <<9, 5, 1>>,
                <<3, 1, 2, -2, 1, 0>>, <<1, 1, 1, 2, -1>>, <<1, 1, 2, 1, 2, 1>>,
                <<2, 2, 2, -2>>}

Interrupt == INSTANCE InterruptibleWait WITH
    Waiter <- "waiter", Interrupter <- "interrupter", Notifier <- "notifier",
    variable <- i_variable, flag_ <- i_flag, registered <- i_registered,
    set_clear_mutex_ <- i_mutex, lock <- i_lock, pred <- i_pred, pc <- i_pc,
    interrupt <- i_interrupt, notify <- i_notify

\* Of three keys two are in one of the two buckets.
MCHasher == [k \in 1 .. 3 |-> k]

\* UIntMod is 4 and MaxHeld 2: with two locks held the count of a reader wraps twice.

ASSUME ComponentAssumptions ==
    /\ Sort!SortAssumption /\ Parallel!ParallelAssumption
    /\ List!ListAssumption /\ Shared!SharedPtrAssumption
    /\ Interrupt!OwnersDiffer /\ Table!TableAssumption
    /\ Lock!RWLockAssumption

all == <<vars, component, sortVars, parallelVars, listVars, sharedVars,
         interruptVars, tableVars, lockVars>>

Is(name) == component = name

\* The part that is checked begins in any of its initial states.
AllInit ==
    /\ component \in {"EventLoop", "StealingSort", "ParallelAlgorithms",
                      "ThreadsafeList", "SharedPtrStack", "InterruptibleWait",
                      "LookupTable", "RWLock"}
    /\ Init /\ Sort!Init /\ Parallel!Init /\ List!Init /\ Shared!Init
    /\ Interrupt!Init /\ Table!Init /\ Lock!Init
    /\ ~Is("EventLoop") => queue = CHOOSE q \in Beginnings : TRUE
    /\ ~Is("ParallelAlgorithms") =>
         p_algorithm = "Find" /\ p_list = <<>> /\ p_hardware = 0
    /\ ~Is("InterruptibleWait") => i_variable = "any"

AllNext ==
    /\ UNCHANGED component
    /\ \/ /\ Is("EventLoop") /\ Next
          /\ UNCHANGED <<sortVars, parallelVars, listVars, sharedVars,
                         interruptVars, tableVars, lockVars>>
       \/ /\ Is("StealingSort") /\ Sort!Next
          /\ UNCHANGED <<vars, parallelVars, listVars, sharedVars,
                         interruptVars, tableVars, lockVars>>
       \/ /\ Is("ParallelAlgorithms") /\ Parallel!Next
          /\ UNCHANGED <<vars, sortVars, listVars, sharedVars,
                         interruptVars, tableVars, lockVars>>
       \/ /\ Is("ThreadsafeList") /\ List!Next
          /\ UNCHANGED <<vars, sortVars, parallelVars, sharedVars,
                         interruptVars, tableVars, lockVars>>
       \/ /\ Is("SharedPtrStack") /\ Shared!Next
          /\ UNCHANGED <<vars, sortVars, parallelVars, listVars,
                         interruptVars, tableVars, lockVars>>
       \/ /\ Is("InterruptibleWait") /\ Interrupt!Next
          /\ UNCHANGED <<vars, sortVars, parallelVars, listVars,
                         sharedVars, tableVars, lockVars>>
       \/ /\ Is("LookupTable") /\ Table!Next
          /\ UNCHANGED <<vars, sortVars, parallelVars, listVars,
                         sharedVars, interruptVars, lockVars>>
       \/ /\ Is("RWLock") /\ Lock!Next
          /\ UNCHANGED <<vars, sortVars, parallelVars, listVars,
                         sharedVars, interruptVars, tableVars>>

\* The fairness of the parts that have any, while they are checked.
AllFairness ==
    /\ WF_vars(Is("EventLoop") /\ Gui) /\ WF_vars(Is("EventLoop") /\ Tick)
    /\ \A d \in Places : WF_vars(Is("EventLoop") /\ storeExit(d))
    /\ \A d \in Places : WF_vars(Is("EventLoop") /\ storeRc(d))
    /\ WF_sortVars(Is("StealingSort") /\ Sort!construct)
    /\ \A w \in Sort!Workers :
         WF_sortVars(Is("StealingSort") /\ Sort!Start(w))
    /\ \A t \in Sort!Threads :
         WF_sortVars(Is("StealingSort") /\ Sort!Step(t))
    /\ WF_interruptVars(Is("InterruptibleWait") /\ Interrupt!Run)
    /\ WF_interruptVars(Is("InterruptibleWait") /\ Interrupt!timeout)
    /\ SF_interruptVars(Is("InterruptibleWait") /\ Interrupt!relock)
    /\ WF_interruptVars(Is("InterruptibleWait") /\ Interrupt!lockToNotify)
    /\ WF_interruptVars(Is("InterruptibleWait") /\ Interrupt!notifyRegistered)
    /\ WF_interruptVars(Is("InterruptibleWait") /\ Interrupt!announce)

AllSpec == AllInit /\ [][AllNext]_all /\ AllFairness

SortReturns       == Sort!SortReturns
InterruptEndsWait == Interrupt!InterruptEndsWait
=================================================================================
