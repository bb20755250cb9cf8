------------------------------- MODULE TaskPool -------------------------------
(***************************************************************************)
(* What a pool of threads promises to the code that submits tasks to it,   *)
(* with no thread, lock or condition variable in sight.  Tasks start in    *)
(* the order they were accepted, at most Capacity of them run at a time,   *)
(* an accepted task is executed once unless it is dropped before it        *)
(* starts, and the pool disappears only when nothing is queued or running. *)
(* Module ThreadPool implements this specification.                        *)
(***************************************************************************)
EXTENDS Naturals, Sequences, FiniteSets

CONSTANTS
    Tasks,     \* the calls of addTask, each of them one task
    Capacity   \* how many tasks may run at the same time

VARIABLES
    queue,     \* the accepted tasks that have not started, oldest first
    status,    \* what has become of every task
    open,      \* the pool still accepts tasks
    alive      \* the pool object exists

vars == <<queue, status, open, alive>>

Status == {"new", "queued", "started", "done", "dropped", "refused"}

Started == {t \in Tasks : status[t] = "started"}

Init ==
    /\ queue = <<>>
    /\ status = [t \in Tasks |-> "new"]
    /\ open = TRUE
    /\ alive = TRUE

Submit(t) ==
    /\ alive /\ open
    /\ status[t] = "new"
    /\ queue' = Append(queue, t)
    /\ status' = [status EXCEPT ![t] = "queued"]
    /\ UNCHANGED <<open, alive>>

Refuse(t) ==
    /\ alive /\ ~open
    /\ status[t] = "new"
    /\ status' = [status EXCEPT ![t] = "refused"]
    /\ UNCHANGED <<queue, open, alive>>

Begin ==
    /\ alive
    /\ queue # <<>>
    /\ Cardinality(Started) < Capacity
    /\ queue' = Tail(queue)
    /\ status' = [status EXCEPT ![Head(queue)] = "started"]
    /\ UNCHANGED <<open, alive>>

Complete(t) ==
    /\ alive
    /\ status[t] = "started"
    /\ status' = [status EXCEPT ![t] = "done"]
    /\ UNCHANGED <<queue, open, alive>>

Close ==
    /\ alive
    /\ open' = FALSE
    /\ UNCHANGED <<queue, status, alive>>

Drop ==
    /\ alive
    /\ open' = FALSE
    /\ queue' = <<>>
    /\ status' = [t \in Tasks |->
                    IF status[t] = "queued" THEN "dropped" ELSE status[t]]
    /\ UNCHANGED alive

Destroy ==
    /\ alive /\ ~open
    /\ queue = <<>>
    /\ Started = {}
    /\ alive' = FALSE
    /\ UNCHANGED <<queue, status, open>>

Next ==
    \/ \E t \in Tasks : Submit(t) \/ Refuse(t) \/ Complete(t)
    \/ Begin \/ Close \/ Drop \/ Destroy

SafeSpec == Init /\ [][Next]_vars

\* Queued tasks are started while there is room, and started tasks complete.
Spec == SafeSpec /\ WF_vars(Begin) /\ \A t \in Tasks : WF_vars(Complete(t))
===============================================================================
