------------------------------- MODULE EventLoop -------------------------------
(***************************************************************************)
(* The event loop of src/examples/qt_eventloop_skeleton/main.cpp: one      *)
(* thread that executes an Application's loop, the loops that event        *)
(* handlers nest in it, the dispatcher and the timer of that thread, and   *)
(* the detached threads that end the nested loops.                         *)
(*                                                                         *)
(* EventDispatcher::instance() is thread_local, so the queue belongs to    *)
(* the thread of the loop alone: what other threads post goes to queues of *)
(* their own, which nobody reads.  The only way into a loop from outside   *)
(* is EventLoop::exit.  A nested loop is a local variable of a handler; it *)
(* is named by its place on the stack, and exit writes to that place       *)
(* whatever lives there.                                                   *)
(*                                                                         *)
(* An event is its type: its receiver is the one widget, source or         *)
(* application of the program.  Sleeps take any time at all.               *)
(***************************************************************************)
EXTENDS Naturals, Sequences, FiniteSets

CONSTANTS
    MaxCount,    \* the default argument of processPostedEvents
    Interval,    \* the interval of the widget's timer, in units of the clock
    Beginnings,  \* what the thread may have posted before it calls exec
    MaxQueue,    \* bound: a callback pokes again only while the queue is shorter
    MaxDepth     \* bound: calls of exec and processEvents on the stack

EventTypes == {"User", "Timer", "SystemMessage", "Quit"}

ASSUME EventLoopAssumption ==
    /\ MaxCount \in Nat \ {0} /\ Interval \in Nat \ {0}
    /\ Beginnings \subseteq Seq(EventTypes)
    /\ MaxQueue \in Nat /\ MaxDepth \in Nat \ {0}

Places == 1 .. MaxDepth
Main == 1
Killed == Interval + 1

VARIABLES
    stack,     \* the calls of exec and processEvents that have not returned
    exit_, rc_,  \* of the loop at each place
    queue,     \* of the thread's dispatcher
    left,      \* the time until nextFire of the widget's timer, or Killed
    tick_,     \* of the widget
    first,     \* of the filter
    sleeping,  \* per place: threads that will call exit(1)
    between    \* per place: threads that have stored exit_ and not yet rc_

widget  == <<tick_, first>>
loops   == <<exit_, rc_>>
closers == <<sleeping, between>>
vars == <<stack, loops, queue, left, widget, closers>>

Frame(kind, pc) == [kind |-> kind, pc |-> pc, c |-> 0, did |-> FALSE]

\* main: the timer is started, events are posted, and exec is called.
Init ==
    /\ stack = <<Frame("exec", "reset")>>
    /\ exit_ = [d \in Places |-> FALSE] /\ rc_ = [d \in Places |-> 0]
    /\ queue \in Beginnings
    /\ left = Interval /\ tick_ = 0 /\ first = TRUE
    /\ sleeping = [d \in Places |-> 0] /\ between = [d \in Places |-> 0]

Depth == Len(stack)
Top == stack[Depth]
At(pc) == stack # <<>> /\ Top.pc = pc
Goto(pc) == stack' = [stack EXCEPT ![Depth].pc = pc]
Returned == SubSeq(stack, 1, Depth - 1)

-------------------------------------------------------------------------------
\* exec: the flags are reset by two stores, after the closer has been started.
resetExit ==
    /\ At("reset")
    /\ exit_' = [exit_ EXCEPT ![Depth] = FALSE]
    /\ Goto("reset rc")
    /\ UNCHANGED <<rc_, queue, left, widget, closers>>

resetRc ==
    /\ At("reset rc")
    /\ rc_' = [rc_ EXCEPT ![Depth] = 0]
    /\ Goto("loop")
    /\ UNCHANGED <<exit_, queue, left, widget, closers>>

\* while (!exit_): another round, or return rc_.
round ==
    /\ At("loop") /\ ~exit_[Depth]
    /\ stack' = [stack EXCEPT ![Depth] = Frame(Top.kind, "post")]
    /\ UNCHANGED <<loops, queue, left, widget, closers>>

return ==
    /\ At("loop") /\ exit_[Depth]
    /\ stack' = Returned
    /\ UNCHANGED <<loops, queue, left, widget, closers>>

-------------------------------------------------------------------------------
\* processPostedEvents: an event is taken and sent, at most MaxCount per call.
MayTake == At("post") /\ Top.c < MaxCount /\ queue # <<>>

Counted == [stack EXCEPT ![Depth].c = @ + 1, ![Depth].did = TRUE]

\* Widget::event for a click: the filter eats the first one, and each of the
\* others starts a loop and the thread that will end it.
clickFiltered ==
    /\ MayTake /\ Head(queue) = "User" /\ first
    /\ first' = FALSE
    /\ stack' = Counted /\ queue' = Tail(queue)
    /\ UNCHANGED <<loops, left, tick_, closers>>

click ==
    /\ MayTake /\ Head(queue) = "User" /\ ~first
    /\ Depth < MaxDepth
    /\ LET d == Depth + 1
       IN  /\ exit_' = [exit_ EXCEPT ![d] = FALSE]
           /\ rc_' = [rc_ EXCEPT ![d] = 0]
           /\ sleeping' = [sleeping EXCEPT ![d] = @ + 1]
    /\ stack' = Append(Counted, Frame("exec", "reset"))
    /\ queue' = Tail(queue)
    /\ UNCHANGED <<left, widget, between>>

\* Widget::event for its timer, which is killed after the third tick.  An event
\* that was queued before that still has the timer's id.
timer ==
    /\ MayTake /\ Head(queue) = "Timer"
    /\ tick_' = tick_ + 1
    /\ left' = IF tick_' >= 3 THEN Killed ELSE left
    /\ stack' = Counted /\ queue' = Tail(queue)
    /\ UNCHANGED <<loops, first, closers>>

\* SystemSource::event: the callback returns, pokes the source again, or lets
\* the loop breathe with processEvents (bound: not from inside processEvents).
system ==
    /\ MayTake /\ Head(queue) = "SystemMessage"
    /\ \/ stack' = Counted /\ queue' = Tail(queue)
       \/ /\ Len(queue) < MaxQueue
          /\ stack' = Counted
          /\ queue' = Append(Tail(queue), "SystemMessage")
       \/ /\ Depth < MaxDepth
          /\ \A i \in DOMAIN stack : stack[i].kind = "exec"
          /\ \E kind \in {"AllEvents", "PostedOnly"} :
               stack' = Append(Counted, Frame(kind, "post"))
          /\ queue' = Tail(queue)
    /\ UNCHANGED <<loops, left, widget, closers>>

\* Faulty: the innermost loop is told to exit.
quitInnermost ==
    /\ MayTake /\ Head(queue) = "Quit"
    /\ exit_' \in {exit_, [exit_ EXCEPT ![Depth] = TRUE]}
    /\ stack' = Counted /\ queue' = Tail(queue)
    /\ UNCHANGED <<rc_, left, widget, closers>>

\* An Application ignores Quit; an AppHandler calls quit, which is exit(0) of
\* the main loop, also when a nested loop is the one that sent the event.
quit ==
    /\ MayTake /\ Head(queue) = "Quit"
    /\ \/ UNCHANGED loops
       \/ exit_' = [exit_ EXCEPT ![Main] = TRUE] /\ rc_' = [rc_ EXCEPT ![Main] = 0]
    /\ stack' = Counted /\ queue' = Tail(queue)
    /\ UNCHANGED <<left, widget, closers>>

posted ==
    /\ At("post") /\ ~MayTake
    /\ IF Top.kind = "PostedOnly" THEN stack' = Returned ELSE Goto("pump")
    /\ UNCHANGED <<loops, queue, left, widget, closers>>

-------------------------------------------------------------------------------
\* Faulty: the timers are pumped only in a round without events.
DueWhenQuiet == left = 0 /\ ~Top.did

Due == left = 0

\* pumpTimers: a timer that is due posts its event and starts anew.
fire ==
    /\ At("pump")
    /\ IF Due THEN queue' = Append(queue, "Timer") /\ left' = Interval
                   ELSE UNCHANGED <<queue, left>>
    /\ IF Top.kind = "exec" THEN Goto("idle") ELSE stack' = Returned
    /\ UNCHANGED <<loops, widget, closers>>

idle ==
    /\ At("idle")
    /\ Goto(IF ~Top.did /\ ~exit_[Depth] THEN "wait" ELSE "loop")
    /\ UNCHANGED <<loops, queue, left, widget, closers>>

\* Faulty: a wait without a timeout, which only a posted event ends.
waitForever ==
    /\ At("wait") /\ queue # <<>>
    /\ Goto("loop")
    /\ UNCHANGED <<loops, queue, left, widget, closers>>

\* wait: only the time ends it, because nobody else posts here and exit does
\* not notify.
wait ==
    /\ At("wait")
    /\ Goto("loop")
    /\ UNCHANGED <<loops, queue, left, widget, closers>>

-------------------------------------------------------------------------------
\* The thread that ends the nested loop: exit(1) is two stores.
storeExit(d) ==
    /\ sleeping[d] > 0 /\ stack # <<>>
    /\ exit_' = [exit_ EXCEPT ![d] = TRUE]
    /\ sleeping' = [sleeping EXCEPT ![d] = @ - 1]
    /\ between' = [between EXCEPT ![d] = @ + 1]
    /\ UNCHANGED <<stack, rc_, queue, left, widget>>

storeRc(d) ==
    /\ between[d] > 0 /\ stack # <<>>
    /\ rc_' = [rc_ EXCEPT ![d] = 1]
    /\ between' = [between EXCEPT ![d] = @ - 1]
    /\ UNCHANGED <<stack, exit_, queue, left, widget, sleeping>>

\* The clock, seen from the timer.
Tick ==
    /\ stack # <<>>
    /\ left' = IF left \in 1 .. Interval THEN left - 1 ELSE left
    /\ UNCHANGED <<stack, loops, queue, widget, closers>>

\* main has returned, and the process with it.
Ended == stack = <<>> /\ UNCHANGED vars

Gui ==
    \/ resetExit \/ resetRc \/ round \/ return
    \/ clickFiltered \/ click \/ timer \/ system \/ quit \/ posted
    \/ fire \/ idle \/ wait

Next ==
    \/ Gui \/ Tick \/ Ended
    \/ \E d \in Places : storeExit(d) \/ storeRc(d)

\* The threads run and time passes; nobody has to quit.
Fairness ==
    /\ WF_vars(Gui) /\ WF_vars(Tick)
    /\ \A d \in Places : WF_vars(storeExit(d)) /\ WF_vars(storeRc(d))

Spec == Init /\ [][Next]_vars /\ Fairness

-------------------------------------------------------------------------------
Kinds == {"exec", "AllEvents", "PostedOnly"}
Pcs == {"reset", "reset rc", "loop", "post", "pump", "idle", "wait"}

Frames == [kind : Kinds, pc : Pcs, c : 0 .. MaxCount, did : BOOLEAN]

TypeOK ==
    /\ stack \in Seq(Frames)
    /\ Depth <= MaxDepth
    /\ exit_ \in [Places -> BOOLEAN] /\ rc_ \in [Places -> {0, 1}]
    /\ queue \in Seq(EventTypes)
    /\ left \in 0 .. Killed /\ tick_ \in Nat /\ first \in BOOLEAN
    /\ sleeping \in [Places -> Nat] /\ between \in [Places -> Nat]

\* A thread that is about to call exit finds the loop it was started for: there
\* is at most one per place, and that loop is still on the stack, whatever was
\* nested, quit and returned meanwhile.
ExitFindsItsLoop ==
    \A d \in Places :
      sleeping[d] > 0 =>
        /\ sleeping[d] = 1
        /\ d \in 2 .. Depth /\ stack[d].kind = "exec"
        /\ exit_[d] = FALSE

\* "stop timer after 3 ticks" (main.cpp:354): the widget is told of three ticks and
\* no more.  killTimer (main.cpp:96) erases the timer, but takes no event back that
\* is queued.
TimerStops == tick_ <= 3

\* A timer that is due is fired, whatever the callbacks post.
TimersServed == left = 0 ~> left # 0 \/ stack = <<>>

\* The exit came before the loop had reset exit_, and is forgotten.
ExitLost == \E d \in 2 .. Depth :
              stack[d].kind = "exec" /\ sleeping[d] = 0 /\ ~exit_[d]

\* All nested loops end, although nobody wakes them, and the main loop goes on,
\* unless a call of exit came before exec had reset the flag.
NestedLoopsEnd == Depth > Main ~> Depth <= Main \/ ExitLost

\* main.cpp:243 compares the result of exec with that of QDialog::exec: it is the
\* code that exit was called with.
ExecReturnsCode ==
    [][\A d \in 2 .. MaxDepth :
         (Depth = d /\ Depth' = d - 1 /\ Top.kind = "exec") => rc_[d] = 1]_vars
===============================================================================
