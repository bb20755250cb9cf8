---------------------------- MODULE ComponentsProofs ----------------------------
(***************************************************************************)
(* Proofs about the parts of Components, one after the other.              *)
(*                                                                         *)
(* The event loop: the stack of nested loops, for any posted events, any   *)
(* interval and any number of loops on it.                                 *)
(*                                                                         *)
(* The table: the map that GetMap returns is the table at one moment, for  *)
(* any number of threads, keys and buckets and any hash.  GetMap copies a  *)
(* bucket only when it has locked all of them, and while it has a bucket   *)
(* nobody changes it.  Since a key is in its bucket at most once, and in   *)
(* no other, the copy of a key cannot be overwritten by a later entry or a *)
(* later bucket.                                                           *)
(*                                                                         *)
(* The lock: a writer is alone, for any number of threads, any width of    *)
(* the counters and any number of locks that a thread holds below it.      *)
(* Without a writer, every reading that was not counted in lock_cnt_ is    *)
(* still counted in readers_, because a count that has wrapped cannot come *)
(* down to zero before readers_ is full.  So whoever finds readers_ zero   *)
(* finds all counts zero, and from then on the count of the writer is      *)
(* exact, and nobody else gets a lock.                                     *)
(*                                                                         *)
(* The list: traversals meet no deleted node and pass over none, for any   *)
(* number of threads and nodes.  A traversal stands on a node that is in   *)
(* the list and has its mutex, so the node stays, and so does what it      *)
(* points to; RemoveIf takes a node out only when it has the mutexes of    *)
(* the node and of the only one that points to it.                         *)
(*                                                                         *)
(* The stack with shared pointers is a stack, for any number of threads,   *)
(* nodes and values.  Nobody pushes a node that somebody still points to,  *)
(* so as long as the node that a Pop has read is in the stack it points to *)
(* what the Pop has read from it.                                          *)
(*                                                                         *)
(* The parallel algorithms: their answers are those of the sequential      *)
(* ones, for any list, min_per_thread and number of hardware threads.  The *)
(* blocks follow one another and cover the list, so what holds of every    *)
(* block that has ended holds of the list.  In Find nothing is passed over *)
(* as long as nothing is found.  In FindRecursive the calls are a tree of  *)
(* ranges, and a call that ends without an answer stands for all calls     *)
(* below it: when the first call has none, no call has raised the flag, so *)
(* every place was looked at.  In PartialSum a thread hands on the sum of  *)
(* all that is before the end of its block, and the sum of a list is that  *)
(* of its beginning and that of its rest.                                  *)
(***************************************************************************)
EXTENDS Components, LinkedListProofs

\* How a step changes the stack: it stays in the calls it is in, one of them
\* returns, or one is added.
SameCalls ==
    /\ stack' \in Seq(Frames) /\ Len(stack') = Len(stack)
    /\ \A d \in 1 .. Len(stack) : stack'[d].kind = stack[d].kind

Returns ==
    /\ stack' \in Seq(Frames) /\ Len(stack') = Len(stack) - 1
    /\ \A d \in 1 .. Len(stack) - 1 : stack'[d].kind = stack[d].kind

Calls(kind) ==
    /\ stack' \in Seq(Frames) /\ Len(stack') = Len(stack) + 1
    /\ \A d \in 1 .. Len(stack) : stack'[d].kind = stack[d].kind
    /\ stack'[Len(stack) + 1].kind = kind

-------------------------------------------------------------------------------
\* The last call is a frame, and stays one with another place in it.
LEMMA TopFacts ==
    ASSUME stack \in Seq(Frames), stack # <<>>
    PROVE  /\ Depth \in Nat \ {0} /\ Top \in Frames
           /\ Top.kind \in Kinds /\ Top.pc \in Pcs
           /\ Top.c \in 0 .. MaxCount /\ Top.did \in BOOLEAN
<1>1. Depth \in Nat \ {0} /\ Top \in Frames
  BY DEF Depth, Top
<1>2. QED
  BY <1>1 DEF Frames

LEMMA GotoSameCalls ==
    ASSUME stack \in Seq(Frames), stack # <<>>, NEW pc \in Pcs, Goto(pc)
    PROVE  SameCalls
<1> DEFINE e == [Top EXCEPT !.pc = pc]
<1>0. Len(stack) \in 1 .. Len(stack)
  BY TopFacts DEF Depth
<1>1. e \in Frames /\ e.kind = Top.kind
  BY TopFacts DEF Frames
<1>2. stack' = [stack EXCEPT ![Len(stack)] = e]
  BY DEF Goto, Top, Depth
<1> HIDE DEF e
<1>3. QED
  BY <1>1, <1>2, <1>0, ExceptSeq DEF SameCalls, Top, Depth

\* An event that is counted leaves room for no more than MaxCount of them.
LEMMA CountedSameCalls ==
    ASSUME stack \in Seq(Frames), MayTake
    PROVE  /\ Counted \in Seq(Frames) /\ Len(Counted) = Len(stack)
           /\ \A d \in 1 .. Len(stack) : Counted[d].kind = stack[d].kind
           /\ stack # <<>> /\ queue # <<>>
<1> DEFINE e == [Top EXCEPT !.c = Top.c + 1, !.did = TRUE]
<1>0. stack # <<>> /\ queue # <<>> /\ Top.c < MaxCount
  BY DEF MayTake, At
<1>1. Top.c + 1 \in 0 .. MaxCount
  BY <1>0, TopFacts, EventLoopAssumption
<1>2. e \in Frames /\ e.kind = Top.kind
  BY <1>0, <1>1, TopFacts DEF Frames
<1>3. Counted = [stack EXCEPT ![Len(stack)] = e]
  BY <1>0 DEF Counted, Top, Depth
<1>4. Len(stack) \in 1 .. Len(stack)
  BY <1>0, TopFacts DEF Depth
<1> HIDE DEF e
<1>5. QED
  BY <1>0, <1>2, <1>3, <1>4, ExceptSeq DEF Top, Depth

\* A new call is a frame.
LEMMA FrameType ==
    ASSUME NEW kind \in Kinds, NEW pc \in Pcs
    PROVE  Frame(kind, pc) \in Frames /\ Frame(kind, pc).kind = kind
BY EventLoopAssumption DEF Frame, Frames

LEMMA ReturnedReturns ==
    ASSUME stack \in Seq(Frames), stack # <<>>, stack' = Returned
    PROVE  Returns
<1>1. Len(stack) \in Nat \ {0}
  BY TopFacts DEF Depth
<1>2. \A d \in 1 .. Len(stack) - 1 : stack[d] \in Frames
  BY <1>1
<1>3. 1 \in Int /\ Len(stack) - 1 \in Int
  BY <1>1
<1> DEFINE r == SubSeq(stack, 1, Len(stack) - 1)
<1>4. /\ r \in Seq(Frames)
      /\ Len(r) = IF 1 <= Len(stack) - 1 THEN Len(stack) - 1 - 1 + 1 ELSE 0
      /\ \A i \in 1 .. Len(stack) - 1 - 1 + 1 : r[i] = stack[1 + i - 1]
  BY <1>2, <1>3, SubSeqProperties
<1>5. stack' = r
  BY DEF Returned, Depth
<1> HIDE DEF r
<1>6. stack' \in Seq(Frames)
  BY <1>4, <1>5
<1>7. Len(stack') = Len(stack) - 1
  BY <1>1, <1>4, <1>5
<1>8. \A d \in 1 .. Len(stack) - 1 : stack'[d] = stack[d]
  BY <1>1, <1>4, <1>5
<1>9. QED
  BY <1>6, <1>7, <1>8 DEF Returns

LEMMA AppendedCalls ==
    ASSUME stack \in Seq(Frames), MayTake, NEW kind \in Kinds, NEW pc \in Pcs,
           stack' = Append(Counted, Frame(kind, pc))
    PROVE  Calls(kind)
<1>1. /\ Counted \in Seq(Frames) /\ Len(Counted) = Len(stack)
      /\ \A d \in 1 .. Len(stack) : Counted[d].kind = stack[d].kind
  BY CountedSameCalls
<1>2. Frame(kind, pc) \in Frames /\ Frame(kind, pc).kind = kind
  BY FrameType
<1>3. /\ stack' \in Seq(Frames) /\ Len(stack') = Len(Counted) + 1
      /\ \A i \in 1 .. Len(Counted) : stack'[i] = Counted[i]
      /\ stack'[Len(Counted) + 1] = Frame(kind, pc)
  BY <1>1, <1>2, AppendProperties
<1>4. QED
  BY <1>1, <1>2, <1>3 DEF Calls

LEMMA CountedIsSameCalls ==
    ASSUME stack \in Seq(Frames), MayTake, stack' = Counted
    PROVE  SameCalls
BY CountedSameCalls DEF SameCalls

-------------------------------------------------------------------------------
\* The steps that stay in the calls of the stack.
Stays == resetExit \/ resetRc \/ round \/ clickFiltered \/ timer \/ quit \/ idle
           \/ wait

LEMMA StayingStep ==
    ASSUME TypeOK, Stays
    PROVE  SameCalls /\ stack # <<>>
<1>0. stack \in Seq(Frames)
  BY DEF TypeOK
<1>a. stack # <<>>
  BY DEF Stays, resetExit, resetRc, round, clickFiltered, timer, quit, idle, wait,
         MayTake, At
<1>1. ASSUME NEW pc \in Pcs, Goto(pc)
      PROVE  SameCalls
  BY <1>0, <1>a, <1>1, GotoSameCalls
<1>2. CASE resetExit
  <2>1. Goto("reset rc") /\ "reset rc" \in Pcs
    BY <1>2 DEF resetExit, Pcs
  <2>2. QED
    BY <2>1, <1>1, <1>a
<1>3. CASE resetRc
  <2>1. Goto("loop") /\ "loop" \in Pcs
    BY <1>3 DEF resetRc, Pcs
  <2>2. QED
    BY <2>1, <1>1, <1>a
<1>4. CASE round
  <2> DEFINE e == Frame(Top.kind, "post")
  <2>1. e \in Frames /\ e.kind = Top.kind
    BY <1>0, <1>a, TopFacts, FrameType DEF Pcs
  <2>2. stack' = [stack EXCEPT ![Len(stack)] = e]
    BY <1>4 DEF round, Depth
  <2>3. Len(stack) \in 1 .. Len(stack)
    BY <1>0, <1>a, TopFacts DEF Depth
  <2> HIDE DEF e
  <2>4. QED
    BY <1>0, <1>a, <2>1, <2>2, <2>3, ExceptSeq DEF SameCalls, Top, Depth
<1>5. CASE clickFiltered \/ timer \/ quit
  <2>1. MayTake /\ stack' = Counted
    BY <1>5 DEF clickFiltered, timer, quit
  <2>2. QED
    BY <2>1, <1>0, <1>a, CountedIsSameCalls
<1>6. CASE idle
  <2>1. Goto("wait") \/ Goto("loop")
    BY <1>6 DEF idle
  <2>2. "wait" \in Pcs /\ "loop" \in Pcs
    BY DEF Pcs
  <2>3. QED
    BY <2>1, <2>2, <1>1, <1>a
<1>7. CASE wait
  <2>1. Goto("loop") /\ "loop" \in Pcs
    BY <1>7 DEF wait, Pcs
  <2>2. QED
    BY <2>1, <1>1, <1>a
<1>8. QED
  BY <1>2, <1>3, <1>4, <1>5, <1>6, <1>7 DEF Stays
LEMMA ReturningStep ==
    ASSUME TypeOK, return
    PROVE  Returns /\ stack # <<>> /\ exit_[Depth]
<1>1. stack \in Seq(Frames) /\ stack # <<>> /\ stack' = Returned /\ exit_[Depth]
  BY DEF TypeOK, return, At
<1>2. QED
  BY <1>1, ReturnedReturns

\* A click nests a loop.
LEMMA ClickStep ==
    ASSUME TypeOK, click
    PROVE  Calls("exec") /\ Depth \in 1 .. MaxDepth - 1
<1>1. stack \in Seq(Frames) /\ MayTake /\ Depth < MaxDepth
  BY DEF TypeOK, click
<1>2. stack' = Append(Counted, Frame("exec", "reset"))
  BY DEF click
<1>3. "exec" \in Kinds /\ "reset" \in Pcs
  BY DEF Kinds, Pcs
<1>4. Calls("exec")
  BY <1>1, <1>2, <1>3, AppendedCalls
<1>5. Depth \in Nat \ {0}
  BY <1>1, CountedSameCalls, TopFacts
<1>6. QED
  BY <1>1, <1>4, <1>5, EventLoopAssumption

LEMMA SystemStep ==
    ASSUME TypeOK, system
    PROVE  /\ \/ SameCalls
              \/ Depth < MaxDepth /\ \E kind \in Kinds : Calls(kind)
           /\ stack # <<>>
<1>1. stack \in Seq(Frames) /\ MayTake /\ stack # <<>>
  BY DEF TypeOK, system, MayTake, At
<1>2. CASE stack' = Counted
  BY <1>1, <1>2, CountedIsSameCalls
<1>3. CASE /\ Depth < MaxDepth
           /\ \E kind \in {"AllEvents", "PostedOnly"} :
                stack' = Append(Counted, Frame(kind, "post"))
  <2>1. PICK kind \in {"AllEvents", "PostedOnly"} :
          stack' = Append(Counted, Frame(kind, "post"))
    BY <1>3
  <2>2. kind \in Kinds /\ "post" \in Pcs
    BY DEF Kinds, Pcs
  <2>3. Calls(kind)
    BY <1>1, <2>1, <2>2, AppendedCalls
  <2>4. QED
    BY <1>1, <1>3, <2>2, <2>3
<1>4. QED
  BY <1>2, <1>3 DEF system

\* Only processEvents returns from a round: exec goes on in it.
LEMMA RoundStep ==
    ASSUME TypeOK, posted \/ fire
    PROVE  SameCalls \/ (Returns /\ Top.kind # "exec")
<1>1. stack \in Seq(Frames) /\ stack # <<>>
  BY DEF TypeOK, posted, fire, At
<1>2. "pump" \in Pcs /\ "idle" \in Pcs
  BY DEF Pcs
<1>3. ASSUME NEW pc \in Pcs, Goto(pc)
      PROVE  SameCalls
  BY <1>1, <1>3, GotoSameCalls
<1>4. \/ Goto("pump") \/ Goto("idle")
      \/ stack' = Returned /\ Top.kind # "exec"
  BY DEF posted, fire
<1>5. CASE Goto("pump") \/ Goto("idle")
  BY <1>2, <1>3, <1>5
<1>6. CASE stack' = Returned /\ Top.kind # "exec"
  BY <1>1, <1>6, ReturnedReturns
<1>7. QED
  BY <1>4, <1>5, <1>6
-------------------------------------------------------------------------------
\* What the queue becomes: an event is taken, added, or both.
LEMMA QueueType ==
    ASSUME queue \in Seq(EventTypes)
    PROVE  /\ queue # <<>> => Tail(queue) \in Seq(EventTypes)
           /\ queue # <<>> =>
                \A e \in EventTypes : Append(Tail(queue), e) \in Seq(EventTypes)
           /\ \A e \in EventTypes : Append(queue, e) \in Seq(EventTypes)
OBVIOUS

LEMMA TypeInit == Init => TypeOK
<1> SUFFICES ASSUME Init PROVE TypeOK
  OBVIOUS
<1>1. Frame("exec", "reset") \in Frames
  BY FrameType DEF Kinds, Pcs
<1>2. stack \in Seq(Frames) /\ Len(stack) = 1
  BY <1>1 DEF Init
<1>3. Depth <= MaxDepth
  BY <1>2, EventLoopAssumption DEF Depth
<1>4. queue \in Seq(EventTypes)
  BY EventLoopAssumption DEF Init
<1>5. left \in 0 .. Killed /\ tick_ \in Nat /\ first \in BOOLEAN
  BY EventLoopAssumption DEF Init, Killed
<1>6. QED
  BY <1>2, <1>3, <1>4, <1>5 DEF Init, TypeOK

\* The stack of every step is one of frames, and no deeper than MaxDepth.
LEMMA StackType ==
    ASSUME TypeOK, [Next]_vars
    PROVE  stack' \in Seq(Frames) /\ Depth' <= MaxDepth
<1>0. /\ stack \in Seq(Frames) /\ Len(stack) \in Nat /\ Depth = Len(stack)
      /\ Depth <= MaxDepth /\ Depth' = Len(stack')
  BY DEF TypeOK, Depth
<1>1. CASE Stays
  BY <1>0, <1>1, StayingStep DEF SameCalls
<1>2. CASE return
  BY <1>0, <1>2, ReturningStep, EventLoopAssumption DEF Returns
<1>3. CASE click
  BY <1>0, <1>3, ClickStep, EventLoopAssumption DEF Calls
<1>4. CASE system
  BY <1>0, <1>4, SystemStep, EventLoopAssumption DEF Calls, SameCalls
<1>5. CASE posted \/ fire
  BY <1>0, <1>5, RoundStep, EventLoopAssumption DEF SameCalls, Returns
<1>6. CASE stack' = stack
  BY <1>0, <1>6
<1>7. CASE Tick \/ Ended \/ UNCHANGED vars
       \/ \E d \in Places : storeExit(d) \/ storeRc(d)
  BY <1>6, <1>7 DEF Tick, Ended, vars, storeExit, storeRc
<1>8. QED
  BY <1>1, <1>2, <1>3, <1>4, <1>5, <1>7 DEF Next, Gui, Stays

\* No step of the loop, of a closing thread or of the clock takes a variable out
\* of its type.
LEMMA TypeStep == TypeOK /\ [Next]_vars => TypeOK'
<1> SUFFICES ASSUME TypeOK, [Next]_vars PROVE TypeOK'
  OBVIOUS
<1>1. stack' \in Seq(Frames) /\ Depth' <= MaxDepth
  BY StackType
<1>2. exit_' \in [Places -> BOOLEAN] /\ rc_' \in [Places -> {0, 1}]
  BY DEF TypeOK, Next, Gui, vars, loops, resetExit, resetRc, round, return,
         clickFiltered, click, timer, system, quit, posted, fire, idle, wait,
         storeExit, storeRc, Tick, Ended
<1>3. queue' \in Seq(EventTypes)
  <2>1. queue \in Seq(EventTypes)
    BY DEF TypeOK
  <2>2. \/ queue' = queue
        \/ queue # <<>> /\ queue' = Tail(queue)
        \/ queue # <<>> /\ queue' = Append(Tail(queue), "SystemMessage")
        \/ queue' = Append(queue, "Timer")
    BY DEF Next, Gui, vars, resetExit, resetRc, round, return, clickFiltered,
           click, timer, system, quit, posted, fire, idle, wait, storeExit,
           storeRc, Tick, Ended, MayTake
  <2>3. "SystemMessage" \in EventTypes /\ "Timer" \in EventTypes
    BY DEF EventTypes
  <2>4. QED
    BY <2>1, <2>2, <2>3, QueueType
<1>4. left' \in 0 .. Killed
  <2>1. left \in 0 .. Killed /\ Interval \in Nat \ {0} /\ Killed = Interval + 1
    BY EventLoopAssumption DEF TypeOK, Killed
  <2>2. \/ left' = left \/ left' = Killed \/ left' = Interval
        \/ left \in 1 .. Interval /\ left' = left - 1
    BY DEF Next, Gui, vars, resetExit, resetRc, round, return, clickFiltered,
           click, timer, system, quit, posted, fire, idle, wait, storeExit,
           storeRc, Tick, Ended
  <2>3. QED
    BY <2>1, <2>2
<1>5. tick_' \in Nat /\ first' \in BOOLEAN
  <2>1. tick_' = tick_ \/ tick_' = tick_ + 1
    BY DEF Next, Gui, vars, widget, resetExit, resetRc, round, return,
           clickFiltered, click, timer, system, quit, posted, fire, idle, wait,
           storeExit, storeRc, Tick, Ended
  <2>2. first' = first \/ first' = FALSE
    BY DEF Next, Gui, vars, widget, resetExit, resetRc, round, return,
           clickFiltered, click, timer, system, quit, posted, fire, idle, wait,
           storeExit, storeRc, Tick, Ended
  <2>3. tick_' \in Nat
    BY <2>1 DEF TypeOK
  <2>4. first' \in BOOLEAN
    BY <2>2 DEF TypeOK
  <2>5. QED
    BY <2>3, <2>4
<1>6. sleeping' \in [Places -> Nat] /\ between' \in [Places -> Nat]
  <2>0. sleeping \in [Places -> Nat] /\ between \in [Places -> Nat]
    BY DEF TypeOK
  <2>1. CASE UNCHANGED closers
    BY <2>0, <2>1 DEF closers
  <2>2. CASE click
    <3>1. Depth + 1 \in Places
      BY <2>2, ClickStep, EventLoopAssumption DEF Places
    <3>2. sleeping[Depth + 1] + 1 \in Nat
      BY <2>0, <3>1
    <3>3. QED
      BY <2>0, <2>2, <3>1, <3>2 DEF click
  <2>3. ASSUME NEW d \in Places, storeExit(d)
        PROVE  sleeping' \in [Places -> Nat] /\ between' \in [Places -> Nat]
    <3>1. sleeping[d] - 1 \in Nat /\ between[d] + 1 \in Nat
      BY <2>0, <2>3 DEF storeExit
    <3>2. QED
      BY <2>0, <2>3, <3>1 DEF storeExit
  <2>4. ASSUME NEW d \in Places, storeRc(d)
        PROVE  sleeping' \in [Places -> Nat] /\ between' \in [Places -> Nat]
    <3>1. between[d] - 1 \in Nat
      BY <2>0, <2>4 DEF storeRc
    <3>2. QED
      BY <2>0, <2>4, <3>1 DEF storeRc
  <2>5. \/ UNCHANGED closers \/ click
        \/ \E d \in Places : storeExit(d) \/ storeRc(d)
    BY DEF Next, Gui, vars, resetExit, resetRc, round, return, clickFiltered,
           timer, system, quit, posted, fire, idle, wait, Tick, Ended
  <2>6. QED
    BY <2>1, <2>2, <2>3, <2>4, <2>5
<1>7. QED
  BY <1>1, <1>2, <1>3, <1>4, <1>5, <1>6 DEF TypeOK

\* The variables of the loops keep their types, however deep loops are nested.
THEOREM EventLoopTypeCorrect == Spec => []TypeOK
<1>1. QED
  BY TypeInit, TypeStep, PTL DEF Spec
-------------------------------------------------------------------------------
\* A step that removes no loop and tells none that somebody will end to exit.
LEMMA TargetsStay ==
    ASSUME TypeOK, ExitFindsItsLoop, SameCalls, sleeping' = sleeping,
           \A d \in Places : sleeping[d] > 0 => exit_'[d] = FALSE
    PROVE  ExitFindsItsLoop'
<1>1. Depth = Len(stack) /\ Depth' = Len(stack)
  BY DEF Depth, SameCalls
<1> SUFFICES ASSUME NEW d \in Places, sleeping'[d] > 0
             PROVE  /\ sleeping'[d] = 1 /\ d \in 2 .. Depth'
                    /\ stack'[d].kind = "exec" /\ exit_'[d] = FALSE
  BY DEF ExitFindsItsLoop
<1>2. /\ sleeping[d] = 1 /\ d \in 2 .. Len(stack)
      /\ stack[d].kind = "exec"
  BY <1>1 DEF ExitFindsItsLoop
<1>3. stack'[d].kind = stack[d].kind
  BY <1>2 DEF SameCalls
<1>4. QED
  BY <1>1, <1>2, <1>3

\* A call that returns was not the one that somebody will end: it is a call of
\* processEvents, or a loop that was told to exit.
LEMMA TargetsRemain ==
    ASSUME TypeOK, ExitFindsItsLoop, Returns, sleeping' = sleeping, exit_' = exit_,
           Top.kind # "exec" \/ exit_[Depth]
    PROVE  ExitFindsItsLoop'
<1>1. Depth = Len(stack) /\ Depth' = Len(stack) - 1 /\ Len(stack) \in Nat
  BY DEF Depth, Returns, TypeOK
<1> SUFFICES ASSUME NEW d \in Places, sleeping[d] > 0
             PROVE  /\ sleeping[d] = 1 /\ d \in 2 .. Depth'
                    /\ stack'[d].kind = "exec" /\ exit_[d] = FALSE
  BY DEF ExitFindsItsLoop
<1>2. /\ sleeping[d] = 1 /\ d \in 2 .. Len(stack)
      /\ stack[d].kind = "exec" /\ exit_[d] = FALSE
  BY <1>1 DEF ExitFindsItsLoop
<1>3. d # Len(stack)
  BY <1>1, <1>2 DEF Top
<1>4. d \in 2 .. Len(stack) - 1
  BY <1>1, <1>2, <1>3
<1>5. stack'[d].kind = stack[d].kind
  BY <1>4 DEF Returns
<1>6. QED
  BY <1>1, <1>2, <1>4, <1>5

\* The loop that a click nests is at a place that nobody is going to end.
LEMMA TargetAdded ==
    ASSUME TypeOK, ExitFindsItsLoop, click
    PROVE  ExitFindsItsLoop'
<1>1. Calls("exec") /\ Depth \in 1 .. MaxDepth - 1 /\ Depth = Len(stack)
  BY ClickStep DEF Depth
<1>2. Depth' = Depth + 1
  BY <1>1 DEF Calls, Depth
<1>3. Depth + 1 \in Places /\ sleeping \in [Places -> Nat]
      /\ exit_ \in [Places -> BOOLEAN]
  BY <1>1, EventLoopAssumption DEF Places, TypeOK
<1>4. sleeping[Depth + 1] = 0
  BY <1>1, <1>3 DEF ExitFindsItsLoop
<1>5. /\ sleeping' = [sleeping EXCEPT ![Depth + 1] = @ + 1]
      /\ exit_' = [exit_ EXCEPT ![Depth + 1] = FALSE]
  BY DEF click
<1> SUFFICES ASSUME NEW d \in Places, sleeping'[d] > 0
             PROVE  /\ sleeping'[d] = 1 /\ d \in 2 .. Depth'
                    /\ stack'[d].kind = "exec" /\ exit_'[d] = FALSE
  BY DEF ExitFindsItsLoop
<1>6. CASE d = Depth + 1
  <2>1. sleeping'[d] = 1 /\ exit_'[d] = FALSE
    BY <1>3, <1>4, <1>5, <1>6
  <2>2. stack'[d].kind = "exec"
    BY <1>1, <1>6 DEF Calls
  <2>3. d \in 2 .. Depth'
    BY <1>1, <1>2, <1>6
  <2>4. QED
    BY <2>1, <2>2, <2>3
<1>7. CASE d # Depth + 1
  <2>1. sleeping'[d] = sleeping[d] /\ exit_'[d] = exit_[d]
    BY <1>3, <1>5, <1>7
  <2>2. /\ sleeping[d] = 1 /\ d \in 2 .. Depth
        /\ stack[d].kind = "exec" /\ exit_[d] = FALSE
    BY <2>1 DEF ExitFindsItsLoop
  <2>3. stack'[d].kind = stack[d].kind
    BY <1>1, <2>2 DEF Calls
  <2>4. QED
    BY <1>1, <1>2, <2>1, <2>2, <2>3
<1>8. QED
  BY <1>6, <1>7
\* The inductive step: whoever is about to call exit still finds its loop.
LEMMA TargetsStep ==
    TypeOK /\ ExitFindsItsLoop /\ [Next]_vars => ExitFindsItsLoop'
<1> SUFFICES ASSUME TypeOK, ExitFindsItsLoop, [Next]_vars PROVE ExitFindsItsLoop'
  OBVIOUS
<1>0. /\ exit_ \in [Places -> BOOLEAN] /\ sleeping \in [Places -> Nat]
      /\ \A d \in Places : sleeping[d] > 0 => exit_[d] = FALSE
      /\ sleeping[Main] = 0
  <2>1. exit_ \in [Places -> BOOLEAN] /\ sleeping \in [Places -> Nat]
    BY DEF TypeOK
  <2>2. \A d \in Places : sleeping[d] > 0 => exit_[d] = FALSE
    BY DEF ExitFindsItsLoop
  <2>3. Main \in Places /\ \A n \in Nat : Main \notin 2 .. n
    BY EventLoopAssumption DEF Main, Places
  <2>4. Depth \in Nat
    BY DEF TypeOK, Depth
  <2>5. sleeping[Main] = 0
    BY <2>1, <2>3, <2>4 DEF ExitFindsItsLoop
  <2>6. QED
    BY <2>1, <2>2, <2>5
<1>1. CASE Stays
  <2>1. SameCalls
    BY <1>1, StayingStep
  <2>2. sleeping' = sleeping
    BY <1>1 DEF Stays, resetExit, resetRc, round, clickFiltered, timer, quit, idle,
                wait, closers
  <2>3. \/ exit_' = exit_ \/ exit_' = [exit_ EXCEPT ![Depth] = FALSE]
        \/ exit_' = [exit_ EXCEPT ![Main] = TRUE]
    BY <1>1 DEF Stays, resetExit, resetRc, round, clickFiltered, timer, quit, idle,
                wait, loops
  <2>4. \A d \in Places : sleeping[d] > 0 => exit_'[d] = FALSE
    BY <1>0, <2>3
  <2>5. QED
    BY <2>1, <2>2, <2>4, TargetsStay
<1>2. CASE return
  <2>1. Returns /\ exit_[Depth]
    BY <1>2, ReturningStep
  <2>2. sleeping' = sleeping /\ exit_' = exit_
    BY <1>2 DEF return, closers, loops
  <2>3. QED
    BY <2>1, <2>2, TargetsRemain
<1>3. CASE click
  BY <1>3, TargetAdded
<1>4. CASE system
  <2>1. sleeping' = sleeping /\ exit_' = exit_
    BY <1>4 DEF system, closers, loops
  <2>2. CASE SameCalls
    BY <1>0, <2>1, <2>2, TargetsStay
  <2>3. ASSUME NEW kind \in Kinds, Calls(kind)
        PROVE  ExitFindsItsLoop'
    <3>1. Depth = Len(stack) /\ Depth' = Len(stack) + 1 /\ Len(stack) \in Nat
      BY <2>3 DEF Depth, Calls, TypeOK
    <3>2. SUFFICES ASSUME NEW d \in Places, sleeping[d] > 0
                   PROVE  /\ sleeping[d] = 1 /\ d \in 2 .. Depth'
                          /\ stack'[d].kind = "exec" /\ exit_[d] = FALSE
      BY <2>1 DEF ExitFindsItsLoop
    <3>3. /\ sleeping[d] = 1 /\ d \in 2 .. Len(stack)
          /\ stack[d].kind = "exec" /\ exit_[d] = FALSE
      BY <3>1, <3>2 DEF ExitFindsItsLoop
    <3>4. stack'[d].kind = stack[d].kind
      BY <2>3, <3>3 DEF Calls
    <3>5. QED
      BY <3>1, <3>3, <3>4
  <2>4. QED
    BY <1>4, <2>2, <2>3, SystemStep
<1>5. CASE posted \/ fire
  <2>1. sleeping' = sleeping /\ exit_' = exit_
    BY <1>5 DEF posted, fire, closers, loops
  <2>2. QED
    BY <1>0, <1>5, <2>1, RoundStep, TargetsStay, TargetsRemain
<1>6. ASSUME NEW d \in Places, storeExit(d)
      PROVE  ExitFindsItsLoop'
  <2>1. /\ exit_' = [exit_ EXCEPT ![d] = TRUE]
        /\ sleeping' = [sleeping EXCEPT ![d] = @ - 1]
        /\ sleeping[d] > 0 /\ stack' = stack
    BY <1>6 DEF storeExit
  <2>2. sleeping[d] = 1
    BY <2>1 DEF ExitFindsItsLoop
  <2>3. SUFFICES ASSUME NEW e \in Places, sleeping'[e] > 0
                 PROVE  /\ sleeping'[e] = 1 /\ e \in 2 .. Depth'
                        /\ stack'[e].kind = "exec" /\ exit_'[e] = FALSE
    BY DEF ExitFindsItsLoop
  <2>4. e # d
    BY <1>0, <2>1, <2>2, <2>3
  <2>5. sleeping'[e] = sleeping[e] /\ exit_'[e] = exit_[e]
    BY <1>0, <2>1, <2>4
  <2>6. /\ sleeping[e] = 1 /\ e \in 2 .. Depth
        /\ stack[e].kind = "exec" /\ exit_[e] = FALSE
    BY <2>3, <2>5 DEF ExitFindsItsLoop
  <2>7. Depth' = Depth
    BY <2>1 DEF Depth
  <2>8. QED
    BY <2>1, <2>5, <2>6, <2>7
<1>7. CASE UNCHANGED <<stack, exit_, sleeping>>
  BY <1>7 DEF ExitFindsItsLoop, Depth
<1>8. QED
  BY <1>1, <1>2, <1>3, <1>4, <1>5, <1>6, <1>7
     DEF Next, Gui, Stays, storeRc, Tick, Ended, vars, loops, closers

\* A thread that is about to call exit finds the loop it was started for, however
\* deep loops are nested and whatever quits and returns meanwhile (main.cpp:343).
THEOREM ExitTargetCorrect == Spec => []ExitFindsItsLoop
<1>1. Init => ExitFindsItsLoop
  BY EventLoopAssumption DEF Init, ExitFindsItsLoop, Places
<1>2. QED
  BY <1>1, TypeInit, TypeStep, TargetsStep, PTL DEF Spec

-------------------------------------------------------------------------------
\* The table.

\* A key is in a list once, and in the list of its bucket.
KeysOnce(list) ==
    \A i, j \in 1 .. Len(list) : list[i].key = list[j].key => i = j

OwnKeys(list, b) == \A i \in 1 .. Len(list) : Table!FindBucket(list[i].key) = b

ListsSound == \A b \in Table!Buckets : KeysOnce(t_data[b]) /\ OwnKeys(t_data[b], b)

\* A GetMap has the mutexes of the buckets it has locked.
LocksHeld ==
    \A t \in Clients : \A b \in Table!Buckets : b < t_locks[t] => t_mtx[b] = t

\* It copies when it has them all, and what it has copied is the table.
Copying ==
    \A t \in Clients :
      /\ t_copied[t] > 0 => t_locks[t] = bucket_num
      /\ \A key \in Keys :
           t_res[t][key] = IF Table!FindBucket(key) < t_copied[t]
                         THEN Table!ValueFor(t_data[Table!FindBucket(key)], key)
                         ELSE NoValue

TableInv == Table!TypeOK /\ ListsSound /\ LocksHeld /\ Copying

-------------------------------------------------------------------------------
LEMMA BucketOfKey ==
    ASSUME Table!TableAssumption, NEW key \in Keys
    PROVE  Table!FindBucket(key) \in Table!Buckets
<1>1. hasher_[key] \in Nat /\ bucket_num \in Nat \ {0}
  BY DEF Table!TableAssumption
<1>2. hasher_[key] % bucket_num \in 0 .. bucket_num - 1
  BY <1>1, SMT
<1>3. QED
  BY <1>2 DEF Table!FindBucket, Table!Buckets

\* FindEntryFor finds an entry if there is one; if the keys differ, it is the only one.
LEMMA EntryFound ==
    ASSUME NEW list \in Seq(Table!Entry), KeysOnce(list), NEW i \in 1 .. Len(list)
    PROVE  /\ Table!FindEntryFor(list, list[i].key) = i
           /\ Table!ValueFor(list, list[i].key) = list[i].value
<1> DEFINE key == list[i].key
           First(k) == list[k].key = key /\ \A j \in 1 .. k - 1 : list[j].key # key
<1>1. DOMAIN list = 1 .. Len(list) /\ Len(list) \in Nat
  BY LenProperties
<1>2. \A k \in 1 .. Len(list) : list[k].key = key => k = i
  BY DEF KeysOnce
<1>3. First(i)
  BY <1>2, <1>1
<1>4. \A k \in 1 .. Len(list) : First(k) <=> k = i
  BY <1>2, <1>3
<1>5. (CHOOSE k \in 1 .. Len(list) : First(k)) = i
  BY <1>3, <1>4
<1>6. Table!FindEntryFor(list, key) = i
  BY <1>1, <1>5 DEF Table!FindEntryFor
<1>7. QED
  BY <1>1, <1>6 DEF Table!ValueFor

LEMMA NoEntryFound ==
    ASSUME NEW list \in Seq(Table!Entry), NEW key,
           \A i \in 1 .. Len(list) : list[i].key # key
    PROVE  Table!FindEntryFor(list, key) = Len(list) + 1
           /\ Table!ValueFor(list, key) = NoValue
<1>1. DOMAIN list = 1 .. Len(list) /\ Len(list) \in Nat
  BY LenProperties
<1>2. Table!FindEntryFor(list, key) = Len(list) + 1
  BY <1>1 DEF Table!FindEntryFor
<1>3. QED
  BY <1>1, <1>2 DEF Table!ValueFor

\* The two cases of FindEntryFor.
LEMMA EntryCases ==
    ASSUME NEW list \in Seq(Table!Entry), KeysOnce(list), NEW key
    PROVE  LET i == Table!FindEntryFor(list, key)
           IN  \/ i \in 1 .. Len(list) /\ list[i].key = key
               \/ /\ i = Len(list) + 1
                  /\ \A j \in 1 .. Len(list) : list[j].key # key
<1>1. CASE \E j \in 1 .. Len(list) : list[j].key = key
  <2>1. PICK j \in 1 .. Len(list) : list[j].key = key
    BY <1>1
  <2>2. Table!FindEntryFor(list, key) = j
    BY <2>1, EntryFound
  <2>3. QED
    BY <2>1, <2>2
<1>2. CASE ~ \E j \in 1 .. Len(list) : list[j].key = key
  BY <1>2, NoEntryFound
<1>3. QED
  BY <1>1, <1>2

-------------------------------------------------------------------------------
\* A list with an entry removed, and a list turned around.
LEMMA Removed ==
    ASSUME NEW list \in Seq(Table!Entry), NEW i \in 1 .. Len(list)
    PROVE  /\ Table!Seqs!RemoveAt(list, i) \in Seq(Table!Entry)
           /\ Len(Table!Seqs!RemoveAt(list, i)) = Len(list) - 1
           /\ \A j \in 1 .. Len(list) - 1 :
                Table!Seqs!RemoveAt(list, i)[j] = IF j < i THEN list[j] ELSE list[j + 1]
<1> DEFINE front == SubSeq(list, 1, i - 1)
           back  == SubSeq(list, i + 1, Len(list))
<1>0. Len(list) \in Nat
  BY LenProperties
<1>1. /\ front \in Seq(Table!Entry) /\ Len(front) = i - 1
      /\ \A j \in 1 .. i - 1 : front[j] = list[j]
  <2>1. \A j \in 1 .. i - 1 : j \in 1 .. Len(list)
    BY <1>0
  <2>2. QED
    BY <1>0, <2>1, SMT
<1>2. /\ back \in Seq(Table!Entry) /\ Len(back) = Len(list) - i
      /\ \A j \in 1 .. Len(list) - i : back[j] = list[j + i]
  <2>1. \A j \in i + 1 .. Len(list) : j \in 1 .. Len(list)
    BY <1>0
  <2>2. QED
    BY <1>0, <2>1, SMT
<1>3. /\ front \o back \in Seq(Table!Entry)
      /\ Len(front \o back) = Len(list) - 1
      /\ \A j \in 1 .. Len(list) - 1 :
           (front \o back)[j] = IF j <= i - 1 THEN front[j] ELSE back[j - (i - 1)]
  <2> HIDE DEF front, back
  <2>1. /\ front \o back \in Seq(Table!Entry)
        /\ Len(front \o back) = Len(front) + Len(back)
        /\ \A j \in 1 .. Len(front) + Len(back) :
             (front \o back)[j] = IF j <= Len(front) THEN front[j]
                                 ELSE back[j - Len(front)]
    BY <1>1, <1>2, ConcatProperties
  <2>2. Len(front) + Len(back) = Len(list) - 1
    BY <1>0, <1>1, <1>2
  <2>3. QED
    BY <1>1, <2>1, <2>2
<1>4. \A j \in 1 .. Len(list) - 1 :
         (front \o back)[j] = IF j < i THEN list[j] ELSE list[j + 1]
  <2> HIDE DEF front, back
  <2>1. QED
    BY <1>0, <1>1, <1>2, <1>3
<1>5. Table!Seqs!RemoveAt(list, i) = front \o back
  BY DEF Table!Seqs!RemoveAt
<1>6. QED
  BY <1>3, <1>4, <1>5

LEMMA Reversed ==
    ASSUME NEW list \in Seq(Table!Entry), KeysOnce(list)
    PROVE  /\ Table!Seqs!Reverse(list) \in Seq(Table!Entry)
           /\ KeysOnce(Table!Seqs!Reverse(list))
           /\ Len(Table!Seqs!Reverse(list)) = Len(list)
           /\ \A i \in 1 .. Len(list) :
                Table!Seqs!Reverse(list)[i] = list[Len(list) - i + 1]
<1> DEFINE r == Table!Seqs!Reverse(list)
<1>1. Len(list) \in Nat /\ \A i \in 1 .. Len(list) : list[i] \in Table!Entry
  BY LenProperties, ElementOfSeq
<1>2. r = [i \in 1 .. Len(list) |-> list[(Len(list) - i) + 1]]
  BY DEF Table!Seqs!Reverse
<1>3. \A i \in 1 .. Len(list) : (Len(list) - i) + 1 \in 1 .. Len(list)
  BY <1>1
<1>4. r \in [1 .. Len(list) -> Table!Entry]
  BY <1>1, <1>2, <1>3
<1>5. r \in Seq(Table!Entry) /\ Len(r) = Len(list)
  BY <1>1, <1>4, SMT
<1>6. KeysOnce(r)
  BY <1>1, <1>2, <1>3, <1>5 DEF KeysOnce
<1>7. QED
  BY <1>2, <1>5, <1>6

\* The last entry with a key is the first one, since it is the only one.
LEMMA SameFromBehind ==
    ASSUME NEW list \in Seq(Table!Entry), KeysOnce(list), NEW i \in 1 .. Len(list)
    PROVE  Table!ValueFor(Table!Seqs!Reverse(list), list[i].key)
           = Table!ValueFor(list, list[i].key)
<1> DEFINE r == Table!Seqs!Reverse(list)
           j == Len(list) - i + 1
<1>1. Len(list) \in Nat /\ j \in 1 .. Len(list) /\ Len(list) - j + 1 = i
  BY LenProperties
<1>2. r \in Seq(Table!Entry) /\ KeysOnce(r) /\ Len(r) = Len(list) /\ r[j] = list[i]
  BY <1>1, Reversed
<1> HIDE DEF r, j
<1>3. Table!ValueFor(r, r[j].key) = r[j].value
  BY <1>1, <1>2, EntryFound
<1>4. QED
  BY <1>2, <1>3, EntryFound DEF r

-------------------------------------------------------------------------------
\* The table is empty at first.
LEMMA TableInitHolds == Table!TableAssumption /\ Table!Init => TableInv
<1> SUFFICES ASSUME Table!TableAssumption, Table!Init PROVE TableInv
  OBVIOUS
<1>1. bucket_num \in Nat \ {0} /\ 0 \in 0 .. bucket_num
  BY DEF Table!TableAssumption
<1>2. \A b \in Table!Buckets : t_data[b] = <<>> /\ <<>> \in Seq(Table!Entry)
      /\ Len(<<>>) = 0
  BY DEF Table!Init
<1>3. Table!TypeOK
  BY <1>1, <1>2 DEF Table!Init, Table!TypeOK, Table!Nothing
<1>4. ListsSound
  <2>1. ASSUME NEW b \in Table!Buckets PROVE 1 .. Len(t_data[b]) = {}
    BY <1>2
  <2>2. QED
    BY <2>1, Zenon DEF ListsSound, KeysOnce, OwnKeys
<1>5. LocksHeld
  BY DEF Table!Init, LocksHeld, Table!Buckets
<1>6. Copying
  <2>1. \A key \in Keys : ~(Table!FindBucket(key) < 0)
    BY BucketOfKey DEF Table!Buckets
  <2>2. QED
    BY <2>1 DEF Table!Init, Copying, Table!Nothing
<1>7. QED
  BY <1>3, <1>4, <1>5, <1>6 DEF TableInv

\* Whoever holds a bucket is the only one who has got as far as that.
LEMMA NobodyCopies ==
    ASSUME Table!TableAssumption, TableInv, NEW t \in Clients, NEW key \in Keys,
           Table!Lockable(t, key), NEW u \in Clients
    PROVE  t_copied[u] = 0
<1>1. Table!FindBucket(key) \in Table!Buckets /\ t_mtx[Table!FindBucket(key)] # u
  BY BucketOfKey DEF Table!Lockable, Table!TableAssumption
<1>2. ~(Table!FindBucket(key) < t_locks[u])
  BY <1>1 DEF TableInv, LocksHeld
<1>3. t_locks[u] # bucket_num
  BY <1>1, <1>2 DEF Table!Buckets, Table!TableAssumption
<1>4. t_copied[u] \in 0 .. bucket_num
  BY DEF TableInv, Table!TypeOK
<1>5. QED
  BY <1>3, <1>4 DEF TableInv, Copying, Table!TableAssumption

\* A changed list that is sound keeps the invariant.
LEMMA ListChanged ==
    ASSUME Table!TableAssumption, TableInv, NEW t \in Clients, NEW key \in Keys,
           Table!Lockable(t, key), NEW list \in Seq(Table!Entry), KeysOnce(list),
           OwnKeys(list, Table!FindBucket(key)),
           t_data' = [t_data EXCEPT ![Table!FindBucket(key)] = list],
           UNCHANGED <<t_mtx, t_locks, t_copied, t_res>>
    PROVE  TableInv'
<1>1. Table!FindBucket(key) \in Table!Buckets
      /\ t_data \in [Table!Buckets -> Seq(Table!Entry)]
  BY BucketOfKey DEF TableInv, Table!TypeOK
<1>2. Table!TypeOK'
  BY <1>1, Zenon DEF TableInv, Table!TypeOK
<1>3. ListsSound'
  <2>1. ASSUME NEW b \in Table!Buckets
        PROVE  KeysOnce(t_data'[b]) /\ OwnKeys(t_data'[b], b)
    BY <1>1, Zenon DEF TableInv, ListsSound
  <2>2. QED
    BY <2>1, Zenon DEF ListsSound, KeysOnce, OwnKeys
<1>4. LocksHeld'
  BY Zenon DEF TableInv, LocksHeld
<1>5. Copying'
  <2>1. \A u \in Clients : t_copied[u] = 0
    BY NobodyCopies
  <2>2. \A k \in Keys : ~(Table!FindBucket(k) < 0)
    BY BucketOfKey DEF Table!Buckets
  <2>3. \A u \in Clients : \A k \in Keys : t_res[u][k] = NoValue
    BY <2>1, <2>2, Zenon DEF TableInv, Copying
  <2>4. t_copied' = t_copied /\ t_res' = t_res /\ ~(0 > 0)
    OBVIOUS
  <2>5. QED
    BY <2>1, <2>2, <2>3, <2>4 DEF Copying
<1>6. QED
  BY <1>2, <1>3, <1>4, <1>5 DEF TableInv

\* AddOrUpdate: the entry with the key changes its value, or there is none and one is
\* put at the end.
LEMMA AddOrUpdateKeeps ==
    ASSUME Table!TableAssumption, TableInv, NEW t \in Clients, NEW key \in Keys,
           NEW val \in Values, Table!AddOrUpdate(t, key, val)
    PROVE  TableInv'
<1> DEFINE b == Table!FindBucket(key)
           list == t_data[b]
           i == Table!FindEntryFor(list, key)
           new == IF i > Len(list) THEN Append(list, [key |-> key, value |-> val])
                  ELSE [list EXCEPT ![i].value = val]
<1>1. /\ b \in Table!Buckets /\ list \in Seq(Table!Entry)
      /\ KeysOnce(list) /\ OwnKeys(list, b)
  BY BucketOfKey DEF TableInv, Table!TypeOK, ListsSound
<1>2. /\ Table!Lockable(t, key) /\ t_data' = [t_data EXCEPT ![b] = new]
      /\ UNCHANGED <<t_mtx, t_locks, t_copied, t_res>>
  BY DEF Table!AddOrUpdate
<1>3. Len(list) \in Nat /\ \A j \in 1 .. Len(list) : list[j] \in Table!Entry
  BY <1>1, LenProperties, ElementOfSeq
<1>4. new \in Seq(Table!Entry) /\ KeysOnce(new) /\ OwnKeys(new, b)
  <2>1. CASE i \in 1 .. Len(list) /\ list[i].key = key
    <3>1. new = [list EXCEPT ![i] = [list[i] EXCEPT !.value = val]]
      BY <1>3, <2>1
    <3>2. [list[i] EXCEPT !.value = val] \in Table!Entry
          /\ [list[i] EXCEPT !.value = val].key = list[i].key
      BY <1>3, <2>1 DEF Table!Entry
    <3>3. new \in Seq(Table!Entry) /\ Len(new) = Len(list)
      BY <1>1, <2>1, <3>1, <3>2, ExceptSeq
    <3>4. \A j \in 1 .. Len(list) : new[j].key = list[j].key
      BY <1>1, <2>1, <3>1, <3>2, ExceptSeq
    <3>5. QED
      BY <1>1, <3>3, <3>4 DEF KeysOnce, OwnKeys
  <2>2. CASE i = Len(list) + 1 /\ \A j \in 1 .. Len(list) : list[j].key # key
    <3>1. [key |-> key, value |-> val] \in Table!Entry
          /\ [key |-> key, value |-> val].key = key
      BY DEF Table!Entry
    <3>2. new = Append(list, [key |-> key, value |-> val])
      BY <1>3, <2>2
    <3>3. /\ new \in Seq(Table!Entry) /\ Len(new) = Len(list) + 1
          /\ \A j \in 1 .. Len(list) : new[j] = list[j]
          /\ new[Len(list) + 1].key = key
      BY <1>1, <3>1, <3>2, AppendProperties
    <3>4. KeysOnce(new)
      BY <1>1, <1>3, <2>2, <3>3 DEF KeysOnce
    <3>5. OwnKeys(new, b)
      BY <1>1, <1>3, <3>3 DEF OwnKeys
    <3>6. QED
      BY <3>3, <3>4, <3>5
  <2>3. QED
    BY <1>1, <2>1, <2>2, EntryCases
<1> HIDE DEF new, i, list
<1>5. QED
  BY <1>2, <1>4, ListChanged

\* Remove: the other entries stay what they are.
LEMMA RemoveKeeps ==
    ASSUME Table!TableAssumption, TableInv, NEW t \in Clients, NEW key \in Keys,
           Table!Remove(t, key)
    PROVE  TableInv'
<1> DEFINE b == Table!FindBucket(key)
           list == t_data[b]
           i == Table!FindEntryFor(list, key)
           new == Table!Seqs!RemoveAt(list, i)
<1>1. /\ b \in Table!Buckets /\ list \in Seq(Table!Entry) /\ Len(list) \in Nat
      /\ KeysOnce(list) /\ OwnKeys(list, b)
  BY BucketOfKey, LenProperties DEF TableInv, Table!TypeOK, ListsSound
<1>2. /\ Table!Lockable(t, key) /\ t_data' = [t_data EXCEPT ![b] = new]
      /\ UNCHANGED <<t_mtx, t_locks, t_copied, t_res>> /\ i <= Len(list)
  BY DEF Table!Remove
<1>3. i \in 1 .. Len(list)
  <2>1. CASE i = Len(list) + 1
    BY <1>1, <1>2, <2>1
  <2>2. QED
    BY <1>1, <2>1, EntryCases
<1>4. /\ new \in Seq(Table!Entry) /\ Len(new) = Len(list) - 1
      /\ \A j \in 1 .. Len(list) - 1 : new[j] = IF j < i THEN list[j] ELSE list[j + 1]
  BY <1>1, <1>3, Removed
<1> HIDE DEF new, i, list
<1>5. KeysOnce(new)
  <2>1. SUFFICES ASSUME NEW j \in 1 .. Len(list) - 1, NEW k \in 1 .. Len(list) - 1,
                        new[j].key = new[k].key
                 PROVE  j = k
    BY <1>4 DEF KeysOnce
  <2> DEFINE Was(n) == IF n < i THEN n ELSE n + 1
  <2>2. /\ Was(j) \in 1 .. Len(list) /\ Was(k) \in 1 .. Len(list)
        /\ new[j] = list[Was(j)] /\ new[k] = list[Was(k)]
    BY <1>1, <1>4
  <2>3. Was(j) = Was(k)
    BY <1>1, <2>1, <2>2 DEF KeysOnce
  <2>4. QED
    BY <1>1, <1>3, <2>3
<1>6. OwnKeys(new, b)
  BY <1>1, <1>4 DEF OwnKeys
<1>7. QED
  BY <1>2, <1>4, <1>5, <1>6, ListChanged

-------------------------------------------------------------------------------
\* GetMap locks the next bucket, which was free.
LEMMA lockBucketKeeps ==
    ASSUME Table!TableAssumption, TableInv, NEW t \in Clients, Table!lockBucket(t)
    PROVE  TableInv'
<1>1. /\ t_locks[t] \in 0 .. bucket_num /\ t_locks[t] < bucket_num
      /\ t_mtx[t_locks[t]] = Free /\ bucket_num \in Nat \ {0}
      /\ t_mtx' = [t_mtx EXCEPT ![t_locks[t]] = t]
      /\ t_locks' = [t_locks EXCEPT ![t] = t_locks[t] + 1]
      /\ UNCHANGED <<t_data, t_copied, t_res>>
  BY DEF TableInv, Table!TypeOK, Table!lockBucket, Table!TableAssumption
<1>2. t_locks[t] \in Table!Buckets /\ t_locks[t] + 1 \in 0 .. bucket_num
  BY <1>1 DEF Table!Buckets
<1>3. Table!TypeOK'
  <2>1. t_mtx' \in [Table!Buckets -> Clients \cup {Free}]
    BY <1>1 DEF TableInv, Table!TypeOK
  <2>2. t_locks' \in [Clients -> 0 .. bucket_num]
    BY <1>1, <1>2, Zenon DEF TableInv, Table!TypeOK
  <2>3. QED
    BY <1>1, <2>1, <2>2, Zenon DEF TableInv, Table!TypeOK
<1>4. ListsSound'
  BY <1>1, Zenon DEF TableInv, ListsSound, KeysOnce, OwnKeys
<1>5. LocksHeld'
  <2>1. ASSUME NEW u \in Clients, NEW b \in Table!Buckets, b < t_locks'[u]
        PROVE  t_mtx'[b] = u
    <3>1. t_mtx \in [Table!Buckets -> Clients \cup {Free}]
          /\ t_locks \in [Clients -> 0 .. bucket_num]
      BY DEF TableInv, Table!TypeOK
    <3>2. CASE u = t /\ b = t_locks[t]
      BY <1>1, <3>1, <3>2
    <3>3. CASE ~(u = t /\ b = t_locks[t])
      <4>1. b < t_locks[u]
        BY <1>1, <1>2, <2>1, <3>1, <3>3 DEF Table!Buckets
      <4>2. t_mtx[b] = u
        BY <4>1 DEF TableInv, LocksHeld
      <4>3. b # t_locks[t]
        BY <1>1, <4>2 DEF Table!TableAssumption
      <4>4. QED
        BY <1>1, <3>1, <4>2, <4>3
    <3>4. QED
      BY <3>2, <3>3
  <2>2. QED
    BY <2>1 DEF LocksHeld
<1>6. Copying'
  <2>1. \A u \in Clients : t_copied[u] > 0 => t_locks'[u] = bucket_num
    BY <1>1 DEF TableInv, Table!TypeOK, Copying
  <2>2. QED
    BY <1>1, <2>1, Zenon DEF TableInv, Copying
<1>7. QED
  BY <1>3, <1>4, <1>5, <1>6 DEF TableInv

\* GetMap copies a bucket: the keys of this bucket get their values, and only they.
LEMMA copyBucketKeeps ==
    ASSUME Table!TableAssumption, TableInv, NEW t \in Clients, Table!copyBucket(t)
    PROVE  TableInv'
<1> DEFINE c == t_copied[t]
           list == t_data[c]
           In(key) == \E i \in DOMAIN list : list[i].key = key
           new == [key \in Keys |-> IF In(key)
                                    THEN Table!ValueFor(Table!Seqs!Reverse(list), key)
                                    ELSE t_res[t][key]]
<1>1. /\ t_locks[t] = bucket_num /\ c < bucket_num /\ c \in 0 .. bucket_num
      /\ bucket_num \in Nat \ {0}
      /\ t_res' = [t_res EXCEPT ![t] = new]
      /\ t_copied' = [t_copied EXCEPT ![t] = c + 1]
      /\ UNCHANGED <<t_data, t_mtx, t_locks>>
  BY DEF TableInv, Table!TypeOK, Table!copyBucket, Table!TableAssumption
<1>2. c \in Table!Buckets /\ c + 1 \in 0 .. bucket_num
  BY <1>1 DEF Table!Buckets
<1>3. /\ list \in Seq(Table!Entry) /\ KeysOnce(list) /\ OwnKeys(list, c)
      /\ DOMAIN list = 1 .. Len(list)
      /\ \A j \in 1 .. Len(list) : list[j] \in Table!Entry
  BY <1>2, LenProperties, ElementOfSeq DEF TableInv, Table!TypeOK, ListsSound
<1>4. ASSUME NEW key \in Keys
      PROVE  /\ new[key] = IF Table!FindBucket(key) = c THEN Table!ValueFor(list, key)
                           ELSE t_res[t][key]
             /\ new[key] \in Values \cup {NoValue}
  <2>1. t_res[t][key] \in Values \cup {NoValue}
    BY DEF TableInv, Table!TypeOK
  <2>2. CASE In(key)
    <3>1. PICK j \in 1 .. Len(list) : list[j].key = key
      BY <1>3, <2>2
    <3>2. Table!FindBucket(key) = c
      BY <1>3, <3>1 DEF OwnKeys
    <3>3. new[key] = Table!ValueFor(list, key)
      BY <1>3, <2>2, <3>1, SameFromBehind
    <3>4. Table!ValueFor(list, key) = list[j].value /\ list[j].value \in Values
      BY <1>3, <3>1, EntryFound DEF Table!Entry
    <3>5. QED
      BY <3>2, <3>3, <3>4
  <2>3. CASE ~In(key)
    <3>1. new[key] = t_res[t][key]
      BY <2>3
    <3>2. CASE Table!FindBucket(key) = c
      <4>1. t_res[t][key] = NoValue
        BY <1>1, <3>2 DEF TableInv, Copying
      <4>2. Table!ValueFor(list, key) = NoValue
        BY <1>3, <2>3, NoEntryFound
      <4>3. QED
        BY <2>1, <3>1, <3>2, <4>1, <4>2
    <3>3. QED
      BY <2>1, <3>1, <3>2
  <2>4. QED
    BY <2>2, <2>3
<1>5. new \in [Keys -> Values \cup {NoValue}]
  BY <1>4
<1> HIDE DEF new, list, c
<1>6. Table!TypeOK'
  <2>1. t_copied' \in [Clients -> 0 .. bucket_num]
    BY <1>1, <1>2, Zenon DEF TableInv, Table!TypeOK
  <2>2. t_res' \in [Clients -> [Keys -> Values \cup {NoValue}]]
    BY <1>1, <1>5, Zenon DEF TableInv, Table!TypeOK
  <2>3. QED
    BY <1>1, <2>1, <2>2, Zenon DEF TableInv, Table!TypeOK
<1>7. ListsSound'
  BY <1>1, Zenon DEF TableInv, ListsSound, KeysOnce, OwnKeys
<1>8. LocksHeld'
  BY <1>1, Zenon DEF TableInv, LocksHeld
<1>9. Copying'
  <2>1. /\ t_copied \in [Clients -> 0 .. bucket_num]
        /\ t_res \in [Clients -> [Keys -> Values \cup {NoValue}]]
    BY DEF TableInv, Table!TypeOK
  <2>2. ASSUME NEW u \in Clients, NEW key \in Keys
        PROVE  /\ t_copied'[u] > 0 => t_locks'[u] = bucket_num
               /\ t_res'[u][key] = IF Table!FindBucket(key) < t_copied'[u]
                                 THEN Table!ValueFor(t_data[Table!FindBucket(key)], key)
                                 ELSE NoValue
    <3>1. /\ t_copied[u] > 0 => t_locks[u] = bucket_num
          /\ t_res[u][key] = IF Table!FindBucket(key) < t_copied[u]
                           THEN Table!ValueFor(t_data[Table!FindBucket(key)], key)
                       ELSE NoValue
      BY DEF TableInv, Copying
    <3>2. CASE u # t
      BY <1>1, <2>1, <3>1, <3>2
    <3>3. CASE u = t
      <4>1. Table!FindBucket(key) \in 0 .. bucket_num - 1
        BY BucketOfKey DEF Table!Buckets
      <4>2. t_copied'[t] = c + 1 /\ t_res'[t] = new /\ t_locks'[t] = bucket_num
        BY <1>1, <2>1
      <4>3. new[key] = IF Table!FindBucket(key) < c + 1
                       THEN Table!ValueFor(t_data[Table!FindBucket(key)], key)
                       ELSE NoValue
        BY <1>1, <1>4, <3>1, <3>3, <4>1 DEF c, list
      <4>4. QED
        BY <3>3, <4>2, <4>3
    <3>4. QED
      BY <3>2, <3>3
  <2>3. ASSUME NEW u \in Clients PROVE t_copied'[u] > 0 => t_locks'[u] = bucket_num
    BY <1>1, <2>1 DEF TableInv, Copying
  <2>4. QED
    BY <1>1, <2>2, <2>3 DEF Copying
<1>10. QED
  BY <1>6, <1>7, <1>8, <1>9 DEF TableInv

\* GetMap returns, and its locks are gone.
LEMMA unlockAllKeeps ==
    ASSUME Table!TableAssumption, TableInv, NEW t \in Clients, Table!unlockAll(t)
    PROVE  TableInv'
<1>1. /\ t_mtx' = [b \in Table!Buckets |-> IF t_mtx[b] = t THEN Free ELSE t_mtx[b]]
      /\ t_locks' = [t_locks EXCEPT ![t] = 0] /\ t_copied' = [t_copied EXCEPT ![t] = 0]
      /\ t_res' = [t_res EXCEPT ![t] = Table!Nothing] /\ UNCHANGED t_data
      /\ bucket_num \in Nat \ {0} /\ 0 \in 0 .. bucket_num
  BY DEF Table!unlockAll, Table!TableAssumption
<1>2. /\ t_mtx \in [Table!Buckets -> Clients \cup {Free}]
      /\ t_locks \in [Clients -> 0 .. bucket_num]
      /\ t_copied \in [Clients -> 0 .. bucket_num]
      /\ t_res \in [Clients -> [Keys -> Values \cup {NoValue}]]
  BY DEF TableInv, Table!TypeOK
<1>3. Table!TypeOK'
  <2>1. Table!Nothing \in [Keys -> Values \cup {NoValue}]
    BY DEF Table!Nothing
  <2>2. t_mtx' \in [Table!Buckets -> Clients \cup {Free}]
    BY <1>1, <1>2
  <2>3. t_locks' \in [Clients -> 0 .. bucket_num]
        /\ t_copied' \in [Clients -> 0 .. bucket_num]
    BY <1>1, <1>2, Zenon
  <2>4. t_res' \in [Clients -> [Keys -> Values \cup {NoValue}]]
    BY <1>1, <1>2, <2>1, Zenon
  <2>5. QED
    BY <1>1, <2>2, <2>3, <2>4, Zenon DEF TableInv, Table!TypeOK
<1>4. ListsSound'
  BY <1>1, Zenon DEF TableInv, ListsSound, KeysOnce, OwnKeys
<1>5. LocksHeld'
  BY <1>1, <1>2 DEF TableInv, LocksHeld, Table!Buckets
<1>6. Copying'
  <2>1. \A key \in Keys : Table!Nothing[key] = NoValue /\ ~(Table!FindBucket(key) < 0)
    BY BucketOfKey DEF Table!Buckets, Table!Nothing
  <2>2. QED
    BY <1>1, <1>2, <2>1 DEF TableInv, Copying
<1>7. QED
  BY <1>3, <1>4, <1>5, <1>6 DEF TableInv

-------------------------------------------------------------------------------
LEMMA TableStepHolds ==
    Table!TableAssumption /\ TableInv /\ [Table!Next]_(Table!vars) => TableInv'
<1> SUFFICES ASSUME Table!TableAssumption, TableInv, [Table!Next]_(Table!vars)
             PROVE  TableInv'
  OBVIOUS
<1>1. CASE UNCHANGED Table!vars
  BY <1>1, Zenon DEF Table!vars, TableInv, Table!TypeOK, ListsSound, KeysOnce, OwnKeys,
     LocksHeld, Copying
<1>2. ASSUME NEW t \in Clients, Table!Step(t) PROVE TableInv'
  <2>1. CASE \E key \in Keys, val \in Values : Table!AddOrUpdate(t, key, val)
    BY <2>1, AddOrUpdateKeeps
  <2>2. CASE \E key \in Keys : Table!Remove(t, key)
    BY <2>2, RemoveKeeps
  <2>3. CASE Table!lockBucket(t)
    BY <2>3, lockBucketKeeps
  <2>4. CASE Table!copyBucket(t)
    BY <2>4, copyBucketKeeps
  <2>5. CASE Table!unlockAll(t)
    BY <2>5, unlockAllKeeps
  <2>6. QED
    BY <1>2, <2>1, <2>2, <2>3, <2>4, <2>5 DEF Table!Step
<1>3. QED
  BY <1>1, <1>2 DEF Table!Next

\* When all buckets are copied the map is the whole table.
LEMMA SnapshotHolds == Table!TableAssumption /\ TableInv => Table!SnapshotIsACut
<1> SUFFICES ASSUME Table!TableAssumption, TableInv, NEW t \in Clients,
                    t_copied[t] = bucket_num, NEW key \in Keys
             PROVE  t_res[t][key] = Table!ValueFor(t_data[Table!FindBucket(key)], key)
  BY DEF Table!SnapshotIsACut
<1>1. Table!FindBucket(key) < t_copied[t]
  BY BucketOfKey DEF Table!Buckets, Table!TableAssumption
<1>2. QED
  BY <1>1 DEF TableInv, Copying

\* The types hold.
THEOREM TableTypeCorrect ==
    ASSUME Table!TableAssumption
    PROVE  Table!Spec => []Table!TypeOK
<1>1. Table!Init => TableInv
  BY TableInitHolds
<1>2. TableInv /\ [Table!Next]_(Table!vars) => TableInv'
  BY TableStepHolds
<1>3. TableInv => Table!TypeOK
  BY DEF TableInv
<1>4. QED
  BY <1>1, <1>2, <1>3, PTL DEF Table!Spec

\* GetMap returns the whole table as it is at the moment when its last bucket is
\* copied, with every key in its bucket once (threadsafe_lookup_table.hpp:35).
THEOREM MapIsTable ==
    ASSUME Table!TableAssumption
    PROVE  Table!Spec => []SnapshotIsACut
<1>1. Table!Init => TableInv
  BY TableInitHolds
<1>2. TableInv /\ [Table!Next]_(Table!vars) => TableInv'
  BY TableStepHolds
<1>3. TableInv => SnapshotIsACut
  BY SnapshotHolds DEF SnapshotIsACut
<1>4. QED
  BY <1>1, <1>2, <1>3, PTL DEF Table!Spec

-------------------------------------------------------------------------------
\* The lock.

\* The readings of t that lock_read did not count: those it holds, and those it
\* has given back, by which its count has wrapped.
Uncounted(t) ==
    IF w_count[t] = 0 THEN w_reads[t] ELSE UIntMod - w_count[t] + w_reads[t]

ReadersOnly == \A t \in Users : w_writes[t] = 0 /\ Uncounted(t) <= w_readers

HoldsNothing(t) == w_count[t] = 0 /\ w_reads[t] = 0 /\ w_writes[t] = 0

OneWriter ==
    \E w \in Users :
      /\ w_count[w] = w_reads[w] + w_writes[w]
      /\ \A t \in Users \ {w} : HoldsNothing(t)

Exact ==
    /\ ~w_writing => ReadersOnly
    /\ w_writing => OneWriter

LockInv == Lock!TypeOK /\ (w_wrapped \/ Exact)

-------------------------------------------------------------------------------
\* The counters go around.
LEMMA CountingUp ==
    ASSUME Lock!RWLockAssumption, NEW n \in Lock!Count
    PROVE  Lock!Inc(n) \in Lock!Count
           /\ Lock!Inc(n) = IF n = UIntMod - 1 THEN 0 ELSE n + 1
<1>1. CASE n = UIntMod - 1
  <2>1. UIntMod % UIntMod = 0
    BY SMT DEF Lock!RWLockAssumption
  <2>2. QED
    BY <1>1, <2>1 DEF Lock!Inc, Lock!Count, Lock!RWLockAssumption
<1>2. CASE n # UIntMod - 1
  <2>1. (n + 1) % UIntMod = n + 1
    BY <1>2, SMT DEF Lock!Count, Lock!RWLockAssumption
  <2>2. QED
    BY <1>2, <2>1 DEF Lock!Inc, Lock!Count, Lock!RWLockAssumption
<1>3. QED
  BY <1>1, <1>2

LEMMA CountingDown ==
    ASSUME Lock!RWLockAssumption, NEW n \in Lock!Count
    PROVE  Lock!Dec(n) \in Lock!Count
           /\ Lock!Dec(n) = IF n = 0 THEN UIntMod - 1 ELSE n - 1
<1>1. CASE n = 0
  <2>1. (UIntMod - 1) % UIntMod = UIntMod - 1
    BY SMT DEF Lock!RWLockAssumption
  <2>2. QED
    BY <1>1, <2>1 DEF Lock!Dec, Lock!Count, Lock!RWLockAssumption
<1>2. CASE n # 0
  <2>1. (n + UIntMod - 1) % UIntMod = n - 1
    BY <1>2, SMT DEF Lock!Count, Lock!RWLockAssumption
  <2>2. QED
    BY <1>2, <2>1 DEF Lock!Dec, Lock!Count, Lock!RWLockAssumption
<1>3. QED
  BY <1>1, <1>2

-------------------------------------------------------------------------------
\* The types.
Waitings == {"no", "rd_cond_", "wt_cond_", "woken to read", "woken to write"}
CountsTyped == w_count \in [Users -> Lock!Count] /\ w_readers \in Lock!Count
HeldTyped == w_reads \in [Users -> Nat] /\ w_writes \in [Users -> Nat]
FlagsTyped == w_writing \in BOOLEAN /\ w_wrapped \in BOOLEAN
WaitsTyped == w_waiting \in Lock!Count /\ w_waits \in [Users -> Waitings]

LEMMA LockTypes == Lock!TypeOK <=> CountsTyped /\ HeldTyped /\ FlagsTyped /\ WaitsTyped
BY Zenon DEF Lock!TypeOK, CountsTyped, HeldTyped, FlagsTyped, WaitsTyped, Waitings

LEMMA LockTypesAgain ==
    ASSUME CountsTyped', HeldTyped', FlagsTyped', WaitsTyped'
    PROVE  Lock!TypeOK'
BY Zenon DEF Lock!TypeOK, CountsTyped, HeldTyped, FlagsTyped, WaitsTyped, Waitings

LEMMA NotifyKeepsTypes ==
    ASSUME w_waits \in [Users -> Waitings],
           Lock!NotifyWriter \/ Lock!NotifyReaders \/ UNCHANGED w_waits
    PROVE  w_waits' \in [Users -> Waitings]
BY DEF Lock!NotifyWriter, Lock!NotifyReaders, Lock!Waits, Waitings

\* A reading more; its count is exact unless the counter has wrapped.
LEMMA ReadsFacts ==
    ASSUME Lock!RWLockAssumption, Lock!TypeOK, NEW t \in Users, Lock!Reads(t)
    PROVE  /\ w_readers' \in Lock!Count /\ HeldTyped' /\ FlagsTyped'
           /\ ~w_wrapped' => w_readers' = w_readers + 1
           /\ w_reads' = [w_reads EXCEPT ![t] = w_reads[t] + 1]
           /\ UNCHANGED <<w_writing, w_waiting, w_writes>>
<1>1. w_readers \in Lock!Count /\ HeldTyped /\ FlagsTyped
  BY LockTypes DEF CountsTyped
<1>2. w_readers' = Lock!Inc(w_readers)
  BY DEF Lock!Reads
<1>3. w_readers' \in Lock!Count /\ (w_readers' # 0 => w_readers' = w_readers + 1)
  BY <1>1, <1>2, CountingUp DEF Lock!Count
<1>4. w_wrapped' = (w_wrapped \/ w_readers' = 0) /\ UNCHANGED w_writing
  BY Zenon DEF Lock!Reads
<1>5. ~w_wrapped' => w_readers' # 0
  BY <1>4, Zenon
<1>6. FlagsTyped'
  BY <1>1, <1>4, Zenon DEF FlagsTyped
<1>7. /\ HeldTyped' /\ w_reads' = [w_reads EXCEPT ![t] = w_reads[t] + 1]
      /\ UNCHANGED <<w_waiting, w_writes>>
  BY <1>1 DEF Lock!Reads, HeldTyped
<1>8. QED
  BY <1>3, <1>4, <1>5, <1>6, <1>7, Zenon

\* A writing more.
LEMMA WritesFacts ==
    ASSUME Lock!RWLockAssumption, Lock!TypeOK, NEW t \in Users, Lock!Writes(t)
    PROVE  /\ w_writing' /\ CountsTyped' /\ HeldTyped' /\ FlagsTyped'
           /\ w_count' = [w_count EXCEPT ![t] = Lock!Inc(w_count[t])]
           /\ w_writes' = [w_writes EXCEPT ![t] = w_writes[t] + 1]
           /\ UNCHANGED <<w_readers, w_reads>>
<1>1. /\ w_count' = [w_count EXCEPT ![t] = Lock!Inc(w_count[t])]
      /\ w_writes' = [w_writes EXCEPT ![t] = w_writes[t] + 1]
      /\ UNCHANGED <<w_readers, w_reads>>
  BY DEF Lock!Writes
<1>2. w_writing' = TRUE /\ UNCHANGED w_wrapped
  BY Zenon DEF Lock!Writes
<1>3. CountsTyped /\ HeldTyped /\ FlagsTyped
  BY LockTypes
<1>4. Lock!Inc(w_count[t]) \in Lock!Count
  BY <1>3, CountingUp DEF CountsTyped
<1>5. CountsTyped' /\ HeldTyped'
  BY <1>1, <1>3, <1>4 DEF CountsTyped, HeldTyped
<1>6. w_writing' /\ FlagsTyped'
  BY <1>2, <1>3, Zenon DEF FlagsTyped
<1>7. QED
  BY <1>1, <1>5, <1>6, Zenon

\* One taken off a count.
LEMMA UnlockFacts ==
    ASSUME Lock!RWLockAssumption, Lock!TypeOK, NEW t \in Users,
           w_count' = [w_count EXCEPT ![t] = Lock!Dec(w_count[t])]
    PROVE  /\ w_count[t] \in Lock!Count /\ w_count'[t] \in Lock!Count
           /\ w_count'[t] = IF w_count[t] = 0 THEN UIntMod - 1 ELSE w_count[t] - 1
           /\ w_count' \in [Users -> Lock!Count]
<1>1. w_count \in [Users -> Lock!Count]
  BY LockTypes DEF CountsTyped
<1>2. QED
  BY <1>1, CountingDown

\* What a step does with the conditions and the number of waiting writers.
LEMMA WaitsStayTyped ==
    ASSUME Lock!RWLockAssumption, Lock!TypeOK, NEW t \in Users, Lock!Step(t)
    PROVE  WaitsTyped'
<1>1. w_waiting \in Lock!Count /\ w_waits \in [Users -> Waitings]
  BY LockTypes DEF WaitsTyped
<1>2. w_waits' \in [Users -> Waitings]
  <2>1. ASSUME NEW condition \in Waitings, Lock!Waits(t, condition)
        PROVE  w_waits' \in [Users -> Waitings]
    BY <1>1, <2>1 DEF Lock!Waits
  <2>2. /\ "no" \in Waitings /\ "rd_cond_" \in Waitings /\ "wt_cond_" \in Waitings
        /\ "woken to read" \in Waitings /\ "woken to write" \in Waitings
    BY DEF Waitings
  <2>3. CASE Lock!lockReadAgain(t) \/ Lock!lock_read(t) \/ Lock!wokenToRead(t)
    BY <1>1, <2>1, <2>2, <2>3, Zenon
       DEF Lock!lockReadAgain, Lock!lock_read, Lock!wokenToRead
  <2>4. CASE Lock!lockWriteAgain(t) \/ Lock!lock_write(t) \/ Lock!wokenToWrite(t)
    BY <1>1, <2>1, <2>2, <2>4, Zenon
       DEF Lock!lockWriteAgain, Lock!lock_write, Lock!wokenToWrite
  <2>5. CASE Lock!unlock_read(t) \/ Lock!unlock_write(t)
    <3>1. Lock!NotifyWriter \/ Lock!NotifyReaders \/ UNCHANGED w_waits
      BY <2>5, Zenon DEF Lock!unlock_read, Lock!unlock_write
    <3>2. QED
      BY <1>1, <3>1, NotifyKeepsTypes
  <2>6. CASE Lock!spurious(t)
    BY <2>1, <2>2, <2>6, Zenon DEF Lock!spurious
  <2>7. QED
    BY <2>3, <2>4, <2>5, <2>6, Zenon DEF Lock!Step
<1>3. w_waiting' \in Lock!Count
  <2>1. Lock!Inc(w_waiting) \in Lock!Count /\ Lock!Dec(w_waiting) \in Lock!Count
    BY <1>1, CountingUp, CountingDown
  <2>2. w_waiting' \in {w_waiting, Lock!Inc(w_waiting), Lock!Dec(w_waiting)}
    BY DEF Lock!Step, Lock!lockReadAgain, Lock!lock_read, Lock!wokenToRead,
       Lock!unlock_read, Lock!lockWriteAgain, Lock!lock_write, Lock!wokenToWrite,
       Lock!unlock_write, Lock!spurious, Lock!Reads, Lock!counts
  <2>3. QED
    BY <1>1, <2>1, <2>2
<1>4. QED
  BY <1>2, <1>3 DEF WaitsTyped

\* Every step keeps the types, whether readers_ has wrapped or not.
LEMMA LockTypeStep ==
    Lock!RWLockAssumption /\ Lock!TypeOK /\ [Lock!Next]_(Lock!vars) => Lock!TypeOK'
<1> SUFFICES ASSUME Lock!RWLockAssumption, Lock!TypeOK, [Lock!Next]_(Lock!vars)
             PROVE  Lock!TypeOK'
  OBVIOUS
<1>1. CountsTyped /\ HeldTyped /\ FlagsTyped /\ WaitsTyped
  BY LockTypes
<1>2. ASSUME NEW t \in Users, Lock!Step(t) PROVE Lock!TypeOK'
  <2>1. WaitsTyped'
    BY <1>2, WaitsStayTyped
  <2>2. ASSUME Lock!Reads(t), UNCHANGED w_count
        PROVE  CountsTyped' /\ HeldTyped' /\ FlagsTyped'
    BY <1>1, <2>2, ReadsFacts, Zenon DEF CountsTyped
  <2>3. ASSUME UNCHANGED <<w_writing, w_readers, w_count, w_wrapped, Lock!held>>
        PROVE  CountsTyped' /\ HeldTyped' /\ FlagsTyped'
    <3>1. UNCHANGED <<w_reads, w_writes>>
      BY <2>3 DEF Lock!held
    <3>2. QED
      BY <1>1, <2>3, <3>1, Zenon DEF CountsTyped, HeldTyped, FlagsTyped
  <2>4. CASE Lock!lockReadAgain(t)
    <3>1. Lock!Reads(t) /\ w_count' = [w_count EXCEPT ![t] = Lock!Inc(w_count[t])]
      BY <2>4 DEF Lock!lockReadAgain
    <3>2. w_count' \in [Users -> Lock!Count]
      BY <1>1, <3>1, CountingUp DEF CountsTyped
    <3>3. QED
      BY <2>1, <3>1, <3>2, ReadsFacts, LockTypesAgain, Zenon DEF CountsTyped
  <2>5. CASE Lock!lock_read(t) \/ Lock!wokenToRead(t)
    BY <2>1, <2>2, <2>3, <2>5, LockTypesAgain, Zenon DEF Lock!lock_read, Lock!wokenToRead
  <2>6. CASE Lock!unlock_read(t)
    <3>1. /\ w_reads[t] > 0 /\ w_reads' = [w_reads EXCEPT ![t] = w_reads[t] - 1]
          /\ w_count' = [w_count EXCEPT ![t] = Lock!Dec(w_count[t])]
          /\ w_readers' \in {w_readers, Lock!Dec(w_readers)} /\ UNCHANGED w_writes
      BY <2>6 DEF Lock!unlock_read
    <3>2. CountsTyped'
      BY <1>1, <3>1, UnlockFacts, CountingDown DEF CountsTyped
    <3>3. HeldTyped'
      BY <1>1, <3>1 DEF HeldTyped
    <3>4. FlagsTyped'
      BY <1>1, <2>6, Zenon DEF FlagsTyped, Lock!unlock_read
    <3>5. QED
      BY <2>1, <3>2, <3>3, <3>4, LockTypesAgain
  <2>7. CASE Lock!lockWriteAgain(t) \/ Lock!lock_write(t) \/ Lock!wokenToWrite(t)
    <3>1. \/ Lock!Writes(t)
          \/ UNCHANGED <<w_writing, w_readers, w_count, w_wrapped, Lock!held>>
      BY <2>7, Zenon DEF Lock!lockWriteAgain, Lock!lock_write, Lock!wokenToWrite, Lock!counts
    <3>2. QED
      BY <2>1, <2>3, <3>1, WritesFacts, LockTypesAgain, Zenon
  <2>8. CASE Lock!unlock_write(t)
    <3>1. /\ w_writes[t] > 0 /\ w_writes' = [w_writes EXCEPT ![t] = w_writes[t] - 1]
          /\ w_count' = [w_count EXCEPT ![t] = Lock!Dec(w_count[t])]
          /\ UNCHANGED <<w_readers, w_reads>>
      BY <2>8 DEF Lock!unlock_write
    <3>2. CountsTyped' /\ HeldTyped'
      <4>1. CountsTyped'
        BY <1>1, <3>1, UnlockFacts DEF CountsTyped
      <4>2. HeldTyped'
        BY <1>1, <3>1 DEF HeldTyped
      <4>3. QED
        BY <4>1, <4>2
    <3>3. FlagsTyped'
      BY <1>1, <2>8, Zenon DEF FlagsTyped, Lock!unlock_write
    <3>4. QED
      BY <2>1, <3>2, <3>3, LockTypesAgain
  <2>9. CASE Lock!spurious(t)
    <3>1. UNCHANGED <<w_writing, w_readers, w_count, w_wrapped, Lock!held>>
      BY <2>9, Zenon DEF Lock!spurious, Lock!counts
    <3>2. QED
      BY <2>1, <2>3, <3>1, LockTypesAgain
  <2>10. QED
    BY <1>2, <2>4, <2>5, <2>6, <2>7, <2>8, <2>9, Zenon DEF Lock!Step
<1>3. CASE UNCHANGED Lock!vars
  BY <1>3, Zenon DEF Lock!vars, Lock!counts, Lock!held, Lock!TypeOK
<1>4. QED
  BY <1>2, <1>3 DEF Lock!Next

-------------------------------------------------------------------------------
\* What is exact until readers_ wraps.

\* A step that changes neither what is held nor the counts.
LEMMA NothingHeldChanges ==
    ASSUME Exact, UNCHANGED <<w_writing, w_readers, w_count, Lock!held>>
    PROVE  Exact'
BY Zenon DEF Exact, ReadersOnly, OneWriter, HoldsNothing, Uncounted, Lock!held

\* Init: nobody holds anything.
LEMMA LockInitHolds == Lock!RWLockAssumption /\ Lock!Init => LockInv
<1> SUFFICES ASSUME Lock!RWLockAssumption, Lock!Init PROVE LockInv
  OBVIOUS
<1>1. w_writing = FALSE /\ w_wrapped = FALSE /\ 0 \in Lock!Count
  BY DEF Lock!Init, Lock!Count, Lock!RWLockAssumption
<1>2. CountsTyped /\ HeldTyped /\ WaitsTyped
  BY <1>1 DEF Lock!Init, CountsTyped, HeldTyped, WaitsTyped, Waitings
<1>3. FlagsTyped
  BY <1>1, Zenon DEF FlagsTyped
<1>4. ReadersOnly
  BY DEF Lock!Init, ReadersOnly, Uncounted
<1>5. QED
  BY <1>1, <1>2, <1>3, <1>4, LockTypes, Zenon DEF LockInv, Exact

\* lock_read of a thread whose count is not zero; without a writer the count has
\* wrapped, and with one the thread is the writer.
LEMMA lockReadAgainKeeps ==
    ASSUME Lock!RWLockAssumption, Lock!TypeOK, Exact, ~w_wrapped',
           NEW t \in Users, Lock!lockReadAgain(t)
    PROVE  Exact'
<1> USE LockTypes
<1>1. /\ Lock!Reads(t) /\ w_count[t] > 0 /\ w_reads[t] + w_writes[t] < MaxHeld
      /\ w_count' = [w_count EXCEPT ![t] = Lock!Inc(w_count[t])]
  BY DEF Lock!lockReadAgain, Lock!Locks
<1>2. w_count[t] \in Lock!Count /\ w_reads[t] \in Nat /\ w_writes[t] \in Nat
  BY DEF CountsTyped, HeldTyped
<1>3. /\ w_readers' = w_readers + 1
      /\ w_reads' = [w_reads EXCEPT ![t] = w_reads[t] + 1]
      /\ UNCHANGED <<w_writing, w_writes>>
  BY <1>1, ReadsFacts
<1>4. /\ Lock!Inc(w_count[t]) \in Lock!Count
      /\ Lock!Inc(w_count[t]) = IF w_count[t] = UIntMod - 1 THEN 0
                             ELSE w_count[t] + 1
  BY <1>2, CountingUp
<1>5. CASE ~w_writing
  <2>1. ReadersOnly
    BY <1>5 DEF Exact
  <2>2. ASSUME NEW u \in Users
        PROVE  w_writes'[u] = 0 /\ Uncounted(u)' <= w_readers'
    <3>1. w_writes[u] = 0 /\ Uncounted(u) <= w_readers
      BY <2>1 DEF ReadersOnly
    <3>2. w_count[u] \in Lock!Count /\ w_reads[u] \in Nat /\ w_readers \in Nat
      BY DEF CountsTyped, HeldTyped, Lock!Count
    <3>3. QED
      BY <1>1, <1>2, <1>3, <1>4, <3>1, <3>2
         DEF Uncounted, Lock!Count, CountsTyped, HeldTyped, Lock!RWLockAssumption
  <2>3. ReadersOnly' /\ ~w_writing'
    BY <1>3, <1>5, <2>2 DEF ReadersOnly
  <2>4. QED
    BY <2>3, Zenon DEF Exact
<1>6. CASE w_writing
  <2>1. PICK w \in Users : /\ w_count[w] = w_reads[w] + w_writes[w]
                             /\ \A u \in Users \ {w} : HoldsNothing(u)
    BY <1>6 DEF Exact, OneWriter
  <2>2. w = t
    BY <1>1, <2>1 DEF HoldsNothing
  <2>3. w_count'[t] = w_reads'[t] + w_writes'[t]
    BY <1>1, <1>2, <1>3, <1>4, <2>1, <2>2
       DEF CountsTyped, HeldTyped, Lock!Count, Lock!RWLockAssumption
  <2>4. \A u \in Users \ {t} : HoldsNothing(u)'
    BY <1>1, <1>3, <2>1, <2>2 DEF HoldsNothing, CountsTyped, HeldTyped
  <2>5. OneWriter' /\ w_writing'
    BY <1>3, <1>6, <2>3, <2>4 DEF OneWriter
  <2>6. QED
    BY <2>5, Zenon DEF Exact
<1>7. QED
  BY <1>5, <1>6

\* lock_read that may go on: there is no writer, and the reading is not counted.
LEMMA readingKeeps ==
    ASSUME Lock!RWLockAssumption, Lock!TypeOK, Exact, ~w_wrapped',
           NEW t \in Users, Lock!MayRead, Lock!Reads(t), UNCHANGED w_count
    PROVE  Exact'
<1> USE LockTypes
<1>1. ~w_writing /\ ReadersOnly
  BY Zenon DEF Lock!MayRead, Exact
<1>2. /\ w_readers' = w_readers + 1
      /\ w_reads' = [w_reads EXCEPT ![t] = w_reads[t] + 1]
      /\ UNCHANGED <<w_writing, w_writes>>
  BY ReadsFacts
<1>3. ASSUME NEW u \in Users
      PROVE  w_writes'[u] = 0 /\ Uncounted(u)' <= w_readers'
  <2>1. w_writes[u] = 0 /\ Uncounted(u) <= w_readers
    BY <1>1 DEF ReadersOnly
  <2>2. w_count[u] \in Lock!Count /\ w_reads[u] \in Nat /\ w_readers \in Nat
    BY DEF CountsTyped, HeldTyped, Lock!Count
  <2>3. QED
    BY <1>2, <2>1, <2>2
       DEF Uncounted, Lock!Count, CountsTyped, HeldTyped, Lock!RWLockAssumption
<1>4. ReadersOnly' /\ ~w_writing'
  BY <1>1, <1>2, <1>3 DEF ReadersOnly
<1>5. QED
  BY <1>4, Zenon DEF Exact

LEMMA lockReadKeeps ==
    ASSUME Lock!RWLockAssumption, Lock!TypeOK, Exact, ~w_wrapped',
           NEW t \in Users, Lock!lock_read(t) \/ Lock!wokenToRead(t)
    PROVE  Exact'
<1>1. UNCHANGED w_count
  BY DEF Lock!lock_read, Lock!wokenToRead
<1>2. CASE Lock!MayRead
  BY <1>1, <1>2, readingKeeps DEF Lock!lock_read, Lock!wokenToRead
<1>3. CASE ~Lock!MayRead
  <2>1. UNCHANGED <<w_writing, w_readers, Lock!held>>
    BY <1>3, Zenon DEF Lock!lock_read, Lock!wokenToRead
  <2>2. QED
    BY <1>1, <2>1, NothingHeldChanges
<1>4. QED
  BY <1>2, <1>3

\* unlock_read: without a writer the count cannot be one, since that would take
\* more uncounted readings than readers_ counts; with one the count is exact.
LEMMA unlockReadKeeps ==
    ASSUME Lock!RWLockAssumption, Lock!TypeOK, Exact,
           NEW t \in Users, Lock!unlock_read(t)
    PROVE  Exact'
<1> USE LockTypes
<1>1. /\ w_reads[t] > 0 /\ w_reads' = [w_reads EXCEPT ![t] = w_reads[t] - 1]
      /\ w_count' = [w_count EXCEPT ![t] = Lock!Dec(w_count[t])]
      /\ w_readers' = IF w_count'[t] = 0 THEN Lock!Dec(w_readers) ELSE w_readers
      /\ UNCHANGED <<w_writing, w_writes>>
  BY DEF Lock!unlock_read
<1>2. /\ w_count[t] \in Lock!Count /\ w_reads[t] \in Nat /\ w_writes[t] \in Nat
      /\ w_readers \in Lock!Count
  BY DEF CountsTyped, HeldTyped
<1>3. w_count'[t] = IF w_count[t] = 0 THEN UIntMod - 1 ELSE w_count[t] - 1
  BY <1>1, UnlockFacts
<1>4. CASE ~w_writing
  <2>1. ReadersOnly
    BY <1>4 DEF Exact
  <2>2. Uncounted(t) <= w_readers
    BY <2>1 DEF ReadersOnly
  <2>3. w_count[t] # 1
    BY <1>1, <1>2, <2>2 DEF Uncounted, Lock!Count, Lock!RWLockAssumption
  <2>4. w_readers' = w_readers
    BY <1>1, <1>2, <1>3, <2>3 DEF Lock!Count, Lock!RWLockAssumption
  <2>5. ASSUME NEW u \in Users
        PROVE  w_writes'[u] = 0 /\ Uncounted(u)' <= w_readers'
    <3>1. w_writes[u] = 0 /\ Uncounted(u) <= w_readers
      BY <2>1 DEF ReadersOnly
    <3>2. w_count[u] \in Lock!Count /\ w_reads[u] \in Nat
      BY DEF CountsTyped, HeldTyped
    <3>3. QED
      BY <1>1, <1>2, <1>3, <2>4, <3>1, <3>2
         DEF Uncounted, Lock!Count, CountsTyped, HeldTyped, Lock!RWLockAssumption
  <2>6. ReadersOnly' /\ ~w_writing'
    BY <1>1, <1>4, <2>5 DEF ReadersOnly
  <2>7. QED
    BY <2>6, Zenon DEF Exact
<1>5. CASE w_writing
  <2>1. PICK w \in Users : /\ w_count[w] = w_reads[w] + w_writes[w]
                             /\ \A u \in Users \ {w} : HoldsNothing(u)
    BY <1>5 DEF Exact, OneWriter
  <2>2. w = t
    BY <1>1, <2>1 DEF HoldsNothing
  <2>3. w_count'[t] = w_reads'[t] + w_writes'[t]
    BY <1>1, <1>2, <1>3, <2>1, <2>2 DEF HeldTyped, Lock!Count
  <2>4. \A u \in Users \ {t} : HoldsNothing(u)'
    BY <1>1, <2>1, <2>2 DEF HoldsNothing, CountsTyped, HeldTyped
  <2>5. OneWriter' /\ w_writing'
    BY <1>1, <1>5, <2>3, <2>4 DEF OneWriter
  <2>6. QED
    BY <2>5, Zenon DEF Exact
<1>6. QED
  BY <1>4, <1>5

\* lock_write that may go on: readers_ is zero, so all counts are.
LEMMA writingKeeps ==
    ASSUME Lock!RWLockAssumption, Lock!TypeOK, Exact,
           NEW t \in Users, Lock!MayWrite, Lock!Writes(t)
    PROVE  Exact'
<1> USE LockTypes
<1>1. ReadersOnly
  BY Zenon DEF Lock!MayWrite, Exact
<1>2. w_readers = 0
  BY DEF Lock!MayWrite
<1>3. ASSUME NEW u \in Users
      PROVE  HoldsNothing(u)
  <2>1. w_writes[u] = 0 /\ Uncounted(u) <= 0
    BY <1>1, <1>2 DEF ReadersOnly
  <2>2. w_count[u] \in Lock!Count /\ w_reads[u] \in Nat
    BY DEF CountsTyped, HeldTyped
  <2>3. QED
    BY <2>1, <2>2 DEF Uncounted, HoldsNothing, Lock!Count, Lock!RWLockAssumption
<1>4. Lock!Inc(0) = 1
  BY CountingUp DEF Lock!Count, Lock!RWLockAssumption
<1>5. /\ w_count' = [w_count EXCEPT ![t] = Lock!Inc(w_count[t])]
      /\ w_writes' = [w_writes EXCEPT ![t] = w_writes[t] + 1]
      /\ UNCHANGED <<w_readers, w_reads>>
  BY WritesFacts
<1>6. w_count'[t] = w_reads'[t] + w_writes'[t]
  BY <1>3, <1>4, <1>5 DEF HoldsNothing, CountsTyped, HeldTyped
<1>7. \A u \in Users \ {t} : HoldsNothing(u)'
  BY <1>3, <1>5 DEF HoldsNothing, CountsTyped, HeldTyped
<1>8. OneWriter'
  BY <1>6, <1>7 DEF OneWriter
<1>9. w_writing'
  BY WritesFacts
<1>10. QED
  BY <1>8, <1>9, Zenon DEF Exact

\* lock_write of the thread that writes: no other thread has a count.
LEMMA lockWriteAgainKeeps ==
    ASSUME Lock!RWLockAssumption, Lock!TypeOK, Exact,
           NEW t \in Users, Lock!lockWriteAgain(t)
    PROVE  Exact'
<1> USE LockTypes
<1>1. w_count[t] # 0 /\ Lock!Writes(t) /\ w_reads[t] + w_writes[t] < MaxHeld
  BY DEF Lock!lockWriteAgain, Lock!Locks
<1>2. OneWriter
  BY Zenon DEF Lock!lockWriteAgain, Exact
<1>3. /\ w_writing'
      /\ w_count' = [w_count EXCEPT ![t] = Lock!Inc(w_count[t])]
      /\ w_writes' = [w_writes EXCEPT ![t] = w_writes[t] + 1]
      /\ UNCHANGED <<w_readers, w_reads>>
  BY <1>1, WritesFacts
<1>4. w_count[t] \in Lock!Count /\ w_reads[t] \in Nat /\ w_writes[t] \in Nat
  BY DEF CountsTyped, HeldTyped
<1>5. PICK w \in Users : /\ w_count[w] = w_reads[w] + w_writes[w]
                           /\ \A u \in Users \ {w} : HoldsNothing(u)
  BY <1>2 DEF OneWriter
<1>6. w = t
  BY <1>1, <1>5 DEF HoldsNothing
<1>7. Lock!Inc(w_count[t]) = w_count[t] + 1
  BY <1>1, <1>4, <1>5, <1>6, CountingUp DEF Lock!Count, Lock!RWLockAssumption
<1>8. w_count'[t] = w_reads'[t] + w_writes'[t]
  BY <1>3, <1>4, <1>5, <1>6, <1>7 DEF CountsTyped, HeldTyped, Lock!Count
<1>9. \A u \in Users \ {t} : HoldsNothing(u)'
  BY <1>3, <1>5, <1>6 DEF HoldsNothing, CountsTyped, HeldTyped
<1>10. OneWriter'
  BY <1>8, <1>9 DEF OneWriter
<1>11. QED
  BY <1>3, <1>10, Zenon DEF Exact

LEMMA lockWriteKeeps ==
    ASSUME Lock!RWLockAssumption, Lock!TypeOK, Exact,
           NEW t \in Users, Lock!lock_write(t) \/ Lock!wokenToWrite(t)
    PROVE  Exact'
<1>1. CASE Lock!MayWrite
  BY <1>1, writingKeeps DEF Lock!lock_write, Lock!wokenToWrite
<1>2. CASE ~Lock!MayWrite
  <2>1. UNCHANGED <<w_writing, w_readers, w_count, Lock!held>>
    BY <1>2, Zenon DEF Lock!lock_write, Lock!wokenToWrite, Lock!counts
  <2>2. QED
    BY <2>1, NothingHeldChanges
<1>3. QED
  BY <1>1, <1>2

\* unlock_write: there is a writer, it is the caller, and its count is exact; the
\* count is zero when it has given back everything, its readings too.
LEMMA unlockWriteKeeps ==
    ASSUME Lock!RWLockAssumption, Lock!TypeOK, Exact,
           NEW t \in Users, Lock!unlock_write(t)
    PROVE  Exact'
<1> USE LockTypes
<1>1. /\ w_writes[t] > 0 /\ w_writes' = [w_writes EXCEPT ![t] = w_writes[t] - 1]
      /\ w_count' = [w_count EXCEPT ![t] = Lock!Dec(w_count[t])]
      /\ UNCHANGED <<w_readers, w_reads>>
  BY DEF Lock!unlock_write
<1>2. /\ w_count[t] \in Lock!Count /\ w_reads[t] \in Nat /\ w_writes[t] \in Nat
      /\ w_readers \in Lock!Count
  BY DEF CountsTyped, HeldTyped
<1>3. w_writing
  <2>1. ~ReadersOnly
    BY <1>1, <1>2 DEF ReadersOnly
  <2>2. QED
    BY <2>1, Zenon DEF Exact
<1>4. PICK w \in Users : /\ w_count[w] = w_reads[w] + w_writes[w]
                           /\ \A u \in Users \ {w} : HoldsNothing(u)
  BY <1>3 DEF Exact, OneWriter
<1>5. w = t
  BY <1>1, <1>4 DEF HoldsNothing
<1>6. w_count'[t] = w_count[t] - 1
  <2>1. w_count[t] # 0
    BY <1>1, <1>2, <1>4, <1>5
  <2>2. QED
    BY <1>1, <2>1, UnlockFacts
<1>7. w_count'[t] = w_reads'[t] + w_writes'[t]
  BY <1>1, <1>2, <1>4, <1>5, <1>6 DEF CountsTyped, HeldTyped, Lock!Count
<1>8. \A u \in Users \ {t} : HoldsNothing(u)'
  BY <1>1, <1>4, <1>5 DEF HoldsNothing, CountsTyped, HeldTyped
<1>9. CASE w_count'[t] = 0
  <2>1. ~w_writing'
    BY <1>9, Zenon DEF Lock!unlock_write
  <2>2. ASSUME NEW u \in Users
        PROVE  w_writes'[u] = 0 /\ Uncounted(u)' <= w_readers'
    <3>1. HoldsNothing(u)'
      BY <1>1, <1>2, <1>7, <1>8, <1>9 DEF HoldsNothing, HeldTyped
    <3>2. QED
      BY <1>1, <1>2, <3>1 DEF HoldsNothing, Uncounted, Lock!Count
  <2>3. ReadersOnly'
    BY <2>2 DEF ReadersOnly
  <2>4. QED
    BY <2>1, <2>3, Zenon DEF Exact
<1>10. CASE w_count'[t] # 0
  <2>1. w_writing'
    BY <1>3, <1>10, Zenon DEF Lock!unlock_write
  <2>2. OneWriter'
    BY <1>7, <1>8 DEF OneWriter
  <2>3. QED
    BY <2>1, <2>2, Zenon DEF Exact
<1>11. QED
  BY <1>9, <1>10

-------------------------------------------------------------------------------
\* wrapped is never reset, so what is exact after a step was so before.
LEMMA ExactStep ==
    Lock!RWLockAssumption /\ LockInv /\ [Lock!Next]_(Lock!vars) => w_wrapped' \/ Exact'
<1> SUFFICES ASSUME Lock!RWLockAssumption, LockInv, [Lock!Next]_(Lock!vars), ~w_wrapped'
             PROVE  Exact'
  OBVIOUS
<1>1. ~w_wrapped
  BY Zenon DEF Lock!Next, Lock!Step, Lock!lockReadAgain, Lock!lock_read, Lock!wokenToRead,
     Lock!unlock_read, Lock!lockWriteAgain, Lock!lock_write, Lock!wokenToWrite,
     Lock!unlock_write, Lock!spurious, Lock!Reads, Lock!Writes, Lock!vars, Lock!counts
<1>2. Lock!TypeOK /\ Exact
  BY <1>1, Zenon DEF LockInv
<1>3. ASSUME NEW t \in Users, Lock!Step(t) PROVE Exact'
  <2>1. CASE Lock!spurious(t)
    BY <1>2, <2>1, NothingHeldChanges DEF Lock!spurious, Lock!counts
  <2>2. QED
    BY <1>2, <1>3, <2>1, lockReadAgainKeeps, lockReadKeeps, unlockReadKeeps,
       lockWriteAgainKeeps, lockWriteKeeps, unlockWriteKeeps, Zenon DEF Lock!Step
<1>4. CASE UNCHANGED Lock!vars
  BY <1>2, <1>4, NothingHeldChanges DEF Lock!vars, Lock!counts
<1>5. QED
  BY <1>3, <1>4 DEF Lock!Next

LEMMA LockInvHolds ==
    ASSUME Lock!RWLockAssumption
    PROVE  Lock!Spec => []LockInv
<1>1. Lock!Init => LockInv
  BY LockInitHolds
<1>2. LockInv /\ [Lock!Next]_(Lock!vars) => LockInv'
  BY LockTypeStep, ExactStep, Zenon DEF LockInv
<1>3. QED
  BY <1>1, <1>2, PTL DEF Lock!Spec

\* The types of rw_lock's members hold, and no counter leaves its width.
THEOREM RWLockTypeCorrect ==
    ASSUME Lock!RWLockAssumption
    PROVE  Lock!Spec => []Lock!TypeOK
<1>1. LockInv => Lock!TypeOK
  BY DEF LockInv
<1>2. QED
  BY <1>1, LockInvHolds, PTL

\* While a thread is between lock_write and unlock_write no other thread holds
\* the rw_lock, whatever the counts of former readers look like, until as many
\* readings as the counters can count have brought readers_ back to zero.
THEOREM WriterIsAlone ==
    ASSUME Lock!RWLockAssumption
    PROVE  Lock!Spec => []WritersAlone
<1>1. ASSUME Lock!TypeOK, Exact, NEW t \in Users, NEW u \in Users, t # u, w_writes[t] > 0
      PROVE  w_reads[u] = 0 /\ w_writes[u] = 0
  <2>1. CASE ~w_writing
    BY <1>1, <2>1 DEF Exact, ReadersOnly
  <2>2. CASE w_writing
    <3>1. OneWriter
      BY <1>1, <2>2 DEF Exact
    <3>2. QED
      BY <1>1, <3>1 DEF OneWriter, HoldsNothing
  <2>3. QED
    BY <2>1, <2>2
<1>2. LockInv => WritersAlone
  BY <1>1, Zenon DEF LockInv, WritersAlone, Lock!WritersAlone
<1>3. QED
  BY <1>2, LockInvHolds, PTL
-------------------------------------------------------------------------------
\* The list.

\* List!Behind and its parts are those that LinkedListProofs is about.
LEMMA FromIs ==
    /\ \A nodes, f, nxt : List!From(nodes, f, nxt) = From(nodes, f, nxt)
    /\ \A nodes : List!IsFiniteSet(nodes) = IsFiniteSet(nodes)
BY DEF List!From, List!Walk, List!Cardinality, List!IsFiniteSet,
       From, Walk, Cardinality, IsFiniteSet

\* The nodes behind n.
Behind(n) == From(ListNodes, l_next[n], l_next)

LEMMA BehindIs ==
    (\A n : List!Behind(n) = Behind(n)) /\ (\A n : List!Behind(n)' = Behind(n)')
<1>1. \A n : List!Behind(n) = Behind(n)
  BY FromIs DEF List!Behind, Behind
<1>2. \A n : List!Behind(n)' = Behind(n)'
  BY FromIs DEF List!Behind, Behind
<1>3. QED
  BY <1>1, <1>2

\* List!NothingPassedOver, with this Behind.
NothingPassed ==
    \A t \in Users :
      l_present[t] \ l_visited[t] \subseteq
        IF l_pc[t] = "idle" THEN {} ELSE Behind(l_current[t])

\* The list from every node on has an end, no two nodes point to the same one, and
\* the list from head_ on is all there is.
ListShape ==
    /\ l_heap = Behind(ListHead)
    /\ \A n \in l_heap \cup {ListHead} :
         IsLinked(ListNodes, l_next[n], l_next, Null) /\ Behind(n) \subseteq l_heap
    /\ \A m, n \in l_heap \cup {ListHead} :
         l_next[m] = l_next[n] /\ l_next[m] # Null => m = n

\* A traversal stands on a node that is there, with its mutex, and with that of the
\* next node while it looks at it.
Standing ==
    /\ \A n \in ListNodes : l_mtx[n] # Free => n \in l_heap
    /\ \A t \in Users : l_pc[t] = "idle" => l_current[t] = ListHead
    /\ \A t \in Users : l_pc[t] # "idle" =>
         l_current[t] \in l_heap \cup {ListHead} /\ l_mtx[l_current[t]] = t
    /\ \A t \in Users : l_pc[t] = "two" =>
         List!Next_(t) \in l_heap /\ l_mtx[List!Next_(t)] = t

ListInv == List!TypeOK /\ ListShape /\ Standing /\ NothingPassed

-------------------------------------------------------------------------------
LEMMA NodeFacts ==
    ASSUME List!ListAssumption, List!TypeOK, ListShape, NEW n \in l_heap \cup {ListHead}
    PROVE  /\ n \in ListNodes \cup {ListHead} /\ l_next[n] \in l_heap \cup {Null}
           /\ Behind(n) \subseteq l_heap
           /\ l_next[n] = Null => Behind(n) = {}
           /\ l_next[n] # Null =>
                /\ l_next[n] \in Behind(n) /\ l_next[n] \in l_heap
                /\ Behind(l_next[n]) = Behind(n) \ {l_next[n]}
                /\ l_next[n] # n
<1>1. /\ IsFiniteSet(ListNodes) /\ Null \notin ListNodes /\ ListHead \notin ListNodes
      /\ l_heap \subseteq ListNodes /\ l_next[n] \in ListNodes \cup {Null}
  BY FromIs DEF List!ListAssumption, List!TypeOK
<1>2. IsLinked(ListNodes, l_next[n], l_next, Null) /\ Behind(n) \subseteq l_heap
  BY DEF ListShape
<1> DEFINE f == l_next[n]
           nxt == l_next
<1>3. IsLinked(ListNodes, f, nxt, Null)
  BY <1>2
<1> HIDE DEF f, nxt
<1>4. /\ From(ListNodes, f, nxt) \subseteq ListNodes
      /\ f = Null => From(ListNodes, f, nxt) = {}
      /\ f # Null => f \in From(ListNodes, f, nxt)
  BY <1>1, <1>3, LinkedFacts
<1>5. f # Null => From(ListNodes, nxt[f], nxt) = From(ListNodes, f, nxt) \ {f}
  BY <1>1, <1>3, LinkedPop
<1>6. Behind(n) = From(ListNodes, f, nxt) /\ Behind(f) = From(ListNodes, nxt[f], nxt)
  BY DEF Behind, f, nxt
<1>7. f # Null => f # n
  <2>1. SUFFICES ASSUME f # Null, f = n PROVE FALSE
    OBVIOUS
  <2>2. nxt[f] = f
    BY <2>1 DEF f, nxt
  <2>3. QED
    BY <1>4, <1>5, <2>1, <2>2
<1>8. f = l_next[n]
  BY DEF f
<1>9. QED
  BY <1>1, <1>2, <1>4, <1>5, <1>6, <1>7, <1>8

\* A step that writes to no next_.
LEMMA ShapeKept ==
    ASSUME ListShape, UNCHANGED List!list
    PROVE  ListShape' /\ \A n : Behind(n)' = Behind(n)
<1>1. l_heap' = l_heap /\ l_next' = l_next
  BY DEF List!list
<1>2. \A n : Behind(n)' = Behind(n)
  BY <1>1 DEF Behind
<1>3. l_heap' = Behind(ListHead)'
  BY <1>1, <1>2 DEF ListShape
<1>4. QED
  BY <1>1, <1>2, <1>3 DEF ListShape

\* PushFront puts a node behind head_ and changes nothing behind the others.
LEMMA PushFacts ==
    ASSUME List!ListAssumption, List!TypeOK, ListShape, NEW n \in ListNodes \ l_heap,
           l_heap' = l_heap \cup {n},
           l_next' = [l_next EXCEPT ![n] = l_next[ListHead], ![ListHead] = n]
    PROVE  /\ ListShape'
           /\ \A m \in l_heap : Behind(m)' = Behind(m) /\ l_next'[m] = l_next[m]
           /\ Behind(ListHead)' = Behind(ListHead) \cup {n}
<1>1. /\ IsFiniteSet(ListNodes) /\ Null \notin ListNodes /\ ListHead \notin ListNodes
      /\ l_heap \subseteq ListNodes /\ ListHead # n
      /\ l_next \in [ListNodes \cup {ListHead} -> ListNodes \cup {Null}]
  BY FromIs DEF List!ListAssumption, List!TypeOK
<1>2. /\ l_next'[n] = l_next[ListHead] /\ l_next'[ListHead] = n
      /\ \A m \in ListNodes \cup {ListHead} :
           m # n /\ m # ListHead => l_next'[m] = l_next[m]
  BY <1>1
<1>3. ASSUME NEW m \in l_heap \cup {ListHead}
      PROVE  /\ IsLinked(ListNodes, l_next[m], l_next', Null)
             /\ From(ListNodes, l_next[m], l_next') = Behind(m)
  <2> DEFINE f == l_next[m]
             nxt == l_next
             nxt2 == l_next'
  <2>1. IsLinked(ListNodes, f, nxt, Null)
    BY DEF ListShape
  <2>2. From(ListNodes, f, nxt) \subseteq l_heap
    <3>1. Behind(m) \subseteq l_heap
      BY DEF ListShape
    <3>2. QED
      BY <3>1 DEF Behind
  <2>3. \A k \in From(ListNodes, f, nxt) : nxt2[k] = nxt[k]
    BY <1>1, <1>2, <2>2
  <2> HIDE DEF f, nxt, nxt2
  <2>4. /\ IsLinked(ListNodes, f, nxt2, Null)
        /\ Line(ListNodes, f, nxt2) = Line(ListNodes, f, nxt)
        /\ From(ListNodes, f, nxt2) = From(ListNodes, f, nxt)
    BY <1>1, <2>1, <2>3, LinkedFrame
  <2>5. QED
    BY <2>4 DEF f, nxt, nxt2, Behind
<1>4. ASSUME NEW m \in l_heap
      PROVE  Behind(m)' = Behind(m) /\ l_next'[m] = l_next[m]
  <2>1. l_next'[m] = l_next[m]
    BY <1>1, <1>2
  <2>2. QED
    BY <1>3, <2>1 DEF Behind
<1>5. /\ IsLinked(ListNodes, l_next'[n], l_next', Null)
      /\ Behind(n)' = l_heap
  <2>1. Behind(ListHead) = l_heap
    BY DEF ListShape
  <2>2. QED
    BY <1>2, <1>3, <2>1 DEF Behind
<1>6. /\ IsLinked(ListNodes, l_next'[ListHead], l_next', Null)
      /\ Behind(ListHead)' = l_heap \cup {n}
  <2> DEFINE nxt2 == l_next'
  <2>1. /\ n \in ListNodes /\ IsLinked(ListNodes, nxt2[n], nxt2, Null)
        /\ From(ListNodes, nxt2[n], nxt2) = l_heap
    BY <1>5 DEF Behind
  <2> HIDE DEF nxt2
  <2>2. n \notin From(ListNodes, nxt2[n], nxt2)
    BY <2>1
  <2>3. /\ IsLinked(ListNodes, n, nxt2, Null)
        /\ Line(ListNodes, n, nxt2) = <<n>> \o Line(ListNodes, nxt2[n], nxt2)
        /\ From(ListNodes, n, nxt2) = From(ListNodes, nxt2[n], nxt2) \cup {n}
    BY <1>1, <2>1, <2>2, LinkedPush
  <2>4. QED
    BY <1>2, <2>1, <2>3 DEF nxt2, Behind
<1>7. ASSUME NEW m \in l_heap' \cup {ListHead}
      PROVE  IsLinked(ListNodes, l_next'[m], l_next', Null)
             /\ Behind(m)' \subseteq l_heap'
  <2>1. CASE m = n
    BY <1>5, <2>1
  <2>2. CASE m = ListHead
    BY <1>6, <2>2
  <2>3. CASE m \in l_heap
    <3>1. Behind(m) \subseteq l_heap
      BY <2>3 DEF ListShape
    <3>2. QED
      BY <1>3, <1>4, <2>3, <3>1
  <2>4. QED
    BY <2>1, <2>2, <2>3
<1>8. ASSUME NEW k \in l_heap' \cup {ListHead}, NEW m \in l_heap' \cup {ListHead},
             l_next'[k] = l_next'[m], l_next'[m] # Null
      PROVE  k = m
  <2>1. \A j \in l_heap \cup {ListHead} : l_next[j] # n
    <3>1. \A j \in l_heap \cup {ListHead} : l_next[j] \in l_heap \cup {Null}
      BY NodeFacts
    <3>2. QED
      BY <1>1, <3>1
  <2>2. \A j \in l_heap' \cup {ListHead} :
          \/ j = ListHead /\ l_next'[j] = n
          \/ j = n /\ l_next'[j] = l_next[ListHead]
          \/ j \in l_heap /\ j # ListHead /\ l_next'[j] = l_next[j]
    BY <1>1, <1>2
  <2>3. \A i, j \in l_heap \cup {ListHead} :
          l_next[i] = l_next[j] /\ l_next[j] # Null => i = j
    BY DEF ListShape
  <2>4. QED
    BY <1>1, <1>8, <2>1, <2>2, <2>3
<1>9. ListShape'
  BY <1>6, <1>7, <1>8 DEF ListShape
<1>10. Behind(ListHead) = l_heap
  BY DEF ListShape
<1>11. QED
  BY <1>4, <1>6, <1>9, <1>10

\* RemoveIf takes the node behind c out of the list, and out of what is behind any
\* other node.
LEMMA RemoveFacts ==
    ASSUME List!ListAssumption, List!TypeOK, ListShape, NEW c \in l_heap \cup {ListHead},
           NEW n \in ListNodes, l_next[c] = n, l_heap' = l_heap \ {n},
           n # c => l_next'[c] = l_next[n], l_next'[n] = Null,
           \A m \in ListNodes \cup {ListHead} : m # n /\ m # c => l_next'[m] = l_next[m]
    PROVE  /\ ListShape' /\ n \in l_heap /\ n # c
           /\ \A m \in l_heap' \cup {ListHead} : Behind(m)' = Behind(m) \ {n}
           /\ \A m \in l_heap' \cup {ListHead} : m # c => l_next'[m] = l_next[m]
           /\ \A m \in l_heap' \cup {ListHead} : m # c => l_next[m] # n
           /\ l_next'[c] = l_next[n]
<1>1. /\ IsFiniteSet(ListNodes) /\ Null \notin ListNodes /\ ListHead \notin ListNodes
      /\ l_heap \subseteq ListNodes
      /\ l_next \in [ListNodes \cup {ListHead} -> ListNodes \cup {Null}]
  BY FromIs DEF List!ListAssumption, List!TypeOK
<1>2. /\ n \in l_heap /\ n # c /\ n # ListHead /\ n # Null
      /\ Behind(n) = Behind(c) \ {n} /\ n \in Behind(c)
  BY <1>1, NodeFacts
<1>3. /\ l_next'[c] = l_next[n] /\ l_next'[n] = Null
      /\ \A m \in ListNodes \cup {ListHead} : m # n /\ m # c => l_next'[m] = l_next[m]
  BY <1>1, <1>2
<1>4. \A m \in l_heap \cup {ListHead} : m # c => l_next[m] # n
  BY <1>2 DEF ListShape
\* What is behind a node, seen from the node it points to.
<1>5. ASSUME NEW m \in l_heap \cup {ListHead}, m # c
      PROVE  /\ IsLinked(ListNodes, l_next[m], l_next', Null)
             /\ From(ListNodes, l_next[m], l_next') = Behind(m) \ {n}
  <2> DEFINE f == l_next[m]
             nxt == l_next
             nxt2 == l_next'
             S == From(ListNodes, f, nxt)
  <2>1. IsLinked(ListNodes, f, nxt, Null) /\ S \subseteq l_heap
    BY DEF ListShape, Behind
  <2>2. CASE c \in S
    <3>1. /\ nxt[c] = n /\ nxt2[c] = nxt[n]
          /\ \A k \in S : k # c /\ k # n => nxt2[k] = nxt[k]
      BY <1>1, <1>3, <2>1
    <3> HIDE DEF f, nxt, nxt2
    <3>2. /\ IsLinked(ListNodes, f, nxt2, Null)
          /\ From(ListNodes, f, nxt2) = From(ListNodes, f, nxt) \ {n}
      BY <1>1, <2>1, <2>2, <3>1, LinkedRemove
    <3>3. QED
      BY <3>2 DEF f, nxt, nxt2, Behind
  <2>3. CASE c \notin S
    <3>1. n \notin S
      <4>1. SUFFICES ASSUME n \in S PROVE FALSE
        OBVIOUS
      <4>2. n # f
        BY <1>4, <1>5
      <4> HIDE DEF f, nxt
      <4>3. PICK k \in S : nxt[k] = n
        BY <1>1, <2>1, <4>1, <4>2, LinkedBefore
      <4>4. k = c
        BY <1>1, <1>2, <2>1, <4>3 DEF ListShape, nxt
      <4>5. QED
        BY <2>3, <4>3, <4>4
    <3>2. \A k \in S : nxt2[k] = nxt[k]
      BY <1>1, <1>3, <2>1, <2>3, <3>1
    <3> HIDE DEF f, nxt, nxt2
    <3>3. /\ IsLinked(ListNodes, f, nxt2, Null)
          /\ Line(ListNodes, f, nxt2) = Line(ListNodes, f, nxt)
          /\ From(ListNodes, f, nxt2) = From(ListNodes, f, nxt)
      BY <1>1, <2>1, <3>2, LinkedFrame
    <3>4. QED
      BY <3>1, <3>3 DEF f, nxt, nxt2, Behind
  <2>4. QED
    BY <2>2, <2>3
<1>6. /\ IsLinked(ListNodes, l_next'[c], l_next', Null)
      /\ Behind(c)' = Behind(c) \ {n}
  <2> DEFINE f == l_next[n]
             nxt == l_next
             nxt2 == l_next'
  <2>1. IsLinked(ListNodes, f, nxt, Null) /\ From(ListNodes, f, nxt) = Behind(c) \ {n}
    <3>1. IsLinked(ListNodes, l_next[n], l_next, Null)
      BY <1>2 DEF ListShape
    <3>2. QED
      BY <1>2, <3>1 DEF Behind
  <2>2. c \notin Behind(c)
    <3> DEFINE g == l_next[c]
    <3>1. IsLinked(ListNodes, g, nxt, Null) /\ From(ListNodes, g, nxt) = Behind(c)
      BY DEF ListShape, Behind
    <3>2. nxt[c] = g
      OBVIOUS
    <3> HIDE DEF g, nxt
    <3>3. QED
      BY <1>1, <3>1, <3>2, LinkedFirst
  <2>3. Behind(c) \subseteq l_heap
    BY DEF ListShape
  <2>4. \A k \in From(ListNodes, f, nxt) : nxt2[k] = nxt[k]
    BY <1>1, <1>3, <2>1, <2>2, <2>3
  <2> HIDE DEF f, nxt, nxt2
  <2>5. /\ IsLinked(ListNodes, f, nxt2, Null)
        /\ Line(ListNodes, f, nxt2) = Line(ListNodes, f, nxt)
        /\ From(ListNodes, f, nxt2) = From(ListNodes, f, nxt)
    BY <1>1, <2>1, <2>4, LinkedFrame
  <2>6. QED
    BY <1>3, <2>1, <2>5 DEF f, nxt, nxt2, Behind
<1>7. ASSUME NEW m \in l_heap' \cup {ListHead}
      PROVE  /\ IsLinked(ListNodes, l_next'[m], l_next', Null)
             /\ Behind(m)' = Behind(m) \ {n}
             /\ m # c => l_next'[m] = l_next[m] /\ l_next[m] # n
  <2>1. CASE m = c
    BY <1>6, <2>1
  <2>2. CASE m # c
    <3>1. m \in l_heap \cup {ListHead} /\ m # n
      BY <1>2
    <3>2. l_next'[m] = l_next[m]
      BY <1>1, <1>3, <2>2, <3>1
    <3>3. QED
      BY <1>4, <1>5, <2>2, <3>1, <3>2 DEF Behind
  <2>3. QED
    BY <2>1, <2>2
<1>8. \A m \in l_heap' \cup {ListHead} : Behind(m)' \subseteq l_heap'
  BY <1>7 DEF ListShape
<1>9. ASSUME NEW k \in l_heap' \cup {ListHead}, NEW m \in l_heap' \cup {ListHead},
             l_next'[k] = l_next'[m], l_next'[m] # Null
      PROVE  k = m
  <2>1. \A i, j \in l_heap \cup {ListHead} :
          l_next[i] = l_next[j] /\ l_next[j] # Null => i = j
    BY DEF ListShape
  <2>2. \A j \in l_heap' \cup {ListHead} :
          l_next'[j] = IF j = c THEN l_next[n] ELSE l_next[j]
    BY <1>3, <1>7
  <2>3. n \in l_heap /\ k # n /\ m # n
        /\ k \in l_heap \cup {ListHead} /\ m \in l_heap \cup {ListHead}
    BY <1>2
  <2>4. /\ l_next'[k] = IF k = c THEN l_next[n] ELSE l_next[k]
        /\ l_next'[m] = IF m = c THEN l_next[n] ELSE l_next[m]
    BY <2>2
  <2>5. CASE k = c /\ m # c
    <3>1. l_next[n] = l_next[m] /\ l_next[m] # Null
      BY <1>9, <2>4, <2>5
    <3>2. QED
      BY <2>1, <2>3, <3>1
  <2>6. CASE k # c /\ m = c
    <3>1. l_next[k] = l_next[n] /\ l_next[n] # Null
      BY <1>9, <2>4, <2>6
    <3>2. QED
      BY <2>1, <2>3, <3>1
  <2>7. CASE k # c /\ m # c
    <3>1. l_next[k] = l_next[m] /\ l_next[m] # Null
      BY <1>9, <2>4, <2>7
    <3>2. QED
      BY <2>1, <2>3, <3>1
  <2>8. QED
    BY <2>5, <2>6, <2>7
<1>10. l_heap' = Behind(ListHead)'
  BY <1>7 DEF ListShape
<1>11. ListShape'
  BY <1>7, <1>8, <1>9, <1>10 DEF ListShape
<1>12. QED
  BY <1>2, <1>3, <1>7, <1>11

-------------------------------------------------------------------------------
LEMMA ListInit == List!ListAssumption /\ List!Init => ListInv
<1> SUFFICES ASSUME List!ListAssumption, List!Init PROVE ListInv
  OBVIOUS
<1>1. /\ IsFiniteSet(ListNodes) /\ Null \notin ListNodes
      /\ l_heap = {} /\ l_next[ListHead] = Null
  BY FromIs DEF List!Init, List!ListAssumption
<1>2. List!TypeOK
  BY DEF List!Init, List!TypeOK
<1>3. IsLinked(ListNodes, l_next[ListHead], l_next, Null) /\ Behind(ListHead) = {}
  <2> DEFINE nxt == l_next
  <2> HIDE DEF nxt
  <2>1. /\ IsLinked(ListNodes, Null, nxt, Null) /\ From(ListNodes, Null, nxt) = {}
        /\ Line(ListNodes, Null, nxt) = <<>>
    BY <1>1, LinkedEmpty
  <2>2. QED
    BY <1>1, <2>1 DEF nxt, Behind
<1>4. ListShape
  BY <1>1, <1>3 DEF ListShape
<1>5. Standing /\ NothingPassed
  BY DEF List!Init, Standing, NothingPassed
<1>6. QED
  BY <1>2, <1>4, <1>5 DEF ListInv

LEMMA PushFrontKeeps ==
    ASSUME List!ListAssumption, ListInv, NEW t \in Users, NEW v \in Values,
           List!PushFront(t, v)
    PROVE  ListInv'
<1> USE DEF ListInv
<1>1. PICK n \in ListNodes \ l_heap :
        /\ l_heap' = l_heap \cup {n}
        /\ l_data' = [l_data EXCEPT ![n] = v]
        /\ l_next' = [l_next EXCEPT ![n] = l_next[ListHead], ![ListHead] = n]
  BY DEF List!PushFront
<1>2. /\ l_mtx[ListHead] = Free
      /\ UNCHANGED <<l_mtx, l_op, l_pc, l_current, l_visited, l_present>>
  BY DEF List!PushFront, List!ghost
<1>3. /\ ListHead \notin ListNodes /\ Free \notin Users
      /\ l_heap \subseteq ListNodes
         /\ l_next \in [ListNodes \cup {ListHead} -> ListNodes \cup {Null}]
  BY FromIs DEF List!ListAssumption, List!TypeOK
<1>4. List!TypeOK'
  <2>1. l_next' \in [ListNodes \cup {ListHead} -> ListNodes \cup {Null}]
        /\ l_heap' \subseteq ListNodes /\ l_data' \in [ListNodes -> Values \cup {NoValue}]
    BY <1>1, <1>3 DEF List!TypeOK
  <2>2. QED
    BY <1>2, <2>1 DEF List!TypeOK
<1>5. /\ ListShape'
      /\ \A m \in l_heap : Behind(m)' = Behind(m) /\ l_next'[m] = l_next[m]
      /\ Behind(ListHead)' = Behind(ListHead) \cup {n}
  BY <1>1, PushFacts
<1>6. \A u \in Users : l_pc[u] # "idle" => l_current[u] \in l_heap
  BY <1>2, <1>3 DEF Standing
<1>7. Standing'
  <2>1. \A u \in Users : l_pc[u] = "two" => List!Next_(u)' = List!Next_(u)
    BY <1>2, <1>5, <1>6 DEF List!Next_
  <2>2. \A m \in ListNodes : l_mtx'[m] # Free => m \in l_heap'
    BY <1>1, <1>2 DEF Standing
  <2>3. \A u \in Users : l_pc'[u] = "idle" => l_current'[u] = ListHead
    BY <1>2 DEF Standing
  <2>4. \A u \in Users : l_pc'[u] # "idle" =>
          l_current'[u] \in l_heap' \cup {ListHead} /\ l_mtx'[l_current'[u]] = u
    BY <1>1, <1>2 DEF Standing
  <2>5. \A u \in Users : l_pc'[u] = "two" =>
          List!Next_(u)' \in l_heap' /\ l_mtx'[List!Next_(u)'] = u
    BY <1>1, <1>2, <2>1 DEF Standing
  <2>6. QED
    BY <2>2, <2>3, <2>4, <2>5 DEF Standing
<1>8. NothingPassed'
  <2>1. ASSUME NEW u \in Users, l_pc[u] # "idle"
        PROVE  Behind(l_current[u])' = Behind(l_current[u])
    <3>1. PICK c \in l_heap : c = l_current[u]
      BY <1>6, <2>1
    <3>2. l_current'[u] = c /\ Behind(c)' = Behind(c)
      BY <1>2, <1>5, <3>1
    <3>3. Behind(l_current[u])' = Behind(c)'
      BY <3>2 DEF Behind
    <3>4. QED
      BY <3>1, <3>2, <3>3
  <2>2. \A u \in Users : l_present[u] \ l_visited[u] \subseteq
          IF l_pc[u] = "idle" THEN {} ELSE Behind(l_current[u])
    BY DEF NothingPassed
  <2>3. QED
    BY <1>2, <2>1, <2>2 DEF NothingPassed
<1>9. QED
  BY <1>4, <1>5, <1>7, <1>8

\* A step of one traversal that does not change the list.
LEMMA TraversalKeeps ==
    ASSUME List!ListAssumption, ListInv, NEW t \in Users, UNCHANGED List!list,
           List!TypeOK',
           \A n \in ListNodes \cup {ListHead} :
             l_mtx'[n] = l_mtx[n] \/ l_mtx[n] \in {Free, t},
           \A n \in ListNodes : l_mtx'[n] # Free => n \in l_heap,
           \A u \in Users : u # t =>
             /\ l_pc'[u] = l_pc[u] /\ l_current'[u] = l_current[u]
             /\ l_present'[u] = l_present[u] /\ l_visited'[u] = l_visited[u],
           l_pc'[t] = "idle" =>
             l_current'[t] = ListHead /\ l_present'[t] \ l_visited'[t] = {},
           l_pc'[t] # "idle" =>
             /\ l_current'[t] \in l_heap \cup {ListHead} /\ l_mtx'[l_current'[t]] = t
             /\ l_present'[t] \ l_visited'[t] \subseteq
                  From(ListNodes, l_next[l_current'[t]], l_next),
           l_pc'[t] = "two" =>
             l_next[l_current'[t]] \in l_heap /\ l_mtx'[l_next[l_current'[t]]] = t
    PROVE  ListInv'
<1> USE DEF ListInv
<1>1. l_heap' = l_heap /\ l_next' = l_next
  BY DEF List!list
<1>2. ListShape'
  BY ShapeKept
<1>3. /\ Free \notin Users /\ l_heap \subseteq ListNodes
      /\ \A u \in Users : l_current[u] \in ListNodes \cup {ListHead}
  BY FromIs DEF List!ListAssumption, List!TypeOK
<1>4. ASSUME NEW u \in Users, u # t
      PROVE  /\ l_pc'[u] = "idle" => l_current'[u] = ListHead
             /\ l_pc'[u] # "idle" =>
                  l_current'[u] \in l_heap \cup {ListHead} /\ l_mtx'[l_current'[u]] = u
             /\ l_pc'[u] = "two" =>
                  l_next[l_current'[u]] \in l_heap /\ l_mtx'[l_next[l_current'[u]]] = u
             /\ l_present'[u] \ l_visited'[u] \subseteq
                  IF l_pc'[u] = "idle" THEN {}
                  ELSE From(ListNodes, l_next[l_current'[u]], l_next)
  <2>1. /\ l_pc'[u] = l_pc[u] /\ l_current'[u] = l_current[u]
        /\ l_present'[u] = l_present[u] /\ l_visited'[u] = l_visited[u]
    BY <1>4
  <2>2. \A n \in ListNodes \cup {ListHead} : l_mtx[n] = u => l_mtx'[n] = u
    BY <1>3, <1>4
  <2>3. /\ l_pc[u] = "idle" => l_current[u] = ListHead
        /\ l_pc[u] # "idle" =>
             l_current[u] \in l_heap \cup {ListHead} /\ l_mtx[l_current[u]] = u
        /\ l_pc[u] = "two" =>
             l_next[l_current[u]] \in l_heap /\ l_mtx[l_next[l_current[u]]] = u
    BY DEF Standing, List!Next_
  <2>4. l_present[u] \ l_visited[u] \subseteq
          IF l_pc[u] = "idle" THEN {} ELSE From(ListNodes, l_next[l_current[u]], l_next)
    BY DEF NothingPassed, Behind
  <2>5. /\ l_pc[u] # "idle" => l_mtx'[l_current[u]] = u
        /\ l_pc[u] = "two" => l_mtx'[l_next[l_current[u]]] = u
    BY <1>3, <2>2, <2>3
  <2>6. QED
    BY <2>1, <2>3, <2>4, <2>5
<1>5. \A u \in Users :
        /\ l_pc'[u] = "idle" => l_current'[u] = ListHead
        /\ l_pc'[u] # "idle" =>
             l_current'[u] \in l_heap' \cup {ListHead} /\ l_mtx'[l_current'[u]] = u
        /\ l_pc'[u] = "two" =>
             l_next'[l_current'[u]] \in l_heap' /\ l_mtx'[l_next'[l_current'[u]]] = u
        /\ l_present'[u] \ l_visited'[u] \subseteq
             IF l_pc'[u] = "idle" THEN {}
             ELSE From(ListNodes, l_next'[l_current'[u]], l_next')
  BY <1>1, <1>4
<1>6. Standing'
  BY <1>1, <1>5 DEF Standing, List!Next_
<1>7. NothingPassed'
  BY <1>5 DEF NothingPassed, Behind
<1>8. QED
  BY <1>2, <1>6, <1>7

LEMMA beginKeeps ==
    ASSUME List!ListAssumption, ListInv, NEW t \in Users, NEW o \in List!Traversals,
           List!begin(t, o)
    PROVE  ListInv'
<1> USE DEF ListInv
<1>1. /\ l_pc[t] = "idle" /\ l_mtx[ListHead] = Free
      /\ l_mtx' = [l_mtx EXCEPT ![ListHead] = t]
      /\ l_op' = [l_op EXCEPT ![t] = o] /\ l_pc' = [l_pc EXCEPT ![t] = "one"]
      /\ l_present' = [l_present EXCEPT ![t] = Behind(ListHead)]
      /\ UNCHANGED <<l_heap, l_data, l_next, l_current, l_visited>>
  BY BehindIs DEF List!begin, List!list
<1>2. l_current[t] = ListHead /\ Behind(ListHead) = l_heap
  BY <1>1 DEF Standing, ListShape
<1>3. List!TypeOK'
  BY <1>1, <1>2 DEF List!TypeOK
<1>4. /\ l_mtx'[ListHead] = t
      /\ \A n \in ListNodes \cup {ListHead} : n # ListHead => l_mtx'[n] = l_mtx[n]
      /\ l_pc'[t] = "one" /\ l_current'[t] = ListHead /\ l_present'[t] = Behind(ListHead)
  BY <1>1, <1>2 DEF List!TypeOK
<1>5. l_present'[t] \ l_visited'[t] \subseteq From(ListNodes, l_next[l_current'[t]],
          l_next)
  BY <1>4 DEF Behind
<1>6. \A n \in ListNodes : l_mtx'[n] # Free => n \in l_heap
  BY <1>4, FromIs DEF Standing, List!ListAssumption
<1>7. \A u \in Users : u # t =>
        /\ l_pc'[u] = l_pc[u] /\ l_current'[u] = l_current[u]
        /\ l_present'[u] = l_present[u] /\ l_visited'[u] = l_visited[u]
  BY <1>1 DEF List!TypeOK
<1>8. UNCHANGED List!list
  BY <1>1 DEF List!list
<1>9. \A n \in ListNodes \cup {ListHead} :
        l_mtx'[n] = l_mtx[n] \/ l_mtx[n] \in {Free, t}
  BY <1>1, <1>4
<1>10. QED
  BY <1>3, <1>4, <1>5, <1>6, <1>7, <1>8, <1>9, TraversalKeeps

LEMMA lockNextKeeps ==
    ASSUME List!ListAssumption, ListInv, NEW t \in Users, List!lockNext(t)
    PROVE  ListInv'
<1> USE DEF ListInv
<1> DEFINE n == List!Next_(t)
<1>1. /\ l_pc[t] = "one" /\ n # Null /\ l_mtx[n] = Free
      /\ l_mtx' = [l_mtx EXCEPT ![n] = t] /\ l_pc' = [l_pc EXCEPT ![t] = "two"]
      /\ UNCHANGED <<l_heap, l_data, l_next, l_op, l_current, l_visited, l_present>>
  BY DEF List!lockNext, List!list, List!ghost
<1>2. l_current[t] \in l_heap \cup {ListHead} /\ l_mtx[l_current[t]] = t
  BY <1>1 DEF Standing
<1>3. n \in l_heap /\ n \in ListNodes /\ n # l_current[t]
  BY <1>1, <1>2, NodeFacts DEF List!Next_, List!TypeOK
<1>4. List!TypeOK'
  BY <1>1, <1>3 DEF List!TypeOK
<1>5. /\ l_mtx'[n] = t
      /\ \A m \in ListNodes \cup {ListHead} : m # n => l_mtx'[m] = l_mtx[m]
      /\ l_pc'[t] = "two" /\ l_current'[t] = l_current[t]
  BY <1>1, <1>3 DEF List!TypeOK
<1>6. l_present'[t] \ l_visited'[t] \subseteq From(ListNodes, l_next[l_current'[t]],
          l_next)
  BY <1>1 DEF NothingPassed, Behind
<1>7. \A m \in ListNodes : l_mtx'[m] # Free => m \in l_heap
  BY <1>3, <1>5 DEF Standing
<1>8. \A u \in Users : u # t =>
        /\ l_pc'[u] = l_pc[u] /\ l_current'[u] = l_current[u]
        /\ l_present'[u] = l_present[u] /\ l_visited'[u] = l_visited[u]
  BY <1>1 DEF List!TypeOK
<1>9. l_mtx'[l_current'[t]] = t /\ l_next[l_current'[t]] = n
  BY <1>2, <1>3, <1>5 DEF List!Next_, List!TypeOK
<1>10. UNCHANGED List!list
  BY <1>1 DEF List!list
<1>11. \A m \in ListNodes \cup {ListHead} :
         l_mtx'[m] = l_mtx[m] \/ l_mtx[m] \in {Free, t}
  BY <1>1, <1>5
<1> HIDE DEF n
<1>12. QED
  BY <1>2, <1>3, <1>4, <1>5, <1>6, <1>7, <1>8, <1>9, <1>10, <1>11, TraversalKeeps

LEMMA moveOnKeeps ==
    ASSUME List!ListAssumption, ListInv, NEW t \in Users, List!moveOn(t)
    PROVE  ListInv'
<1> USE DEF ListInv
<1> DEFINE n == List!Next_(t)
           c == l_current[t]
<1>1. /\ l_pc[t] = "two"
      /\ l_mtx' = [l_mtx EXCEPT ![c] = Free] /\ l_current' = [l_current EXCEPT ![t] = n]
      /\ l_pc' = [l_pc EXCEPT ![t] = "one"]
      /\ l_visited' = [l_visited EXCEPT ![t] = @ \cup {n}]
      /\ UNCHANGED <<l_heap, l_data, l_next, l_op, l_present>>
  BY DEF List!moveOn, List!Visit, List!list
<1>2. /\ c \in l_heap \cup {ListHead} /\ l_mtx[c] = t
      /\ n \in l_heap /\ l_mtx[n] = t /\ n = l_next[c]
  BY <1>1 DEF Standing, List!Next_
<1>3. n \in ListNodes /\ n # Null /\ c \in ListNodes \cup {ListHead}
  BY <1>2, FromIs DEF List!ListAssumption, List!TypeOK
<1>4. n # c /\ Behind(n) = Behind(c) \ {n}
  BY <1>2, <1>3, NodeFacts
<1>5. List!TypeOK'
  BY <1>1, <1>3 DEF List!TypeOK
<1>6. /\ l_mtx'[n] = t /\ l_mtx'[c] = Free
      /\ \A m \in ListNodes \cup {ListHead} : m # c => l_mtx'[m] = l_mtx[m]
      /\ l_pc'[t] = "one" /\ l_current'[t] = n
      /\ l_visited'[t] = l_visited[t] \cup {n} /\ l_present'[t] = l_present[t]
  BY <1>1, <1>2, <1>3, <1>4 DEF List!TypeOK
<1>7. l_present'[t] \ l_visited'[t] \subseteq From(ListNodes, l_next[l_current'[t]],
          l_next)
  <2>1. l_present[t] \ l_visited[t] \subseteq Behind(c)
    BY <1>1 DEF NothingPassed
  <2>2. l_present'[t] \ l_visited'[t] \subseteq Behind(n)
    BY <1>4, <1>6, <2>1
  <2>3. QED
    BY <1>6, <2>2 DEF Behind
<1>8. \A m \in ListNodes : l_mtx'[m] # Free => m \in l_heap
  BY <1>6 DEF Standing
<1>9. \A u \in Users : u # t =>
        /\ l_pc'[u] = l_pc[u] /\ l_current'[u] = l_current[u]
        /\ l_present'[u] = l_present[u] /\ l_visited'[u] = l_visited[u]
  BY <1>1 DEF List!TypeOK
<1>10. UNCHANGED List!list
  BY <1>1 DEF List!list
<1>11. \A m \in ListNodes \cup {ListHead} :
         l_mtx'[m] = l_mtx[m] \/ l_mtx[m] \in {Free, t}
  BY <1>2, <1>6
<1> HIDE DEF n, c
<1>12. QED
  BY <1>2, <1>5, <1>6, <1>7, <1>8, <1>9, <1>10, <1>11, TraversalKeeps

\* A traversal that returns lets go of the nodes it stands on.
LEMMA LeaveKeeps ==
    ASSUME List!ListAssumption, ListInv, NEW t \in Users, List!Leave(t),
           UNCHANGED List!list,
           l_present' = [l_present EXCEPT ![t] = {}],
           l_mtx' \in [ListNodes \cup {ListHead} -> Users \cup {Free}],
           \A m \in ListNodes \cup {ListHead} :
             l_mtx'[m] = l_mtx[m] \/ (l_mtx[m] = t /\ l_mtx'[m] = Free)
    PROVE  ListInv'
<1> USE DEF ListInv
<1>1. /\ l_op' = [l_op EXCEPT ![t] = List!Idle] /\ l_pc' = [l_pc EXCEPT ![t] = "idle"]
      /\ l_current' = [l_current EXCEPT ![t] = ListHead]
      /\ l_visited' = [l_visited EXCEPT ![t] = {}]
      /\ UNCHANGED <<l_heap, l_data, l_next>>
  BY DEF List!Leave, List!list
<1>2. List!TypeOK'
  BY <1>1 DEF List!TypeOK
<1>3. l_pc'[t] = "idle" /\ l_current'[t] = ListHead /\ l_present'[t] \ l_visited'[t] = {}
  BY <1>1 DEF List!TypeOK
<1>4. \A u \in Users : u # t =>
        /\ l_pc'[u] = l_pc[u] /\ l_current'[u] = l_current[u]
        /\ l_present'[u] = l_present[u] /\ l_visited'[u] = l_visited[u]
  BY <1>1 DEF List!TypeOK
<1>5. \A m \in ListNodes : l_mtx'[m] # Free => m \in l_heap
  BY DEF Standing
<1>6. \A m \in ListNodes \cup {ListHead} :
        l_mtx'[m] = l_mtx[m] \/ l_mtx[m] \in {Free, t}
  OBVIOUS
<1>7. QED
  BY <1>2, <1>3, <1>4, <1>5, <1>6, TraversalKeeps

LEMMA leaveEarlyKeeps ==
    ASSUME List!ListAssumption, ListInv, NEW t \in Users, List!leaveEarly(t)
    PROVE  ListInv'
<1>1. /\ l_pc[t] = "two" /\ List!Leave(t) /\ UNCHANGED List!list
      /\ l_mtx' = [l_mtx EXCEPT ![l_current[t]] = Free, ![List!Next_(t)] = Free]
      /\ l_present' = [l_present EXCEPT ![t] = {}]
  BY DEF List!leaveEarly
<1>2. l_mtx[l_current[t]] = t /\ l_mtx[List!Next_(t)] = t
  BY <1>1 DEF ListInv, Standing
<1>3. l_mtx \in [ListNodes \cup {ListHead} -> Users \cup {Free}]
  BY DEF ListInv, List!TypeOK
<1>4. /\ l_mtx' \in [ListNodes \cup {ListHead} -> Users \cup {Free}]
      /\ \A m \in ListNodes \cup {ListHead} :
           l_mtx'[m] = l_mtx[m] \/ (l_mtx[m] = t /\ l_mtx'[m] = Free)
  BY <1>1, <1>2, <1>3
<1>5. QED
  BY <1>1, <1>4, LeaveKeeps

LEMMA endKeeps ==
    ASSUME List!ListAssumption, ListInv, NEW t \in Users, List!end(t)
    PROVE  ListInv'
<1>1. /\ l_pc[t] = "one" /\ List!Leave(t) /\ UNCHANGED List!list
      /\ l_mtx' = [l_mtx EXCEPT ![l_current[t]] = Free]
      /\ l_present' = [l_present EXCEPT ![t] = {}]
  BY DEF List!end
<1>2. l_mtx[l_current[t]] = t
  BY <1>1 DEF ListInv, Standing
<1>3. l_mtx \in [ListNodes \cup {ListHead} -> Users \cup {Free}]
  BY DEF ListInv, List!TypeOK
<1>4. /\ l_mtx' \in [ListNodes \cup {ListHead} -> Users \cup {Free}]
      /\ \A m \in ListNodes \cup {ListHead} :
           l_mtx'[m] = l_mtx[m] \/ (l_mtx[m] = t /\ l_mtx'[m] = Free)
  BY <1>1, <1>2, <1>3
<1>5. QED
  BY <1>1, <1>4, LeaveKeeps

\* The other traversals stand neither on the node that is removed nor on the one
\* before it, and do not look at it.
LEMMA removeKeeps ==
    ASSUME List!ListAssumption, ListInv, NEW t \in Users, List!remove(t)
    PROVE  ListInv'
<1> USE DEF ListInv
<1>1. PICK n : n = List!Next_(t)
  OBVIOUS
<1>2. PICK c : c = l_current[t]
  OBVIOUS
<1>3. /\ l_pc[t] = "two"
      /\ l_mtx' = [l_mtx EXCEPT ![n] = Free] /\ l_heap' = l_heap \ {n}
      /\ l_data' = [l_data EXCEPT ![n] = NoValue]
      /\ l_next' = [l_next EXCEPT ![c] = l_next[n], ![n] = Null]
      /\ l_present' = [u \in Users |-> l_present[u] \ {n}]
      /\ l_pc' = [l_pc EXCEPT ![t] = "one"]
      /\ UNCHANGED <<l_op, l_current, l_visited>>
  BY <1>1, <1>2 DEF List!remove
<1>4. /\ c \in l_heap \cup {ListHead} /\ l_mtx[c] = t
      /\ n \in l_heap /\ l_mtx[n] = t /\ n = l_next[c]
  BY <1>1, <1>2, <1>3 DEF Standing, List!Next_
<1>5. /\ n \in ListNodes /\ n # Null /\ c \in ListNodes \cup {ListHead} /\ n # ListHead
      /\ Free \notin Users /\ l_heap \subseteq ListNodes
      /\ l_next \in [ListNodes \cup {ListHead} -> ListNodes \cup {Null}]
  BY <1>4, FromIs DEF List!ListAssumption, List!TypeOK
<1>6. /\ ListShape' /\ n \in l_heap /\ n # c
      /\ \A m \in l_heap' \cup {ListHead} : Behind(m)' = Behind(m) \ {n}
      /\ \A m \in l_heap' \cup {ListHead} : m # c => l_next'[m] = l_next[m]
      /\ \A m \in l_heap' \cup {ListHead} : m # c => l_next[m] # n
      /\ l_next'[c] = l_next[n]
  <2>1. /\ c \in l_heap \cup {ListHead} /\ n \in ListNodes /\ l_next[c] = n
        /\ l_heap' = l_heap \ {n} /\ l_next'[n] = Null
        /\ n # c => l_next'[c] = l_next[n]
        /\ \A m \in ListNodes \cup {ListHead} : m # n /\ m # c => l_next'[m] = l_next[m]
    BY <1>3, <1>4, <1>5
  <2>2. QED
    BY <2>1, RemoveFacts
<1>7. List!TypeOK'
  <2>1. l_next' \in [ListNodes \cup {ListHead} -> ListNodes \cup {Null}]
    BY <1>3, <1>5, FromIs DEF List!ListAssumption
  <2>2. QED
    BY <1>3, <2>1 DEF List!TypeOK
<1>8. /\ l_mtx'[n] = Free
      /\ \A m \in ListNodes \cup {ListHead} : m # n => l_mtx'[m] = l_mtx[m]
      /\ l_pc'[t] = "one" /\ \A u \in Users : u # t => l_pc'[u] = l_pc[u]
      /\ \A u \in Users : l_current'[u] = l_current[u] /\ l_visited'[u] = l_visited[u]
      /\ \A u \in Users : l_present'[u] = l_present[u] \ {n}
  BY <1>3, <1>5 DEF List!TypeOK
<1>9. ASSUME NEW u \in Users, u # t, l_pc[u] # "idle"
      PROVE  /\ l_current[u] \in l_heap' \cup {ListHead} /\ l_current[u] # c
             /\ l_mtx'[l_current[u]] = u /\ l_next'[l_current[u]] = l_next[l_current[u]]
             /\ l_pc[u] = "two" => l_next[l_current[u]] \in l_heap'
                /\ l_mtx'[l_next[l_current[u]]] = u
  <2>1. /\ l_current[u] \in l_heap \cup {ListHead} /\ l_mtx[l_current[u]] = u
        /\ l_pc[u] = "two" =>
             l_next[l_current[u]] \in l_heap /\ l_mtx[l_next[l_current[u]]] = u
    BY <1>9 DEF Standing, List!Next_
  <2>2. l_current[u] # n /\ l_current[u] # c
    BY <1>4, <1>9, <2>1
  <2>3. l_current[u] \in l_heap' \cup {ListHead}
    BY <1>3, <2>1, <2>2
  <2>4. l_next'[l_current[u]] = l_next[l_current[u]] /\ l_next[l_current[u]] # n
    BY <1>6, <2>2, <2>3
  <2>5. l_mtx'[l_current[u]] = u
    BY <1>5, <1>8, <2>1, <2>2
  <2>6. l_pc[u] = "two" => l_next[l_current[u]] \in l_heap'
        /\ l_mtx'[l_next[l_current[u]]] = u
    BY <1>3, <1>5, <1>8, <2>1, <2>4
  <2>7. QED
    BY <2>2, <2>3, <2>4, <2>5, <2>6
<1>10. c \in l_heap' \cup {ListHead} /\ l_mtx'[c] = t
  BY <1>3, <1>4, <1>5, <1>6, <1>8
<1>11. Standing'
  <2>1. \A m \in ListNodes : l_mtx'[m] # Free => m \in l_heap'
    BY <1>3, <1>8 DEF Standing
  <2>2. \A u \in Users : l_pc'[u] = "idle" => l_current'[u] = ListHead
    BY <1>8 DEF Standing
  <2>3. \A u \in Users : l_pc'[u] # "idle" =>
          l_current'[u] \in l_heap' \cup {ListHead} /\ l_mtx'[l_current'[u]] = u
    BY <1>2, <1>8, <1>9, <1>10
  <2>4. \A u \in Users : l_pc'[u] = "two" =>
          l_next'[l_current'[u]] \in l_heap' /\ l_mtx'[l_next'[l_current'[u]]] = u
    BY <1>8, <1>9
  <2>5. QED
    BY <2>1, <2>2, <2>3, <2>4 DEF Standing, List!Next_
<1>12. NothingPassed'
  <2>1. ASSUME NEW u \in Users
        PROVE  l_present'[u] \ l_visited'[u] \subseteq
                 IF l_pc'[u] = "idle" THEN {}
                     ELSE From(ListNodes, l_next'[l_current'[u]], l_next')
    <3>1. l_present[u] \ l_visited[u] \subseteq
            IF l_pc[u] = "idle" THEN {} ELSE Behind(l_current[u])
      BY DEF NothingPassed
    <3>2. CASE l_pc'[u] = "idle"
      BY <1>8, <3>1, <3>2
    <3>3. CASE l_pc'[u] # "idle"
      <4>1. l_pc[u] # "idle" /\ l_present[u] \ l_visited[u] \subseteq Behind(l_current[u])
        BY <1>3, <1>8, <3>1, <3>3
      <4>2. PICK k \in l_heap' \cup {ListHead} : k = l_current[u]
        BY <1>2, <1>9, <1>10, <4>1
      <4>3. Behind(k)' = From(ListNodes, l_next'[k], l_next')
        BY DEF Behind
      <4>4. From(ListNodes, l_next'[k], l_next') = Behind(l_current[u]) \ {n}
        BY <1>6, <4>2, <4>3
      <4>5. QED
        BY <1>8, <3>3, <4>1, <4>2, <4>4
    <3>4. QED
      BY <3>2, <3>3
  <2>2. QED
    BY <2>1 DEF NothingPassed, Behind
<1>13. QED
  BY <1>6, <1>7, <1>11, <1>12

LEMMA ListStep == List!ListAssumption /\ ListInv /\ [List!Next]_(List!vars) => ListInv'
<1> SUFFICES ASSUME List!ListAssumption, ListInv, [List!Next]_(List!vars) PROVE ListInv'
  OBVIOUS
<1>1. ASSUME NEW t \in Users, List!Step(t) PROVE ListInv'
  <2>1. ASSUME NEW v \in Values, List!PushFront(t, v) PROVE ListInv'
    BY <2>1, PushFrontKeeps
  <2>2. ASSUME NEW o \in List!Traversals, List!begin(t, o) PROVE ListInv'
    BY <2>2, beginKeeps
  <2>3. CASE List!lockNext(t)
    BY <2>3, lockNextKeeps
  <2>4. CASE List!moveOn(t)
    BY <2>4, moveOnKeeps
  <2>5. CASE List!leaveEarly(t)
    BY <2>5, leaveEarlyKeeps
  <2>6. CASE List!remove(t)
    BY <2>6, removeKeeps
  <2>7. CASE List!end(t)
    BY <2>7, endKeeps
  <2>8. QED
    BY <1>1, <2>1, <2>2, <2>3, <2>4, <2>5, <2>6, <2>7 DEF List!Step
<1>2. CASE UNCHANGED List!vars
  <2>1. UNCHANGED List!list
        /\ UNCHANGED <<l_mtx, l_op, l_pc, l_current, l_visited, l_present>>
    BY <1>2 DEF List!vars, List!ghost
  <2>2. UNCHANGED <<l_heap, l_data, l_next>>
    BY <2>1 DEF List!list
  <2>3. List!TypeOK'
    BY <2>1, <2>2 DEF ListInv, List!TypeOK
  <2>4. ListShape'
    BY <2>1, ShapeKept DEF ListInv
  <2>5. Standing' /\ NothingPassed'
    BY <2>1, <2>2 DEF ListInv, Standing, NothingPassed, List!Next_, Behind
  <2>6. QED
    BY <2>3, <2>4, <2>5 DEF ListInv
<1>3. QED
  BY <1>1, <1>2 DEF List!Next

LEMMA TraversalsHold == List!ListAssumption /\ ListInv => List!TraversalsAreSafe
<1> SUFFICES ASSUME List!ListAssumption, ListInv PROVE List!NodesInUseExist
  BY BehindIs DEF List!TraversalsAreSafe, ListInv, List!NothingPassedOver, NothingPassed
<1> USE DEF ListInv
<1>1. ASSUME NEW t \in Users PROVE List!InUse(t) \subseteq l_heap
  <2>1. CASE l_pc[t] = "idle"
    BY <2>1 DEF List!InUse
  <2>2. CASE l_pc[t] # "idle"
    <3>1. l_current[t] \in l_heap \cup {ListHead}
      BY <2>2 DEF Standing
    <3>2. PICK c \in l_heap \cup {ListHead} : c = l_current[t]
      BY <3>1
    <3>3. l_next[c] \in l_heap \cup {Null}
      BY NodeFacts
    <3>4. QED
      BY <2>2, <3>2, <3>3 DEF List!InUse, List!Next_
  <2>3. QED
    BY <2>1, <2>2
<1>2. QED
  BY <1>1, BehindIs DEF List!NodesInUseExist, Standing, ListShape

\* No traversal meets a deleted node or passes over one that was in the list since it
\* began, whatever is pushed and removed around it (threadsafe_list.hpp:24).
THEOREM TraversalsSafe ==
    ASSUME List!ListAssumption
    PROVE  List!Spec => []TraversalsAreSafe
<1>1. List!Init => ListInv
  BY ListInit
<1>2. ListInv /\ [List!Next]_(List!vars) => ListInv'
  BY ListStep
<1>3. ListInv => TraversalsAreSafe
  BY TraversalsHold DEF TraversalsAreSafe
<1>4. QED
  BY <1>1, <1>2, <1>3, PTL DEF List!Spec

\* The variables of the list have their types.
THEOREM ListTypeCorrect ==
    ASSUME List!ListAssumption
    PROVE  List!Spec => []List!TypeOK
<1>1. List!Init => ListInv
  BY ListInit
<1>2. ListInv /\ [List!Next]_(List!vars) => ListInv'
  BY ListStep
<1>3. ListInv => List!TypeOK
  BY DEF ListInv
<1>4. QED
  BY <1>1, <1>2, <1>3, PTL DEF List!Spec

-------------------------------------------------------------------------------
\* The stack with shared pointers.

\* The nodes of the stack, from the top.
SharedNodes == From(Nodes, h_head, h_next)
SharedOrder == Line(Nodes, h_head, h_next)

\* The operators of the instance are those that LinkedListProofs is about.
LEMMA LineIs ==
    /\ \A nodes, f, nxt : Shared!Line(nodes, f, nxt) = Line(nodes, f, nxt)
    /\ \A order, data : Shared!Contents(order, data) = Contents(order, data)
    /\ \A nodes : Shared!IsFiniteSet(nodes) = IsFiniteSet(nodes)
BY DEF Shared!Line, Shared!From, Shared!Walk, Shared!Cardinality, Shared!IsFiniteSet,
       Shared!Contents, Line, From, Walk, Cardinality, IsFiniteSet, Contents

LEMMA SharedIs ==
    /\ Shared!Stack = Contents(SharedOrder, h_data)
    /\ Shared!Stack' = Contents(SharedOrder', h_data')
<1>1. Shared!Stack = Contents(SharedOrder, h_data)
  BY LineIs DEF Shared!Stack, Shared!InOrder, SharedOrder
<1>2. Shared!Stack' = Contents(SharedOrder', h_data')
  BY LineIs DEF Shared!Stack, Shared!InOrder, SharedOrder
<1>3. QED
  BY <1>1, <1>2

\* What the pointers of a thread point to: a node that is pushed is not in the
\* stack; a node that is popped is not any more; and the thread that is to remove
\* the top node, as long as it is in the stack, has the node behind it.
SharedOwn(t) ==
    /\ h_pc[t] = "push" =>
         h_new[t] \in Nodes \ SharedNodes /\ h_data[h_new[t]] \in Values
    /\ h_pc[t] # "push" => h_new[t] = Null
    /\ h_pc[t] \in {"load", "remove"} => h_old[t] \in Nodes
    /\ h_pc[t] = "remove" /\ h_old[t] \in SharedNodes => h_load[t] = h_next[h_old[t]]
    /\ h_pc[t] = "reset" => h_old[t] \in Nodes \ SharedNodes
    /\ h_pc[t] = "return" => h_old[t] \notin SharedNodes

\* Nobody else points to a node that is being pushed.
SharedApart ==
    \A t, u \in Clients :
      h_pc[t] = "push" =>
        /\ h_old[u] # h_new[t]
        /\ t # u => h_new[u] # h_new[t]

SharedInv ==
    /\ Shared!TypeOK
    /\ IsLinked(Nodes, h_head, h_next, Null)
    /\ \A t \in Clients : SharedOwn(t)
    /\ SharedApart

-------------------------------------------------------------------------------
LEMMA SharedListFacts ==
    ASSUME Shared!SharedPtrAssumption, SharedInv
    PROVE  /\ IsFiniteSet(Nodes) /\ Null \notin Nodes /\ SharedNodes \subseteq Nodes
           /\ SharedOrder \in Seq(Nodes) /\ Members(SharedOrder) = SharedNodes
           /\ SharedOrder = <<>> <=> h_head = Null
           /\ h_head # Null => h_head \in SharedNodes /\ SharedOrder[1] = h_head
<1>1. IsFiniteSet(Nodes) /\ Null \notin Nodes
  BY LineIs DEF Shared!SharedPtrAssumption
<1> DEFINE f == h_head
           nxt == h_next
<1>2. IsLinked(Nodes, f, nxt, Null)
  BY DEF SharedInv
<1> HIDE DEF f, nxt
<1>3. /\ Line(Nodes, f, nxt) \in Seq(Nodes)
      /\ Members(Line(Nodes, f, nxt)) = From(Nodes, f, nxt)
      /\ From(Nodes, f, nxt) \subseteq Nodes
      /\ f \in Nodes \cup {Null}
      /\ Line(Nodes, f, nxt) = <<>> <=> f = Null
      /\ f = Null => From(Nodes, f, nxt) = {}
      /\ f # Null => f \in From(Nodes, f, nxt) /\ Line(Nodes, f, nxt)[1] = f
  BY <1>1, <1>2, LinkedFacts
<1>4. QED
  BY <1>1, <1>3 DEF SharedNodes, SharedOrder, f, nxt

\* A step that writes to no next_ of the stack.
LEMMA SharedListKept ==
    ASSUME Shared!SharedPtrAssumption, SharedInv, h_head' = h_head,
           \A m \in SharedNodes : h_next'[m] = h_next[m]
    PROVE  /\ IsLinked(Nodes, h_head', h_next', Null)
           /\ SharedNodes' = SharedNodes /\ SharedOrder' = SharedOrder
<1> DEFINE f == h_head
           nxt == h_next
           nxt2 == h_next'
<1>1. /\ IsFiniteSet(Nodes) /\ Null \notin Nodes /\ IsLinked(Nodes, f, nxt, Null)
      /\ \A m \in From(Nodes, f, nxt) : nxt2[m] = nxt[m]
  BY LineIs DEF SharedInv, Shared!SharedPtrAssumption, SharedNodes
<1> HIDE DEF f, nxt, nxt2
<1>2. /\ IsLinked(Nodes, f, nxt2, Null)
      /\ Line(Nodes, f, nxt2) = Line(Nodes, f, nxt)
      /\ From(Nodes, f, nxt2) = From(Nodes, f, nxt)
  BY <1>1, LinkedFrame
<1>3. QED
  BY <1>2 DEF SharedNodes, SharedOrder, f, nxt, nxt2

\* The memory of the stack, and what a pointer of a thread points to, lives.
LEMMA LivingNodes ==
    ASSUME Shared!SharedPtrAssumption, SharedInv, NEW n \in Nodes \ Shared!Alive
    PROVE  /\ n \notin SharedNodes
           /\ \A t \in Clients : h_new[t] # n /\ h_old[t] # n /\ h_load[t] # n
<1> DEFINE ps == {h_head} \cup {h_new[t] : t \in Clients}
                 \cup {h_old[t] : t \in Clients} \cup {h_load[t] : t \in Clients}
<1>1. PICK S \in SUBSET Nodes : ps \ {Null} \subseteq S /\ Shared!IsClosed(S)
      /\ n \notin S
  BY DEF Shared!Alive, Shared!ReachableFrom
<1>2. IsFiniteSet(Nodes) /\ Null \notin Nodes /\ IsLinked(Nodes, h_head, h_next, Null)
  BY LineIs DEF Shared!SharedPtrAssumption, SharedInv
<1>3. SharedNodes \subseteq S
  <2> DEFINE f == h_head
             nxt == h_next
  <2>1. IsLinked(Nodes, f, nxt, Null) /\ f \in S \cup {Null}
        /\ \A m \in S : nxt[m] \in S \cup {Null}
    BY <1>1, <1>2 DEF Shared!IsClosed
  <2> HIDE DEF f, nxt
  <2>2. From(Nodes, f, nxt) \subseteq S
    BY <1>2, <2>1, LinkedClosed
  <2>3. QED
    BY <2>2 DEF SharedNodes, f, nxt
<1>4. \A t \in Clients : {h_new[t], h_old[t], h_load[t]} \subseteq S \cup {Null}
  BY <1>1
<1>5. QED
  BY <1>1, <1>2, <1>3, <1>4

LEMMA SharedInit == Shared!SharedPtrAssumption /\ Shared!Init => SharedInv
/\ SharedOrder = <<>>
<1> SUFFICES ASSUME Shared!SharedPtrAssumption, Shared!Init PROVE SharedInv
    /\ SharedOrder = <<>>
  OBVIOUS
<1>1. IsFiniteSet(Nodes) /\ Null \notin Nodes /\ h_head = Null
  BY LineIs DEF Shared!SharedPtrAssumption, Shared!Init
<1>2. IsLinked(Nodes, h_head, h_next, Null) /\ SharedOrder = <<>>
  <2> DEFINE nxt == h_next
  <2> HIDE DEF nxt
  <2>1. /\ IsLinked(Nodes, Null, nxt, Null) /\ From(Nodes, Null, nxt) = {}
        /\ Line(Nodes, Null, nxt) = <<>>
    BY <1>1, LinkedEmpty
  <2>2. QED
    BY <1>1, <2>1 DEF nxt, SharedOrder
<1>3. Shared!TypeOK
  BY DEF Shared!Init, Shared!TypeOK
<1>4. (\A t \in Clients : SharedOwn(t)) /\ SharedApart
  BY DEF Shared!Init, SharedOwn, SharedApart
<1>5. QED
  BY <1>2, <1>3, <1>4 DEF SharedInv

-------------------------------------------------------------------------------
\* The steps, one by one, and what they do to the list.
LEMMA SharedPushKeeps ==
    ASSUME Shared!SharedPtrAssumption, SharedInv, NEW t \in Clients, NEW v \in Values,
           Shared!Push(t, v)
    PROVE  SharedInv' /\ SharedOrder' = SharedOrder
<1> USE DEF SharedInv
<1>1. PICK n \in Nodes \ Shared!Alive :
        /\ h_data' = [h_data EXCEPT ![n] = v]
        /\ h_next' = [h_next EXCEPT ![n] = h_head]
        /\ h_new' = [h_new EXCEPT ![t] = n]
  BY DEF Shared!Push
<1>2. /\ h_pc[t] = "idle" /\ h_pc' = [h_pc EXCEPT ![t] = "push"]
      /\ UNCHANGED <<h_head, h_old, h_load>>
  BY DEF Shared!Push, Shared!Goto
<1>3. /\ n \notin SharedNodes
      /\ \A u \in Clients : h_new[u] # n /\ h_old[u] # n /\ h_load[u] # n
  BY LivingNodes
<1>4. Shared!TypeOK'
  BY <1>1, <1>2 DEF Shared!TypeOK
<1>5. /\ h_data'[n] = v /\ h_new'[t] = n /\ h_pc'[t] = "push"
      /\ \A m \in Nodes : m # n => h_data'[m] = h_data[m] /\ h_next'[m] = h_next[m]
      /\ \A u \in Clients : u # t => h_new'[u] = h_new[u] /\ h_pc'[u] = h_pc[u]
  BY <1>1, <1>2 DEF Shared!TypeOK
<1>6. SharedNodes \subseteq Nodes
  BY SharedListFacts
<1>7. \A m \in SharedNodes : h_next'[m] = h_next[m]
  BY <1>3, <1>5, <1>6
<1>8. /\ IsLinked(Nodes, h_head', h_next', Null)
      /\ SharedNodes' = SharedNodes /\ SharedOrder' = SharedOrder
  BY <1>2, <1>7, SharedListKept
<1>9. ASSUME NEW u \in Clients PROVE SharedOwn(u)'
  <2>1. CASE u = t
    BY <1>2, <1>3, <1>5, <1>8, <2>1 DEF SharedOwn
  <2>2. CASE u # t
    <3>1. SharedOwn(u) /\ h_new[u] # n
      BY <1>3
    <3>2. QED
      BY <1>2, <1>5, <1>6, <1>7, <1>8, <2>2, <3>1 DEF SharedOwn
  <2>3. QED
    BY <2>1, <2>2
<1>10. SharedApart'
  BY <1>2, <1>3, <1>5 DEF SharedApart
<1>11. QED
  BY <1>4, <1>8, <1>9, <1>10

LEMMA SharedPushSucceedsKeeps ==
    ASSUME Shared!SharedPtrAssumption, SharedInv, NEW t \in Clients,
           Shared!pushSucceeds(t)
    PROVE  SharedInv' /\ SharedOrder' = <<h_new[t]>> \o SharedOrder
<1> USE DEF SharedInv
<1>1. PICK n \in Nodes \ SharedNodes : n = h_new[t]
  BY DEF Shared!pushSucceeds, SharedOwn
<1>2. /\ h_pc[t] = "push" /\ h_pc' = [h_pc EXCEPT ![t] = "idle"] /\ h_head = h_next[n]
      /\ h_head' = n /\ h_new' = [h_new EXCEPT ![t] = Null]
      /\ UNCHANGED <<h_data, h_next, h_old, h_load>>
  BY <1>1 DEF Shared!pushSucceeds, Shared!Goto, Shared!memory
<1>3. Shared!TypeOK'
  BY <1>2 DEF Shared!TypeOK
<1>4. /\ IsLinked(Nodes, h_head', h_next', Null)
      /\ SharedNodes' = SharedNodes \cup {n} /\ SharedOrder' = <<n>> \o SharedOrder
  <2> DEFINE nxt == h_next
  <2>1. /\ IsFiniteSet(Nodes) /\ Null \notin Nodes /\ IsLinked(Nodes, nxt[n], nxt, Null)
        /\ n \notin From(Nodes, nxt[n], nxt)
    BY <1>2, LineIs DEF Shared!SharedPtrAssumption, SharedNodes
  <2> HIDE DEF nxt
  <2>2. /\ IsLinked(Nodes, n, nxt, Null)
        /\ Line(Nodes, n, nxt) = <<n>> \o Line(Nodes, nxt[n], nxt)
        /\ From(Nodes, n, nxt) = From(Nodes, nxt[n], nxt) \cup {n}
    BY <2>1, LinkedPush
  <2>3. h_next' = nxt /\ h_head' = n /\ h_head = nxt[n] /\ h_next = nxt
    BY <1>2 DEF nxt
  <2>4. QED
    BY <2>2, <2>3 DEF SharedNodes, SharedOrder
<1>5. /\ h_new'[t] = Null /\ h_pc'[t] = "idle"
      /\ \A u \in Clients : u # t => h_new'[u] = h_new[u] /\ h_pc'[u] = h_pc[u]
  BY <1>2 DEF Shared!TypeOK
<1>6. ASSUME NEW u \in Clients PROVE SharedOwn(u)'
  <2>1. CASE u = t
    BY <1>5, <2>1 DEF SharedOwn
  <2>2. CASE u # t
    <3>1. SharedOwn(u) /\ h_old[u] # n /\ h_new[u] # n
      BY <1>1, <1>2, <2>2 DEF SharedApart
    <3>2. QED
      BY <1>2, <1>4, <1>5, <2>2, <3>1 DEF SharedOwn
  <2>3. QED
    BY <2>1, <2>2
<1>7. SharedApart'
  <2>1. ASSUME NEW u \in Clients, h_pc'[u] = "push"
        PROVE  u # t /\ h_pc[u] = "push" /\ h_new'[u] = h_new[u] /\ h_new[u] # Null
    BY <1>5, <2>1, LineIs DEF SharedOwn, Shared!SharedPtrAssumption
  <2>2. QED
    BY <1>2, <1>5, <2>1 DEF SharedApart
<1>8. QED
  BY <1>1, <1>3, <1>4, <1>6, <1>7

LEMMA SharedPushFailsKeeps ==
    ASSUME Shared!SharedPtrAssumption, SharedInv, NEW t \in Clients, Shared!pushFails(t)
    PROVE  SharedInv' /\ SharedOrder' = SharedOrder
<1> USE DEF SharedInv
<1>1. PICK n \in Nodes \ SharedNodes : n = h_new[t]
  BY DEF Shared!pushFails, SharedOwn
<1>2. /\ h_pc[t] = "push" /\ h_next' = [h_next EXCEPT ![n] = h_head]
      /\ UNCHANGED <<h_head, h_data, h_pc, h_new, h_old, h_load>>
  BY <1>1 DEF Shared!pushFails, Shared!locals
<1>3. Shared!TypeOK'
  BY <1>2 DEF Shared!TypeOK
<1>4. SharedNodes \subseteq Nodes /\ \A m \in Nodes : m # n => h_next'[m] = h_next[m]
  BY <1>2, SharedListFacts DEF Shared!TypeOK
<1>5. \A m \in SharedNodes : h_next'[m] = h_next[m]
  BY <1>4
<1>6. /\ IsLinked(Nodes, h_head', h_next', Null)
      /\ SharedNodes' = SharedNodes /\ SharedOrder' = SharedOrder
  BY <1>2, <1>5, SharedListKept
<1>7. \A u \in Clients : SharedOwn(u)'
  BY <1>2, <1>5, <1>6 DEF SharedOwn
<1>8. SharedApart'
  BY <1>2 DEF SharedApart
<1>9. QED
  BY <1>3, <1>6, <1>7, <1>8

LEMMA SharedRemoveKeeps ==
    ASSUME Shared!SharedPtrAssumption, SharedInv, NEW t \in Clients, Shared!remove(t)
    PROVE  /\ SharedInv' /\ SharedOrder' = Tail(SharedOrder) /\ SharedOrder # <<>>
           /\ SharedOrder[1] = h_old[t]
<1> USE DEF SharedInv
<1>1. PICK n \in Nodes : n = h_old[t]
  BY DEF Shared!remove, SharedOwn
<1>2. /\ h_pc[t] = "remove" /\ h_pc' = [h_pc EXCEPT ![t] = "reset"] /\ h_head = n
      /\ h_head' = h_load[t] /\ h_load' = [h_load EXCEPT ![t] = Null]
      /\ UNCHANGED <<h_data, h_next, h_new, h_old>>
  BY <1>1 DEF Shared!remove, Shared!Goto, Shared!memory
<1>3. Shared!TypeOK'
  BY <1>2 DEF Shared!TypeOK
<1>4. n # Null /\ n \in SharedNodes /\ SharedOrder[1] = n /\ SharedOrder # <<>>
  BY <1>2, SharedListFacts
<1>5. h_load[t] = h_next[n]
  BY <1>1, <1>2, <1>4 DEF SharedOwn
<1>6. /\ IsLinked(Nodes, h_head', h_next', Null)
      /\ SharedNodes' = SharedNodes \ {n} /\ SharedOrder' = Tail(SharedOrder)
  <2> DEFINE nxt == h_next
  <2>1. /\ IsFiniteSet(Nodes) /\ Null \notin Nodes /\ IsLinked(Nodes, n, nxt, Null)
        /\ n # Null
    BY <1>2, <1>4, LineIs DEF Shared!SharedPtrAssumption
  <2> HIDE DEF nxt
  <2>2. /\ IsLinked(Nodes, nxt[n], nxt, Null)
        /\ Line(Nodes, nxt[n], nxt) = Tail(Line(Nodes, n, nxt))
        /\ From(Nodes, nxt[n], nxt) = From(Nodes, n, nxt) \ {n}
    BY <2>1, LinkedPop
  <2>3. h_next' = nxt /\ h_head' = nxt[n] /\ h_head = n /\ h_next = nxt
    BY <1>2, <1>5 DEF nxt
  <2>4. QED
    BY <2>2, <2>3 DEF SharedNodes, SharedOrder
<1>7. /\ h_load'[t] = Null /\ h_pc'[t] = "reset"
      /\ \A u \in Clients : u # t => h_load'[u] = h_load[u] /\ h_pc'[u] = h_pc[u]
  BY <1>2 DEF Shared!TypeOK
<1>8. ASSUME NEW u \in Clients PROVE SharedOwn(u)'
  <2>1. SharedOwn(u)
    OBVIOUS
  <2>2. CASE u = t
    BY <1>1, <1>2, <1>6, <1>7, <2>1, <2>2 DEF SharedOwn
  <2>3. CASE u # t
    BY <1>2, <1>6, <1>7, <2>1, <2>3 DEF SharedOwn
  <2>4. QED
    BY <2>2, <2>3
<1>9. SharedApart'
  BY <1>2, <1>7 DEF SharedApart
<1>10. QED
  BY <1>1, <1>3, <1>4, <1>6, <1>8, <1>9

LEMMA SharedResetKeeps ==
    ASSUME Shared!SharedPtrAssumption, SharedInv, NEW t \in Clients, Shared!resetNext(t)
    PROVE  SharedInv' /\ SharedOrder' = SharedOrder
<1> USE DEF SharedInv
<1>1. PICK n \in Nodes \ SharedNodes : n = h_old[t]
  BY DEF Shared!resetNext, SharedOwn
<1>2. /\ h_pc[t] = "reset" /\ h_next' = [h_next EXCEPT ![n] = Null]
      /\ h_pc' = [h_pc EXCEPT ![t] = "return"]
      /\ UNCHANGED <<h_head, h_data, h_new, h_old, h_load>>
  BY <1>1 DEF Shared!resetNext, Shared!locals, Shared!Goto
<1>3. Shared!TypeOK'
  BY <1>2 DEF Shared!TypeOK
<1>4. /\ SharedNodes \subseteq Nodes /\ \A m \in Nodes : m # n => h_next'[m] = h_next[m]
      /\ h_pc'[t] = "return" /\ \A u \in Clients : u # t => h_pc'[u] = h_pc[u]
  BY <1>2, SharedListFacts DEF Shared!TypeOK
<1>5. \A m \in SharedNodes : h_next'[m] = h_next[m]
  BY <1>4
<1>6. /\ IsLinked(Nodes, h_head', h_next', Null)
      /\ SharedNodes' = SharedNodes /\ SharedOrder' = SharedOrder
  BY <1>2, <1>5, SharedListKept
<1>7. ASSUME NEW u \in Clients PROVE SharedOwn(u)'
  <2>1. SharedOwn(u)
    OBVIOUS
  <2>2. CASE u = t
    BY <1>1, <1>2, <1>4, <1>6, <2>1, <2>2 DEF SharedOwn
  <2>3. CASE u # t
    BY <1>2, <1>4, <1>5, <1>6, <2>1, <2>3 DEF SharedOwn
  <2>4. QED
    BY <2>2, <2>3
<1>8. SharedApart'
  BY <1>2, <1>4 DEF SharedApart
<1>9. QED
  BY <1>3, <1>6, <1>7, <1>8

\* The steps that write to the pointers of the thread only.
SharedLocal(t) ==
    \/ Shared!Pop(t) \/ Shared!loadHead(t) \/ Shared!loadNext(t)
    \/ Shared!removeFails(t) \/ Shared!return(t)

LEMMA SharedLocalKeeps ==
    ASSUME Shared!SharedPtrAssumption, SharedInv, NEW t \in Clients, SharedLocal(t)
    PROVE  SharedInv' /\ SharedOrder' = SharedOrder
<1> USE DEF SharedInv
<1>1. /\ UNCHANGED <<h_head, h_data, h_next, h_new>> /\ h_pc[t] # "push"
      /\ \A u \in Clients : u # t =>
           h_pc'[u] = h_pc[u] /\ h_old'[u] = h_old[u] /\ h_load'[u] = h_load[u]
  BY DEF SharedLocal, Shared!Pop, Shared!loadHead, Shared!loadNext, Shared!removeFails,
     Shared!return, Shared!Goto, Shared!memory, Shared!locals, Shared!TypeOK
<1>2. /\ Shared!TypeOK'
      /\ h_pc'[t] # "push"
      /\ h_old'[t] \in {h_old[t], h_head, Null}
  <2>1. CASE Shared!Pop(t)
    BY <2>1 DEF Shared!Pop, Shared!Goto, Shared!memory, Shared!locals, Shared!TypeOK
  <2>2. CASE Shared!loadHead(t)
    BY <2>2 DEF Shared!loadHead, Shared!Goto, Shared!memory, Shared!TypeOK
  <2>3. CASE Shared!loadNext(t)
    <3>1. h_old[t] \in Nodes
      BY <2>3 DEF Shared!loadNext, SharedOwn
    <3>2. QED
      BY <2>3, <3>1 DEF Shared!loadNext, Shared!Goto, Shared!memory, Shared!TypeOK
  <2>4. CASE Shared!removeFails(t)
    BY <2>4 DEF Shared!removeFails, Shared!Goto, Shared!memory, Shared!TypeOK
  <2>5. CASE Shared!return(t)
    BY <2>5 DEF Shared!return, Shared!Goto, Shared!memory, Shared!TypeOK
  <2>6. QED
    BY <2>1, <2>2, <2>3, <2>4, <2>5 DEF SharedLocal
<1>3. \A m \in SharedNodes : h_next'[m] = h_next[m]
  BY <1>1
<1>4. /\ IsLinked(Nodes, h_head', h_next', Null)
      /\ SharedNodes' = SharedNodes /\ SharedOrder' = SharedOrder
  BY <1>1, <1>3, SharedListKept
<1>5. ASSUME NEW u \in Clients, u # t PROVE SharedOwn(u)'
  BY <1>1, <1>4, <1>5 DEF SharedOwn
<1>6. SharedOwn(t)'
  <2>1. h_new'[t] = Null
    BY <1>1 DEF SharedOwn
  <2>2. Null \notin SharedNodes
    BY SharedListFacts
  <2>3. CASE Shared!Pop(t)
    BY <1>1, <2>1, <2>3 DEF Shared!Pop, Shared!Goto, Shared!TypeOK, SharedOwn
  <2>4. CASE Shared!loadHead(t)
    BY <1>1, <1>4, <2>1, <2>2, <2>4
       DEF Shared!loadHead, Shared!Goto, Shared!TypeOK, SharedOwn
  <2>5. CASE Shared!loadNext(t)
    BY <1>1, <1>4, <2>1, <2>5 DEF Shared!loadNext, Shared!Goto, Shared!TypeOK, SharedOwn
  <2>6. CASE Shared!removeFails(t)
    BY <1>1, <1>4, <2>1, <2>2, <2>6
       DEF Shared!removeFails, Shared!Goto, Shared!TypeOK, SharedOwn
  <2>7. CASE Shared!return(t)
    BY <1>1, <2>1, <2>7 DEF Shared!return, Shared!Goto, Shared!TypeOK, SharedOwn
  <2>8. QED
    BY <2>3, <2>4, <2>5, <2>6, <2>7 DEF SharedLocal
<1>7. SharedApart'
  <2>1. ASSUME NEW u \in Clients, h_pc'[u] = "push"
        PROVE  u # t /\ h_new'[u] = h_new[u] /\ h_new[u] \in Nodes \ SharedNodes
               /\ h_pc[u] = "push" /\ h_new[u] # h_old'[t]
    <3>1. u # t /\ h_pc[u] = "push"
      BY <1>1, <1>2, <2>1
    <3>2. h_new[u] \in Nodes \ SharedNodes /\ h_new[u] # h_old[t]
      BY <3>1 DEF SharedOwn, SharedApart
    <3>3. h_new[u] # h_head /\ h_new[u] # Null
      BY <3>2, SharedListFacts
    <3>4. QED
      BY <1>1, <1>2, <3>1, <3>2, <3>3
  <2>2. QED
    BY <1>1, <2>1 DEF SharedApart
<1>8. QED
  BY <1>2, <1>4, <1>5, <1>6, <1>7

LEMMA SharedStep == Shared!SharedPtrAssumption /\ SharedInv
/\ [Shared!Next]_(Shared!vars) => SharedInv'
<1> SUFFICES ASSUME Shared!SharedPtrAssumption, SharedInv,
        [Shared!Next]_(Shared!vars) PROVE SharedInv'
  OBVIOUS
<1>1. ASSUME NEW t \in Clients, Shared!Step(t) PROVE SharedInv'
  <2>1. ASSUME NEW v \in Values, Shared!Push(t, v) PROVE SharedInv'
    BY <2>1, SharedPushKeeps
  <2>2. CASE Shared!pushSucceeds(t)
    BY <2>2, SharedPushSucceedsKeeps
  <2>3. CASE Shared!pushFails(t)
    BY <2>3, SharedPushFailsKeeps
  <2>4. CASE Shared!remove(t)
    BY <2>4, SharedRemoveKeeps
  <2>5. CASE Shared!resetNext(t)
    BY <2>5, SharedResetKeeps
  <2>6. CASE SharedLocal(t)
    BY <2>6, SharedLocalKeeps
  <2>7. QED
    BY <1>1, <2>1, <2>2, <2>3, <2>4, <2>5, <2>6 DEF Shared!Step, SharedLocal
<1>2. CASE UNCHANGED Shared!vars
  <2>1. UNCHANGED <<h_head, h_data, h_next, h_pc, h_new, h_old, h_load>>
    BY <1>2 DEF Shared!vars, Shared!memory, Shared!locals
  <2>2. Shared!TypeOK' /\ SharedNodes' = SharedNodes
    BY <2>1 DEF SharedInv, Shared!TypeOK, SharedNodes
  <2>3. QED
    BY <2>1, <2>2 DEF SharedInv, SharedOwn, SharedApart
<1>3. QED
  BY <1>1, <1>2 DEF Shared!Next

-------------------------------------------------------------------------------
\* What a thread shows of its place in a call.
LEMMA SharedCallOf ==
    ASSUME NEW t \in Clients
    PROVE  /\ h_pc[t] = "idle" => Shared!Call[t] = Shared!Abstract!Idle
           /\ h_pc[t] = "push"
                  => Shared!Call[t] = [op |-> "push", value |-> h_data[h_new[t]]]
           /\ h_pc[t] \in {"pop", "load", "remove"}
                  => Shared!Call[t] = Shared!Abstract!Popping
           /\ h_pc[t] \in {"reset", "return"} =>
                Shared!Call[t] = Shared!Abstract!Popped(IF h_old[t] = Null THEN NoValue
                                          ELSE h_data[h_old[t]])
BY DEF Shared!Call, Shared!Abstract!Idle, Shared!Abstract!Popping, Shared!Abstract!Popped

LEMMA SharedCallOfNext ==
    ASSUME NEW t \in Clients
    PROVE  /\ h_pc'[t] = "idle" => Shared!Call'[t] = Shared!Abstract!Idle
           /\ h_pc'[t] = "push"
                  => Shared!Call'[t] = [op |-> "push", value |-> h_data'[h_new'[t]]]
           /\ h_pc'[t] \in {"pop", "load", "remove"}
                  => Shared!Call'[t] = Shared!Abstract!Popping
           /\ h_pc'[t] \in {"reset", "return"} =>
                Shared!Call'[t] = Shared!Abstract!Popped(IF h_old'[t] = Null THEN NoValue
                                           ELSE h_data'[h_old'[t]])
BY DEF Shared!Call, Shared!Abstract!Idle, Shared!Abstract!Popping, Shared!Abstract!Popped

\* A step of one thread changes at most what that thread shows.
LEMMA SharedCallChanges ==
    ASSUME SharedInv, NEW t \in Clients,
           \A u \in Clients : u # t =>
             /\ h_pc'[u] = h_pc[u] /\ h_new'[u] = h_new[u] /\ h_old'[u] = h_old[u]
             /\ h_pc[u] = "push" => h_data'[h_new[u]] = h_data[h_new[u]]
             /\ h_pc[u] \in {"reset", "return"} /\ h_old[u] # Null =>
                  h_data'[h_old[u]] = h_data[h_old[u]],
           NEW c, Shared!Call'[t] = c
    PROVE  Shared!Call' = [Shared!Call EXCEPT ![t] = c]
<1>1. Shared!Call = [u \in Clients |-> Shared!Call[u]]
      /\ Shared!Call' = [u \in Clients |-> Shared!Call'[u]]
  BY DEF Shared!Call
<1>2. ASSUME NEW u \in Clients, u # t PROVE Shared!Call'[u] = Shared!Call[u]
  <2>1. h_pc[u] \in {"idle", "push", "pop", "load", "remove", "reset", "return"}
    BY DEF SharedInv, Shared!TypeOK
  <2>2. /\ h_pc'[u] = h_pc[u] /\ h_new'[u] = h_new[u] /\ h_old'[u] = h_old[u]
    BY <1>2
  <2>3. CASE h_pc[u] = "push"
    <3>1. h_data'[h_new'[u]] = h_data[h_new[u]]
      BY <1>2, <2>2, <2>3
    <3>2. /\ Shared!Call[u] = [op |-> "push", value |-> h_data[h_new[u]]]
          /\ Shared!Call'[u] = [op |-> "push", value |-> h_data'[h_new'[u]]]
      BY <2>2, <2>3, SharedCallOf, SharedCallOfNext
    <3>3. QED
      BY <3>1, <3>2
  <2>4. CASE h_pc[u] \in {"reset", "return"}
    <3>1. h_old[u] # Null => h_data'[h_old[u]] = h_data[h_old[u]]
      BY <1>2, <2>4
    <3>2. (IF h_old'[u] = Null THEN NoValue ELSE h_data'[h_old'[u]])
            = (IF h_old[u] = Null THEN NoValue ELSE h_data[h_old[u]])
      BY <2>2, <3>1
    <3>3. /\ Shared!Call[u] = Shared!Abstract!Popped(IF h_old[u] = Null THEN NoValue
                                       ELSE h_data[h_old[u]])
          /\ Shared!Call'[u] = Shared!Abstract!Popped(IF h_old'[u] = Null THEN NoValue
                                        ELSE h_data'[h_old'[u]])
      BY <2>2, <2>4, SharedCallOf, SharedCallOfNext
    <3>4. QED
      BY <3>2, <3>3
  <2>5. CASE h_pc[u] \in {"idle", "pop", "load", "remove"}
    BY <2>2, <2>5, SharedCallOf, SharedCallOfNext
  <2>6. QED
    BY <2>1, <2>3, <2>4, <2>5
<1>3. QED
  BY <1>1, <1>2

LEMMA SharedCallStays ==
    ASSUME NEW t \in Clients, Shared!Call' = [Shared!Call EXCEPT ![t] = Shared!Call[t]]
    PROVE  Shared!Call' = Shared!Call
<1>1. Shared!Call = [u \in Clients |-> Shared!Call[u]]
  BY DEF Shared!Call
<1>2. QED
  BY <1>1

LEMMA SharedPushSteps ==
    ASSUME Shared!SharedPtrAssumption, SharedInv, NEW t \in Clients, NEW v \in Values,
           Shared!Push(t, v)
    PROVE  Shared!Abstract!Next
<1>1. PICK n \in Nodes \ Shared!Alive :
        h_data' = [h_data EXCEPT ![n] = v] /\ h_new' = [h_new EXCEPT ![t] = n]
  BY DEF Shared!Push
<1>2. /\ h_pc[t] = "idle" /\ h_pc' = [h_pc EXCEPT ![t] = "push"] /\ h_old' = h_old
  BY DEF Shared!Push, Shared!Goto
<1>3. \A u \in Clients : h_new[u] # n /\ h_old[u] # n
  BY LivingNodes
<1>4. /\ h_data'[n] = v /\ h_new'[t] = n /\ h_pc'[t] = "push"
      /\ \A m \in Nodes : m # n => h_data'[m] = h_data[m]
      /\ \A u \in Clients : u # t => h_new'[u] = h_new[u] /\ h_pc'[u] = h_pc[u]
      /\ \A u \in Clients : h_old[u] \in Nodes \cup {Null}
  BY <1>1, <1>2 DEF SharedInv, Shared!TypeOK
<1>5. \A m \in SharedNodes : m \in Nodes /\ h_data'[m] = h_data[m]
  BY <1>4, LivingNodes, SharedListFacts
<1>6. ASSUME NEW u \in Clients, u # t
      PROVE  /\ h_pc'[u] = h_pc[u] /\ h_new'[u] = h_new[u] /\ h_old'[u] = h_old[u]
             /\ h_pc[u] = "push" => h_data'[h_new[u]] = h_data[h_new[u]]
             /\ h_pc[u] \in {"reset", "return"} /\ h_old[u] # Null =>
                  h_data'[h_old[u]] = h_data[h_old[u]]
  <2>1. h_pc[u] = "push" => h_new[u] \in Nodes
    BY DEF SharedInv, SharedOwn
  <2>2. QED
    BY <1>2, <1>3, <1>4, <1>6, <2>1
<1> DEFINE c == [op |-> "push", value |-> v]
<1>7. Shared!Call[t] = Shared!Abstract!Idle /\ Shared!Call'[t] = c
      /\ c \in Shared!Abstract!Pushing
  BY <1>2, <1>4, SharedCallOf, SharedCallOfNext DEF Shared!Abstract!Pushing
<1> HIDE DEF c
<1>8. Shared!Call' = [Shared!Call EXCEPT ![t] = c]
  BY <1>6, <1>7, SharedCallChanges
<1>9. Shared!Stack' = Shared!Stack
  <2> DEFINE s == SharedOrder
             d == h_data
             d2 == h_data'
  <2>1. /\ s \in Seq(Nodes) /\ \A m \in Members(s) : d2[m] = d[m]
        /\ SharedOrder' = s
    BY <1>5, SharedListFacts, SharedPushKeeps
  <2> HIDE DEF s, d, d2
  <2>2. Contents(s, d2) = Contents(s, d)
    BY <2>1, ContentsFrame
  <2>3. QED
    BY <2>1, <2>2, SharedIs DEF s, d, d2
<1>10. QED
  BY <1>7, <1>8, <1>9 DEF Shared!Abstract!Begin, Shared!Abstract!Next

\* The contents of the stack are values, or no value.
LEMMA SharedContents ==
    ASSUME Shared!SharedPtrAssumption, SharedInv
    PROVE  /\ SharedOrder \in Seq(Nodes)
           /\ \A m \in Members(SharedOrder) : h_data[m] \in Values \cup {NoValue}
           /\ Shared!Stack = <<>> <=> SharedOrder = <<>>
<1> DEFINE s == SharedOrder
           d == h_data
           V == Values \cup {NoValue}
<1>1. s \in Seq(Nodes) /\ \A m \in Members(s) : d[m] \in V
  BY SharedListFacts DEF SharedInv, Shared!TypeOK
<1> HIDE DEF s, d, V
<1>2. /\ Contents(s, d) \in Seq(V) /\ Len(Contents(s, d)) = Len(s)
      /\ \A k \in 1 .. Len(s) : Contents(s, d)[k] = d[s[k]]
      /\ Contents(s, d) = <<>> <=> s = <<>>
  BY <1>1, ContentsFacts
<1>3. QED
  BY <1>1, <1>2, SharedIs DEF s, d, V

LEMMA SharedPushSucceedsSteps ==
    ASSUME Shared!SharedPtrAssumption, SharedInv, NEW t \in Clients,
           Shared!pushSucceeds(t)
    PROVE  Shared!Abstract!Next
<1>1. PICK n \in Nodes : n = h_new[t] /\ h_data[n] \in Values
  BY DEF SharedInv, Shared!pushSucceeds, SharedOwn
<1>2. /\ h_pc[t] = "push" /\ h_pc' = [h_pc EXCEPT ![t] = "idle"]
      /\ h_new' = [h_new EXCEPT ![t] = Null] /\ UNCHANGED <<h_data, h_old>>
  BY DEF Shared!pushSucceeds, Shared!Goto, Shared!memory
<1>3. /\ h_pc'[t] = "idle"
      /\ \A u \in Clients : u # t => h_new'[u] = h_new[u] /\ h_pc'[u] = h_pc[u]
  BY <1>2 DEF SharedInv, Shared!TypeOK
<1>4. /\ Shared!Call[t] = [op |-> "push", value |-> h_data[n]]
      /\ Shared!Call'[t] = Shared!Abstract!Idle
  BY <1>1, <1>2, <1>3, SharedCallOf, SharedCallOfNext
<1>5. Shared!Call[t] \in Shared!Abstract!Pushing /\ Shared!Call[t].value = h_data[n]
  BY <1>1, <1>4 DEF Shared!Abstract!Pushing
<1>6. Shared!Call' = [Shared!Call EXCEPT ![t] = Shared!Abstract!Idle]
  BY <1>2, <1>3, <1>4, SharedCallChanges
<1>7. Shared!Stack' = <<Shared!Call[t].value>> \o Shared!Stack
  <2> DEFINE s == SharedOrder
             d == h_data
             V == Values \cup {NoValue}
  <2>1. SharedOrder' = <<n>> \o s
    BY <1>1, SharedPushSucceedsKeeps
  <2>2. s \in Seq(Nodes) /\ d[n] \in V /\ \A m \in Members(s) : d[m] \in V
    BY <1>1, SharedContents
  <2>3. Shared!Stack' = Contents(<<n>> \o s, d) /\ Shared!Stack = Contents(s, d)
        /\ Shared!Call[t].value = d[n]
    BY <1>2, <1>5, <2>1, SharedIs
  <2> HIDE DEF s, d, V
  <2>4. Contents(<<n>> \o s, d) = <<d[n]>> \o Contents(s, d)
    BY <2>2, ContentsPush
  <2>5. QED
    BY <2>3, <2>4
<1>8. Shared!Abstract!Push(t)
  BY <1>5, <1>6, <1>7 DEF Shared!Abstract!Push
<1>9. QED
  BY <1>8 DEF Shared!Abstract!Next

\* The compare-exchange that takes the top node is the moment of the Pop.
LEMMA SharedRemoveSteps ==
    ASSUME Shared!SharedPtrAssumption, SharedInv, NEW t \in Clients, Shared!remove(t)
    PROVE  Shared!Abstract!Next
<1>1. /\ h_pc[t] = "remove" /\ h_pc' = [h_pc EXCEPT ![t] = "reset"] /\ h_old[t] \in Nodes
      /\ UNCHANGED <<h_data, h_new, h_old>>
  BY DEF SharedInv, Shared!remove, Shared!Goto, Shared!memory, SharedOwn
<1>2. /\ h_pc'[t] = "reset" /\ h_old[t] # Null
      /\ \A u \in Clients : u # t => h_new'[u] = h_new[u] /\ h_pc'[u] = h_pc[u]
  BY <1>1, LineIs DEF SharedInv, Shared!TypeOK, Shared!SharedPtrAssumption
<1>3. Shared!Call[t] = Shared!Abstract!Popping
      /\ Shared!Call'[t] = Shared!Abstract!Popped(h_data[h_old[t]])
  BY <1>1, <1>2, SharedCallOf, SharedCallOfNext
<1>4. /\ Shared!Stack' = Tail(Shared!Stack) /\ Shared!Stack # <<>>
      /\ Head(Shared!Stack) = h_data[h_old[t]]
  <2> DEFINE s == SharedOrder
             d == h_data
             V == Values \cup {NoValue}
  <2>1. SharedOrder' = Tail(s) /\ s # <<>> /\ d[s[1]] = h_data[h_old[t]]
    BY SharedRemoveKeeps
  <2>2. s \in Seq(Nodes) /\ \A m \in Members(s) : d[m] \in V
    BY SharedContents
  <2>3. Shared!Stack' = Contents(Tail(s), d) /\ Shared!Stack = Contents(s, d)
    BY <1>1, <2>1, SharedIs
  <2> HIDE DEF s, d, V
  <2>4. /\ Contents(Tail(s), d) = Tail(Contents(s, d))
        /\ Head(Contents(s, d)) = d[s[1]] /\ Contents(s, d) # <<>>
    BY <2>1, <2>2, ContentsPop
  <2>5. QED
    BY <2>1, <2>3, <2>4
<1>5. Shared!Call' = [Shared!Call EXCEPT ![t] = Shared!Abstract!Popped(Head(Shared!Stack))]
  <2>1. Shared!Call' = [Shared!Call EXCEPT ![t] = Shared!Abstract!Popped(h_data[h_old[t]])]
    BY <1>1, <1>2, <1>3, SharedCallChanges
  <2>2. QED
    BY <1>4, <2>1
<1>6. Shared!Abstract!Pop(t)
  BY <1>3, <1>4, <1>5 DEF Shared!Abstract!Pop
<1>7. QED
  BY <1>6 DEF Shared!Abstract!Next

\* The steps that change neither the stack nor the values.
LEMMA SharedQuietSteps ==
    ASSUME Shared!SharedPtrAssumption, SharedInv, NEW t \in Clients,
           Shared!pushFails(t) \/ Shared!resetNext(t) \/ SharedLocal(t)
    PROVE  Shared!Abstract!Next \/ UNCHANGED <<Shared!Stack, Shared!Call>>
<1>1. SharedOrder' = SharedOrder
  BY SharedPushFailsKeeps, SharedResetKeeps, SharedLocalKeeps
<1>2. /\ UNCHANGED <<h_data, h_new>>
      /\ \A u \in Clients : u # t => h_pc'[u] = h_pc[u] /\ h_old'[u] = h_old[u]
  BY DEF SharedLocal, Shared!Pop, Shared!loadHead, Shared!loadNext, Shared!removeFails,
     Shared!return, Shared!pushFails, Shared!resetNext, Shared!Goto,
         Shared!memory, Shared!locals, SharedInv, Shared!TypeOK
<1>3. Shared!Stack' = Shared!Stack
  BY <1>1, <1>2, SharedIs
<1>4. Shared!Call' = [Shared!Call EXCEPT ![t] = Shared!Call'[t]]
  <2>1. PICK c : c = Shared!Call'[t]
    OBVIOUS
  <2>2. Shared!Call' = [Shared!Call EXCEPT ![t] = c]
    BY <1>2, <2>1, SharedCallChanges
  <2>3. QED
    BY <2>1, <2>2
<1>5. CASE Shared!Pop(t)
  <2>1. h_pc[t] = "idle" /\ h_pc'[t] = "pop"
    BY <1>5 DEF Shared!Pop, Shared!Goto, SharedInv, Shared!TypeOK
  <2>2. Shared!Call[t] = Shared!Abstract!Idle /\ Shared!Call'[t] = Shared!Abstract!Popping
    BY <2>1, SharedCallOf, SharedCallOfNext
  <2>3. QED
    BY <1>3, <1>4, <2>2 DEF Shared!Abstract!Begin, Shared!Abstract!Next
<1>6. CASE Shared!return(t)
  <2>1. h_pc[t] = "return" /\ h_pc'[t] = "idle"
    BY <1>6 DEF Shared!return, Shared!Goto, SharedInv, Shared!TypeOK
  <2>2. Shared!Call[t].op = "popped" /\ Shared!Call'[t] = Shared!Abstract!Idle
    <3>1. \E w : Shared!Call[t] = Shared!Abstract!Popped(w)
      BY <2>1, SharedCallOf
    <3>2. Shared!Call[t].op = "popped"
      BY <3>1 DEF Shared!Abstract!Popped
    <3>3. QED
      BY <2>1, <3>2, SharedCallOfNext
  <2>3. QED
    BY <1>3, <1>4, <2>2 DEF Shared!Abstract!Return, Shared!Abstract!Next
<1>7. CASE (Shared!loadHead(t) \/ Shared!removeFails(t)) /\ h_head = Null
  <2>1. /\ h_pc[t] \in {"pop", "remove"} /\ h_pc'[t] = "return" /\ h_old'[t] = Null
    BY <1>7 DEF Shared!loadHead, Shared!removeFails, Shared!Goto, SharedInv, Shared!TypeOK
  <2>2. Shared!Call[t] = Shared!Abstract!Popping
        /\ Shared!Call'[t] = Shared!Abstract!Popped(NoValue)
    BY <2>1, SharedCallOf, SharedCallOfNext
  <2>3. Shared!Stack = <<>>
    BY <1>7, SharedListFacts, SharedContents
  <2>4. QED
    BY <1>3, <1>4, <2>2, <2>3 DEF Shared!Abstract!Pop, Shared!Abstract!Next
<1>8. CASE \/ Shared!loadNext(t) \/ Shared!pushFails(t) \/ Shared!resetNext(t)
           \/ ((Shared!loadHead(t) \/ Shared!removeFails(t)) /\ h_head # Null)
  <2>1. Shared!Call'[t] = Shared!Call[t]
    <3>1. CASE Shared!loadNext(t) \/ ((Shared!loadHead(t) \/ Shared!removeFails(t))
          /\ h_head # Null)
      <4>1. h_pc[t] \in {"pop", "load", "remove"} /\ h_pc'[t] \in {"load", "remove"}
        BY <3>1
           DEF Shared!loadHead, Shared!loadNext, Shared!removeFails, Shared!Goto,
               SharedInv, Shared!TypeOK
      <4>2. QED
        BY <4>1, SharedCallOf, SharedCallOfNext
    <3>2. CASE Shared!pushFails(t)
      <4>1. h_pc[t] = "push" /\ h_pc'[t] = "push" /\ h_new'[t] = h_new[t]
        BY <3>2 DEF Shared!pushFails, Shared!locals
      <4>2. QED
        BY <1>2, <4>1, SharedCallOf, SharedCallOfNext, Zenon
    <3>3. CASE Shared!resetNext(t)
      <4>1. h_pc[t] = "reset" /\ h_pc'[t] = "return" /\ h_old'[t] = h_old[t]
        BY <3>3 DEF Shared!resetNext, Shared!locals, Shared!Goto, SharedInv, Shared!TypeOK
      <4>2. PICK v : v = IF h_old[t] = Null THEN NoValue ELSE h_data[h_old[t]]
        OBVIOUS
      <4>3. v = IF h_old'[t] = Null THEN NoValue ELSE h_data'[h_old'[t]]
        BY <1>2, <4>1, <4>2
      <4>4. Shared!Call[t] = Shared!Abstract!Popped(v)
            /\ Shared!Call'[t] = Shared!Abstract!Popped(v)
        BY <4>1, <4>2, <4>3, SharedCallOf, SharedCallOfNext
      <4>5. QED
        BY <4>4
    <3>4. QED
      BY <1>8, <3>1, <3>2, <3>3
  <2>2. QED
    BY <1>3, <1>4, <2>1, SharedCallStays
<1>9. QED
  BY <1>5, <1>6, <1>7, <1>8 DEF SharedLocal

LEMMA SharedRefines ==
    ASSUME Shared!SharedPtrAssumption, SharedInv, [Shared!Next]_(Shared!vars)
    PROVE  [Shared!Abstract!Next]_(Shared!Abstract!vars)
<1>1. ASSUME NEW t \in Clients, Shared!Step(t)
      PROVE  Shared!Abstract!Next \/ UNCHANGED <<Shared!Stack, Shared!Call>>
  <2>1. ASSUME NEW v \in Values, Shared!Push(t, v) PROVE Shared!Abstract!Next
    BY <2>1, SharedPushSteps
  <2>2. CASE Shared!pushSucceeds(t) \/ Shared!remove(t)
    BY <2>2, SharedPushSucceedsSteps, SharedRemoveSteps
  <2>3. CASE Shared!pushFails(t) \/ Shared!resetNext(t) \/ SharedLocal(t)
    BY <2>3, SharedQuietSteps
  <2>4. QED
    BY <1>1, <2>1, <2>2, <2>3 DEF Shared!Step, SharedLocal
<1>2. CASE UNCHANGED Shared!vars
  <2>1. UNCHANGED <<h_head, h_data, h_next, h_pc, h_new, h_old>>
    BY <1>2 DEF Shared!vars, Shared!memory, Shared!locals
  <2>2. SharedOrder' = SharedOrder
    BY <2>1 DEF SharedOrder
  <2>3. QED
    BY <2>1, <2>2, SharedIs DEF Shared!Call, Shared!Abstract!vars
<1>3. QED
  BY <1>1, <1>2 DEF Shared!Next, Shared!Abstract!vars

\* Push and Pop are those of a stack: a Pop takes effect when it finds head_ null, or
\* when its compare-exchange takes the node (lockfree_stack_shared_ptr.hpp:28).
THEOREM SharedPtrIsAStack ==
    ASSUME Shared!SharedPtrAssumption
    PROVE  Shared!Spec => IsAStack
<1>1. Shared!Init => SharedInv /\ SharedOrder = <<>>
  BY SharedInit
<1>2. Shared!Init => Shared!Abstract!Init
  <2> SUFFICES ASSUME Shared!Init PROVE Shared!Abstract!Init
    OBVIOUS
  <2>1. Shared!Stack = <<>>
    BY <1>1, SharedContents
  <2>2. Shared!Call = [t \in Clients |-> Shared!Abstract!Idle]
    BY DEF Shared!Init, Shared!Call, Shared!Abstract!Idle
  <2>3. QED
    BY <2>1, <2>2 DEF Shared!Abstract!Init
<1>3. SharedInv /\ [Shared!Next]_(Shared!vars) => SharedInv'
  BY SharedStep
<1>4. SharedInv
      /\ [Shared!Next]_(Shared!vars) => [Shared!Abstract!Next]_(Shared!Abstract!vars)
  BY SharedRefines
<1>5. QED
  BY <1>1, <1>2, <1>3, <1>4, PTL
     DEF Shared!Spec, IsAStack, Shared!IsAStack, Shared!Abstract!Spec

\* The variables of the stack have their types.
THEOREM SharedPtrTypeCorrect ==
    ASSUME Shared!SharedPtrAssumption
    PROVE  Shared!Spec => []Shared!TypeOK
<1>1. Shared!Init => SharedInv
  BY SharedInit
<1>2. SharedInv /\ [Shared!Next]_(Shared!vars) => SharedInv'
  BY SharedStep
<1>3. SharedInv => Shared!TypeOK
  BY DEF SharedInv
<1>4. QED
  BY <1>1, <1>2, <1>3, PTL DEF Shared!Spec

-------------------------------------------------------------------------------
\* The parallel algorithms.

\* The sum of a part is what its steps lead to.
Sums(s, a, b, sum) ==
    sum = [k \in a - 1 .. b |-> IF k < a THEN 0 ELSE sum[k - 1] + s[k]]

Summand(s, a, b) == a \in Int /\ b \in Int /\ a <= b + 1 /\ \A k \in a .. b : s[k] \in Int

LEMMA SumIs ==
    ASSUME NEW s, NEW a, NEW b, Summand(s, a, b)
    PROVE  \E sum \in [a - 1 .. b -> Int] :
             /\ Parallel!SumOf(s, a, b) = sum[b] /\ sum[a - 1] = 0
             /\ \A k \in a .. b : sum[k] = sum[k - 1] + s[k]
<1> DEFINE N == b - a + 1
           step == [n \in 1 .. N |-> [v \in Int |-> v + s[a - 1 + n]]]
           w == CHOOSE sum : Sums(s, a, b, sum)
<1>1. /\ a \in Int /\ b \in Int /\ N \in Nat /\ \A n \in 1 .. N : a - 1 + n \in a .. b
      /\ \A k \in a .. b : s[k] \in Int
  BY DEF Summand
<1>2. step \in [1 .. N -> [Int -> Int]]
  <2>1. ASSUME NEW n \in 1 .. N PROVE s[a - 1 + n] \in Int
    BY <1>1, <2>1
  <2>2. QED
    BY <2>1
<1>3. PICK f \in [0 .. N -> Int] :
        f[0] = 0 /\ \A n \in 1 .. N : f[n] = step[n][f[n - 1]]
  <2>1. Steps(Int, 0, N, step)
    BY <1>1, <1>2 DEF Steps
  <2> HIDE DEF step, N
  <2>2. QED
    BY <2>1, Iterates
<1>4. ASSUME NEW n \in 1 .. N PROVE f[n] = f[n - 1] + s[a - 1 + n]
  <2>1. n - 1 \in 0 .. N
    BY <1>1
  <2>2. f[n - 1] \in Int
    BY <2>1
  <2>3. QED
    BY <1>3, <2>2
<1> DEFINE g == [k \in a - 1 .. b |-> f[k - (a - 1)]]
<1>5. \A k \in a - 1 .. b : k - (a - 1) \in 0 .. N
  BY <1>1
<1>6. g \in [a - 1 .. b -> Int]
  BY <1>5
<1>7. g[a - 1] = 0
  BY <1>1, <1>3
<1>8. ASSUME NEW k \in a .. b PROVE g[k] = g[k - 1] + s[k]
  <2>1. k \in a - 1 .. b /\ k - 1 \in a - 1 .. b /\ k - (a - 1) \in 1 .. N
    BY <1>1
  <2>2. /\ (k - (a - 1)) - 1 = (k - 1) - (a - 1)
        /\ a - 1 + (k - (a - 1)) = k
    BY <1>1, <2>1
  <2>3. PICK n \in 1 .. N : n = k - (a - 1)
    BY <2>1
  <2>4. g[k] = f[n] /\ g[k - 1] = f[n - 1]
    BY <2>1, <2>2, <2>3
  <2>5. QED
    BY <1>4, <2>2, <2>3, <2>4
<1> HIDE DEF g
<1>9. Sums(s, a, b, g)
  <2>1. ASSUME NEW k \in a - 1 .. b
        PROVE  g[k] = IF k < a THEN 0 ELSE g[k - 1] + s[k]
    <3>1. CASE k < a
      <4>1. k = a - 1
        BY <1>1, <3>1
      <4>2. QED
        BY <1>7, <3>1, <4>1
    <3>2. CASE ~(k < a)
      <4>1. k \in a .. b
        BY <1>1, <3>2
      <4>2. QED
        BY <1>8, <3>2, <4>1
    <3>3. QED
      BY <3>1, <3>2
  <2>2. QED
    BY <1>6, <2>1 DEF Sums
<1>10. Sums(s, a, b, w)
  BY <1>9
<1>11. Parallel!SumOf(s, a, b) = w[b]
  BY DEF Parallel!SumOf, Sums
<1> HIDE DEF w
<1>12. ASSUME NEW k \in a - 1 .. b
       PROVE  w[k] = IF k < a THEN 0 ELSE w[k - 1] + s[k]
  BY <1>10 DEF Sums
<1>13. w[a - 1] = 0
  <2>1. a - 1 \in a - 1 .. b /\ a - 1 < a
    BY <1>1
  <2>2. QED
    BY <1>12, <2>1
<1>14. ASSUME NEW k \in a .. b PROVE w[k] = w[k - 1] + s[k]
  <2>1. k \in a - 1 .. b /\ ~(k < a)
    BY <1>1
  <2>2. QED
    BY <1>12, <2>1
<1> DEFINE u == [n \in 0 .. N |-> w[n + (a - 1)]]
<1>15. \A n \in 0 .. N : f[n] = u[n]
  <2>1. f[0] = u[0]
    <3>1. 0 \in 0 .. N /\ 0 + (a - 1) = a - 1
      BY <1>1
    <3>2. QED
      BY <1>3, <1>13, <3>1
  <2>2. ASSUME NEW n \in 1 .. N, f[n - 1] = u[n - 1] PROVE f[n] = u[n]
    <3>1. n \in 0 .. N /\ n - 1 \in 0 .. N /\ a - 1 + n \in a .. b
          /\ n - 1 + (a - 1) = (a - 1 + n) - 1 /\ n + (a - 1) = a - 1 + n
      BY <1>1
    <3>2. w[a - 1 + n] = w[(a - 1 + n) - 1] + s[a - 1 + n]
      BY <1>14, <3>1
    <3>3. u[n] = w[a - 1 + n] /\ u[n - 1] = w[(a - 1 + n) - 1]
      BY <3>1
    <3>4. QED
      BY <1>4, <2>2, <3>2, <3>3
  <2> HIDE DEF u
  <2>3. Alike(N, f, u)
    BY <1>1, <2>1, <2>2 DEF Alike
  <2>4. QED
    BY <2>3, SameSteps
<1>16. w[b] = g[b]
  <2>1. b \in a - 1 .. b /\ b - (a - 1) \in 0 .. N /\ b - (a - 1) + (a - 1) = b
    BY <1>1
  <2>2. PICK n \in 0 .. N : n = b - (a - 1)
    BY <2>1
  <2>3. u[n] = w[b]
    BY <2>1, <2>2
  <2>4. g[b] = f[n]
    BY <2>1, <2>2 DEF g
  <2> HIDE DEF u
  <2>5. QED
    BY <1>15, <2>2, <2>3, <2>4
<1>17. QED
  BY <1>6, <1>7, <1>8, <1>11, <1>16

\* Two functions that take the same steps on a part agree at its end.
AlikeOn(a, b, f, g) ==
    /\ a \in Int /\ b \in Int /\ a <= b + 1 /\ f[a - 1] = g[a - 1]
    /\ \A k \in a .. b : f[k - 1] = g[k - 1] => f[k] = g[k]

LEMMA SameSums ==
    ASSUME NEW a, NEW b, NEW f, NEW g, AlikeOn(a, b, f, g)
    PROVE  f[b] = g[b]
<1> USE DEF AlikeOn
<1> DEFINE N == b - a + 1
           u == [n \in 0 .. N |-> f[n + (a - 1)]]
           v == [n \in 0 .. N |-> g[n + (a - 1)]]
<1>1. N \in Nat /\ \A n \in 1 .. N : n - 1 \in 0 .. N /\ n \in 0 .. N
  OBVIOUS
<1>2. u[0] = v[0]
  <2>1. 0 \in 0 .. N /\ 0 + (a - 1) = a - 1
    OBVIOUS
  <2>2. QED
    BY <2>1
<1>3. ASSUME NEW n \in 1 .. N, u[n - 1] = v[n - 1] PROVE u[n] = v[n]
  <2>1. n + (a - 1) \in a .. b /\ n - 1 + (a - 1) = (n + (a - 1)) - 1
    OBVIOUS
  <2>2. /\ u[n] = f[n + (a - 1)] /\ v[n] = g[n + (a - 1)]
        /\ u[n - 1] = f[(n + (a - 1)) - 1] /\ v[n - 1] = g[(n + (a - 1)) - 1]
    BY <1>1, <2>1
  <2>3. QED
    BY <1>3, <2>1, <2>2
<1>4. N \in 0 .. N /\ N + (a - 1) = b
  OBVIOUS
<1>5. u[N] = f[b] /\ v[N] = g[b]
  BY <1>4
<1> HIDE DEF u, v, N
<1>6. Alike(N, u, v)
  BY <1>1, <1>2, <1>3 DEF Alike
<1>7. QED
  BY <1>1, <1>4, <1>5, <1>6, SameSteps

\* Sums of the same numbers are equal.
LEMMA SumSame ==
    ASSUME NEW s, NEW r, NEW a, NEW b, Summand(s, a, b), Summand(r, a, b),
           \A k \in a .. b : s[k] = r[k]
    PROVE  Parallel!SumOf(s, a, b) = Parallel!SumOf(r, a, b)
<1>1. a \in Int /\ b \in Int /\ a <= b + 1
  BY DEF Summand
<1>2. PICK f \in [a - 1 .. b -> Int] :
        /\ Parallel!SumOf(s, a, b) = f[b] /\ f[a - 1] = 0
        /\ \A k \in a .. b : f[k] = f[k - 1] + s[k]
  BY SumIs
<1>3. PICK g \in [a - 1 .. b -> Int] :
        /\ Parallel!SumOf(r, a, b) = g[b] /\ g[a - 1] = 0
        /\ \A k \in a .. b : g[k] = g[k - 1] + r[k]
  BY SumIs
<1>4. f[a - 1] = g[a - 1] /\ \A k \in a .. b : f[k - 1] = g[k - 1] => f[k] = g[k]
  BY <1>2, <1>3
<1>5. AlikeOn(a, b, f, g)
  BY <1>1, <1>4 DEF AlikeOn
<1>6. f[b] = g[b]
  BY <1>5, SameSums
<1>7. QED
  BY <1>2, <1>3, <1>6

\* A sum is that of all but the last number, and the last number.
LEMMA SumFacts ==
    ASSUME NEW s, NEW a, NEW b, Summand(s, a, b)
    PROVE  /\ Parallel!SumOf(s, a, b) \in Int
           /\ a = b + 1 => Parallel!SumOf(s, a, b) = 0
           /\ a <= b => /\ Summand(s, a, b - 1)
                        /\ Parallel!SumOf(s, a, b) = Parallel!SumOf(s, a, b - 1) + s[b]
<1>1. a \in Int /\ b \in Int /\ a <= b + 1 /\ b \in a - 1 .. b
  BY DEF Summand
<1>2. PICK f \in [a - 1 .. b -> Int] :
        /\ Parallel!SumOf(s, a, b) = f[b] /\ f[a - 1] = 0
        /\ \A k \in a .. b : f[k] = f[k - 1] + s[k]
  BY SumIs
<1>3. Parallel!SumOf(s, a, b) \in Int
  BY <1>1, <1>2
<1>4. ASSUME a = b + 1 PROVE Parallel!SumOf(s, a, b) = 0
  <2>1. b = a - 1
    BY <1>1, <1>4
  <2>2. QED
    BY <1>2, <2>1
<1>5. ASSUME a <= b
      PROVE  /\ Summand(s, a, b - 1)
             /\ Parallel!SumOf(s, a, b) = Parallel!SumOf(s, a, b - 1) + s[b]
  <2>1. Summand(s, a, b - 1) /\ b \in a .. b /\ b - 1 \in Int /\ a <= (b - 1) + 1
    BY <1>1, <1>5 DEF Summand
  <2>2. PICK g \in [a - 1 .. b - 1 -> Int] :
          /\ Parallel!SumOf(s, a, b - 1) = g[b - 1] /\ g[a - 1] = 0
          /\ \A k \in a .. b - 1 : g[k] = g[k - 1] + s[k]
    BY <2>1, SumIs
  <2>3. f[a - 1] = g[a - 1]
    BY <1>2, <2>2
  <2>4. \A k \in a .. b - 1 : k \in a .. b
    BY <1>1
  <2>5. \A k \in a .. b - 1 : f[k - 1] = g[k - 1] => f[k] = g[k]
    BY <1>2, <2>2, <2>4
  <2>6. f[b - 1] = g[b - 1]
    <3>1. AlikeOn(a, b - 1, f, g)
      BY <1>1, <2>1, <2>3, <2>5 DEF AlikeOn
    <3>2. QED
      BY <3>1, SameSums
  <2>7. f[b] = f[b - 1] + s[b]
    BY <1>2, <2>1
  <2>8. QED
    BY <1>2, <2>1, <2>2, <2>6, <2>7
<1>6. QED
  BY <1>3, <1>4, <1>5

\* The sum of a part is that of its beginning and that of the rest.
LEMMA SumJoins ==
    ASSUME NEW s, NEW a, NEW b, NEW c, Summand(s, a, c), b \in Int, a <= b + 1, b <= c
    PROVE  /\ Summand(s, a, b) /\ Summand(s, b + 1, c)
           /\ Parallel!SumOf(s, a, c) = Parallel!SumOf(s, a, b) + Parallel!SumOf(s, b + 1, c)
<1>1. a \in Int /\ c \in Int /\ a <= c + 1 /\ b \in Int
  BY DEF Summand
<1>2. ASSUME NEW k \in b .. c PROVE Summand(s, a, k) /\ Summand(s, b + 1, k)
  BY <1>1 DEF Summand
<1> DEFINE f == [k \in b .. c |-> Parallel!SumOf(s, a, k)]
           g == [k \in b .. c |-> Parallel!SumOf(s, a, b) + Parallel!SumOf(s, b + 1, k)]
<1>3. b \in b .. c /\ c \in b .. c /\ (b + 1) - 1 = b /\ b + 1 \in Int /\ b + 1 <= c + 1
  BY <1>1
<1>4. f[b] = g[b]
  <2>1. Parallel!SumOf(s, b + 1, b) = 0 /\ Parallel!SumOf(s, a, b) \in Int
    BY <1>2, <1>3, SumFacts
  <2>2. QED
    BY <1>3, <2>1
<1>5. ASSUME NEW k \in b + 1 .. c, f[k - 1] = g[k - 1] PROVE f[k] = g[k]
  <2>1. k \in b .. c /\ k - 1 \in b .. c /\ a <= k /\ b + 1 <= k
    BY <1>1
  <2>2. /\ Parallel!SumOf(s, a, k) = Parallel!SumOf(s, a, k - 1) + s[k]
        /\ Parallel!SumOf(s, b + 1, k) = Parallel!SumOf(s, b + 1, k - 1) + s[k]
    BY <1>2, <2>1, SumFacts
  <2>3. /\ Parallel!SumOf(s, a, b) \in Int /\ Parallel!SumOf(s, b + 1, k - 1) \in Int
        /\ s[k] \in Int
    BY <1>1, <1>2, <1>3, <2>1, SumFacts DEF Summand
  <2>4. /\ f[k] = Parallel!SumOf(s, a, k) /\ f[k - 1] = Parallel!SumOf(s, a, k - 1)
        /\ g[k] = Parallel!SumOf(s, a, b) + Parallel!SumOf(s, b + 1, k)
        /\ g[k - 1] = Parallel!SumOf(s, a, b) + Parallel!SumOf(s, b + 1, k - 1)
    BY <2>1
  <2>5. PICK x, y, z \in Int :
             /\ x = Parallel!SumOf(s, a, b) /\ y = Parallel!SumOf(s, b + 1, k - 1)
             /\ z = s[k]
    BY <2>3
  <2>6. f[k] = (x + y) + z /\ g[k] = x + (y + z)
    BY <1>5, <2>2, <2>4, <2>5
  <2> HIDE DEF f, g
  <2>7. QED
    BY <2>5, <2>6
<1>6. f[c] = Parallel!SumOf(s, a, c)
      /\ g[c] = Parallel!SumOf(s, a, b) + Parallel!SumOf(s, b + 1, c)
  BY <1>3
<1> HIDE DEF f, g
<1>7. f[c] = g[c]
  <2>1. f[(b + 1) - 1] = g[(b + 1) - 1]
    BY <1>3, <1>4
  <2>2. AlikeOn(b + 1, c, f, g)
    BY <1>1, <1>3, <1>5, <2>1 DEF AlikeOn
  <2>3. QED
    BY <2>2, SameSums
<1>8. QED
  BY <1>2, <1>3, <1>6, <1>7

-------------------------------------------------------------------------------
\* How the list is divided.

CallOK == p_list \in Inputs /\ p_hardware \in Hardware

LEMMA NumberOfBlocks ==
    ASSUME Parallel!ParallelAssumption, CallOK, Parallel!length > 0
    PROVE  Parallel!num_threads \in 1 .. Parallel!length
<1> DEFINE L == Parallel!length
           m == min_per_thread
           h == p_hardware
           most == (L + m - 1) \div m
<1>1. L \in Nat /\ L >= 1 /\ m \in Nat /\ m >= 1 /\ h \in Nat
  BY LenProperties DEF Parallel!ParallelAssumption, CallOK, Parallel!length
<1>2. most \in 1 .. L
  <2> HIDE DEF L, m
  <2>1. most \in Int /\ m * most <= L + m - 1 /\ L + m - 1 < m * (most + 1)
    BY <1>1
  <2>2. most >= 1
    <3>1. SUFFICES ASSUME most <= 0 PROVE FALSE
      BY <2>1
    <3>2. m * (most + 1) <= m
      BY <1>1, <2>1, <3>1
    <3>3. QED
      BY <1>1, <2>1, <3>2
  <2>3. most <= L
    <3>1. SUFFICES ASSUME most >= L + 1 PROVE FALSE
      BY <1>1, <2>1
    <3>2. m * (L + 1) <= m * most
      BY <1>1, <2>1, <3>1
    <3>3. m * (L + 1) = m * L + m /\ m * L >= L
      BY <1>1
    <3>4. QED
      BY <1>1, <2>1, <3>2, <3>3
  <2>4. QED
    BY <2>1, <2>2, <2>3
<1> HIDE DEF L, m, most
<1>3. \A x, y \in Nat : Parallel!Min({x, y}) \in {x, y} /\ Parallel!Min({x, y}) <= x
                        /\ Parallel!Min({x, y}) <= y
  <2>1. ASSUME NEW x \in Nat, NEW y \in Nat
        PROVE  \E z \in {x, y} : \A v \in {x, y} : z <= v
    <3>1. CASE x <= y
      BY <3>1
    <3>2. CASE y <= x
      BY <3>2
    <3>3. QED
      BY <3>1, <3>2
  <2>2. QED
    BY <2>1 DEF Parallel!Min
<1>4. \A x, y \in Nat : Parallel!Max({x, y}) \in {x, y} /\ x <= Parallel!Max({x, y})
                        /\ y <= Parallel!Max({x, y})
  <2>1. ASSUME NEW x \in Nat, NEW y \in Nat
        PROVE  \E z \in {x, y} : \A v \in {x, y} : z >= v
    <3>1. CASE x >= y
      BY <3>1
    <3>2. CASE y >= x
      BY <3>2
    <3>3. QED
      BY <3>1, <3>2
  <2>2. QED
    BY <2>1 DEF Parallel!Max
<1>5. CASE p_algorithm = "ParallelAccumulate"
  <2>1. PICK e \in Nat : e = IF h = 0 THEN 2 ELSE h
    BY <1>1
  <2>2. Parallel!num_threads = Parallel!Min({e, most})
    BY <1>5, <2>1 DEF Parallel!num_threads, most, L, m
  <2>3. e >= 1 /\ most \in Nat
    BY <1>1, <1>2, <2>1
  <2>4. QED
    BY <1>1, <1>2, <1>3, <2>1, <2>2, <2>3 DEF L
<1>6. CASE p_algorithm # "ParallelAccumulate"
  <2>1. PICK e : e = Parallel!Max({2, h})
    OBVIOUS
  <2>2. e \in Nat /\ e >= 2
    BY <1>1, <1>4, <2>1
  <2>3. Parallel!num_threads = Parallel!Min({most, e})
    BY <1>6, <2>1 DEF Parallel!num_threads, most, L, m
  <2>4. most \in Nat
    BY <1>1, <1>2
  <2>5. QED
    BY <1>1, <1>2, <1>3, <2>2, <2>3, <2>4 DEF L
<1>7. QED
  BY <1>5, <1>6

\* The blocks follow one another from the first place to the last.
LEMMA Division ==
    ASSUME Parallel!ParallelAssumption, CallOK, Parallel!length > 0,
           ~Parallel!recursive
    PROVE  /\ Parallel!num_threads \in Nat /\ Parallel!num_threads >= 1
           /\ Parallel!Blocks = 1 .. Parallel!num_threads
           /\ Parallel!First(1) = 1
           /\ Parallel!Last(Parallel!num_threads) = Parallel!length
           /\ \A i \in 1 .. Parallel!num_threads :
                /\ Parallel!First(i) \in Nat /\ Parallel!Last(i) \in Nat
                /\ 1 <= Parallel!First(i) /\ Parallel!First(i) <= Parallel!Last(i)
                /\ Parallel!Last(i) <= Parallel!length
           /\ \A i \in 2 .. Parallel!num_threads :
                Parallel!First(i) = Parallel!Last(i - 1) + 1
           /\ \A i, j \in 1 .. Parallel!num_threads :
                i < j => Parallel!Last(i) < Parallel!First(j)
<1> DEFINE L == Parallel!length
           n == Parallel!num_threads
           b == Parallel!block_size
<1>1. L \in Nat /\ L >= 1 /\ n \in 1 .. L
  BY NumberOfBlocks, LenProperties
     DEF Parallel!ParallelAssumption, CallOK, Parallel!length
<1>2. b = L \div n
  BY DEF Parallel!block_size
<1>3. /\ \A i : Parallel!First(i) = (i - 1) * b + 1
      /\ \A i : Parallel!Last(i) = IF i = n THEN L ELSE i * b
      /\ Parallel!Blocks = 1 .. n
  <2>1. L # 0
    BY <1>1
  <2>2. QED
    BY <2>1 DEF Parallel!First, Parallel!Last, Parallel!Blocks
<1> HIDE DEF L, n, b
<1>4. b \in Nat /\ b >= 1 /\ n * b <= L
  <2>1. b \in Int /\ n * b <= L /\ L < n * (b + 1)
    BY <1>1, <1>2
  <2>2. b >= 1
    <3>1. SUFFICES ASSUME b <= 0 PROVE FALSE
      BY <2>1
    <3>2. n * (b + 1) <= n
      BY <1>1, <2>1, <3>1
    <3>3. QED
      BY <1>1, <2>1, <3>2
  <2>3. QED
    BY <2>1, <2>2
<1>5. \A i, j \in Nat : i <= j => i * b <= j * b
  <2>1. ASSUME NEW i \in Nat, NEW j \in Nat, i <= j PROVE i * b <= j * b
    <3>1. PICK d \in Nat : j = i + d
      <4>1. j - i \in Nat /\ j = i + (j - i)
        BY <2>1
      <4>2. QED
        BY <4>1
    <3>2. j * b = i * b + d * b /\ d * b >= 0 /\ d * b \in Int /\ i * b \in Int
      BY <1>4, <3>1
    <3>3. QED
      BY <3>2
  <2>2. QED
    BY <2>1
<1>6. ASSUME NEW i \in Nat, i >= 1
      PROVE  (i - 1) * b \in Nat /\ i * b \in Nat /\ i * b = (i - 1) * b + b
  <2>1. PICK d \in Nat : d = i - 1 /\ i = d + 1
    BY <1>6
  <2>2. d * b \in Nat /\ (d + 1) * b = d * b + b
    BY <1>4, <2>1
  <2>3. QED
    BY <1>4, <2>1, <2>2
<1>7. ASSUME NEW i \in 1 .. n
      PROVE  /\ Parallel!First(i) \in Nat /\ Parallel!Last(i) \in Nat
             /\ 1 <= Parallel!First(i) /\ Parallel!First(i) <= Parallel!Last(i)
             /\ Parallel!Last(i) <= L
             /\ i * b <= Parallel!Last(i)
  <2>1. i \in Nat /\ i >= 1 /\ i <= n /\ n \in Nat
    BY <1>1
  <2>2. (i - 1) * b \in Nat /\ i * b \in Nat /\ i * b = (i - 1) * b + b /\ i * b <= n * b
    BY <1>5, <1>6, <2>1
  <2>3. PICK x, y \in Nat : x = (i - 1) * b /\ y = i * b
    BY <2>2
  <2>4. PICK z : z = n * b
    OBVIOUS
  <2>5. y = x + b /\ y <= z /\ z <= L /\ z \in Int /\ (i = n => y = z)
    BY <1>1, <1>4, <2>2, <2>3, <2>4
  <2>6. Parallel!First(i) = x + 1 /\ Parallel!Last(i) = IF i = n THEN L ELSE y
    BY <1>3, <2>3
  <2>7. QED
    BY <1>1, <1>4, <2>3, <2>5, <2>6
<1>8. ASSUME NEW i \in 2 .. n PROVE Parallel!First(i) = Parallel!Last(i - 1) + 1
  <2>1. i - 1 # n /\ i - 1 \in 1 .. n
    BY <1>1
  <2>2. QED
    BY <1>3, <2>1
<1>9. ASSUME NEW i \in 1 .. n, NEW j \in 1 .. n, i < j
      PROVE  Parallel!Last(i) < Parallel!First(j)
  <2>1. i # n /\ i \in Nat /\ j - 1 \in Nat /\ i <= j - 1
    BY <1>1, <1>9
  <2>2. i * b <= (j - 1) * b
    BY <1>5, <2>1
  <2>3. Parallel!Last(i) = i * b /\ Parallel!First(j) = (j - 1) * b + 1
    BY <1>3, <2>1
  <2>4. i * b \in Int /\ (j - 1) * b \in Int
    BY <1>4, <2>1
  <2>5. PICK x, y \in Int : x = i * b /\ y = (j - 1) * b
    BY <2>4
  <2>6. QED
    BY <2>2, <2>3, <2>5
<1>10. Parallel!First(1) = 1 /\ Parallel!Last(n) = L
  <2>1. (1 - 1) * b = 0
    BY <1>4
  <2>2. QED
    BY <1>3, <2>1
<1>11. QED
  BY <1>1, <1>3, <1>7, <1>8, <1>9, <1>10 DEF L, n

\* Every place is in one of them.
LEMMA Covered ==
    ASSUME Parallel!ParallelAssumption, CallOK, ~Parallel!recursive,
           NEW k \in 1 .. Parallel!length
    PROVE  \E i \in Parallel!Blocks : k \in Parallel!Block(i)
<1> DEFINE n == Parallel!num_threads
           Reach == {i \in 1 .. n : k <= Parallel!Last(i)}
<1>1. Parallel!length \in Nat /\ Parallel!length > 0 /\ k \in Nat
  BY LenProperties DEF Parallel!ParallelAssumption, CallOK, Parallel!length
<1>2. n \in Nat /\ n \in 1 .. n /\ k <= Parallel!Last(n)
  BY <1>1, Division
<1>3. PICK i \in Reach : \A j \in Reach : i <= j
  <2>1. Reach \in SUBSET Nat /\ Reach # {}
    BY <1>2
  <2> HIDE DEF Reach
  <2>2. QED
    BY <2>1, LeastNumber
<1>4. i \in 1 .. n /\ k <= Parallel!Last(i) /\ Parallel!First(i) \in Nat
      /\ Parallel!Last(i) \in Nat
  BY <1>1, <1>3, Division
<1>5. Parallel!First(i) <= k
  <2>1. CASE i = 1
    BY <1>1, <2>1, Division
  <2>2. CASE i # 1
    <3>1. i \in 2 .. n /\ i - 1 \in 1 .. n /\ ~(i <= i - 1)
      <4>1. n \in Nat /\ i \in 1 .. n
        BY <1>2, <1>4
      <4> HIDE DEF n
      <4>2. QED
        BY <2>2, <4>1
    <3>2. ~(k <= Parallel!Last(i - 1))
      BY <1>3, <3>1
    <3>3. Parallel!First(i) = Parallel!Last(i - 1) + 1 /\ Parallel!Last(i - 1) \in Nat
      BY <1>1, <3>1, Division
    <3>4. QED
      BY <1>1, <3>2, <3>3
  <2>3. QED
    BY <2>1, <2>2
<1>6. k \in Parallel!Block(i)
  BY <1>1, <1>4, <1>5 DEF Parallel!Block
<1>7. i \in Parallel!Blocks
  BY <1>1, <1>4, Division
<1>8. QED
  BY <1>6, <1>7

\* An empty list has no blocks.
LEMMA NoBlocks ==
    ASSUME Parallel!ParallelAssumption, CallOK, p_algorithm = "ParallelAccumulate",
           Parallel!length = 0
    PROVE  Parallel!num_threads = 0
<1>1. min_per_thread \in Nat /\ min_per_thread >= 1 /\ p_hardware \in Nat
  BY DEF Parallel!ParallelAssumption, CallOK
<1>2. (0 + min_per_thread - 1) \div min_per_thread = 0
  <2>1. PICK m \in Nat : m = min_per_thread /\ m >= 1
    BY <1>1
  <2>2. PICK q \in Int : q = (m - 1) \div m
    BY <2>1
  <2>3. m * q <= m - 1 /\ m - 1 < m * q + m
    BY <2>1, <2>2
  <2>4. q <= 0
    <3>1. SUFFICES ASSUME q >= 1 PROVE FALSE
      BY <2>2
    <3>2. m * q >= m
      BY <2>1, <2>2, <3>1
    <3>3. QED
      BY <2>1, <2>3, <3>2
  <2>5. q >= 0
    <3>1. SUFFICES ASSUME q <= -1 PROVE FALSE
      BY <2>2
    <3>2. m * q <= -m
      BY <2>1, <2>2, <3>1
    <3>3. QED
      BY <2>1, <2>3, <3>2
  <2>6. 0 + min_per_thread - 1 = m - 1
    BY <2>1
  <2>7. QED
    BY <2>1, <2>2, <2>4, <2>5, <2>6
<1>3. PICK e \in Nat : e = IF p_hardware = 0 THEN 2 ELSE p_hardware
  BY <1>1
<1>4. Parallel!num_threads = Parallel!Min({e, 0})
  BY <1>2, <1>3 DEF Parallel!num_threads
<1>5. Parallel!Min({e, 0}) = 0
  <2>1. \A z \in {e, 0} : (\A v \in {e, 0} : z <= v) <=> z = 0
    BY <1>3
  <2>2. QED
    BY <2>1 DEF Parallel!Min
<1>6. QED
  BY <1>4, <1>5

-------------------------------------------------------------------------------
\* No place from a to b stops a search.
Scanned(a, b) == \A k \in a .. b : p_list[k] \notin {Match, Bad}

\* Nobody has begun a block whose turn has not come.
StartOrder ==
    ~Parallel!recursive => \A i \in Parallel!Blocks : i > p_started => p_pc[i] = "new"

\* Find: as long as nothing is found, what a thread has left behind stops nobody; what
\* is found is a match or an exception that the list justifies, and whoever has found
\* it raises the flag.
FindPart(i) ==
    /\ p_pc[i] \in {"new", "work", "flag", "ended"}
    /\ Parallel!First(i) <= p_at[i]
    /\ p_pc[i] = "flag" => p_found # None
    /\ p_found = None =>
         /\ Scanned(Parallel!First(i), p_at[i] - 1)
         /\ p_pc[i] = "ended" => Parallel!Last(i) < p_at[i]

FindInv ==
    /\ p_found \notin {None, Thrown} => p_list[p_found] = Match
    /\ p_found = Thrown => Parallel!Has(Bad)
    /\ p_done => p_found # None
    /\ p_found # None => p_done \/ \E i \in Parallel!Blocks : p_pc[i] = "flag"
    /\ \A i \in Parallel!Blocks : FindPart(i)

\* ForEach: f was called once for what a thread has left behind, and for nothing else.
ForEachPart(i) ==
    /\ p_pc[i] \in {"new", "work", "thrown", "ended"}
    /\ Parallel!First(i) <= p_at[i]
    /\ p_pc[i] = "ended" => Parallel!Last(i) < p_at[i]
    /\ p_pc[i] = "thrown" => Parallel!Has(Bad)
    /\ \A k \in Parallel!Block(i) :
         IF k < p_at[i] THEN p_list[k] # Bad /\ p_data[k] = p_list[k] + 1
         ELSE p_data[k] = p_list[k]

ForEachInv == \A i \in Parallel!Blocks : ForEachPart(i)

\* ParallelAccumulate: each block has its own sum.
AccumulatePart(i) ==
    /\ p_pc[i] \in {"new", "work", "ended"}
    /\ p_pc[i] = "ended" =>
         p_future[i] = Parallel!SumOf(p_list, Parallel!First(i), Parallel!Last(i))

AccumulateInv == \A i \in Parallel!Blocks : AccumulatePart(i)

\* PartialSum: what is in block i when its thread is where it is.
Inner(i, k) == Parallel!SumOf(p_list, Parallel!First(i), k)
Total(k) == Parallel!SumOf(p_list, 1, k)

BlockData(i) ==
    \A k \in Parallel!Block(i) :
      /\ p_pc[i] \in {"new", "work"} => p_data[k] = p_list[k]
      /\ p_pc[i] = "last" => p_data[k] = Inner(i, k)
      /\ p_pc[i] = "others" =>
           p_data[k] = IF k = Parallel!Last(i) THEN Total(k) ELSE Inner(i, k)
      /\ p_pc[i] = "ended" /\ p_future[i] # Thrown => p_data[k] = Total(k)

\* What a thread hands on is the sum up to the end of its block, or an exception; and
\* a thread that goes on after it has got one has got a sum, as have all before it.
HandedOn(i) ==
    /\ p_future[i] \in Int =>
         i < Parallel!num_threads /\ p_future[i] = Total(Parallel!Last(i))
    /\ p_future[i] = Thrown => i < Parallel!num_threads /\ Parallel!Exceeds
    /\ p_future[i] # None => p_pc[i] \in {"others", "ended"}
    /\ i < Parallel!num_threads /\ p_pc[i] \in {"others", "ended"} => p_future[i] # None
    /\ p_future[i] # NotFound
    /\ p_pc[i] = "others" => p_future[i] # Thrown
    /\ p_pc[i] \in {"others", "ended"} /\ p_future[i] # Thrown =>
         \A j \in 1 .. i - 1 : p_future[j] \in Int

PartialSumPart(i) ==
    /\ p_pc[i] \in {"new", "work", "last", "others", "thrown", "ended"}
    /\ p_pc[i] \in {"last", "others"} => 1 < i
    /\ p_pc[i] = "thrown" => i = Parallel!num_threads /\ Parallel!Exceeds

PartialSumInv ==
    \A i \in Parallel!Blocks : PartialSumPart(i) /\ HandedOn(i) /\ BlockData(i)

\* FindRecursive: the calls are a tree of ranges.  A call that has ended without an
\* answer stands for all calls below it; and when the flag is up, some call has found
\* something.
Called(c) == p_pc[c] # "new"
Inside(d, c) == c[1] <= d[1] /\ d[2] <= c[2]
Apart(d, c) == d[2] < c[1] \/ c[2] < d[1]
Divided(c) == ~Parallel!Short(c) /\ p_pc[c] \in {"halves", "ended"}

Nested ==
    \A c, d \in Parallel!Blocks : Called(c) /\ Called(d) =>
      Inside(c, d) \/ Inside(d, c) \/ Apart(c, d)

InHalves ==
    \A c, d \in Parallel!Blocks : Called(c) /\ Called(d) /\ Inside(d, c) /\ d # c =>
      /\ Divided(c)
      /\ Inside(d, Parallel!FirstHalf(c)) \/ Inside(d, Parallel!SecondHalf(c))

HalvesCalled ==
    \A c \in Parallel!Blocks : Divided(c) =>
      /\ Called(Parallel!FirstHalf(c)) /\ Called(Parallel!SecondHalf(c))
      /\ p_pc[c] = "ended" =>
           p_pc[Parallel!FirstHalf(c)] = "ended" /\ p_pc[Parallel!SecondHalf(c)] = "ended"

Outcome(c) ==
    /\ p_pc[c] \in {"new", "work", "halves", "flag", "ended"}
    /\ p_pc[c] \in {"new", "work"} =>
         Parallel!First(c) <= p_at[c] /\ Scanned(Parallel!First(c), p_at[c] - 1)
    /\ p_pc[c] = "halves" => ~Parallel!Short(c)
    /\ p_pc[c] = "flag" => Parallel!Short(c) /\ p_future[c] # NotFound
    /\ p_pc[c] \in {"flag", "ended"} =>
         /\ p_future[c] # None
         /\ p_future[c] = Thrown => Parallel!Has(Bad)
         /\ p_future[c] \in Int =>
              p_future[c] \in 1 .. Parallel!length /\ p_list[p_future[c]] = Match
         /\ p_future[c] = NotFound => p_done \/ Scanned(c[1], c[2])

Silent(c) == p_pc[c] = "ended" /\ p_future[c] = NotFound

RecursiveInv ==
    /\ Nested /\ InHalves /\ HalvesCalled
    /\ \A c \in Parallel!Blocks : Outcome(c)
    /\ \A c, d \in Parallel!Blocks : Silent(c) /\ Called(d) /\ Inside(d, c) => Silent(d)
    /\ p_done => \E c \in Parallel!Blocks : p_pc[c] = "ended" /\ p_future[c] # NotFound
    /\ Parallel!length > 0 => Called(Parallel!Root)

ParallelInv ==
    /\ Parallel!TypeOK /\ StartOrder /\ Parallel!Answers
    /\ p_algorithm = "Find" => FindInv
    /\ p_algorithm = "FindRecursive" => RecursiveInv
    /\ p_algorithm = "ForEach" => ForEachInv
    /\ p_algorithm = "ParallelAccumulate" => AccumulateInv
    /\ p_algorithm = "PartialSum" => PartialSumInv

-------------------------------------------------------------------------------
\* The blocks stay as they are during a call.
LEMMA CallKept ==
    ASSUME UNCHANGED Parallel!call
    PROVE  /\ p_algorithm' = p_algorithm /\ p_list' = p_list /\ p_hardware' = p_hardware
           /\ Parallel!length' = Parallel!length
           /\ Parallel!recursive' = Parallel!recursive
           /\ Parallel!num_threads' = Parallel!num_threads
           /\ Parallel!Blocks' = Parallel!Blocks
           /\ \A i : Parallel!First(i)' = Parallel!First(i)
           /\ \A i : Parallel!Last(i)' = Parallel!Last(i)
           /\ \A i : Parallel!Block(i)' = Parallel!Block(i)
           /\ \A v : Parallel!Has(v)' = Parallel!Has(v)
           /\ Parallel!Exceeds' = Parallel!Exceeds
           /\ \A a, b : Scanned(a, b)' = Scanned(a, b)
           /\ \A k : Total(k)' = Total(k)
           /\ \A i, k : Inner(i, k)' = Inner(i, k)
           /\ Parallel!Root' = Parallel!Root
<1>1. p_algorithm' = p_algorithm /\ p_list' = p_list /\ p_hardware' = p_hardware
  BY DEF Parallel!call
<1>2. Parallel!length' = Parallel!length /\ Parallel!recursive' = Parallel!recursive
  BY <1>1 DEF Parallel!length, Parallel!recursive
<1>3. Parallel!num_threads' = Parallel!num_threads
  BY <1>1, <1>2 DEF Parallel!num_threads
<1>4. Parallel!block_size' = Parallel!block_size /\ Parallel!Root' = Parallel!Root
      /\ Parallel!Ranges' = Parallel!Ranges
  BY <1>2, <1>3 DEF Parallel!block_size, Parallel!Root, Parallel!Ranges
<1>5. Parallel!Blocks' = Parallel!Blocks
  BY <1>2, <1>3, <1>4 DEF Parallel!Blocks
<1>6. /\ \A i : Parallel!First(i)' = Parallel!First(i)
      /\ \A i : Parallel!Last(i)' = Parallel!Last(i)
  BY <1>2, <1>3, <1>4 DEF Parallel!First, Parallel!Last
<1>7. \A i : Parallel!Block(i)' = Parallel!Block(i)
  BY <1>6 DEF Parallel!Block
<1>8. /\ \A v : Parallel!Has(v)' = Parallel!Has(v)
      /\ Parallel!Exceeds' = Parallel!Exceeds
      /\ \A a, b : Scanned(a, b)' = Scanned(a, b)
  BY <1>1, <1>2 DEF Parallel!Has, Parallel!Exceeds, Scanned
<1>9. /\ \A k : Total(k)' = Total(k)
      /\ \A i, k : Inner(i, k)' = Inner(i, k)
  BY <1>1, <1>6 DEF Total, Inner
<1>10. QED
  BY <1>1, <1>2, <1>3, <1>4, <1>5, <1>6, <1>7, <1>8, <1>9

\* What a place of a block is.
LEMMA BlockPlaces ==
    ASSUME Parallel!ParallelAssumption, CallOK, NEW i \in Parallel!Blocks
    PROVE  /\ Parallel!First(i) \in Nat /\ Parallel!Last(i) \in Nat
           /\ 1 <= Parallel!First(i) /\ Parallel!First(i) <= Parallel!Last(i)
           /\ Parallel!Last(i) <= Parallel!length
           /\ Parallel!length \in Nat /\ Parallel!length > 0
           /\ \A k \in Parallel!Block(i) : k \in 1 .. Parallel!length /\ p_list[k] \in Int
<1>1. Parallel!length \in Nat /\ Parallel!length > 0 /\ p_list \in Seq(Int)
  <2>1. Parallel!length # 0
    BY DEF Parallel!Blocks
  <2>2. QED
    BY <2>1, LenProperties DEF Parallel!ParallelAssumption, CallOK, Parallel!length
<1>2. /\ Parallel!First(i) \in Nat /\ Parallel!Last(i) \in Nat
      /\ 1 <= Parallel!First(i) /\ Parallel!First(i) <= Parallel!Last(i)
      /\ Parallel!Last(i) <= Parallel!length
  <2>1. CASE ~Parallel!recursive
    BY <1>1, <2>1, Division
  <2>2. CASE Parallel!recursive
    <3>1. i \in Parallel!Ranges /\ Parallel!First(i) = i[1] /\ Parallel!Last(i) = i[2]
      BY <1>1, <2>2 DEF Parallel!Blocks, Parallel!First, Parallel!Last
    <3>2. QED
      BY <1>1, <3>1 DEF Parallel!Ranges
  <2>3. QED
    BY <2>1, <2>2
<1>3. \A k \in Parallel!Block(i) : k \in 1 .. Parallel!length
  BY <1>1, <1>2 DEF Parallel!Block
<1>4. \A k \in 1 .. Parallel!length : p_list[k] \in Int
  BY <1>1, ElementOfSeq DEF Parallel!length
<1>5. QED
  BY <1>1, <1>2, <1>3, <1>4

\* The marks are not numbers, not lists, and not each other.
LEMMA MarksDiffer ==
    ASSUME Parallel!ParallelAssumption
    PROVE  /\ \A m \in Parallel!Marks : m \notin Int /\ m \notin Seq(Int)
           /\ None # Thrown /\ None # NotFound /\ None # Terminated /\ Thrown # NotFound
           /\ Thrown # Terminated /\ NotFound # Terminated
           /\ {None, Thrown, NotFound, Terminated} = Parallel!Marks
BY DEF Parallel!ParallelAssumption, Parallel!Marks

LEMMA CallTyped == ASSUME Parallel!TypeOK PROVE CallOK
BY DEF Parallel!TypeOK, CallOK

LEMMA ParallelInit ==
    ASSUME Parallel!ParallelAssumption, Parallel!Init
    PROVE  ParallelInv
<1>1. /\ p_algorithm \in Parallel!Algorithms /\ p_list \in Inputs /\ p_hardware \in Hardware
      /\ p_data = p_list /\ p_started = 0 /\ p_done = FALSE /\ p_found = None
      /\ p_pc = [i \in Parallel!Blocks |->
                   IF Parallel!recursive /\ i = Parallel!Root THEN "work" ELSE "new"]
      /\ p_at = [i \in Parallel!Blocks |-> Parallel!First(i)]
      /\ p_future = [i \in Parallel!Blocks |-> None] /\ p_result = None
  BY DEF Parallel!Init
<1>2. CallOK
  BY <1>1 DEF CallOK
<1>3. p_list \in Seq(Int) /\ Len(p_list) = Parallel!length
  BY <1>1 DEF Parallel!ParallelAssumption, Parallel!length
<1>4. ASSUME NEW i \in Parallel!Blocks
      PROVE  /\ Parallel!First(i) \in Nat /\ p_at[i] = Parallel!First(i)
             /\ p_future[i] = None
             /\ p_pc[i] \in {"new", "work"}
             /\ ~Parallel!recursive => p_pc[i] = "new"
             /\ p_pc[i] # "new" => i = Parallel!Root
             /\ \A k \in Parallel!Block(i) : p_list[k] \in Int /\ p_data[k] = p_list[k]
                                             /\ p_at[i] <= k
             /\ Scanned(Parallel!First(i), p_at[i] - 1)
  <2>1. Parallel!First(i) \in Nat
    BY <1>2, BlockPlaces
  <2>2. /\ p_at[i] = Parallel!First(i) /\ p_future[i] = None
        /\ p_pc[i] = IF Parallel!recursive /\ i = Parallel!Root THEN "work" ELSE "new"
    BY <1>1
  <2>3. \A k \in Parallel!Block(i) : p_list[k] \in Int /\ p_at[i] <= k
    <3>1. Parallel!First(i) \in Nat /\ Parallel!Last(i) \in Nat
          /\ \A k \in Parallel!Block(i) : p_list[k] \in Int
      BY <1>2, BlockPlaces
    <3>2. \A k \in Parallel!Block(i) : Parallel!First(i) <= k
      BY <3>1 DEF Parallel!Block
    <3>3. QED
      BY <2>2, <3>1, <3>2
  <2>4. Scanned(Parallel!First(i), p_at[i] - 1)
    BY <2>1, <2>2 DEF Scanned
  <2>5. QED
    BY <1>1, <2>1, <2>2, <2>3, <2>4
<1>5. Parallel!TypeOK
  <2>1. p_pc \in [Parallel!Blocks -> Parallel!Steps]
    BY <1>1 DEF Parallel!Steps
  <2>2. p_at \in [Parallel!Blocks -> Nat]
    BY <1>1, <1>4
  <2>3. p_future \in [Parallel!Blocks -> Int \cup {None, Thrown, NotFound}]
    BY <1>1
  <2>4. p_result \in Parallel!Marks
    BY <1>1, MarksDiffer
  <2>5. QED
    BY <1>1, <1>3, <2>1, <2>2, <2>3, <2>4 DEF Parallel!TypeOK
<1>6. StartOrder
  BY <1>4 DEF StartOrder
<1>7. Parallel!Answers
  BY <1>1 DEF Parallel!Answers
<1>8. FindInv
  BY <1>1, <1>4, MarksDiffer DEF FindInv, FindPart
<1>9. p_algorithm = "ForEach" => ForEachInv
  <2>1. SUFFICES ASSUME p_algorithm = "ForEach", NEW i \in Parallel!Blocks
        PROVE  /\ p_pc[i] \in {"new", "work", "thrown", "ended"}
               /\ Parallel!First(i) <= p_at[i]
               /\ p_pc[i] = "ended" => Parallel!Last(i) < p_at[i]
               /\ p_pc[i] = "thrown" => Parallel!Has(Bad)
               /\ \A k \in Parallel!Block(i) :
                    IF k < p_at[i] THEN p_list[k] # Bad /\ p_data[k] = p_list[k] + 1
                    ELSE p_data[k] = p_list[k]
    BY DEF ForEachInv, ForEachPart
  <2>2. \A k \in Parallel!Block(i) : ~(k < p_at[i])
    <3>1. \A k \in Parallel!Block(i) : k \in Nat /\ p_at[i] <= k /\ p_at[i] \in Nat
      BY <1>2, <1>4, BlockPlaces
    <3>2. QED
      BY <3>1
  <2>3. Parallel!First(i) <= p_at[i]
    BY <1>4
  <2>4. QED
    BY <1>4, <2>2, <2>3
<1>10. AccumulateInv
  BY <1>4 DEF AccumulateInv, AccumulatePart
<1>11. p_algorithm = "PartialSum" => PartialSumInv
  <2>1. SUFFICES ASSUME NEW i \in Parallel!Blocks, p_algorithm = "PartialSum"
        PROVE  p_pc[i] = "new" /\ HandedOn(i) /\ BlockData(i)
    BY DEF PartialSumInv, PartialSumPart
  <2>2. ~Parallel!recursive
    BY <2>1 DEF Parallel!recursive
  <2>3. p_pc[i] = "new" /\ p_future[i] = None
    BY <1>4, <2>2
  <2>4. None \notin Int
    BY MarksDiffer
  <2>5. HandedOn(i)
    BY <2>3, <2>4, MarksDiffer DEF HandedOn
  <2>6. BlockData(i)
    BY <1>4, <2>3 DEF BlockData
  <2>7. QED
    BY <2>3, <2>5, <2>6
<1>12. p_algorithm = "FindRecursive" => RecursiveInv
  <2>1. SUFFICES ASSUME p_algorithm = "FindRecursive" PROVE RecursiveInv
    OBVIOUS
  <2>2. \A c \in Parallel!Blocks : Called(c) => c = Parallel!Root
    BY <1>4 DEF Called
  <2>3. \A c \in Parallel!Blocks : ~Divided(c) /\ ~Silent(c)
    BY <1>4 DEF Divided, Silent
  <2>4. \A c \in Parallel!Blocks : Inside(c, c)
    <3>1. ASSUME NEW c \in Parallel!Blocks PROVE c[1] \in Nat /\ c[2] \in Nat
      BY <1>2, <2>1, BlockPlaces
         DEF Parallel!First, Parallel!Last, Parallel!recursive
    <3>2. QED
      BY <3>1 DEF Inside
  <2>5. Nested
    BY <2>2, <2>4 DEF Nested
  <2>6. InHalves
    BY <2>2 DEF InHalves
  <2>7. HalvesCalled
    BY <2>3 DEF HalvesCalled
  <2>8. ASSUME NEW c \in Parallel!Blocks PROVE Outcome(c)
    <3>1. p_pc[c] \in {"new", "work"} /\ Parallel!First(c) <= p_at[c]
          /\ Scanned(Parallel!First(c), p_at[c] - 1)
      BY <1>4
    <3>2. QED
      BY <3>1 DEF Outcome
  <2>9. Parallel!length > 0 => Called(Parallel!Root)
    <3>1. SUFFICES ASSUME Parallel!length > 0 PROVE Called(Parallel!Root)
      OBVIOUS
    <3>2. Parallel!length \in Nat /\ Parallel!length # 0
      BY <1>3, <3>1, LenProperties
    <3>3. Parallel!Root \in Parallel!Blocks
      BY <2>1, <3>1, <3>2
         DEF Parallel!Root, Parallel!Blocks, Parallel!Ranges, Parallel!recursive
    <3>4. QED
      BY <1>1, <2>1, <3>3 DEF Called, Parallel!recursive
  <2>10. QED
    BY <1>1, <2>3, <2>5, <2>6, <2>7, <2>8, <2>9 DEF RecursiveInv
<1>13. QED
  BY <1>5, <1>6, <1>7, <1>8, <1>9, <1>10, <1>11, <1>12 DEF ParallelInv

-------------------------------------------------------------------------------
\* A thread that is started.
LEMMA StartDoes ==
    ASSUME Parallel!ParallelAssumption, ParallelInv, NEW i \in Parallel!Blocks,
           p_result = None, Parallel!start(i)
    PROVE  /\ UNCHANGED Parallel!call /\ p_data' = p_data /\ p_at' = p_at
           /\ p_future' = p_future /\ p_result' = p_result
           /\ p_found' = p_found /\ p_done' = p_done /\ p_pc[i] = "new"
           /\ \A j \in Parallel!Blocks : p_pc'[j] = IF j = i THEN "work" ELSE p_pc[j]
           /\ Parallel!TypeOK'
<1>1. UNCHANGED Parallel!call /\ Parallel!TypeOK /\ StartOrder
  BY DEF ParallelInv, Parallel!start
<1>2. /\ p_data' = p_data /\ p_at' = p_at /\ p_found' = p_found /\ p_done' = p_done
      /\ p_future' = p_future /\ p_result' = p_result
      /\ p_pc' = [p_pc EXCEPT ![i] = "work"] /\ p_started' = i /\ i = p_started + 1
      /\ ~Parallel!recursive
  BY DEF Parallel!start, Parallel!Goto, Parallel!find
<1>3. p_pc[i] = "new"
  <2>1. i > p_started
    BY <1>1, <1>2 DEF Parallel!TypeOK
  <2>2. QED
    BY <1>1, <1>2, <2>1 DEF StartOrder
<1>4. Parallel!TypeOK'
  <2>1. i \in Nat
    BY <1>1, <1>2 DEF Parallel!TypeOK
  <2>2. QED
    BY <1>1, <1>2, <2>1, CallKept DEF Parallel!TypeOK, Parallel!Steps
<1>5. \A j \in Parallel!Blocks : p_pc'[j] = IF j = i THEN "work" ELSE p_pc[j]
  BY <1>1, <1>2 DEF Parallel!TypeOK
<1>6. QED
  BY <1>1, <1>2, <1>3, <1>4, <1>5

\* A place is in one block.
LEMMA OneBlock ==
    ASSUME Parallel!ParallelAssumption, CallOK, ~Parallel!recursive,
           NEW i \in Parallel!Blocks, NEW j \in Parallel!Blocks, i # j,
           NEW k \in Parallel!Block(i)
    PROVE  k \notin Parallel!Block(j)
<1>1. Parallel!length > 0
  BY BlockPlaces
<1>2. i \in Nat /\ j \in Nat /\ i \in 1 .. Parallel!num_threads
      /\ j \in 1 .. Parallel!num_threads
  BY <1>1, Division
<1>3. i < j \/ j < i
  BY <1>2
<1>4. Parallel!Last(i) < Parallel!First(j) \/ Parallel!Last(j) < Parallel!First(i)
  BY <1>1, <1>2, <1>3, Division
<1>5. /\ Parallel!First(i) \in Nat /\ Parallel!Last(i) \in Nat
      /\ Parallel!First(j) \in Nat /\ Parallel!Last(j) \in Nat
  BY BlockPlaces
<1>6. QED
  BY <1>4, <1>5 DEF Parallel!Block

\* A step of Find.
LEMMA FindActions ==
    ASSUME p_algorithm = "Find", FindInv, NEW i \in Parallel!Blocks, Parallel!Step(i)
    PROVE  /\ Parallel!start(i) \/ Parallel!compare(i) \/ Parallel!storeDone(i)
           /\ p_result = None /\ UNCHANGED Parallel!call /\ UNCHANGED p_result
<1>1. p_pc[i] \notin {"halves", "last", "others"}
  BY DEF FindInv, FindPart
<1>2. Parallel!start(i) \/ Parallel!compare(i) \/ Parallel!storeDone(i)
  BY <1>1 DEF Parallel!Step, Parallel!divide, Parallel!searchShort, Parallel!combine,
     Parallel!apply, Parallel!accumulate, Parallel!sumBlock, Parallel!addToLast,
     Parallel!addToOthers, Parallel!At
<1>3. QED
  BY <1>2 DEF Parallel!Step, Parallel!start, Parallel!compare, Parallel!storeDone,
     Parallel!find

LEMMA FindStoreDone ==
    ASSUME Parallel!ParallelAssumption, ParallelInv, p_algorithm = "Find",
           NEW i \in Parallel!Blocks, p_result = None, Parallel!storeDone(i)
    PROVE  Parallel!TypeOK' /\ FindInv'
<1>1. UNCHANGED Parallel!call /\ Parallel!TypeOK /\ FindInv
  BY DEF ParallelInv, Parallel!storeDone
<1>2. /\ p_data' = p_data /\ p_at' = p_at /\ p_found' = p_found /\ p_done' = TRUE
      /\ p_future' = p_future /\ p_result' = p_result /\ p_started' = p_started
      /\ p_pc' = [p_pc EXCEPT ![i] = "ended"] /\ p_pc[i] = "flag"
  BY DEF Parallel!storeDone, Parallel!Goto
<1>3. Parallel!TypeOK'
  BY <1>1, <1>2, CallKept DEF Parallel!TypeOK, Parallel!Steps
<1>4. p_found # None
  BY <1>1, <1>2 DEF FindInv, FindPart
<1>5. FindInv'
  <2>1. \A j \in Parallel!Blocks : p_pc'[j] = IF j = i THEN "ended" ELSE p_pc[j]
    BY <1>1, <1>2 DEF Parallel!TypeOK
  <2>2. QED
    BY <1>1, <1>2, <1>4, <2>1, CallKept DEF FindInv, FindPart
<1>6. QED
  BY <1>3, <1>5

LEMMA FindCompare ==
    ASSUME Parallel!ParallelAssumption, ParallelInv, p_algorithm = "Find",
           NEW i \in Parallel!Blocks, p_result = None, Parallel!compare(i)
    PROVE  Parallel!TypeOK' /\ FindInv'
<1>1. UNCHANGED Parallel!call /\ Parallel!TypeOK /\ FindInv /\ CallOK
  BY CallTyped DEF ParallelInv, Parallel!compare
<1>2. /\ p_data' = p_data /\ p_done' = p_done /\ p_started' = p_started
      /\ p_future' = p_future /\ p_result' = p_result /\ p_pc[i] = "work"
  BY DEF Parallel!compare, Parallel!At
<1>3. CASE Parallel!Ended(i) \/ p_done
  <2>1. p_at' = p_at /\ p_found' = p_found /\ p_pc' = [p_pc EXCEPT ![i] = "ended"]
    BY <1>3 DEF Parallel!compare, Parallel!Goto
  <2>2. Parallel!TypeOK'
    BY <1>1, <1>2, <2>1, CallKept DEF Parallel!TypeOK, Parallel!Steps
  <2>3. p_found = None => Parallel!Last(i) < p_at[i]
    <3>1. Parallel!Last(i) \in Nat /\ p_at[i] \in Nat
      BY <1>1, BlockPlaces DEF Parallel!TypeOK
    <3>2. QED
      BY <1>1, <1>3, <3>1 DEF FindInv, Parallel!Ended
  <2>4. \A j \in Parallel!Blocks : p_pc'[j] = IF j = i THEN "ended" ELSE p_pc[j]
    BY <1>1, <2>1 DEF Parallel!TypeOK
  <2>5. FindInv'
    BY <1>1, <1>2, <2>1, <2>3, <2>4, CallKept DEF FindInv, FindPart
  <2>6. QED
    BY <2>2, <2>5
<1>4. CASE ~(Parallel!Ended(i) \/ p_done)
  <2>1. /\ p_at[i] \in 1 .. Parallel!length /\ Parallel!First(i) \in Nat
        /\ p_at[i] \in Nat /\ Parallel!First(i) <= p_at[i] /\ p_at[i] <= Parallel!Last(i)
        /\ Parallel!Last(i) \in Nat
    <3>1. /\ Parallel!First(i) \in Nat /\ Parallel!Last(i) \in Nat /\ Parallel!length \in Nat
          /\ 1 <= Parallel!First(i) /\ Parallel!Last(i) <= Parallel!length
      BY <1>1, BlockPlaces
    <3>2. p_at[i] \in Nat /\ Parallel!First(i) <= p_at[i]
      BY <1>1 DEF FindInv, FindPart, Parallel!TypeOK
    <3>3. QED
      BY <1>4, <3>1, <3>2 DEF Parallel!Ended
  <2>2. CASE p_list[p_at[i]] \in {Match, Bad}
    <3> DEFINE r == IF p_list[p_at[i]] = Bad THEN Thrown ELSE p_at[i]
    <3>1. p_at' = p_at /\ Parallel!Settle(i, r)
      BY <1>4, <2>2 DEF Parallel!compare
    <3>2. r \in (1 .. Parallel!length) \cup {None, Thrown} /\ r # None
      BY <2>1, MarksDiffer
    <3>3. (r = Thrown => Parallel!Has(Bad)) /\ (r # Thrown => p_list[r] = Match)
      BY <2>1, <2>2, MarksDiffer DEF Parallel!Has
    <3> HIDE DEF r
    <3>4. CASE p_found = None
      <4>1. p_found' = r /\ p_pc' = [p_pc EXCEPT ![i] = "flag"]
        BY <3>1, <3>4 DEF Parallel!Settle, Parallel!Goto
      <4>2. Parallel!TypeOK'
        BY <1>1, <1>2, <3>1, <3>2, <4>1, CallKept DEF Parallel!TypeOK, Parallel!Steps
      <4>3. \A j \in Parallel!Blocks : p_pc'[j] = IF j = i THEN "flag" ELSE p_pc[j]
        BY <1>1, <4>1 DEF Parallel!TypeOK
      <4>4. FindInv'
        BY <1>1, <1>2, <3>1, <3>2, <3>3, <4>1, <4>3, CallKept DEF FindInv, FindPart
      <4>5. QED
        BY <4>2, <4>4
    <3>5. CASE p_found # None
      <4>1. p_found' = p_found /\ p_pc' = [p_pc EXCEPT ![i] = "ended"]
        BY <3>1, <3>5 DEF Parallel!Settle, Parallel!Goto
      <4>2. Parallel!TypeOK'
        BY <1>1, <1>2, <3>1, <4>1, CallKept DEF Parallel!TypeOK, Parallel!Steps
      <4>3. \A j \in Parallel!Blocks : p_pc'[j] = IF j = i THEN "ended" ELSE p_pc[j]
        BY <1>1, <4>1 DEF Parallel!TypeOK
      <4>4. FindInv'
        BY <1>1, <1>2, <3>1, <3>5, <4>1, <4>3, CallKept DEF FindInv, FindPart
      <4>5. QED
        BY <4>2, <4>4
    <3>6. QED
      BY <3>4, <3>5
  <2>3. CASE p_list[p_at[i]] \notin {Match, Bad}
    <3>1. p_pc' = p_pc /\ p_found' = p_found /\ p_at' = [p_at EXCEPT ![i] = @ + 1]
      BY <1>4, <2>3 DEF Parallel!compare, Parallel!Advance
    <3>2. Parallel!TypeOK'
      <4>1. p_at' \in [Parallel!Blocks -> Nat]
        BY <1>1, <2>1, <3>1 DEF Parallel!TypeOK
      <4>2. QED
        BY <1>1, <1>2, <3>1, <4>1, CallKept DEF Parallel!TypeOK
    <3>3. \A j \in Parallel!Blocks : p_at'[j] = IF j = i THEN p_at[i] + 1 ELSE p_at[j]
      BY <1>1, <3>1 DEF Parallel!TypeOK
    <3>4. ASSUME Scanned(Parallel!First(i), p_at[i] - 1)
          PROVE  Scanned(Parallel!First(i), p_at'[i] - 1)
      <4>1. \A k \in Parallel!First(i) .. p_at'[i] - 1 :
              k = p_at[i] \/ k \in Parallel!First(i) .. p_at[i] - 1
        BY <2>1, <3>3
      <4>2. QED
        BY <2>3, <3>4, <4>1 DEF Scanned
    <3>5. Parallel!First(i) <= p_at'[i]
      BY <2>1, <3>3
    <3>6. ASSUME NEW j \in Parallel!Blocks
          PROVE  FindPart(j)'
      <4>1. CASE j = i
        BY <1>1, <1>2, <3>1, <3>4, <3>5, <4>1, CallKept DEF FindInv, FindPart
      <4>2. CASE j # i
        BY <1>1, <3>1, <3>3, <4>2, CallKept DEF FindInv, FindPart
      <4>3. QED
        BY <4>1, <4>2
    <3>7. FindInv'
      BY <1>1, <1>2, <3>1, <3>6, CallKept DEF FindInv, FindPart
    <3>8. QED
      BY <3>2, <3>7
  <2>4. QED
    BY <2>2, <2>3
<1>5. QED
  BY <1>3, <1>4

LEMMA FindStep ==
    ASSUME Parallel!ParallelAssumption, ParallelInv, p_algorithm = "Find",
           NEW i \in Parallel!Blocks, Parallel!Step(i)
    PROVE  Parallel!TypeOK' /\ FindInv'
<1>1. p_result = None /\ FindInv
  BY DEF ParallelInv, Parallel!Step
<1>2. CASE Parallel!start(i)
  <2>1. /\ UNCHANGED Parallel!call /\ p_at' = p_at /\ p_found' = p_found
        /\ p_done' = p_done /\ p_pc[i] = "new" /\ Parallel!TypeOK'
        /\ \A j \in Parallel!Blocks : p_pc'[j] = IF j = i THEN "work" ELSE p_pc[j]
    BY <1>1, <1>2, StartDoes
  <2>2. ASSUME NEW j \in Parallel!Blocks PROVE FindPart(j)'
    <3>1. FindPart(j) /\ FindPart(i)
      BY <1>1 DEF FindInv
    <3>2. QED
      BY <2>1, <3>1, CallKept DEF FindPart
  <2>3. ASSUME NEW j \in Parallel!Blocks, p_pc[j] = "flag" PROVE p_pc'[j] = "flag"
    BY <2>1, <2>3
  <2>4. QED
    BY <1>1, <2>1, <2>2, <2>3, CallKept DEF FindInv
<1>3. QED
  BY <1>1, <1>2, FindActions, FindStoreDone, FindCompare

\* A step of ForEach.
LEMMA ForEachActions ==
    ASSUME p_algorithm = "ForEach", ForEachInv, NEW i \in Parallel!Blocks, Parallel!Step(i)
    PROVE  /\ Parallel!start(i) \/ Parallel!apply(i)
           /\ p_result = None /\ UNCHANGED Parallel!call /\ UNCHANGED p_result
<1>1. p_pc[i] \notin {"flag", "halves", "last", "others"}
  BY DEF ForEachInv, ForEachPart
<1>2. Parallel!start(i) \/ Parallel!apply(i)
  BY <1>1 DEF Parallel!Step, Parallel!compare, Parallel!storeDone, Parallel!divide,
     Parallel!searchShort, Parallel!combine, Parallel!accumulate, Parallel!sumBlock,
     Parallel!addToLast, Parallel!addToOthers, Parallel!At
<1>3. QED
  BY <1>2 DEF Parallel!Step, Parallel!start, Parallel!apply

LEMMA ForEachApply ==
    ASSUME Parallel!ParallelAssumption, ParallelInv, p_algorithm = "ForEach",
           NEW i \in Parallel!Blocks, p_result = None, Parallel!apply(i)
    PROVE  Parallel!TypeOK' /\ ForEachInv'
<1>1. UNCHANGED Parallel!call /\ Parallel!TypeOK /\ ForEachInv /\ CallOK
      /\ ~Parallel!recursive
  BY CallTyped DEF ParallelInv, Parallel!apply, Parallel!recursive
<1>2. /\ p_found' = p_found /\ p_done' = p_done /\ p_started' = p_started
      /\ p_future' = p_future /\ p_result' = p_result /\ p_pc[i] = "work"
  BY DEF Parallel!apply, Parallel!At, Parallel!find
<1>3. /\ Parallel!First(i) \in Nat /\ Parallel!Last(i) \in Nat /\ Parallel!length \in Nat
      /\ 1 <= Parallel!First(i) /\ Parallel!Last(i) <= Parallel!length
      /\ p_at[i] \in Nat /\ Parallel!First(i) <= p_at[i]
  BY <1>1, BlockPlaces DEF ForEachInv, ForEachPart, Parallel!TypeOK
<1>4. CASE Parallel!Ended(i) \/ p_list[p_at[i]] = Bad
  <2>1. PICK l \in {"ended", "thrown"} :
             /\ p_at' = p_at /\ p_data' = p_data /\ p_pc' = [p_pc EXCEPT ![i] = l]
             /\ l = "ended" => Parallel!Last(i) < p_at[i]
             /\ l = "thrown" => p_list[p_at[i]] = Bad /\ p_at[i] <= Parallel!Last(i)
    BY <1>3, <1>4 DEF Parallel!apply, Parallel!Goto, Parallel!Ended
  <2>2. Parallel!TypeOK'
    BY <1>1, <1>2, <2>1, CallKept DEF Parallel!TypeOK, Parallel!Steps
  <2>3. l = "thrown" => Parallel!Has(Bad)
    <3>1. l = "thrown" => p_at[i] \in 1 .. Parallel!length
      BY <1>3, <2>1
    <3>2. QED
      BY <2>1, <3>1 DEF Parallel!Has
  <2>4. \A j \in Parallel!Blocks : p_pc'[j] = IF j = i THEN l ELSE p_pc[j]
    BY <1>1, <2>1 DEF Parallel!TypeOK
  <2>5. ASSUME NEW j \in Parallel!Blocks PROVE ForEachPart(j)'
    <3>1. ForEachPart(j)
      BY <1>1 DEF ForEachInv
    <3>2. QED
      BY <1>1, <2>1, <2>3, <2>4, <3>1, CallKept DEF ForEachPart
  <2>6. QED
    BY <1>1, <2>2, <2>5, CallKept DEF ForEachInv
<1>5. CASE ~Parallel!Ended(i) /\ p_list[p_at[i]] # Bad
  <2>1. /\ p_pc' = p_pc /\ p_at' = [p_at EXCEPT ![i] = @ + 1]
        /\ p_data' = [p_data EXCEPT ![p_at[i]] = @ + 1]
    BY <1>5 DEF Parallel!apply, Parallel!Advance
  <2>2. p_at[i] \in Parallel!Block(i) /\ p_at[i] \in 1 .. Parallel!length
    BY <1>3, <1>5 DEF Parallel!Ended, Parallel!Block
  <2>3. /\ p_data \in Seq(Int) /\ Len(p_data) = Parallel!length
        /\ p_data \in [1 .. Parallel!length -> Int] /\ p_data[p_at[i]] \in Int
    BY <1>1, <2>2, ElementOfSeq, LenProperties DEF Parallel!TypeOK
  <2>4. /\ p_data' \in Seq(Int) /\ Len(p_data') = Parallel!length
        /\ \A k \in 1 .. Parallel!length :
             p_data'[k] = IF k = p_at[i] THEN p_data[k] + 1 ELSE p_data[k]
    BY <2>1, <2>2, <2>3, ExceptSeq
  <2>5. /\ p_at' \in [Parallel!Blocks -> Nat]
        /\ \A j \in Parallel!Blocks : p_at'[j] = IF j = i THEN p_at[i] + 1 ELSE p_at[j]
    BY <1>1, <1>3, <2>1 DEF Parallel!TypeOK
  <2>6. Parallel!TypeOK'
    BY <1>1, <1>2, <2>1, <2>4, <2>5, CallKept DEF Parallel!TypeOK
  <2>7. ASSUME NEW j \in Parallel!Blocks PROVE ForEachPart(j)'
    <3>1. ForEachPart(j)
      BY <1>1 DEF ForEachInv
    <3>2. \A k \in Parallel!Block(j) : k \in 1 .. Parallel!length /\ p_list[k] \in Int
      BY <1>1, BlockPlaces
    <3>3. CASE j = i
      <4>1. p_pc'[j] = "work" /\ Parallel!First(j) <= p_at'[j]
        BY <1>2, <1>3, <2>1, <2>5, <3>3
      <4>2. ASSUME NEW k \in Parallel!Block(j)
            PROVE  IF k < p_at'[j] THEN p_list[k] # Bad /\ p_data'[k] = p_list[k] + 1
                   ELSE p_data'[k] = p_list[k]
        <5>1. /\ p_at'[j] = p_at[i] + 1 /\ k \in Nat /\ p_list[k] \in Int
              /\ p_data'[k] = IF k = p_at[i] THEN p_data[k] + 1 ELSE p_data[k]
              /\ IF k < p_at[i] THEN p_list[k] # Bad /\ p_data[k] = p_list[k] + 1
                 ELSE p_data[k] = p_list[k]
          BY <2>4, <2>5, <3>1, <3>2, <3>3, <4>2 DEF ForEachPart
        <5>2. QED
          BY <1>3, <1>5, <5>1
      <4>3. QED
        BY <1>1, <4>1, <4>2, CallKept DEF ForEachPart
    <3>4. CASE j # i
      <4>1. ASSUME NEW k \in Parallel!Block(j) PROVE p_data'[k] = p_data[k]
        <5>1. k # p_at[i]
          BY <1>1, <2>2, <3>4, <4>1, OneBlock
        <5>2. QED
          BY <2>4, <3>2, <4>1, <5>1
      <4>2. p_pc'[j] = p_pc[j] /\ p_at'[j] = p_at[j]
        BY <2>1, <2>5, <3>4
      <4>3. QED
        BY <1>1, <3>1, <4>1, <4>2, CallKept DEF ForEachPart
    <3>5. QED
      BY <3>3, <3>4
  <2>8. QED
    BY <1>1, <2>6, <2>7, CallKept DEF ForEachInv
<1>6. QED
  BY <1>4, <1>5 DEF Parallel!apply

LEMMA ForEachStep ==
    ASSUME Parallel!ParallelAssumption, ParallelInv, p_algorithm = "ForEach",
           NEW i \in Parallel!Blocks, Parallel!Step(i)
    PROVE  Parallel!TypeOK' /\ ForEachInv'
<1>1. p_result = None /\ ForEachInv
  BY DEF ParallelInv, Parallel!Step
<1>2. CASE Parallel!start(i)
  <2>1. UNCHANGED Parallel!call
    BY <1>1, <1>2, StartDoes
  <2>2. ASSUME NEW j \in Parallel!Blocks PROVE ForEachPart(j)'
    <3>1. ForEachPart(j) /\ ForEachPart(i)
      BY <1>1 DEF ForEachInv
    <3>2. /\ p_data' = p_data /\ p_at' = p_at /\ p_pc[i] = "new"
          /\ p_pc'[j] = IF j = i THEN "work" ELSE p_pc[j]
      BY <1>1, <1>2, StartDoes
    <3>3. QED
      BY <2>1, <3>1, <3>2, CallKept DEF ForEachPart
  <2>3. QED
    BY <1>1, <1>2, <2>1, <2>2, StartDoes, CallKept DEF ForEachInv
<1>3. CASE Parallel!apply(i)
  BY <1>1, <1>3, ForEachApply
<1>4. QED
  BY <1>1, <1>2, <1>3, ForEachActions

-------------------------------------------------------------------------------
\* What is added up is numbers.
LEMMA BlockSummand ==
    ASSUME Parallel!ParallelAssumption, CallOK, NEW i \in Parallel!Blocks
    PROVE  /\ Summand(p_list, 1, Parallel!length)
           /\ Summand(p_list, 1, Parallel!Last(i))
           /\ \A k \in Parallel!First(i) - 1 .. Parallel!Last(i) :
                Summand(p_list, Parallel!First(i), k)
<1>1. /\ Parallel!First(i) \in Nat /\ Parallel!Last(i) \in Nat /\ Parallel!length \in Nat
      /\ 1 <= Parallel!First(i) /\ Parallel!First(i) <= Parallel!Last(i)
      /\ Parallel!Last(i) <= Parallel!length
  BY BlockPlaces
<1>2. \A k \in 1 .. Parallel!length : p_list[k] \in Int
  BY ElementOfSeq DEF Parallel!ParallelAssumption, CallOK, Parallel!length
<1>3. QED
  BY <1>1, <1>2 DEF Summand

\* A step of ParallelAccumulate.
LEMMA AccumulateStep ==
    ASSUME Parallel!ParallelAssumption, ParallelInv, p_algorithm = "ParallelAccumulate",
           NEW i \in Parallel!Blocks, Parallel!Step(i)
    PROVE  Parallel!TypeOK' /\ AccumulateInv' /\ UNCHANGED Parallel!call /\ p_result' = None
<1>1. p_result = None /\ AccumulateInv /\ Parallel!TypeOK /\ CallOK
  BY CallTyped DEF ParallelInv, Parallel!Step
<1>2. Parallel!start(i) \/ Parallel!accumulate(i)
  <2>1. p_pc[i] \notin {"flag", "halves", "last", "others"}
    BY <1>1 DEF AccumulateInv, AccumulatePart
  <2>2. QED
    BY <2>1 DEF Parallel!Step, Parallel!compare, Parallel!storeDone, Parallel!divide,
       Parallel!searchShort, Parallel!combine, Parallel!apply, Parallel!sumBlock,
       Parallel!addToLast, Parallel!addToOthers, Parallel!At
<1>3. CASE Parallel!start(i)
  <2>1. /\ UNCHANGED Parallel!call /\ p_future' = p_future /\ p_pc[i] = "new"
        /\ Parallel!TypeOK' /\ p_result' = None
        /\ \A j \in Parallel!Blocks : p_pc'[j] = IF j = i THEN "work" ELSE p_pc[j]
    BY <1>1, <1>3, StartDoes
  <2>2. ASSUME NEW j \in Parallel!Blocks PROVE AccumulatePart(j)'
    <3>1. AccumulatePart(j)
      BY <1>1 DEF AccumulateInv
    <3>2. QED
      BY <2>1, <3>1, CallKept DEF AccumulatePart
  <2>3. QED
    BY <2>1, <2>2, CallKept DEF AccumulateInv
<1>4. CASE Parallel!accumulate(i)
  <2> DEFINE sum == Parallel!SumOf(p_list, Parallel!First(i), Parallel!Last(i))
  <2>1. /\ UNCHANGED Parallel!call /\ p_future' = [p_future EXCEPT ![i] = sum]
        /\ p_pc' = [p_pc EXCEPT ![i] = "ended"]
        /\ p_data' = p_data /\ p_started' = p_started /\ p_at' = p_at
        /\ p_found' = p_found /\ p_done' = p_done /\ p_result' = None
    BY <1>1, <1>4 DEF Parallel!accumulate, Parallel!Goto, Parallel!find
  <2>2. sum \in Int
    <3>1. Summand(p_list, Parallel!First(i), Parallel!Last(i))
      <4>1. Parallel!Last(i) \in Parallel!First(i) - 1 .. Parallel!Last(i)
        BY <1>1, BlockPlaces
      <4>2. QED
        BY <1>1, <4>1, BlockSummand
    <3>2. QED
      BY <3>1, SumFacts
  <2>3. Parallel!TypeOK'
    <3> HIDE DEF sum
    <3>1. QED
      BY <1>1, <2>1, <2>2, CallKept DEF Parallel!TypeOK, Parallel!Steps
  <2>4. ASSUME NEW j \in Parallel!Blocks PROVE AccumulatePart(j)'
    <3>1. AccumulatePart(j)
      BY <1>1 DEF AccumulateInv
    <3>2. /\ p_pc'[j] = IF j = i THEN "ended" ELSE p_pc[j]
          /\ p_future'[j] = IF j = i THEN sum ELSE p_future[j]
      BY <1>1, <2>1 DEF Parallel!TypeOK
    <3>3. /\ Parallel!SumOf(p_list, Parallel!First(j), Parallel!Last(j))'
               = Parallel!SumOf(p_list, Parallel!First(j), Parallel!Last(j))
          /\ p_pc'[j] \in {"new", "work", "ended"}
      BY <2>1, <3>1, <3>2, CallKept DEF AccumulatePart
    <3>4. QED
      BY <3>1, <3>2, <3>3 DEF AccumulatePart
  <2>5. QED
    BY <2>1, <2>3, <2>4, CallKept DEF AccumulateInv
<1>5. QED
  BY <1>2, <1>3, <1>4

-------------------------------------------------------------------------------
\* PartialSum: what is before a block and what is in it.
LEMMA SumBefore ==
    ASSUME Parallel!ParallelAssumption, CallOK, ~Parallel!recursive,
           NEW i \in Parallel!Blocks, NEW k \in Parallel!Block(i)
    PROVE  /\ Total(k) \in Int /\ Inner(i, k) \in Int
           /\ i = 1 => Inner(i, k) = Total(k)
           /\ 1 < i => /\ i - 1 \in Parallel!Blocks /\ Total(Parallel!Last(i - 1)) \in Int
                       /\ Inner(i, k) + Total(Parallel!Last(i - 1)) = Total(k)
           /\ Total(k) > Limit \/ Inner(i, k) > Limit => Parallel!Exceeds
<1>1. /\ Parallel!First(i) \in Nat /\ Parallel!Last(i) \in Nat /\ Parallel!length \in Nat
      /\ 1 <= Parallel!First(i) /\ Parallel!Last(i) <= Parallel!length
      /\ Parallel!length > 0 /\ Parallel!First(i) <= k /\ k \in 1 .. Parallel!length
  BY BlockPlaces DEF Parallel!Block
<1>2. \A m \in 1 .. Parallel!length : p_list[m] \in Int
  BY ElementOfSeq DEF Parallel!ParallelAssumption, CallOK, Parallel!length
<1>3. Summand(p_list, 1, k) /\ Summand(p_list, Parallel!First(i), k)
  BY <1>1, <1>2 DEF Summand
<1>4. Total(k) \in Int /\ Inner(i, k) \in Int
  BY <1>3, SumFacts DEF Total, Inner
<1>5. i = 1 => Inner(i, k) = Total(k)
  BY <1>1, Division DEF Total, Inner
<1>6. ASSUME 1 < i
      PROVE  /\ i - 1 \in Parallel!Blocks /\ Total(Parallel!Last(i - 1)) \in Int
             /\ Inner(i, k) + Total(Parallel!Last(i - 1)) = Total(k)
  <2>1. /\ Parallel!num_threads \in Nat /\ Parallel!Blocks = 1 .. Parallel!num_threads
        /\ i \in 1 .. Parallel!num_threads
    BY <1>1, Division
  <2>2. i \in 2 .. Parallel!num_threads /\ i - 1 \in Parallel!Blocks
    BY <1>6, <2>1
  <2>3. /\ Parallel!First(i) = Parallel!Last(i - 1) + 1 /\ Parallel!Last(i - 1) \in Nat
    BY <1>1, <2>1, <2>2, Division
  <2>4. PICK b \in Nat : b = Parallel!Last(i - 1)
    BY <2>3
  <2>5. 1 <= b + 1 /\ b <= k /\ b \in Int
    BY <1>1, <2>3, <2>4
  <2>6. /\ Summand(p_list, 1, b)
        /\ Parallel!SumOf(p_list, 1, k)
             = Parallel!SumOf(p_list, 1, b) + Parallel!SumOf(p_list, b + 1, k)
    BY <1>3, <2>5, SumJoins
  <2>7. Parallel!SumOf(p_list, 1, b) \in Int
    BY <2>6, SumFacts
  <2>8. /\ Total(k) = Total(b) + Inner(i, k) /\ Total(b) \in Int
    BY <2>3, <2>4, <2>6, <2>7 DEF Total, Inner
  <2>9. Inner(i, k) + Total(b) = Total(k)
    BY <1>4, <2>8
  <2>10. QED
    BY <2>2, <2>4, <2>8, <2>9
<1>7. Total(k) > Limit \/ Inner(i, k) > Limit => Parallel!Exceeds
  <2>1. Parallel!First(i) \in 1 .. Parallel!length /\ 1 \in 1 .. Parallel!length /\ 1 <= k
    BY <1>1
  <2>2. QED
    BY <1>1, <2>1 DEF Parallel!Exceeds, Total, Inner
<1>8. QED
  BY <1>4, <1>5, <1>6, <1>7

\* The actions of PartialSum.
LEMMA PartialSumActions ==
    ASSUME p_algorithm = "PartialSum", PartialSumInv, NEW i \in Parallel!Blocks,
           Parallel!Step(i)
    PROVE  \/ Parallel!start(i) \/ Parallel!sumBlock(i)
           \/ Parallel!addToLast(i) \/ Parallel!addToOthers(i)
<1>1. p_pc[i] \notin {"flag", "halves"}
  BY DEF PartialSumInv, PartialSumPart
<1>2. QED
  BY <1>1 DEF Parallel!Step, Parallel!compare, Parallel!storeDone, Parallel!divide,
     Parallel!searchShort, Parallel!combine, Parallel!apply, Parallel!accumulate,
     Parallel!At

\* What a step leaves alone.
Left(j) ==
    /\ p_pc'[j] = p_pc[j] /\ p_future'[j] = p_future[j]
    /\ \A k \in Parallel!Block(j) : p_data'[k] = p_data[k]

LEMMA PartialKept ==
    ASSUME Parallel!ParallelAssumption, CallOK, ~Parallel!recursive,
           UNCHANGED Parallel!call, PartialSumInv, NEW j \in Parallel!Blocks,
           Left(j), \A m \in Parallel!Blocks : p_future[m] # None => p_future'[m] = p_future[m]
    PROVE  (PartialSumPart(j) /\ HandedOn(j) /\ BlockData(j))'
<1>1. PartialSumPart(j) /\ HandedOn(j) /\ BlockData(j)
  BY DEF PartialSumInv
<1>2. PartialSumPart(j)'
  BY <1>1, CallKept DEF PartialSumPart, Left
<1>3. \A m \in 1 .. j - 1 : p_future[m] \in Int => p_future'[m] \in Int
  <2>1. \A m \in 1 .. j - 1 : m \in Parallel!Blocks
    <3>1. /\ Parallel!num_threads \in Nat /\ Parallel!Blocks = 1 .. Parallel!num_threads
      BY BlockPlaces, Division
    <3>2. QED
      BY <3>1
  <2>2. QED
    BY <2>1, MarksDiffer
<1>4. HandedOn(j)'
  BY <1>1, <1>3, CallKept DEF HandedOn, Left
<1>5. BlockData(j)'
  BY <1>1, CallKept DEF BlockData, Left
<1>6. QED
  BY <1>2, <1>4, <1>5

\* A step of a block that leaves the other blocks alone.
LEMMA PartialBlock ==
    ASSUME Parallel!ParallelAssumption, CallOK, ~Parallel!recursive,
           UNCHANGED Parallel!call, PartialSumInv, NEW i \in Parallel!Blocks,
           \A j \in Parallel!Blocks : j # i => Left(j),
           p_future[i] # None => p_future'[i] = p_future[i],
           (PartialSumPart(i) /\ HandedOn(i) /\ BlockData(i))'
    PROVE  PartialSumInv'
<1>1. \A m \in Parallel!Blocks : p_future[m] # None => p_future'[m] = p_future[m]
  BY DEF Left
<1>2. ASSUME NEW j \in Parallel!Blocks
      PROVE  (PartialSumPart(j) /\ HandedOn(j) /\ BlockData(j))'
  <2>1. CASE j = i
    BY <2>1
  <2>2. CASE j # i
    BY <1>1, <2>2, PartialKept
  <2>3. QED
    BY <2>1, <2>2
<1>3. QED
  BY <1>2, CallKept DEF PartialSumInv

\* A list whose places in one block change.
ChangedIn(i, P, d) ==
    /\ P \subseteq Parallel!Block(i) /\ d = [k \in DOMAIN p_data |-> d[k]]
    /\ \A k \in P : d[k] \in Int
    /\ \A k \in (1 .. Parallel!length) \ P : d[k] = p_data[k]

LEMMA BlockChanged ==
    ASSUME Parallel!ParallelAssumption, Parallel!TypeOK, ~Parallel!recursive,
           NEW i \in Parallel!Blocks, NEW P, NEW d, ChangedIn(i, P, d)
    PROVE  /\ d \in Seq(Int) /\ Len(d) = Parallel!length
           /\ \A j \in Parallel!Blocks : j # i =>
                \A k \in Parallel!Block(j) : d[k] = p_data[k]
<1>1. CallOK /\ Parallel!length \in Nat /\ p_data \in Seq(Int)
      /\ DOMAIN p_data = 1 .. Parallel!length
  BY CallTyped, BlockPlaces, LenProperties DEF Parallel!TypeOK
<1>2. \A k \in 1 .. Parallel!length : d[k] \in Int
  BY <1>1, ElementOfSeq, LenProperties DEF Parallel!TypeOK, ChangedIn
<1>3. d \in [1 .. Parallel!length -> Int]
  BY <1>1, <1>2 DEF ChangedIn
<1>4. d \in Seq(Int) /\ Len(d) = Parallel!length
  <2>1. d \in Seq(Int)
    BY <1>1, <1>3, SeqDef
  <2>2. QED
    BY <1>1, <1>3, <2>1
<1>5. ASSUME NEW j \in Parallel!Blocks, j # i, NEW k \in Parallel!Block(j)
      PROVE  d[k] = p_data[k]
  <2>1. k \in 1 .. Parallel!length /\ k \notin Parallel!Block(i)
    BY <1>1, <1>5, BlockPlaces, OneBlock
  <2>2. QED
    BY <2>1 DEF ChangedIn
<1>6. QED
  BY <1>4, <1>5

\* What is known of a block that a thread works on.
LEMMA PartialAt ==
    ASSUME Parallel!ParallelAssumption, ParallelInv, p_algorithm = "PartialSum",
           NEW i \in Parallel!Blocks
    PROVE  /\ CallOK /\ ~Parallel!recursive /\ Parallel!TypeOK /\ PartialSumInv
           /\ PartialSumPart(i) /\ HandedOn(i) /\ BlockData(i)
           /\ Parallel!num_threads \in Nat /\ Parallel!Blocks = 1 .. Parallel!num_threads
           /\ i \in Nat /\ 1 <= i /\ i <= Parallel!num_threads
           /\ Parallel!Last(i) \in Parallel!Block(i)
           /\ \A k \in Parallel!Block(i) : k \in 1 .. Parallel!length
           /\ DOMAIN p_data = 1 .. Parallel!length
<1>1. /\ CallOK /\ ~Parallel!recursive /\ Parallel!TypeOK /\ PartialSumInv
  BY CallTyped DEF ParallelInv, Parallel!recursive
<1>2. Parallel!num_threads \in Nat /\ Parallel!Blocks = 1 .. Parallel!num_threads
  BY <1>1, BlockPlaces, Division
<1>3. Parallel!Last(i) \in Parallel!Block(i)
      /\ \A k \in Parallel!Block(i) : k \in 1 .. Parallel!length
  BY <1>1, BlockPlaces DEF Parallel!Block
<1>4. DOMAIN p_data = 1 .. Parallel!length
  BY <1>1, LenProperties DEF Parallel!TypeOK
<1>5. QED
  BY <1>1, <1>2, <1>3, <1>4 DEF PartialSumInv

\* A thread whose sum is too large, and one that gets an exception.
LEMMA PartialFails ==
    ASSUME Parallel!ParallelAssumption, ParallelInv, p_algorithm = "PartialSum",
           NEW i \in Parallel!Blocks,
           UNCHANGED <<Parallel!call, p_started, p_at, Parallel!find>>,
           p_result = None, p_pc[i] \in {"work", "last"}, Parallel!Exceeds,
           Parallel!Fail(i)
    PROVE  Parallel!TypeOK' /\ PartialSumInv' /\ p_result' = None
<1>1. /\ CallOK /\ ~Parallel!recursive /\ Parallel!TypeOK /\ PartialSumInv
      /\ PartialSumPart(i) /\ HandedOn(i) /\ BlockData(i)
      /\ Parallel!num_threads \in Nat /\ i \in Nat /\ i <= Parallel!num_threads
  BY PartialAt
<1>2. p_data' = p_data /\ p_result' = None /\ UNCHANGED Parallel!call
      /\ p_started' = p_started /\ p_at' = p_at /\ p_found' = p_found /\ p_done' = p_done
  BY DEF Parallel!Fail, Parallel!find
<1>3. PICK l \in {"thrown", "ended"} :
           /\ p_pc' = [p_pc EXCEPT ![i] = l]
           /\ l = IF i = Parallel!num_threads THEN "thrown" ELSE "ended"
           /\ p_future' = IF i = Parallel!num_threads THEN p_future
                          ELSE [p_future EXCEPT ![i] = Thrown]
  BY DEF Parallel!Fail, Parallel!HandOn, Parallel!Goto
<1>4. Parallel!TypeOK'
  BY <1>1, <1>2, <1>3, CallKept DEF Parallel!TypeOK, Parallel!Steps
<1>5. \A j \in Parallel!Blocks :
        /\ p_pc'[j] = IF j = i THEN l ELSE p_pc[j]
        /\ p_future'[j] = IF j = i /\ i # Parallel!num_threads THEN Thrown ELSE p_future[j]
  BY <1>1, <1>3 DEF Parallel!TypeOK
<1>6. p_future[i] = None
  BY <1>1 DEF HandedOn
<1>7. \A j \in Parallel!Blocks : j # i => Left(j)
  BY <1>2, <1>5 DEF Left
<1>8. PartialSumPart(i)'
  BY <1>1, <1>2, <1>3, <1>5, CallKept DEF PartialSumPart
<1>9. HandedOn(i)'
  <2>1. CASE i = Parallel!num_threads
    <3>1. p_pc'[i] = "thrown" /\ p_future'[i] = None
      BY <1>3, <1>5, <1>6, <2>1
    <3>2. QED
      BY <1>1, <1>2, <2>1, <3>1, CallKept, MarksDiffer DEF HandedOn
  <2>2. CASE i # Parallel!num_threads
    <3>1. p_pc'[i] = "ended" /\ p_future'[i] = Thrown /\ i < Parallel!num_threads
      BY <1>1, <1>3, <1>5, <2>2
    <3>2. QED
      BY <1>2, <3>1, CallKept, MarksDiffer DEF HandedOn
  <2>3. QED
    BY <2>1, <2>2
<1>10. BlockData(i)'
  BY <1>2, <1>3, <1>5, CallKept DEF BlockData
<1>11. PartialSumInv'
  BY <1>1, <1>2, <1>6, <1>7, <1>8, <1>9, <1>10, PartialBlock
<1>12. QED
  BY <1>2, <1>4, <1>11

LEMMA PartialSumBlock ==
    ASSUME Parallel!ParallelAssumption, ParallelInv, p_algorithm = "PartialSum",
           NEW i \in Parallel!Blocks, p_result = None, Parallel!sumBlock(i)
    PROVE  Parallel!TypeOK' /\ PartialSumInv' /\ p_result' = None
<1>1. /\ CallOK /\ ~Parallel!recursive /\ Parallel!TypeOK /\ PartialSumInv
      /\ PartialSumPart(i) /\ HandedOn(i) /\ BlockData(i)
      /\ Parallel!num_threads \in Nat /\ Parallel!Blocks = 1 .. Parallel!num_threads
      /\ i \in Nat /\ 1 <= i /\ i <= Parallel!num_threads
      /\ Parallel!Last(i) \in Parallel!Block(i)
      /\ \A k \in Parallel!Block(i) : k \in 1 .. Parallel!length
      /\ DOMAIN p_data = 1 .. Parallel!length
  BY PartialAt
<1> DEFINE sums == [k \in Parallel!Block(i) |->
                      Parallel!SumOf(p_list, Parallel!First(i), k)]
           big == \E k \in Parallel!Block(i) : sums[k] > Limit
<1>2. \A k \in Parallel!Block(i) : sums[k] = Inner(i, k) /\ sums[k] \in Int
  BY <1>1, SumBefore DEF Inner
<1>3. p_pc[i] = "work" /\ p_future[i] = None
  BY <1>1 DEF Parallel!sumBlock, Parallel!At, HandedOn
<1>4. UNCHANGED <<Parallel!call, p_started, p_at, Parallel!find>>
  BY DEF Parallel!sumBlock
<1>5. IF big THEN Parallel!Fail(i)
      ELSE /\ p_data' = [k \in DOMAIN p_data |-> IF k \in Parallel!Block(i) THEN sums[k]
                                                 ELSE p_data[k]]
           /\ IF i = 1
              THEN Parallel!HandOn(i, sums[Parallel!Last(i)]) /\ Parallel!Goto(i, "ended")
              ELSE UNCHANGED p_future /\ Parallel!Goto(i, "last")
           /\ p_result' = p_result
  BY DEF Parallel!sumBlock
<1>6. CASE big
  <2>1. Parallel!Exceeds
    BY <1>1, <1>2, <1>6, SumBefore
  <2>2. QED
    BY <1>3, <1>4, <1>5, <1>6, <2>1, PartialFails
<1> HIDE DEF sums, big
<1>7. CASE ~big
  <2>1. p_data' \in Seq(Int) /\ Len(p_data') = Parallel!length
        /\ (\A j \in Parallel!Blocks : j # i =>
              \A k \in Parallel!Block(j) : p_data'[k] = p_data[k])
        /\ \A k \in Parallel!Block(i) : p_data'[k] = Inner(i, k)
    <3>1. /\ p_data' = [k \in DOMAIN p_data |-> p_data'[k]]
          /\ \A k \in Parallel!Block(i) : p_data'[k] = sums[k]
          /\ \A k \in (1 .. Parallel!length) \ Parallel!Block(i) : p_data'[k] = p_data[k]
      BY <1>1, <1>5, <1>7
    <3>2. \A k \in Parallel!Block(i) : p_data'[k] = Inner(i, k) /\ p_data'[k] \in Int
      BY <1>2, <3>1
    <3>3. /\ p_data' \in Seq(Int) /\ Len(p_data') = Parallel!length
          /\ \A j \in Parallel!Blocks : j # i =>
               \A k \in Parallel!Block(j) : p_data'[k] = p_data[k]
      <4>1. ChangedIn(i, Parallel!Block(i), p_data')
        BY <3>1, <3>2 DEF ChangedIn
      <4>2. QED
        BY <1>1, <4>1, BlockChanged
    <3>4. QED
      BY <3>2, <3>3
  <2>2. PICK l \in {"ended", "last"} :
             /\ p_pc' = [p_pc EXCEPT ![i] = l] /\ l = IF i = 1 THEN "ended" ELSE "last"
             /\ p_future' = IF i = 1 /\ i # Parallel!num_threads
                            THEN [p_future EXCEPT ![i] = sums[Parallel!Last(i)]]
                            ELSE p_future
             /\ p_result' = None
    BY <1>5, <1>7 DEF Parallel!HandOn, Parallel!Goto
  <2>3. sums[Parallel!Last(i)] \in Int
    BY <1>1, <1>2
  <2>4. Parallel!TypeOK'
    BY <1>1, <1>4, <2>1, <2>2, <2>3, CallKept
       DEF Parallel!TypeOK, Parallel!Steps, Parallel!find
  <2>5. \A j \in Parallel!Blocks :
          /\ p_pc'[j] = IF j = i THEN l ELSE p_pc[j]
          /\ p_future'[j] = IF j = i /\ i = 1 /\ i # Parallel!num_threads
                            THEN sums[Parallel!Last(i)] ELSE p_future[j]
    BY <1>1, <2>2 DEF Parallel!TypeOK
  <2>6. \A j \in Parallel!Blocks : j # i => Left(j)
    BY <2>1, <2>5 DEF Left
  <2>7. PartialSumPart(i)'
    BY <1>1, <1>4, <2>2, <2>5, CallKept DEF PartialSumPart
  <2>8. CASE i = 1
    <3>1. \A k \in Parallel!Block(i) : Inner(i, k) = Total(k)
      BY <1>1, <2>8, SumBefore
    <3>2. p_pc'[i] = "ended"
          /\ p_future'[i] = IF i = Parallel!num_threads THEN None
                            ELSE Total(Parallel!Last(i))
      BY <1>1, <1>2, <1>3, <2>2, <2>5, <2>8, <3>1
    <3>3. Total(Parallel!Last(i)) \in Int
      BY <1>1, SumBefore
    <3>4. ASSUME i # Parallel!num_threads
          PROVE  /\ p_future'[i] \in Int /\ p_future'[i] # None /\ p_future'[i] # Thrown
                 /\ p_future'[i] # NotFound /\ i < Parallel!num_threads
      BY <1>1, <3>2, <3>3, <3>4, MarksDiffer
    <3>5. ASSUME i = Parallel!num_threads
          PROVE  p_future'[i] = None /\ ~(i < Parallel!num_threads) /\ None \notin Int
                 /\ None # Thrown /\ None # NotFound
      BY <1>1, <3>2, <3>5, MarksDiffer
    <3>6. 1 .. i - 1 = {}
      BY <2>8
    <3>7. HandedOn(i)'
      <4>1. CASE i = Parallel!num_threads
        BY <1>4, <3>2, <3>5, <3>6, <4>1, CallKept DEF HandedOn
      <4>2. CASE i # Parallel!num_threads
        BY <1>4, <3>2, <3>4, <3>6, <4>2, CallKept DEF HandedOn
      <4>3. QED
        BY <4>1, <4>2
    <3>8. BlockData(i)'
      BY <1>4, <2>1, <3>1, <3>2, CallKept DEF BlockData
    <3>9. QED
      BY <1>1, <1>3, <1>4, <2>2, <2>4, <2>6, <2>7, <3>7, <3>8, PartialBlock
  <2>9. CASE i # 1
    <3>1. p_pc'[i] = "last" /\ p_future'[i] = None
      BY <1>3, <2>2, <2>5, <2>9
    <3>2. HandedOn(i)'
      BY <1>4, <3>1, CallKept, MarksDiffer DEF HandedOn
    <3>3. BlockData(i)'
      BY <1>4, <2>1, <3>1, CallKept DEF BlockData
    <3>4. QED
      BY <1>1, <1>3, <1>4, <2>2, <2>4, <2>6, <2>7, <3>2, <3>3, PartialBlock
  <2>10. QED
    BY <2>8, <2>9
<1>8. QED
  BY <1>6, <1>7

LEMMA PartialLast ==
    ASSUME Parallel!ParallelAssumption, ParallelInv, p_algorithm = "PartialSum",
           NEW i \in Parallel!Blocks, p_result = None, Parallel!addToLast(i)
    PROVE  Parallel!TypeOK' /\ PartialSumInv' /\ p_result' = None
<1> DEFINE last == Parallel!Last(i)
           before == p_future[i - 1]
<1>1. /\ CallOK /\ ~Parallel!recursive /\ Parallel!TypeOK /\ PartialSumInv
      /\ PartialSumPart(i) /\ HandedOn(i) /\ BlockData(i)
      /\ Parallel!num_threads \in Nat /\ Parallel!Blocks = 1 .. Parallel!num_threads
      /\ i \in Nat /\ 1 <= i /\ i <= Parallel!num_threads
      /\ last \in Parallel!Block(i)
      /\ \A k \in Parallel!Block(i) : k \in 1 .. Parallel!length
      /\ DOMAIN p_data = 1 .. Parallel!length
  BY PartialAt
<1>2. p_pc[i] = "last" /\ p_future[i] = None /\ before # None /\ 1 < i
  BY <1>1 DEF Parallel!addToLast, HandedOn, PartialSumPart
<1>3. UNCHANGED <<Parallel!call, p_started, p_at, Parallel!find>>
  BY DEF Parallel!addToLast
<1>4. /\ i - 1 \in Parallel!Blocks /\ HandedOn(i - 1)
      /\ Total(Parallel!Last(i - 1)) \in Int
      /\ \A k \in Parallel!Block(i) :
           /\ p_data[k] = Inner(i, k) /\ Inner(i, k) \in Int /\ Total(k) \in Int
           /\ Inner(i, k) + Total(Parallel!Last(i - 1)) = Total(k)
  BY <1>1, <1>2, SumBefore DEF PartialSumInv, BlockData
<1>5. before = Thrown \/ (before \in Int /\ before = Total(Parallel!Last(i - 1)))
  BY <1>1, <1>2, <1>4 DEF HandedOn, Parallel!TypeOK
<1>6. before = Thrown => Parallel!Exceeds
  BY <1>4 DEF HandedOn
<1>7. before # Thrown => p_data[last] + before = Total(last)
  BY <1>1, <1>4, <1>5
<1> DEFINE bad == before = Thrown \/ p_data[last] + before > Limit
<1>8. IF bad THEN Parallel!Fail(i)
      ELSE /\ p_data' = [p_data EXCEPT ![last] = @ + before]
           /\ Parallel!HandOn(i, p_data'[last]) /\ Parallel!Goto(i, "others")
           /\ p_result' = p_result
  BY DEF Parallel!addToLast
<1>9. CASE bad
  <2>1. Parallel!Exceeds
    <3>1. before # Thrown => Total(last) > Limit
      BY <1>7, <1>9
    <3>2. Total(last) > Limit => Parallel!Exceeds
      BY <1>1, SumBefore
    <3>3. QED
      BY <1>6, <3>1, <3>2
  <2>2. QED
    BY <1>2, <1>3, <1>8, <1>9, <2>1, PartialFails
<1>10. CASE ~bad
  <2>1. /\ p_data' = [p_data EXCEPT ![last] = @ + before]
        /\ Parallel!HandOn(i, p_data'[last]) /\ Parallel!Goto(i, "others")
        /\ p_result' = None /\ before # Thrown
    BY <1>8, <1>10
  <2> HIDE DEF bad
  <2>2. p_data'[last] = Total(last) /\ Total(last) \in Int
        /\ \A k \in 1 .. Parallel!length : k # last => p_data'[k] = p_data[k]
    BY <1>1, <1>4, <1>7, <2>1
  <2>3. p_data' \in Seq(Int) /\ Len(p_data') = Parallel!length
        /\ \A j \in Parallel!Blocks : j # i =>
             \A k \in Parallel!Block(j) : p_data'[k] = p_data[k]
    <3>1. p_data' = [k \in DOMAIN p_data |-> p_data'[k]]
      BY <2>1
    <3>2. ChangedIn(i, {last}, p_data')
      BY <1>1, <2>2, <3>1 DEF ChangedIn
    <3> HIDE DEF last
    <3>3. QED
      BY <1>1, <3>2, BlockChanged
  <2>4. /\ p_pc' = [p_pc EXCEPT ![i] = "others"]
        /\ p_future' = IF i = Parallel!num_threads THEN p_future
                       ELSE [p_future EXCEPT ![i] = Total(last)]
    BY <2>1, <2>2 DEF Parallel!HandOn, Parallel!Goto
  <2>5. Parallel!TypeOK'
    BY <1>1, <1>3, <2>1, <2>2, <2>3, <2>4, CallKept
       DEF Parallel!TypeOK, Parallel!Steps, Parallel!find
  <2>6. \A j \in Parallel!Blocks :
          /\ p_pc'[j] = IF j = i THEN "others" ELSE p_pc[j]
          /\ p_future'[j] = IF j = i /\ i # Parallel!num_threads THEN Total(last)
                            ELSE p_future[j]
    BY <1>1, <2>4 DEF Parallel!TypeOK
  <2>7. \A j \in Parallel!Blocks : j # i => Left(j)
    BY <2>3, <2>6 DEF Left
  <2>8. PartialSumPart(i)'
    BY <1>2, <1>3, <2>6, CallKept DEF PartialSumPart
  <2>9. \A j \in 1 .. i - 1 : p_future'[j] \in Int
    <3>1. p_pc[i - 1] \in {"others", "ended"} /\ before \in Int /\ before # Thrown
      BY <1>2, <1>4, <1>5, <2>1 DEF HandedOn
    <3>2. \A j \in 1 .. (i - 1) - 1 : p_future[j] \in Int
      BY <1>4, <3>1 DEF HandedOn
    <3>3. \A j \in 1 .. i - 1 : j \in Parallel!Blocks /\ j # i
                                /\ (j = i - 1 \/ j \in 1 .. (i - 1) - 1)
      BY <1>1
    <3>4. QED
      BY <2>6, <3>1, <3>2, <3>3
  <2>10. HandedOn(i)'
    <3>1. CASE i = Parallel!num_threads
      <4>1. p_pc'[i] = "others" /\ p_future'[i] = None
        BY <1>2, <2>6, <3>1
      <4>2. QED
        BY <1>1, <1>3, <2>9, <3>1, <4>1, CallKept, MarksDiffer DEF HandedOn
    <3>2. CASE i # Parallel!num_threads
      <4>1. p_pc'[i] = "others" /\ p_future'[i] = Total(last)
            /\ i < Parallel!num_threads
        BY <1>1, <2>6, <3>2
      <4>2. p_future'[i] # None /\ p_future'[i] # Thrown /\ p_future'[i] # NotFound
        BY <2>2, <4>1, MarksDiffer
      <4>3. QED
        BY <1>3, <2>9, <4>1, <4>2, CallKept DEF HandedOn
    <3>3. QED
      BY <3>1, <3>2
  <2>11. BlockData(i)'
    <3>1. ASSUME NEW k \in Parallel!Block(i)
          PROVE  p_data'[k] = IF k = last THEN Total(k) ELSE Inner(i, k)
      BY <1>1, <1>4, <2>2, <3>1
    <3>2. p_pc'[i] = "others"
      BY <2>6
    <3>3. QED
      BY <1>3, <3>1, <3>2, CallKept DEF BlockData
  <2>12. QED
    BY <1>1, <1>2, <1>3, <2>1, <2>5, <2>7, <2>8, <2>10, <2>11, PartialBlock
<1>11. QED
  BY <1>9, <1>10

LEMMA PartialOthers ==
    ASSUME Parallel!ParallelAssumption, ParallelInv, p_algorithm = "PartialSum",
           NEW i \in Parallel!Blocks, p_result = None, Parallel!addToOthers(i)
    PROVE  /\ Parallel!TypeOK' /\ PartialSumInv'
           /\ p_result' = None \/ (p_result' = Terminated /\ Parallel!Exceeds)
<1> DEFINE others == Parallel!First(i) .. Parallel!Last(i) - 1
           before == p_future[i - 1]
<1>1. /\ CallOK /\ ~Parallel!recursive /\ Parallel!TypeOK /\ PartialSumInv
      /\ PartialSumPart(i) /\ HandedOn(i) /\ BlockData(i)
      /\ Parallel!num_threads \in Nat /\ Parallel!Blocks = 1 .. Parallel!num_threads
      /\ i \in Nat /\ 1 <= i /\ i <= Parallel!num_threads
      /\ \A k \in Parallel!Block(i) : k \in 1 .. Parallel!length
      /\ DOMAIN p_data = 1 .. Parallel!length
  BY PartialAt
<1>2. p_pc[i] = "others" /\ p_future[i] # Thrown /\ 1 < i
      /\ \A j \in 1 .. i - 1 : p_future[j] \in Int
  BY <1>1 DEF Parallel!addToOthers, HandedOn, PartialSumPart
<1>3. UNCHANGED <<Parallel!call, p_started, p_at, Parallel!find, p_future>>
  BY DEF Parallel!addToOthers
<1>4. /\ i - 1 \in Parallel!Blocks /\ HandedOn(i - 1)
      /\ Total(Parallel!Last(i - 1)) \in Int
      /\ \A k \in Parallel!Block(i) :
           /\ Inner(i, k) \in Int /\ Total(k) \in Int
           /\ Inner(i, k) + Total(Parallel!Last(i - 1)) = Total(k)
           /\ p_data[k] = IF k = Parallel!Last(i) THEN Total(k) ELSE Inner(i, k)
  <2>1. Parallel!Last(i) \in Parallel!Block(i)
    BY PartialAt
  <2>2. i - 1 \in Parallel!Blocks /\ Total(Parallel!Last(i - 1)) \in Int
    BY <1>1, <1>2, <2>1, SumBefore
  <2>3. HandedOn(i - 1)
    BY <1>1, <2>2 DEF PartialSumInv
  <2>4. \A k \in Parallel!Block(i) :
          /\ Inner(i, k) \in Int /\ Total(k) \in Int
          /\ Inner(i, k) + Total(Parallel!Last(i - 1)) = Total(k)
    BY <1>1, <1>2, SumBefore
  <2>5. QED
    BY <1>1, <1>2, <2>2, <2>3, <2>4 DEF BlockData
<1>5. before \in Int /\ before = Total(Parallel!Last(i - 1))
  <2>1. i - 1 \in 1 .. i - 1
    BY <1>1, <1>2
  <2>2. QED
    BY <1>2, <1>4, <2>1 DEF HandedOn
<1>6. /\ others \subseteq Parallel!Block(i)
      /\ \A k \in Parallel!Block(i) : k \in others <=> k # Parallel!Last(i)
  BY <1>1, BlockPlaces DEF Parallel!Block
<1> HIDE DEF others
<1>7. \A k \in others : p_data[k] + before = Total(k) /\ Total(k) \in Int
  BY <1>4, <1>5, <1>6
<1> DEFINE big == \E k \in others : p_data[k] + before > Limit
<1>8. IF big
      THEN /\ IF i = Parallel!num_threads
              THEN Parallel!Goto(i, "thrown") /\ p_result' = p_result
              ELSE p_result' = Terminated /\ p_pc' = p_pc
           /\ p_data' = p_data
      ELSE /\ p_data' = [k \in DOMAIN p_data |-> IF k \in others THEN p_data[k] + before
                                                 ELSE p_data[k]]
           /\ Parallel!Goto(i, "ended") /\ p_result' = p_result
  BY DEF Parallel!addToOthers, others
<1>9. big => Parallel!Exceeds
  BY <1>1, <1>6, <1>7, SumBefore
<1> HIDE DEF big
<1>10. CASE big /\ i # Parallel!num_threads
  <2>1. p_pc' = p_pc /\ p_data' = p_data /\ p_result' = Terminated
    BY <1>8, <1>10
  <2>2. Parallel!TypeOK'
    <3>1. Terminated \in Parallel!Marks
      BY MarksDiffer
    <3>2. QED
      BY <1>1, <1>3, <2>1, <3>1, CallKept DEF Parallel!TypeOK, Parallel!find
  <2>3. \A j \in Parallel!Blocks : Left(j)
    BY <1>3, <2>1 DEF Left
  <2>4. \A m \in Parallel!Blocks : p_future[m] # None => p_future'[m] = p_future[m]
    BY <1>3
  <2>5. ASSUME NEW j \in Parallel!Blocks
        PROVE  (PartialSumPart(j) /\ HandedOn(j) /\ BlockData(j))'
    BY <1>1, <1>3, <2>3, <2>4, PartialKept
  <2>6. QED
    BY <1>3, <1>9, <1>10, <2>1, <2>2, <2>5, CallKept DEF PartialSumInv
<1>11. CASE big /\ i = Parallel!num_threads
  <2>1. p_pc' = [p_pc EXCEPT ![i] = "thrown"] /\ p_data' = p_data /\ p_result' = None
    BY <1>8, <1>11 DEF Parallel!Goto
  <2>2. Parallel!TypeOK'
    BY <1>1, <1>3, <2>1, CallKept DEF Parallel!TypeOK, Parallel!Steps, Parallel!find
  <2>3. \A j \in Parallel!Blocks : p_pc'[j] = IF j = i THEN "thrown" ELSE p_pc[j]
    BY <1>1, <2>1 DEF Parallel!TypeOK
  <2>4. \A j \in Parallel!Blocks : j # i => Left(j)
    BY <1>3, <2>1, <2>3 DEF Left
  <2>5. PartialSumPart(i)'
    BY <1>3, <1>9, <1>11, <2>3, CallKept DEF PartialSumPart
  <2>6. p_future'[i] = None
    BY <1>1, <1>3, <1>11 DEF HandedOn, Parallel!TypeOK
  <2>7. HandedOn(i)' /\ BlockData(i)'
    BY <1>1, <1>3, <2>3, <2>6, CallKept, MarksDiffer DEF HandedOn, BlockData
  <2>8. QED
    BY <1>1, <1>3, <2>1, <2>2, <2>4, <2>5, <2>7, PartialBlock
<1>12. CASE ~big
  <2>1. /\ p_data' = [k \in DOMAIN p_data |-> IF k \in others THEN p_data[k] + before
                                              ELSE p_data[k]]
        /\ p_pc' = [p_pc EXCEPT ![i] = "ended"] /\ p_result' = None
    BY <1>8, <1>12 DEF Parallel!Goto
  <2>2. \A k \in 1 .. Parallel!length : k \notin others => p_data'[k] = p_data[k]
    BY <1>1, <2>1
  <2>3. ASSUME NEW k \in Parallel!Block(i) PROVE p_data'[k] = Total(k)
    BY <1>1, <1>4, <1>6, <1>7, <2>1, <2>3
  <2>4. p_data' \in Seq(Int) /\ Len(p_data') = Parallel!length
        /\ \A j \in Parallel!Blocks : j # i =>
             \A k \in Parallel!Block(j) : p_data'[k] = p_data[k]
    <3>1. p_data' = [k \in DOMAIN p_data |-> p_data'[k]]
          /\ \A k \in others : p_data'[k] \in Int
      BY <1>6, <1>7, <2>1, <2>3
    <3>2. ChangedIn(i, others, p_data')
      BY <1>6, <2>2, <3>1 DEF ChangedIn
    <3>3. QED
      BY <1>1, <3>2, BlockChanged
  <2>5. Parallel!TypeOK'
    BY <1>1, <1>3, <2>1, <2>4, CallKept DEF Parallel!TypeOK, Parallel!Steps, Parallel!find
  <2>6. \A j \in Parallel!Blocks : p_pc'[j] = IF j = i THEN "ended" ELSE p_pc[j]
    BY <1>1, <2>1 DEF Parallel!TypeOK
  <2>7. \A j \in Parallel!Blocks : j # i => Left(j)
    BY <1>3, <2>4, <2>6 DEF Left
  <2>8. PartialSumPart(i)'
    BY <1>3, <2>6, CallKept DEF PartialSumPart
  <2>9. HandedOn(i)'
    <3>1. p_pc'[i] = "ended" /\ p_future' = p_future
      BY <1>3, <2>6
    <3>2. QED
      BY <1>1, <1>2, <1>3, <3>1, CallKept DEF HandedOn
  <2>10. BlockData(i)'
    <3>1. p_pc'[i] = "ended"
      BY <2>6
    <3>2. QED
      BY <1>3, <2>3, <3>1, CallKept DEF BlockData
  <2>11. QED
    BY <1>1, <1>3, <2>1, <2>5, <2>7, <2>8, <2>9, <2>10, PartialBlock
<1>13. QED
  BY <1>10, <1>11, <1>12

\* A step of PartialSum.
LEMMA PartialSumStep ==
    ASSUME Parallel!ParallelAssumption, ParallelInv, p_algorithm = "PartialSum",
           NEW i \in Parallel!Blocks, Parallel!Step(i)
    PROVE  /\ Parallel!TypeOK' /\ PartialSumInv' /\ UNCHANGED Parallel!call
           /\ p_result' = None \/ (p_result' = Terminated /\ Parallel!Exceeds)
<1>1. p_result = None
  BY DEF Parallel!Step
<1>2. /\ CallOK /\ ~Parallel!recursive /\ Parallel!TypeOK /\ PartialSumInv
      /\ PartialSumPart(i) /\ HandedOn(i) /\ BlockData(i)
  BY PartialAt
<1>3. CASE Parallel!start(i)
  <2>1. /\ UNCHANGED Parallel!call /\ p_data' = p_data /\ p_future' = p_future
        /\ p_pc[i] = "new" /\ Parallel!TypeOK' /\ p_result' = None
        /\ \A j \in Parallel!Blocks : p_pc'[j] = IF j = i THEN "work" ELSE p_pc[j]
    BY <1>1, <1>3, StartDoes
  <2>2. \A j \in Parallel!Blocks : j # i => Left(j)
    BY <2>1 DEF Left
  <2>3. p_future[i] = None
    BY <1>2, <2>1 DEF HandedOn
  <2>4. PartialSumPart(i)' /\ HandedOn(i)' /\ BlockData(i)'
    BY <1>2, <2>1, <2>3, CallKept, MarksDiffer DEF PartialSumPart, HandedOn, BlockData
  <2>5. QED
    BY <1>2, <2>1, <2>2, <2>4, PartialBlock
<1>4. CASE Parallel!sumBlock(i)
  BY <1>1, <1>4, PartialSumBlock DEF Parallel!sumBlock
<1>5. CASE Parallel!addToLast(i)
  BY <1>1, <1>5, PartialLast DEF Parallel!addToLast
<1>6. CASE Parallel!addToOthers(i)
  BY <1>1, <1>6, PartialOthers DEF Parallel!addToOthers
<1>7. QED
  BY <1>2, <1>3, <1>4, <1>5, <1>6, PartialSumActions

-------------------------------------------------------------------------------
\* The ranges of FindRecursive, and the halves of a long one.
LEMMA RangeIs ==
    ASSUME Parallel!ParallelAssumption, CallOK, Parallel!recursive,
           NEW c \in Parallel!Blocks
    PROVE  /\ c[1] \in Nat /\ c[2] \in Nat /\ 1 <= c[1] /\ c[1] <= c[2]
           /\ c[2] <= Parallel!length /\ Parallel!length \in Nat
           /\ Parallel!First(c) = c[1] /\ Parallel!Last(c) = c[2]
<1>1. Parallel!First(c) = c[1] /\ Parallel!Last(c) = c[2]
  BY DEF Parallel!First, Parallel!Last
<1>2. QED
  BY <1>1, BlockPlaces

LEMMA HalvesAre ==
    ASSUME Parallel!ParallelAssumption, CallOK, Parallel!recursive,
           NEW c \in Parallel!Blocks, ~Parallel!Short(c),
           NEW f, NEW s, f = Parallel!FirstHalf(c), s = Parallel!SecondHalf(c)
    PROVE  /\ f \in Parallel!Blocks /\ s \in Parallel!Blocks
           /\ f[1] = c[1] /\ s[1] = f[2] + 1 /\ s[2] = c[2]
           /\ f # c /\ s # c /\ f # s
           /\ Inside(f, c) /\ Inside(s, c) /\ Apart(f, s) /\ Apart(s, f)
           /\ ~Inside(c, f) /\ ~Inside(c, s)
<1>1. /\ c[1] \in Nat /\ c[2] \in Nat /\ 1 <= c[1] /\ c[1] <= c[2]
      /\ c[2] <= Parallel!length /\ Parallel!length \in Nat
  BY RangeIs
<1>2. PICK h \in Int : h = (c[2] - c[1] + 1) \div 2
  BY <1>1
<1>3. 1 <= h /\ h < c[2] - c[1] + 1
  <2>1. c[2] - c[1] + 1 >= 2
    BY <1>1 DEF Parallel!Short, Parallel!ParallelAssumption
  <2>2. 2 * h <= c[2] - c[1] + 1 /\ c[2] - c[1] + 1 < 2 * h + 2
    BY <1>1, <1>2
  <2>3. QED
    BY <1>1, <1>2, <2>1, <2>2
<1>4. f = <<c[1], c[1] + h - 1>> /\ s = <<c[1] + h, c[2]>>
  BY <1>2 DEF Parallel!FirstHalf, Parallel!SecondHalf
<1>5. f[1] = c[1] /\ f[2] = c[1] + h - 1 /\ s[1] = c[1] + h /\ s[2] = c[2]
  BY <1>4
<1>6. f \in Parallel!Blocks /\ s \in Parallel!Blocks
  <2>1. Parallel!length # 0
    BY <1>1
  <2>2. f \in Parallel!Ranges /\ s \in Parallel!Ranges
    BY <1>1, <1>3, <1>4 DEF Parallel!Ranges
  <2>3. QED
    BY <2>1, <2>2 DEF Parallel!Blocks
<1>7. QED
  BY <1>1, <1>3, <1>5, <1>6 DEF Inside, Apart

\* All of them are in that of the first call.
LEMMA RootIsRange ==
    ASSUME Parallel!ParallelAssumption, CallOK, Parallel!recursive, Parallel!length > 0
    PROVE  /\ Parallel!Root \in Parallel!Blocks
           /\ \A c \in Parallel!Blocks : Inside(c, Parallel!Root)
<1>1. Parallel!length \in Nat /\ Parallel!length # 0
  BY LenProperties DEF Parallel!ParallelAssumption, CallOK, Parallel!length
<1>2. Parallel!Root \in Parallel!Blocks
  BY <1>1 DEF Parallel!Root, Parallel!Blocks, Parallel!Ranges
<1>3. \A c \in Parallel!Blocks : Inside(c, Parallel!Root)
  BY RangeIs DEF Inside, Parallel!Root
<1>4. QED
  BY <1>2, <1>3

\* How ranges lie.
LEMMA RangesLie ==
    ASSUME Parallel!ParallelAssumption, CallOK, Parallel!recursive,
           NEW a \in Parallel!Blocks, NEW b \in Parallel!Blocks, NEW c \in Parallel!Blocks
    PROVE  /\ Inside(a, a)
           /\ Inside(a, b) /\ Inside(b, c) => Inside(a, c)
           /\ Inside(a, b) /\ Apart(b, c) => Apart(a, c) /\ Apart(c, a)
           /\ Apart(a, b) => Apart(b, a) /\ ~Inside(a, b) /\ ~Inside(b, a)
<1>1. /\ a[1] \in Nat /\ a[2] \in Nat /\ a[1] <= a[2]
      /\ b[1] \in Nat /\ b[2] \in Nat /\ b[1] <= b[2]
      /\ c[1] \in Nat /\ c[2] \in Nat /\ c[1] <= c[2]
  BY RangeIs
<1>2. QED
  BY <1>1 DEF Inside, Apart

-------------------------------------------------------------------------------
\* A step of FindRecursive.
LEMMA RecursiveActions ==
    ASSUME p_algorithm = "FindRecursive", RecursiveInv, NEW c \in Parallel!Blocks,
           Parallel!Step(c)
    PROVE  /\ \/ Parallel!divide(c) \/ Parallel!searchShort(c)
              \/ Parallel!combine(c) \/ Parallel!storeDone(c)
           /\ p_result = None /\ UNCHANGED Parallel!call /\ p_result' = None
           /\ UNCHANGED <<p_data, p_started, p_found>>
<1>1. p_pc[c] \notin {"last", "others"} /\ Parallel!recursive
  BY DEF RecursiveInv, Outcome, Parallel!recursive
<1>2. \/ Parallel!divide(c) \/ Parallel!searchShort(c)
      \/ Parallel!combine(c) \/ Parallel!storeDone(c)
  BY <1>1 DEF Parallel!Step, Parallel!start, Parallel!compare, Parallel!apply,
     Parallel!accumulate, Parallel!sumBlock, Parallel!addToLast, Parallel!addToOthers,
     Parallel!At
<1>3. QED
  BY <1>2 DEF Parallel!Step, Parallel!divide, Parallel!searchShort, Parallel!combine,
     Parallel!storeDone, Parallel!find

\* The tree of calls stays as it is.
LEMMA TreeKept ==
    ASSUME Parallel!ParallelAssumption, CallOK, Parallel!recursive,
           UNCHANGED Parallel!call, RecursiveInv, Parallel!TypeOK,
           NEW c \in Parallel!Blocks, NEW l,
           p_pc' = [p_pc EXCEPT ![c] = l],
           p_pc[c] \notin {"new", "ended"}, l # "new",
           ~Parallel!Short(c) =>
             /\ p_pc[c] = "halves" /\ l = "ended"
             /\ p_pc[Parallel!FirstHalf(c)] = "ended"
             /\ p_pc[Parallel!SecondHalf(c)] = "ended"
    PROVE  /\ Nested' /\ InHalves' /\ HalvesCalled'
           /\ (Parallel!length > 0 => Called(Parallel!Root))'
<1>1. Parallel!Blocks' = Parallel!Blocks /\ Parallel!length' = Parallel!length
      /\ Parallel!Root' = Parallel!Root
  BY CallKept
<1>2. p_pc \in [Parallel!Blocks -> Parallel!Steps]
      /\ \A d \in Parallel!Blocks : p_pc'[d] = IF d = c THEN l ELSE p_pc[d]
  BY DEF Parallel!TypeOK
<1>3. ASSUME NEW d \in Parallel!Blocks
      PROVE  (Called(d)' <=> Called(d)) /\ (Divided(d)' <=> Divided(d))
  BY <1>2 DEF Called, Divided
<1>4. Nested'
  BY <1>1, <1>3 DEF RecursiveInv, Nested
<1>5. InHalves'
  BY <1>1, <1>3 DEF RecursiveInv, InHalves
<1>6. HalvesCalled'
  <2>1. SUFFICES ASSUME NEW a \in Parallel!Blocks, Divided(a)
        PROVE  /\ Called(Parallel!FirstHalf(a))' /\ Called(Parallel!SecondHalf(a))'
               /\ p_pc'[a] = "ended" => /\ p_pc'[Parallel!FirstHalf(a)] = "ended"
                                        /\ p_pc'[Parallel!SecondHalf(a)] = "ended"
    BY <1>1, <1>3 DEF HalvesCalled
  <2>2. PICK f, s : f = Parallel!FirstHalf(a) /\ s = Parallel!SecondHalf(a)
    OBVIOUS
  <2>3. f \in Parallel!Blocks /\ s \in Parallel!Blocks /\ f # a /\ s # a
    BY <2>1, <2>2, HalvesAre DEF Divided
  <2>4. /\ p_pc[f] # "new" /\ p_pc[s] # "new"
        /\ p_pc[a] = "ended" => p_pc[f] = "ended" /\ p_pc[s] = "ended"
    BY <2>1, <2>2 DEF RecursiveInv, HalvesCalled, Called
  <2>5. /\ p_pc'[f] = IF f = c THEN l ELSE p_pc[f]
        /\ p_pc'[s] = IF s = c THEN l ELSE p_pc[s]
        /\ p_pc'[a] = IF a = c THEN l ELSE p_pc[a]
    BY <1>2, <2>3
  <2>6. a = c => p_pc[f] = "ended" /\ p_pc[s] = "ended"
    BY <2>1, <2>2 DEF Divided
  <2>7. /\ p_pc'[f] # "new" /\ p_pc'[s] # "new"
        /\ p_pc'[a] = "ended" => p_pc'[f] = "ended" /\ p_pc'[s] = "ended"
    BY <2>3, <2>4, <2>5, <2>6
  <2>8. QED
    BY <2>2, <2>7 DEF Called
<1>7. Parallel!length > 0 => Called(Parallel!Root)'
  <2>1. Parallel!length > 0 => Parallel!Root \in Parallel!Blocks
    BY RootIsRange
  <2>2. QED
    BY <1>1, <1>2, <1>3, <2>1 DEF RecursiveInv, Called
<1>8. QED
  BY <1>1, <1>4, <1>5, <1>6, <1>7

\* The facts about the calls that a step starts from.
LEMMA RecursiveAt ==
    ASSUME Parallel!ParallelAssumption, ParallelInv, p_algorithm = "FindRecursive",
           NEW c \in Parallel!Blocks
    PROVE  /\ CallOK /\ Parallel!recursive /\ Parallel!TypeOK /\ RecursiveInv /\ Outcome(c)
           /\ p_at[c] \in Nat
BY CallTyped DEF ParallelInv, Parallel!recursive, RecursiveInv, Parallel!TypeOK

\* A call that is not divided has nobody below it.
LEMMA NobodyBelow ==
    ASSUME RecursiveInv, NEW c \in Parallel!Blocks, Called(c), ~Divided(c),
           NEW d \in Parallel!Blocks, Called(d), Inside(d, c)
    PROVE  d = c
BY DEF RecursiveInv, InHalves

LEMMA RecursiveDivide ==
    ASSUME Parallel!ParallelAssumption, ParallelInv, p_algorithm = "FindRecursive",
           NEW c \in Parallel!Blocks, p_result = None, Parallel!divide(c)
    PROVE  Parallel!TypeOK' /\ RecursiveInv'
<1>1. /\ CallOK /\ Parallel!recursive /\ Parallel!TypeOK /\ RecursiveInv /\ Outcome(c)
  BY RecursiveAt
<1>2. PICK f, s : f = Parallel!FirstHalf(c) /\ s = Parallel!SecondHalf(c)
  OBVIOUS
<1>3. /\ UNCHANGED Parallel!call /\ p_data' = p_data /\ p_at' = p_at /\ p_found' = p_found
      /\ p_done' = p_done /\ p_future' = p_future /\ p_result' = p_result
      /\ p_started' = p_started /\ p_pc[c] = "work" /\ ~Parallel!Short(c)
      /\ p_pc' = [p_pc EXCEPT ![c] = "halves", ![f] = "work", ![s] = "work"]
  BY <1>2 DEF Parallel!divide, Parallel!At, Parallel!find
<1>4. /\ f \in Parallel!Blocks /\ s \in Parallel!Blocks
      /\ f # c /\ s # c /\ f # s
      /\ Inside(f, c) /\ Inside(s, c) /\ Apart(f, s) /\ Apart(s, f)
      /\ ~Inside(c, f) /\ ~Inside(c, s)
  BY <1>1, <1>2, <1>3, HalvesAre
<1>5. Called(c) /\ ~Divided(c) /\ ~Silent(c)
  BY <1>3 DEF Called, Divided, Silent
<1>6. p_pc[f] = "new" /\ p_pc[s] = "new"
  BY <1>1, <1>4, <1>5, NobodyBelow DEF Called
<1>7. Parallel!TypeOK'
  BY <1>1, <1>3, CallKept DEF Parallel!TypeOK, Parallel!Steps
<1>8. \A d \in Parallel!Blocks : p_pc'[d] = IF d = c THEN "halves"
                                            ELSE IF d = f \/ d = s THEN "work" ELSE p_pc[d]
  BY <1>1, <1>3, <1>4 DEF Parallel!TypeOK
<1>9. ASSUME NEW d \in Parallel!Blocks
      PROVE  /\ Called(d)' <=> Called(d) \/ d = f \/ d = s
             /\ Divided(d)' <=> Divided(d) \/ d = c
             /\ Silent(d)' <=> Silent(d)
             /\ p_pc'[d] = "ended" <=> p_pc[d] = "ended"
  <2>1. CASE d = c
    <3>1. p_pc[d] = "work" /\ p_pc'[d] = "halves"
      BY <1>3, <1>8, <2>1
    <3>2. QED
      BY <1>3, <1>4, <2>1, <3>1 DEF Called, Divided, Silent
  <2>2. CASE d = f \/ d = s
    <3>1. p_pc[d] = "new" /\ p_pc'[d] = "work" /\ d # c
      BY <1>4, <1>6, <1>8, <2>2
    <3>2. QED
      BY <2>2, <3>1 DEF Called, Divided, Silent
  <2>3. CASE d # c /\ d # f /\ d # s
    <3>1. p_pc'[d] = p_pc[d] /\ p_future'[d] = p_future[d]
      BY <1>3, <1>8, <2>3
    <3>2. QED
      BY <2>3, <3>1 DEF Called, Divided, Silent
  <2>4. QED
    BY <2>1, <2>2, <2>3
\* No call but c is in the range of c, and one that is not apart from c has c in a half.
<1>10. ASSUME NEW d \in Parallel!Blocks, Called(d), d # c
       PROVE  /\ ~Inside(d, c) /\ ~Inside(d, f) /\ ~Inside(d, s)
              /\ Inside(c, d) \/ Apart(c, d)
              /\ Inside(f, d) => Inside(c, d)
              /\ Inside(s, d) => Inside(c, d)
  <2>1. ~Inside(d, c)
    BY <1>1, <1>5, <1>10, NobodyBelow
  <2>2. Inside(c, d) \/ Apart(c, d)
    BY <1>1, <1>5, <1>10, <2>1 DEF RecursiveInv, Nested
  <2>3. ~Inside(d, f) /\ ~Inside(d, s)
    BY <1>1, <1>4, <2>1, RangesLie
  <2>4. Apart(c, d) => ~Inside(f, d) /\ ~Inside(s, d)
    BY <1>1, <1>4, RangesLie
  <2>5. QED
    BY <2>1, <2>2, <2>3, <2>4
<1>11. ASSUME NEW h \in {f, s}
       PROVE  /\ h \in Parallel!Blocks /\ Inside(h, c) /\ h # c /\ Inside(h, h)
              /\ h = f \/ h = s
              /\ ~Inside(c, h)
  BY <1>1, <1>4, RangesLie
<1>12. Nested'
  <2>1. ASSUME NEW h \in {f, s}, NEW d \in Parallel!Blocks, Called(d)
        PROVE  Inside(h, d) \/ (Apart(h, d) /\ Apart(d, h))
    <3>1. CASE d = c
      BY <1>11, <2>1, <3>1
    <3>2. CASE d # c /\ Inside(c, d)
      BY <1>1, <1>11, <2>1, <3>2, RangesLie
    <3>3. CASE d # c /\ Apart(c, d)
      BY <1>1, <1>11, <2>1, <3>3, RangesLie
    <3>4. QED
      BY <1>10, <2>1, <3>1, <3>2, <3>3
  <2>2. ASSUME NEW a \in Parallel!Blocks, NEW d \in Parallel!Blocks, Called(a)', Called(d)'
        PROVE  Inside(a, d) \/ Inside(d, a) \/ Apart(a, d)
    <3>1. CASE Called(a) /\ Called(d)
      BY <1>1, <3>1 DEF RecursiveInv, Nested
    <3>2. CASE a \in {f, s} /\ Called(d)
      BY <2>1, <3>2
    <3>3. CASE Called(a) /\ d \in {f, s}
      BY <2>1, <3>3
    <3>4. CASE a \in {f, s} /\ d \in {f, s}
      BY <1>4, <1>11, <3>4
    <3>5. QED
      BY <1>9, <2>2, <3>1, <3>2, <3>3, <3>4
  <2>3. QED
    BY <1>3, <2>2, CallKept DEF Nested
<1>13. InHalves'
  <2>1. ASSUME NEW a \in Parallel!Blocks, NEW d \in Parallel!Blocks,
               Called(a)', Called(d)', Inside(d, a), d # a
        PROVE  /\ Divided(a)'
               /\ Inside(d, Parallel!FirstHalf(a)) \/ Inside(d, Parallel!SecondHalf(a))
    <3>1. CASE a \in {f, s}
      <4>1. d # c
        BY <1>11, <2>1, <3>1
      <4>2. ~Called(d)
        BY <1>10, <2>1, <3>1, <4>1
      <4>3. d \in {f, s}
        BY <1>9, <2>1, <4>2
      <4>4. (a = f /\ d = s) \/ (a = s /\ d = f)
        BY <2>1, <3>1, <4>3
      <4>5. FALSE
        BY <1>1, <1>4, <2>1, <4>4, RangesLie
      <4>6. QED
        BY <4>5
    <3>2. CASE a = c
      <4>1. d \in {f, s}
        BY <1>9, <1>10, <2>1, <3>2
      <4>2. QED
        BY <1>2, <1>9, <1>11, <3>2, <4>1
    <3>3. CASE a # c /\ a \notin {f, s}
      <4>1. Called(a)
        BY <1>9, <2>1, <3>3
      <4>2. CASE Called(d)
        BY <1>1, <1>9, <2>1, <4>1, <4>2 DEF RecursiveInv, InHalves
      <4>3. CASE d \in {f, s}
        <5>1. Inside(c, a)
          BY <1>10, <2>1, <3>3, <4>1, <4>3
        <5>2. PICK x, y : x = Parallel!FirstHalf(a) /\ y = Parallel!SecondHalf(a)
          OBVIOUS
        <5>3. Divided(a) /\ (Inside(c, x) \/ Inside(c, y))
          BY <1>1, <1>5, <3>3, <4>1, <5>1, <5>2 DEF RecursiveInv, InHalves
        <5>4. x \in Parallel!Blocks /\ y \in Parallel!Blocks
          BY <1>1, <5>2, <5>3, HalvesAre DEF Divided
        <5>5. Inside(d, x) \/ Inside(d, y)
          BY <1>1, <1>11, <4>3, <5>3, <5>4, RangesLie
        <5>6. QED
          BY <1>9, <5>2, <5>3, <5>5
      <4>4. QED
        BY <1>9, <2>1, <4>2, <4>3
    <3>4. QED
      BY <3>1, <3>2, <3>3
  <2>2. QED
    BY <1>3, <2>1, CallKept DEF InHalves
<1>14. HalvesCalled'
  <2>1. ASSUME NEW a \in Parallel!Blocks, Divided(a)'
        PROVE  /\ Called(Parallel!FirstHalf(a))' /\ Called(Parallel!SecondHalf(a))'
               /\ p_pc'[a] = "ended" => /\ p_pc'[Parallel!FirstHalf(a)] = "ended"
                                        /\ p_pc'[Parallel!SecondHalf(a)] = "ended"
    <3>1. CASE a = c
      <4>1. Called(f)' /\ Called(s)' /\ p_pc'[a] = "halves"
        BY <1>4, <1>8, <1>9, <3>1
      <4>2. QED
        BY <1>2, <3>1, <4>1
    <3>2. CASE a # c
      <4>1. PICK x, y : x = Parallel!FirstHalf(a) /\ y = Parallel!SecondHalf(a)
        OBVIOUS
      <4>2. Divided(a)
        BY <1>9, <2>1, <3>2
      <4>3. x \in Parallel!Blocks /\ y \in Parallel!Blocks
        BY <1>1, <4>1, <4>2, HalvesAre DEF Divided
      <4>4. /\ Called(x) /\ Called(y)
            /\ p_pc[a] = "ended" => p_pc[x] = "ended" /\ p_pc[y] = "ended"
        BY <1>1, <4>1, <4>2 DEF RecursiveInv, HalvesCalled
      <4>5. /\ Called(x)' /\ Called(y)'
            /\ p_pc'[a] = "ended" => p_pc'[x] = "ended" /\ p_pc'[y] = "ended"
        BY <1>9, <4>3, <4>4
      <4>6. QED
        BY <4>1, <4>5
    <3>3. QED
      BY <3>1, <3>2
  <2>2. QED
    BY <1>3, <2>1, CallKept DEF HalvesCalled
<1>15. ASSUME NEW d \in Parallel!Blocks PROVE Outcome(d)'
  <2>1. Outcome(d)
    BY <1>1 DEF RecursiveInv
  <2>2. CASE d = c
    <3>1. p_pc'[d] = "halves" /\ ~Parallel!Short(d)
      BY <1>3, <1>8, <2>2
    <3>2. QED
      BY <3>1 DEF Outcome
  <2>3. CASE d \in {f, s}
    <3>1. p_pc[d] = "new" /\ p_pc'[d] = "work" /\ p_at'[d] = p_at[d]
      BY <1>3, <1>4, <1>6, <1>8, <2>3
    <3>2. QED
      BY <1>3, <2>1, <3>1, CallKept DEF Outcome
  <2>4. CASE d # c /\ d \notin {f, s}
    <3>1. p_pc'[d] = p_pc[d]
      BY <1>8, <2>4
    <3>2. QED
      BY <1>3, <2>1, <3>1, CallKept DEF Outcome
  <2>5. QED
    BY <2>2, <2>3, <2>4
<1>16. ASSUME NEW a \in Parallel!Blocks, NEW d \in Parallel!Blocks,
              Silent(a)', Called(d)', Inside(d, a)
       PROVE  Silent(d)'
  <2>1. Silent(a) /\ Called(a) /\ a # c
    BY <1>5, <1>9, <1>16 DEF Silent, Called
  <2>2. ~Inside(c, a)
    BY <1>1, <1>5, <2>1 DEF RecursiveInv
  <2>3. d \notin {f, s}
    BY <1>10, <1>16, <2>1, <2>2
  <2>4. QED
    BY <1>1, <1>9, <1>16, <2>1, <2>3 DEF RecursiveInv
<1>17. p_done' => \E d \in Parallel!Blocks : p_pc'[d] = "ended" /\ p_future'[d] # NotFound
  BY <1>1, <1>3, <1>9 DEF RecursiveInv
<1>18. Parallel!length > 0 => Called(Parallel!Root)'
  <2>1. SUFFICES ASSUME Parallel!length > 0 PROVE Called(Parallel!Root)'
    OBVIOUS
  <2>2. PICK r \in Parallel!Blocks : r = Parallel!Root /\ Called(r)
    BY <1>1, <2>1, RootIsRange DEF RecursiveInv
  <2>3. Called(r)'
    BY <1>9, <2>2
  <2>4. Parallel!Root' = Parallel!Root
    BY <1>3, CallKept
  <2>5. QED
    BY <2>2, <2>3, <2>4 DEF Called
<1>19. QED
  BY <1>3, <1>7, <1>12, <1>13, <1>14, <1>15, <1>16, <1>17, <1>18, CallKept
     DEF RecursiveInv

\* A step of a call that leaves the other calls alone.
CallMoves(c, l) ==
    /\ p_pc' = [p_pc EXCEPT ![c] = l]
    /\ p_pc[c] \notin {"new", "ended"} /\ l # "new"
    /\ \A d \in Parallel!Blocks :
         d # c => p_future'[d] = p_future[d] /\ p_at'[d] = p_at[d]
    /\ p_done => p_done'

LEMMA CallMoved ==
    ASSUME Parallel!ParallelAssumption, CallOK, Parallel!recursive,
           UNCHANGED Parallel!call, RecursiveInv, Parallel!TypeOK,
           NEW c \in Parallel!Blocks, NEW l, CallMoves(c, l),
           ~Parallel!Short(c) =>
             /\ p_pc[c] = "halves" /\ l = "ended"
             /\ p_pc[Parallel!FirstHalf(c)] = "ended"
             /\ p_pc[Parallel!SecondHalf(c)] = "ended",
           Outcome(c)',
           Silent(c)' => \A d \in Parallel!Blocks :
                           Called(d) /\ Inside(d, c) /\ d # c => Silent(d),
           p_done' => p_done \/ (l = "ended" /\ p_future'[c] # NotFound)
    PROVE  RecursiveInv'
<1>1. /\ p_pc' = [p_pc EXCEPT ![c] = l]
      /\ p_pc[c] \notin {"new", "ended"} /\ l # "new"
      /\ \A d \in Parallel!Blocks :
           d # c => p_future'[d] = p_future[d] /\ p_at'[d] = p_at[d]
      /\ p_done => p_done'
  BY DEF CallMoves
<1>2. Nested' /\ InHalves' /\ HalvesCalled' /\ (Parallel!length > 0 => Called(Parallel!Root))'
  BY <1>1, TreeKept
<1>3. \A d \in Parallel!Blocks : p_pc'[d] = IF d = c THEN l ELSE p_pc[d]
  BY <1>1 DEF Parallel!TypeOK
<1>4. ASSUME NEW d \in Parallel!Blocks
      PROVE  /\ Called(d)' <=> Called(d)
             /\ d # c => (Silent(d)' <=> Silent(d))
             /\ Called(c) /\ ~Silent(c)
  BY <1>1, <1>3 DEF Called, Silent
<1>5. ASSUME NEW d \in Parallel!Blocks PROVE Outcome(d)'
  <2>1. CASE d = c
    BY <2>1
  <2>2. CASE d # c
    <3>1. Outcome(d) /\ p_pc'[d] = p_pc[d] /\ p_future'[d] = p_future[d]
          /\ p_at'[d] = p_at[d]
      BY <1>1, <1>3, <2>2 DEF RecursiveInv
    <3>2. QED
      BY <1>1, <3>1, CallKept DEF Outcome
  <2>3. QED
    BY <2>1, <2>2
<1>6. ASSUME NEW a \in Parallel!Blocks, NEW d \in Parallel!Blocks,
             Silent(a)', Called(d)', Inside(d, a)
      PROVE  Silent(d)'
  <2>1. CASE a = c
    <3>1. CASE d = c
      BY <1>6, <2>1, <3>1
    <3>2. CASE d # c
      BY <1>4, <1>6, <2>1, <3>2
    <3>3. QED
      BY <3>1, <3>2
  <2>2. CASE a # c
    <3>1. Silent(a) /\ Called(d)
      BY <1>4, <1>6, <2>2
    <3>2. Silent(d)
      BY <1>6, <3>1 DEF RecursiveInv
    <3>3. QED
      BY <1>4, <3>2
  <2>3. QED
    BY <2>1, <2>2
<1>7. ASSUME p_done'
      PROVE  \E d \in Parallel!Blocks : p_pc'[d] = "ended" /\ p_future'[d] # NotFound
  <2>1. CASE p_done
    <3>1. PICK d \in Parallel!Blocks : p_pc[d] = "ended" /\ p_future[d] # NotFound
      BY <2>1 DEF RecursiveInv
    <3>2. d # c
      BY <1>1, <3>1
    <3>3. QED
      BY <1>1, <1>3, <3>1, <3>2
  <2>2. CASE l = "ended" /\ p_future'[c] # NotFound
    BY <1>3, <2>2
  <2>3. QED
    BY <1>7, <2>1, <2>2
<1>8. QED
  BY <1>2, <1>5, <1>6, <1>7, CallKept DEF RecursiveInv

LEMMA RecursiveDone ==
    ASSUME Parallel!ParallelAssumption, ParallelInv, p_algorithm = "FindRecursive",
           NEW c \in Parallel!Blocks, p_result = None, Parallel!storeDone(c)
    PROVE  Parallel!TypeOK' /\ RecursiveInv'
<1>1. /\ CallOK /\ Parallel!recursive /\ Parallel!TypeOK /\ RecursiveInv /\ Outcome(c)
  BY RecursiveAt
<1>2. /\ UNCHANGED Parallel!call /\ p_data' = p_data /\ p_at' = p_at /\ p_found' = p_found
      /\ p_done' = TRUE /\ p_future' = p_future /\ p_result' = p_result
      /\ p_started' = p_started /\ p_pc[c] = "flag"
      /\ p_pc' = [p_pc EXCEPT ![c] = "ended"]
  BY DEF Parallel!storeDone, Parallel!Goto
<1>3. Parallel!TypeOK'
  BY <1>1, <1>2, CallKept DEF Parallel!TypeOK, Parallel!Steps
<1>4. p_pc'[c] = "ended" /\ p_future'[c] # NotFound /\ Parallel!Short(c)
  BY <1>1, <1>2 DEF Outcome, Parallel!TypeOK
<1>5. Outcome(c)'
  BY <1>1, <1>2, <1>4, CallKept DEF Outcome
<1>6. CallMoves(c, "ended") /\ ~Silent(c)'
  BY <1>2, <1>4 DEF CallMoves, Silent
<1>7. RecursiveInv'
  BY <1>1, <1>2, <1>4, <1>5, <1>6, CallMoved
<1>8. QED
  BY <1>3, <1>7

LEMMA RecursiveShort ==
    ASSUME Parallel!ParallelAssumption, ParallelInv, p_algorithm = "FindRecursive",
           NEW c \in Parallel!Blocks, p_result = None, Parallel!searchShort(c)
    PROVE  Parallel!TypeOK' /\ RecursiveInv'
<1>1. /\ CallOK /\ Parallel!recursive /\ Parallel!TypeOK /\ RecursiveInv /\ Outcome(c)
      /\ p_at[c] \in Nat
  BY RecursiveAt
<1>2. /\ UNCHANGED Parallel!call /\ p_data' = p_data /\ p_found' = p_found
      /\ p_done' = p_done /\ p_result' = p_result
      /\ p_started' = p_started /\ p_pc[c] = "work" /\ Parallel!Short(c)
  BY DEF Parallel!searchShort, Parallel!At, Parallel!find
<1>3. /\ c[1] \in Nat /\ c[2] \in Nat /\ 1 <= c[1] /\ c[1] <= c[2]
      /\ c[2] <= Parallel!length /\ Parallel!length \in Nat
      /\ Parallel!First(c) = c[1] /\ Parallel!Last(c) = c[2]
  BY <1>1, RangeIs
<1>4. c[1] <= p_at[c] /\ Scanned(c[1], p_at[c] - 1)
  BY <1>1, <1>2, <1>3 DEF Outcome
<1>5. Called(c) /\ ~Divided(c)
  BY <1>2 DEF Called, Divided
<1>6. \A d \in Parallel!Blocks : Called(d) /\ Inside(d, c) => d = c
  BY <1>1, <1>5, NobodyBelow
<1>7. CASE Parallel!Ended(c) \/ p_done
  <2>1. /\ p_future' = [p_future EXCEPT ![c] = NotFound] /\ p_at' = p_at
        /\ p_pc' = [p_pc EXCEPT ![c] = "ended"]
    BY <1>7 DEF Parallel!searchShort, Parallel!Goto
  <2>2. Parallel!TypeOK'
    BY <1>1, <1>2, <2>1, CallKept DEF Parallel!TypeOK, Parallel!Steps
  <2>3. p_pc'[c] = "ended" /\ p_future'[c] = NotFound
    BY <1>1, <2>1 DEF Parallel!TypeOK
  <2>4. p_done \/ Scanned(c[1], c[2])
    <3>1. ASSUME ~p_done PROVE Scanned(c[1], c[2])
      <4>1. \A k \in c[1] .. c[2] : k \in c[1] .. p_at[c] - 1
        BY <1>1, <1>3, <1>7, <3>1 DEF Parallel!Ended
      <4>2. QED
        BY <1>4, <4>1 DEF Scanned
    <3>2. QED
      BY <3>1
  <2>5. Outcome(c)'
    <3>1. NotFound # None /\ NotFound # Thrown /\ NotFound \notin Int
      BY MarksDiffer
    <3>2. QED
      BY <1>2, <2>3, <2>4, <3>1, CallKept DEF Outcome
  <2>6. CallMoves(c, "ended")
    <3>1. \A d \in Parallel!Blocks :
            d # c => p_future'[d] = p_future[d] /\ p_at'[d] = p_at[d]
      BY <1>1, <2>1 DEF Parallel!TypeOK
    <3>2. QED
      BY <1>2, <2>1, <3>1 DEF CallMoves
  <2>7. RecursiveInv'
    BY <1>1, <1>2, <1>6, <2>5, <2>6, CallMoved
  <2>8. QED
    BY <2>2, <2>7
<1>8. ASSUME ~(Parallel!Ended(c) \/ p_done)
      PROVE  p_at[c] \in 1 .. Parallel!length
  BY <1>1, <1>3, <1>4, <1>8 DEF Parallel!Ended
<1>9. CASE ~(Parallel!Ended(c) \/ p_done) /\ p_list[p_at[c]] \in {Match, Bad}
  <2> DEFINE r == IF p_list[p_at[c]] = Bad THEN Thrown ELSE p_at[c]
  <2>1. /\ p_future' = [p_future EXCEPT ![c] = r] /\ p_at' = p_at
        /\ p_pc' = [p_pc EXCEPT ![c] = "flag"]
    BY <1>9 DEF Parallel!searchShort, Parallel!Goto
  <2>2. /\ r \in Int \cup {Thrown} /\ r # NotFound /\ r # None
        /\ r = Thrown => Parallel!Has(Bad)
        /\ r \in Int => r \in 1 .. Parallel!length /\ p_list[r] = Match
    BY <1>8, <1>9, MarksDiffer DEF Parallel!Has
  <2> HIDE DEF r
  <2>3. Parallel!TypeOK'
    BY <1>1, <1>2, <2>1, <2>2, CallKept DEF Parallel!TypeOK, Parallel!Steps
  <2>4. p_pc'[c] = "flag" /\ p_future'[c] = r
    BY <1>1, <2>1 DEF Parallel!TypeOK
  <2>5. Outcome(c)' /\ ~Silent(c)'
    BY <1>2, <2>2, <2>4, CallKept DEF Outcome, Silent
  <2>6. CallMoves(c, "flag")
    <3>1. \A d \in Parallel!Blocks :
            d # c => p_future'[d] = p_future[d] /\ p_at'[d] = p_at[d]
      BY <1>1, <2>1 DEF Parallel!TypeOK
    <3>2. QED
      BY <1>2, <2>1, <3>1 DEF CallMoves
  <2>7. RecursiveInv'
    BY <1>1, <1>2, <2>5, <2>6, CallMoved
  <2>8. QED
    BY <2>3, <2>7
<1>10. CASE ~(Parallel!Ended(c) \/ p_done) /\ p_list[p_at[c]] \notin {Match, Bad}
  <2>1. /\ p_future' = p_future /\ p_at' = [p_at EXCEPT ![c] = @ + 1] /\ p_pc' = p_pc
    BY <1>10 DEF Parallel!searchShort, Parallel!Advance
  <2>2. p_at' \in [Parallel!Blocks -> Nat]
        /\ \A d \in Parallel!Blocks : p_at'[d] = IF d = c THEN p_at[c] + 1 ELSE p_at[d]
    BY <1>1, <2>1 DEF Parallel!TypeOK
  <2>3. Parallel!TypeOK'
    BY <1>1, <1>2, <2>1, <2>2, CallKept DEF Parallel!TypeOK
  <2>4. Scanned(c[1], p_at'[c] - 1)
    <3>1. \A k \in c[1] .. p_at'[c] - 1 : k = p_at[c] \/ k \in c[1] .. p_at[c] - 1
      BY <1>1, <1>3, <2>2
    <3>2. QED
      BY <1>4, <1>10, <3>1 DEF Scanned
  <2>5. Outcome(c)'
    <3>1. c[1] <= p_at'[c] /\ p_pc'[c] = "work"
      BY <1>1, <1>2, <1>3, <1>4, <2>1, <2>2
    <3>2. QED
      BY <1>2, <1>3, <2>4, <3>1, CallKept DEF Outcome
  <2>6. ~Silent(c)' /\ CallMoves(c, "work")
    <3>1. p_pc' = [p_pc EXCEPT ![c] = "work"]
      BY <1>1, <1>2, <2>1 DEF Parallel!TypeOK
    <3>2. QED
      BY <1>2, <2>1, <2>2, <3>1 DEF CallMoves, Silent
  <2>7. RecursiveInv'
    BY <1>1, <1>2, <2>5, <2>6, CallMoved
  <2>8. QED
    BY <2>3, <2>7
<1>11. QED
  BY <1>7, <1>9, <1>10

LEMMA RecursiveCombine ==
    ASSUME Parallel!ParallelAssumption, ParallelInv, p_algorithm = "FindRecursive",
           NEW c \in Parallel!Blocks, p_result = None, Parallel!combine(c)
    PROVE  Parallel!TypeOK' /\ RecursiveInv'
<1>1. /\ CallOK /\ Parallel!recursive /\ Parallel!TypeOK /\ RecursiveInv /\ Outcome(c)
  BY RecursiveAt
<1>2. PICK f, s : f = Parallel!FirstHalf(c) /\ s = Parallel!SecondHalf(c)
  OBVIOUS
<1> DEFINE r == IF p_future[f] = NotFound THEN p_future[s] ELSE p_future[f]
<1>3. /\ UNCHANGED Parallel!call /\ p_data' = p_data /\ p_at' = p_at /\ p_found' = p_found
      /\ p_done' = p_done /\ p_result' = p_result /\ p_started' = p_started
      /\ p_pc[c] = "halves" /\ p_pc[f] = "ended" /\ p_pc[s] = "ended"
      /\ p_future' = [p_future EXCEPT ![c] = r]
      /\ p_pc' = [p_pc EXCEPT ![c] = "ended"]
  BY <1>2 DEF Parallel!combine, Parallel!Goto, Parallel!find
<1>4. ~Parallel!Short(c)
  BY <1>1, <1>3 DEF Outcome
<1>5. /\ f \in Parallel!Blocks /\ s \in Parallel!Blocks
      /\ f[1] = c[1] /\ s[1] = f[2] + 1 /\ s[2] = c[2]
      /\ f # c /\ s # c
  BY <1>1, <1>2, <1>4, HalvesAre
<1>6. /\ p_future[f] # None /\ p_future[s] # None
      /\ p_future[f] = Thrown \/ p_future[s] = Thrown => Parallel!Has(Bad)
      /\ p_future[f] \in Int => p_future[f] \in 1 .. Parallel!length
                                /\ p_list[p_future[f]] = Match
      /\ p_future[s] \in Int => p_future[s] \in 1 .. Parallel!length
                                /\ p_list[p_future[s]] = Match
      /\ p_future[f] = NotFound => p_done \/ Scanned(f[1], f[2])
      /\ p_future[s] = NotFound => p_done \/ Scanned(s[1], s[2])
  <2>1. Outcome(f) /\ Outcome(s)
    BY <1>1, <1>5 DEF RecursiveInv
  <2>2. QED
    BY <1>3, <2>1 DEF Outcome
<1>7. r \in {p_future[f], p_future[s]}
      /\ (r = NotFound => p_future[f] = NotFound /\ p_future[s] = NotFound)
  OBVIOUS
<1> HIDE DEF r
<1>8. Parallel!TypeOK'
  <2>1. r \in Int \cup {None, Thrown, NotFound}
    BY <1>1, <1>5, <1>7 DEF Parallel!TypeOK
  <2>2. QED
    BY <1>1, <1>3, <2>1, CallKept DEF Parallel!TypeOK, Parallel!Steps
<1>9. p_pc'[c] = "ended" /\ p_future'[c] = r
  BY <1>1, <1>3 DEF Parallel!TypeOK
<1>10. r = NotFound => p_done \/ Scanned(c[1], c[2])
  <2>1. ASSUME Scanned(f[1], f[2]), Scanned(s[1], s[2]) PROVE Scanned(c[1], c[2])
    <3>1. c[1] \in Nat /\ c[2] \in Nat /\ f[2] \in Nat
      BY <1>1, <1>5, RangeIs
    <3>2. \A k \in c[1] .. c[2] : k \in f[1] .. f[2] \/ k \in s[1] .. s[2]
      BY <1>5, <3>1
    <3>3. QED
      BY <2>1, <3>2 DEF Scanned
  <2>2. QED
    BY <1>6, <1>7, <2>1
<1>11. Outcome(c)'
  <2>1. /\ r # None
        /\ r = Thrown => Parallel!Has(Bad)
        /\ r \in Int => r \in 1 .. Parallel!length /\ p_list[r] = Match
    BY <1>6, <1>7
  <2>2. QED
    BY <1>3, <1>9, <1>10, <2>1, CallKept DEF Outcome
<1>12. ASSUME Silent(c)', NEW d \in Parallel!Blocks, Called(d), Inside(d, c), d # c
       PROVE  Silent(d)
  <2>1. Silent(f) /\ Silent(s)
    BY <1>3, <1>7, <1>9, <1>12 DEF Silent
  <2>2. Inside(d, f) \/ Inside(d, s)
    BY <1>1, <1>2, <1>3, <1>12 DEF RecursiveInv, InHalves, Called
  <2>3. QED
    BY <1>1, <1>5, <1>12, <2>1, <2>2 DEF RecursiveInv
<1>13. CallMoves(c, "ended")
  <2>1. \A d \in Parallel!Blocks :
          d # c => p_future'[d] = p_future[d] /\ p_at'[d] = p_at[d]
    BY <1>1, <1>3 DEF Parallel!TypeOK
  <2>2. QED
    BY <1>3, <2>1 DEF CallMoves
<1>14. RecursiveInv'
  <2>1. p_pc[Parallel!FirstHalf(c)] = "ended" /\ p_pc[Parallel!SecondHalf(c)] = "ended"
    BY <1>2, <1>3
  <2>2. QED
    BY <1>1, <1>3, <1>11, <1>12, <1>13, <2>1, CallMoved
<1>15. QED
  BY <1>8, <1>14

LEMMA RecursiveStep ==
    ASSUME Parallel!ParallelAssumption, ParallelInv, p_algorithm = "FindRecursive",
           NEW c \in Parallel!Blocks, Parallel!Step(c)
    PROVE  Parallel!TypeOK' /\ RecursiveInv' /\ UNCHANGED Parallel!call /\ p_result' = None
<1>1. RecursiveInv
  BY RecursiveAt
<1>2. /\ \/ Parallel!divide(c) \/ Parallel!searchShort(c)
         \/ Parallel!combine(c) \/ Parallel!storeDone(c)
      /\ p_result = None /\ UNCHANGED Parallel!call /\ p_result' = None
  BY <1>1, RecursiveActions
<1>3. QED
  BY <1>2, RecursiveDivide, RecursiveShort, RecursiveCombine, RecursiveDone

-------------------------------------------------------------------------------
\* What the caller returns when it has joined the threads.
LEMMA JoinFind ==
    ASSUME Parallel!ParallelAssumption, ParallelInv, p_algorithm = "Find", Parallel!join
    PROVE  p_result' \in Parallel!Marks \cup Int /\ Parallel!FindAnswers'
<1>1. CallOK /\ ~Parallel!recursive /\ Parallel!TypeOK /\ FindInv /\ UNCHANGED Parallel!call
  BY CallTyped DEF ParallelInv, Parallel!recursive, Parallel!join
<1>2. \A i \in Parallel!Blocks : p_pc[i] \in {"ended", "thrown"}
  BY <1>1 DEF Parallel!join
<1>3. p_result' = IF p_done THEN p_found ELSE NotFound
  BY <1>1 DEF Parallel!join, Parallel!Answer
<1>4. CASE p_done
  <2>1. p_found # None /\ p_found \in (1 .. Parallel!length) \cup {None, Thrown}
    BY <1>1, <1>4 DEF FindInv, Parallel!TypeOK
  <2>2. p_found # Thrown => p_found # NotFound /\ p_found \in Int
    BY <2>1, MarksDiffer
  <2>3. p_result' = p_found
    BY <1>3, <1>4
  <2>4. Parallel!FindAnswers'
    BY <1>1, <2>1, <2>2, <2>3, CallKept, MarksDiffer DEF Parallel!FindAnswers, FindInv
  <2>5. QED
    BY <2>1, <2>2, <2>3, <2>4, MarksDiffer
<1>5. CASE ~p_done
  <2>1. p_found = None
    BY <1>1, <1>2, <1>5 DEF FindInv
  <2>2. ASSUME NEW k \in 1 .. Parallel!length PROVE p_list[k] \notin {Match, Bad}
    <3>1. PICK i \in Parallel!Blocks : k \in Parallel!Block(i)
      BY <1>1, Covered
    <3>2. /\ Scanned(Parallel!First(i), p_at[i] - 1) /\ Parallel!Last(i) < p_at[i]
      BY <1>1, <1>2, <2>1 DEF FindInv, FindPart
    <3>3. /\ Parallel!First(i) \in Nat /\ Parallel!Last(i) \in Nat /\ p_at[i] \in Nat
      BY <1>1, BlockPlaces DEF Parallel!TypeOK
    <3>4. k \in Parallel!First(i) .. p_at[i] - 1
      BY <3>1, <3>2, <3>3 DEF Parallel!Block
    <3>5. QED
      BY <3>2, <3>4 DEF Scanned
  <2>3. ~Parallel!Has(Match) /\ ~Parallel!Has(Bad)
    BY <2>2 DEF Parallel!Has
  <2>4. p_result' = NotFound
    BY <1>3, <1>5
  <2>5. QED
    BY <1>1, <2>3, <2>4, CallKept, MarksDiffer DEF Parallel!FindAnswers
<1>6. QED
  BY <1>4, <1>5

LEMMA JoinRecursive ==
    ASSUME Parallel!ParallelAssumption, ParallelInv, p_algorithm = "FindRecursive",
           Parallel!join
    PROVE  p_result' \in Parallel!Marks \cup Int /\ Parallel!FindAnswers'
<1>1. CallOK /\ Parallel!recursive /\ Parallel!TypeOK /\ RecursiveInv
      /\ UNCHANGED Parallel!call
  BY CallTyped DEF ParallelInv, Parallel!recursive, Parallel!join
<1>2. p_result' = IF Parallel!length = 0 THEN NotFound ELSE p_future[Parallel!Root]
  BY <1>1 DEF Parallel!join, Parallel!Answer
<1>3. Parallel!length \in Nat
  BY <1>1, LenProperties DEF Parallel!ParallelAssumption, CallOK, Parallel!length
<1>4. CASE Parallel!length = 0
  <2>1. ~Parallel!Has(Match) /\ ~Parallel!Has(Bad) /\ p_result' = NotFound
    BY <1>2, <1>4 DEF Parallel!Has
  <2>2. QED
    BY <1>1, <2>1, CallKept, MarksDiffer DEF Parallel!FindAnswers
<1>5. CASE Parallel!length > 0
  <2>1. PICK r \in Parallel!Blocks : r = Parallel!Root
    BY <1>1, <1>5, RootIsRange
  <2>2. Outcome(r) /\ p_pc[r] \in {"ended", "thrown"}
    BY <1>1, <2>1 DEF Parallel!join, RecursiveInv
  <2>3. p_pc[r] = "ended" /\ p_result' = p_future[r]
    BY <1>2, <1>5, <2>1, <2>2 DEF Outcome
  <2>4. /\ p_future[r] \in Int \cup {Thrown, NotFound}
        /\ p_future[r] = Thrown => Parallel!Has(Bad)
        /\ p_future[r] \in Int => p_list[p_future[r]] = Match
        /\ p_future[r] = NotFound => p_done \/ Scanned(r[1], r[2])
    BY <1>1, <2>2, <2>3 DEF Outcome, Parallel!TypeOK
  <2>5. ASSUME p_future[r] = NotFound PROVE ~Parallel!Has(Match) /\ ~Parallel!Has(Bad)
    <3>1. Silent(r)
      BY <2>3, <2>5 DEF Silent
    <3>2. ~p_done
      <4>1. SUFFICES ASSUME p_done PROVE FALSE
        OBVIOUS
      <4>2. PICK d \in Parallel!Blocks : p_pc[d] = "ended" /\ p_future[d] # NotFound
        BY <1>1, <4>1 DEF RecursiveInv
      <4>3. Called(d) /\ Inside(d, r)
        BY <1>1, <1>5, <2>1, <4>2, RootIsRange DEF Called
      <4>4. Silent(d)
        BY <1>1, <3>1, <4>3 DEF RecursiveInv
      <4>5. QED
        BY <4>2, <4>4 DEF Silent
    <3>3. Scanned(1, Parallel!length)
      BY <2>1, <2>4, <2>5, <3>2 DEF Parallel!Root
    <3>4. QED
      BY <3>3 DEF Scanned, Parallel!Has
  <2>6. Parallel!FindAnswers'
    BY <1>1, <2>3, <2>4, <2>5, CallKept, MarksDiffer DEF Parallel!FindAnswers
  <2>7. QED
    BY <2>3, <2>4, <2>6, MarksDiffer
<1>6. QED
  BY <1>3, <1>4, <1>5

LEMMA JoinForEach ==
    ASSUME Parallel!ParallelAssumption, ParallelInv, p_algorithm = "ForEach", Parallel!join
    PROVE  p_result' \in Parallel!Marks \cup Seq(Int) /\ Parallel!ForEachAnswers'
<1>1. CallOK /\ ~Parallel!recursive /\ Parallel!TypeOK /\ ForEachInv
      /\ UNCHANGED Parallel!call
  BY CallTyped DEF ParallelInv, Parallel!recursive, Parallel!join
<1>2. \A i \in Parallel!Blocks : p_pc[i] \in {"ended", "thrown"}
  BY <1>1 DEF Parallel!join
<1>3. p_result' = IF \E i \in Parallel!Blocks : p_pc[i] = "thrown" THEN Thrown ELSE p_data
  BY <1>1 DEF Parallel!join, Parallel!Answer
<1>4. CASE \E i \in Parallel!Blocks : p_pc[i] = "thrown"
  <2>1. Parallel!Has(Bad) /\ p_result' = Thrown
    BY <1>1, <1>3, <1>4 DEF ForEachInv, ForEachPart
  <2>2. QED
    BY <1>1, <2>1, CallKept, MarksDiffer DEF Parallel!ForEachAnswers
<1>5. CASE ~\E i \in Parallel!Blocks : p_pc[i] = "thrown"
  <2>1. ASSUME NEW k \in 1 .. Parallel!length
        PROVE  p_list[k] # Bad /\ p_data[k] = p_list[k] + 1
    <3>1. PICK i \in Parallel!Blocks : k \in Parallel!Block(i)
      BY <1>1, Covered
    <3>2. p_pc[i] = "ended" /\ ForEachPart(i)
      BY <1>1, <1>2, <1>5 DEF ForEachInv
    <3>3. /\ Parallel!First(i) \in Nat /\ Parallel!Last(i) \in Nat /\ p_at[i] \in Nat
      BY <1>1, BlockPlaces DEF Parallel!TypeOK
    <3>4. k < p_at[i]
      BY <3>1, <3>2, <3>3 DEF ForEachPart, Parallel!Block
    <3>5. QED
      BY <3>1, <3>2, <3>4 DEF ForEachPart
  <2>2. p_data \in Seq(Int) /\ DOMAIN p_data = 1 .. Parallel!length
        /\ p_data = [k \in DOMAIN p_data |-> p_data[k]]
    BY <1>1, LenProperties DEF Parallel!TypeOK
  <2>3. p_data = [k \in 1 .. Parallel!length |-> p_list[k] + 1]
    BY <2>1, <2>2
  <2>4. ~Parallel!Has(Bad) /\ p_data # Thrown /\ p_result' = p_data
    BY <1>3, <1>5, <2>1, <2>2, MarksDiffer DEF Parallel!Has
  <2>5. Parallel!ForEachAnswers'
    BY <1>1, <2>3, <2>4, CallKept DEF Parallel!ForEachAnswers
  <2>6. QED
    BY <2>2, <2>4, <2>5
<1>6. QED
  BY <1>4, <1>5

LEMMA JoinPartialSum ==
    ASSUME Parallel!ParallelAssumption, ParallelInv, p_algorithm = "PartialSum",
           Parallel!join
    PROVE  p_result' \in Parallel!Marks \cup Seq(Int) /\ Parallel!PartialSumAnswers'
<1>1. CallOK /\ ~Parallel!recursive /\ Parallel!TypeOK /\ PartialSumInv
      /\ UNCHANGED Parallel!call
  BY CallTyped DEF ParallelInv, Parallel!recursive, Parallel!join
<1>2. \A i \in Parallel!Blocks : p_pc[i] \in {"ended", "thrown"}
  BY <1>1 DEF Parallel!join
<1>3. p_result' = IF \E i \in Parallel!Blocks : p_pc[i] = "thrown" THEN Thrown ELSE p_data
  BY <1>1 DEF Parallel!join, Parallel!Answer
<1>4. CASE \E i \in Parallel!Blocks : p_pc[i] = "thrown"
  <2>1. Parallel!Exceeds /\ p_result' = Thrown
    BY <1>1, <1>3, <1>4 DEF PartialSumInv, PartialSumPart
  <2>2. QED
    BY <1>1, <2>1, CallKept, MarksDiffer DEF Parallel!PartialSumAnswers
<1>5. CASE ~\E i \in Parallel!Blocks : p_pc[i] = "thrown"
  <2>1. ASSUME NEW k \in 1 .. Parallel!length PROVE p_data[k] = Total(k)
    <3>1. PICK i \in Parallel!Blocks : k \in Parallel!Block(i)
      BY <1>1, Covered
    <3>2. PICK n \in Parallel!Blocks : n = Parallel!num_threads
      BY PartialAt
    <3>3. /\ Parallel!Blocks = 1 .. n /\ n \in Nat /\ i \in Nat /\ 1 <= i /\ i <= n
          /\ HandedOn(n) /\ BlockData(i) /\ HandedOn(i)
      BY <3>2, PartialAt
    <3>4. p_future[n] # Thrown /\ p_pc[n] = "ended" /\ p_pc[i] = "ended"
      <4>1. ~(n < n)
        BY <3>3
      <4>2. QED
        BY <1>2, <1>5, <3>2, <3>3, <4>1 DEF HandedOn
    <3>5. i = n \/ i \in 1 .. n - 1
      BY <3>3
    <3>6. p_future[i] # Thrown
      BY <3>3, <3>4, <3>5, MarksDiffer DEF HandedOn
    <3>7. QED
      BY <3>1, <3>3, <3>4, <3>6 DEF BlockData
  <2>2. p_data \in Seq(Int) /\ DOMAIN p_data = 1 .. Parallel!length
        /\ p_data = [k \in DOMAIN p_data |-> p_data[k]]
    BY <1>1, LenProperties DEF Parallel!TypeOK
  <2>3. p_data = [k \in 1 .. Parallel!length |-> Total(k)]
    BY <2>1, <2>2
  <2>4. p_data \notin {Thrown, Terminated} /\ p_result' = p_data
    BY <1>3, <1>5, <2>2, MarksDiffer
  <2>5. Parallel!PartialSumAnswers'
    <3>1. p_result' = [k \in 1 .. Parallel!length' |-> Parallel!SumOf(p_list', 1, k)]
      BY <1>1, <2>3, <2>4, CallKept DEF Total
    <3>2. QED
      BY <2>4, <3>1 DEF Parallel!PartialSumAnswers
  <2>6. QED
    BY <2>2, <2>4, <2>5
<1>6. QED
  BY <1>4, <1>5

\* The sums of the blocks make up the sum of the list.
LEMMA SumOfSums ==
    ASSUME Parallel!ParallelAssumption, CallOK, ~Parallel!recursive,
           Parallel!length > 0, NEW s,
           \A i \in Parallel!Blocks : s[i] = Inner(i, Parallel!Last(i))
    PROVE  /\ Parallel!SumOf(s, 1, Parallel!num_threads) = Total(Parallel!length)
           /\ Total(Parallel!length) \in Int
<1>1. PICK n \in Nat : n = Parallel!num_threads
  BY Division
<1>2. n >= 1 /\ Parallel!Blocks = 1 .. n /\ Parallel!Last(n) = Parallel!length
  BY <1>1, Division
<1>3. ASSUME NEW i \in Parallel!Blocks
      PROVE  /\ s[i] \in Int /\ Total(Parallel!Last(i)) \in Int
             /\ i = 1 => s[i] = Total(Parallel!Last(i))
             /\ 1 < i => /\ i - 1 \in Parallel!Blocks
                         /\ Total(Parallel!Last(i - 1)) \in Int
                         /\ s[i] + Total(Parallel!Last(i - 1)) = Total(Parallel!Last(i))
  <2>1. Parallel!Last(i) \in Parallel!Block(i)
    BY BlockPlaces DEF Parallel!Block
  <2>2. QED
    BY <2>1, SumBefore
<1>4. \A k \in 0 .. n : Summand(s, 1, k)
  BY <1>2, <1>3 DEF Summand
<1> DEFINE f == [k \in 0 .. n |-> Parallel!SumOf(s, 1, k)]
           g == [k \in 0 .. n |-> IF k = 0 THEN 0 ELSE Total(Parallel!Last(k))]
<1>5. f[0] = 0 /\ g[0] = 0
  <2>1. 0 \in 0 .. n /\ 1 = 0 + 1
    BY <1>1
  <2>2. Parallel!SumOf(s, 1, 0) = 0
    BY <1>4, <2>1, SumFacts
  <2>3. QED
    BY <2>1, <2>2
<1>6. ASSUME NEW k \in 1 .. n, f[k - 1] = g[k - 1] PROVE f[k] = g[k]
  <2>1. k \in 0 .. n /\ k - 1 \in 0 .. n /\ k \in Parallel!Blocks /\ 1 <= k /\ k # 0
    BY <1>2
  <2>2. Parallel!SumOf(s, 1, k) = Parallel!SumOf(s, 1, k - 1) + s[k]
    BY <1>4, <2>1, SumFacts
  <2>3. f[k] = f[k - 1] + s[k] /\ g[k] = Total(Parallel!Last(k))
    BY <2>1, <2>2
  <2>4. CASE k = 1
    <3>1. f[k - 1] = 0
      BY <1>5, <2>4
    <3>2. s[k] = Total(Parallel!Last(k)) /\ s[k] \in Int
      BY <1>3, <2>1, <2>4
    <3> HIDE DEF f, g
    <3>3. QED
      BY <2>3, <3>1, <3>2
  <2>5. CASE 1 < k
    <3>1. g[k - 1] = Total(Parallel!Last(k - 1))
      BY <2>1, <2>5
    <3>2. /\ s[k] \in Int /\ Total(Parallel!Last(k - 1)) \in Int
          /\ s[k] + Total(Parallel!Last(k - 1)) = Total(Parallel!Last(k))
      BY <1>3, <2>1, <2>5
    <3> HIDE DEF f, g
    <3>3. QED
      BY <1>6, <2>3, <3>1, <3>2
  <2>6. QED
    BY <2>4, <2>5
<1>7. f[n] = Parallel!SumOf(s, 1, n) /\ g[n] = Total(Parallel!length)
  <2>1. n \in 0 .. n /\ n # 0
    BY <1>2
  <2>2. QED
    BY <1>2, <2>1
<1>8. Total(Parallel!length) \in Int
  BY <1>2, <1>3
<1> HIDE DEF f, g
<1>9. f[n] = g[n]
  <2>1. f[1 - 1] = g[1 - 1]
    BY <1>5
  <2>2. AlikeOn(1, n, f, g)
    BY <1>2, <1>6, <2>1 DEF AlikeOn
  <2>3. QED
    BY <2>2, SameSums
<1>10. QED
  BY <1>1, <1>7, <1>8, <1>9

LEMMA JoinAccumulate ==
    ASSUME Parallel!ParallelAssumption, ParallelInv, p_algorithm = "ParallelAccumulate",
           Parallel!join
    PROVE  p_result' \in Int /\ p_result' = Total(Parallel!length)
<1>1. CallOK /\ ~Parallel!recursive /\ Parallel!TypeOK /\ AccumulateInv
  BY CallTyped DEF ParallelInv, Parallel!recursive
<1>2. \A i \in Parallel!Blocks : p_pc[i] = "ended"
  BY <1>1 DEF Parallel!join, AccumulateInv, AccumulatePart
<1>3. p_result' = Parallel!SumOf(p_future, 1, Parallel!num_threads)
  BY <1>1, <1>2 DEF Parallel!join, Parallel!Answer
<1>4. Parallel!length \in Nat
  BY <1>1, LenProperties DEF Parallel!ParallelAssumption, CallOK, Parallel!length
<1>5. CASE Parallel!length = 0
  <2>1. Parallel!num_threads = 0
    BY <1>1, <1>5, NoBlocks
  <2>2. Summand(p_future, 1, 0) /\ Summand(p_list, 1, 0) /\ 1 = 0 + 1
    BY DEF Summand
  <2>3. Parallel!SumOf(p_future, 1, 0) = 0 /\ Parallel!SumOf(p_list, 1, 0) = 0
    BY <2>2, SumFacts
  <2>4. QED
    BY <1>3, <1>5, <2>1, <2>3 DEF Total
<1>6. CASE Parallel!length > 0
  <2>1. \A i \in Parallel!Blocks : p_future[i] = Inner(i, Parallel!Last(i))
    BY <1>1, <1>2 DEF AccumulateInv, AccumulatePart, Inner
  <2>2. QED
    BY <1>1, <1>3, <1>6, <2>1, SumOfSums
<1>7. QED
  BY <1>4, <1>5, <1>6

-------------------------------------------------------------------------------
\* A thread that is not started now has been before.
LEMMA StepKeeps ==
    ASSUME Parallel!TypeOK, NEW i \in Parallel!Blocks, Parallel!Step(i), ~Parallel!recursive
    PROVE  \/ /\ i = p_started + 1 /\ p_started' = i
              /\ \A j \in Parallel!Blocks : j # i => p_pc'[j] = p_pc[j]
           \/ /\ p_started' = p_started /\ p_pc[i] # "new"
              /\ \A j \in Parallel!Blocks : j # i => p_pc'[j] = p_pc[j]
<1> USE DEF Parallel!Goto, Parallel!Advance, Parallel!Settle, Parallel!Fail, Parallel!At
<1>1. p_pc \in [Parallel!Blocks -> Parallel!Steps]
  BY DEF Parallel!TypeOK
<1>2. CASE Parallel!start(i)
  BY <1>1, <1>2 DEF Parallel!start
<1>3. CASE Parallel!compare(i) \/ Parallel!storeDone(i)
  BY <1>1, <1>3 DEF Parallel!compare, Parallel!storeDone
<1>4. CASE Parallel!divide(i) \/ Parallel!searchShort(i) \/ Parallel!combine(i)
  BY <1>1, <1>4 DEF Parallel!divide, Parallel!searchShort, Parallel!combine,
     Parallel!recursive
<1>5. CASE Parallel!apply(i) \/ Parallel!accumulate(i)
  BY <1>1, <1>5 DEF Parallel!apply, Parallel!accumulate
<1>6. CASE Parallel!sumBlock(i)
  BY <1>1, <1>6 DEF Parallel!sumBlock
<1>7. CASE Parallel!addToLast(i) \/ Parallel!addToOthers(i)
  BY <1>1, <1>7 DEF Parallel!addToLast, Parallel!addToOthers
<1>8. QED
  BY <1>2, <1>3, <1>4, <1>5, <1>6, <1>7 DEF Parallel!Step

LEMMA StepParallel ==
    ASSUME Parallel!ParallelAssumption, ParallelInv, NEW i \in Parallel!Blocks,
           Parallel!Step(i)
    PROVE  ParallelInv'
<1>1. /\ Parallel!TypeOK /\ CallOK /\ StartOrder /\ p_algorithm \in Parallel!Algorithms
      /\ p_algorithm = "Find" => FindInv
      /\ p_algorithm = "ForEach" => ForEachInv
  BY CallTyped DEF ParallelInv, Parallel!TypeOK
<1>2. /\ Parallel!TypeOK' /\ UNCHANGED Parallel!call
      /\ p_algorithm = "Find" => FindInv'
      /\ p_algorithm = "FindRecursive" => RecursiveInv'
      /\ p_algorithm = "ForEach" => ForEachInv'
      /\ p_algorithm = "ParallelAccumulate" => AccumulateInv'
      /\ p_algorithm = "PartialSum" => PartialSumInv'
      /\ \/ p_result' = None
         \/ p_algorithm = "PartialSum" /\ p_result' = Terminated /\ Parallel!Exceeds
  <2>1. CASE p_algorithm = "Find"
    BY <1>1, <2>1, FindActions, FindStep
  <2>2. CASE p_algorithm = "FindRecursive"
    BY <2>2, RecursiveStep
  <2>3. CASE p_algorithm = "ForEach"
    BY <1>1, <2>3, ForEachActions, ForEachStep
  <2>4. CASE p_algorithm = "ParallelAccumulate"
    BY <2>4, AccumulateStep
  <2>5. CASE p_algorithm = "PartialSum"
    BY <2>5, PartialSumStep
  <2>6. QED
    BY <1>1, <2>1, <2>2, <2>3, <2>4, <2>5 DEF Parallel!Algorithms
<1>3. StartOrder'
  <2>1. SUFFICES ASSUME ~Parallel!recursive, NEW j \in Parallel!Blocks, j > p_started'
        PROVE  p_pc'[j] = "new"
    BY <1>2, CallKept DEF StartOrder
  <2>2. j \in Nat /\ i \in Nat /\ p_started \in Nat
    <3>1. Parallel!num_threads \in Nat /\ Parallel!Blocks = 1 .. Parallel!num_threads
      BY <1>1, <2>1, BlockPlaces, Division
    <3>2. QED
      BY <1>1, <3>1 DEF Parallel!TypeOK
  <2>3. j > p_started /\ j # i /\ p_pc'[j] = p_pc[j]
    <3>1. i > p_started => p_pc[i] = "new"
      BY <1>1, <2>1 DEF StartOrder
    <3>2. QED
      BY <1>1, <2>1, <2>2, <3>1, StepKeeps
  <2>4. QED
    BY <1>1, <2>1, <2>3 DEF StartOrder
<1>4. Parallel!Answers'
  BY <1>2, CallKept, MarksDiffer DEF Parallel!Answers, Parallel!PartialSumAnswers
<1>5. QED
  BY <1>2, <1>3, <1>4, CallKept DEF ParallelInv

LEMMA JoinParallel ==
    ASSUME Parallel!ParallelAssumption, ParallelInv, Parallel!join
    PROVE  ParallelInv'
<1>1. /\ Parallel!TypeOK /\ p_algorithm \in Parallel!Algorithms
      /\ UNCHANGED <<Parallel!call, p_data, p_started, p_pc, p_at, Parallel!find, p_future>>
  BY DEF ParallelInv, Parallel!TypeOK, Parallel!join
<1>2. /\ p_data' = p_data /\ p_started' = p_started /\ p_pc' = p_pc /\ p_at' = p_at
      /\ p_future' = p_future /\ p_done' = p_done /\ p_found' = p_found
      /\ UNCHANGED Parallel!call
  BY <1>1 DEF Parallel!find
<1>3. /\ p_result' \in Parallel!Marks \cup
           IF p_algorithm \in {"ForEach", "PartialSum"} THEN Seq(Int) ELSE Int
      /\ Parallel!Answers'
  <2>1. p_algorithm' = p_algorithm
    BY <1>2, CallKept
  <2>2. CASE p_algorithm = "Find"
    BY <2>1, <2>2, JoinFind DEF Parallel!Answers
  <2>3. CASE p_algorithm = "FindRecursive"
    BY <2>1, <2>3, JoinRecursive DEF Parallel!Answers
  <2>4. CASE p_algorithm = "ForEach"
    BY <2>1, <2>4, JoinForEach DEF Parallel!Answers
  <2>5. CASE p_algorithm = "PartialSum"
    BY <2>1, <2>5, JoinPartialSum DEF Parallel!Answers
  <2>6. CASE p_algorithm = "ParallelAccumulate"
    <3>1. p_result' \in Int /\ p_result' = Total(Parallel!length)
      BY <2>6, JoinAccumulate
    <3>2. p_result' = Parallel!SumOf(p_list', 1, Parallel!length')
      BY <1>2, <3>1, CallKept DEF Total
    <3>3. QED
      BY <2>1, <2>6, <3>1, <3>2 DEF Parallel!Answers
  <2>7. QED
    BY <1>1, <2>2, <2>3, <2>4, <2>5, <2>6 DEF Parallel!Algorithms
<1>4. Parallel!TypeOK'
  BY <1>1, <1>2, <1>3, CallKept DEF Parallel!TypeOK
<1>5. StartOrder'
  BY <1>2, CallKept DEF ParallelInv, StartOrder
<1>6. p_algorithm = "Find" => FindInv'
  BY <1>2, CallKept DEF ParallelInv, FindInv, FindPart
<1>7. p_algorithm = "FindRecursive" => RecursiveInv'
  BY <1>2, CallKept DEF ParallelInv, RecursiveInv, Nested, InHalves, HalvesCalled, Outcome,
     Silent, Called, Divided
<1>8. p_algorithm = "ForEach" => ForEachInv'
  BY <1>2, CallKept DEF ParallelInv, ForEachInv, ForEachPart
<1>9. p_algorithm = "ParallelAccumulate" => AccumulateInv'
  <2>1. ASSUME NEW i \in Parallel!Blocks, AccumulatePart(i) PROVE AccumulatePart(i)'
    <3>1. Parallel!SumOf(p_list, Parallel!First(i), Parallel!Last(i))'
            = Parallel!SumOf(p_list, Parallel!First(i), Parallel!Last(i))
      BY <1>2, CallKept
    <3>2. QED
      BY <1>2, <2>1, <3>1 DEF AccumulatePart
  <2>2. QED
    BY <1>2, <2>1, CallKept DEF ParallelInv, AccumulateInv
<1>10. p_algorithm = "PartialSum" => PartialSumInv'
  BY <1>2, CallKept DEF ParallelInv, PartialSumInv, PartialSumPart, HandedOn, BlockData
<1>11. QED
  BY <1>2, <1>3, <1>4, <1>5, <1>6, <1>7, <1>8, <1>9, <1>10, CallKept DEF ParallelInv

LEMMA StutterParallel ==
    ASSUME ParallelInv, UNCHANGED Parallel!vars
    PROVE  ParallelInv'
<1>1. /\ p_data' = p_data /\ p_started' = p_started /\ p_pc' = p_pc /\ p_at' = p_at
      /\ p_future' = p_future /\ p_done' = p_done /\ p_found' = p_found
      /\ p_result' = p_result /\ UNCHANGED Parallel!call
  BY DEF Parallel!vars, Parallel!find
<1>2. Parallel!TypeOK' /\ StartOrder'
  BY <1>1, CallKept DEF ParallelInv, Parallel!TypeOK, StartOrder
<1>3. Parallel!Answers'
  BY <1>1, CallKept DEF ParallelInv, Parallel!Answers, Parallel!FindAnswers,
     Parallel!ForEachAnswers, Parallel!PartialSumAnswers
<1>4. p_algorithm = "Find" => FindInv'
  BY <1>1, CallKept DEF ParallelInv, FindInv, FindPart
<1>5. p_algorithm = "FindRecursive" => RecursiveInv'
  BY <1>1, CallKept DEF ParallelInv, RecursiveInv, Nested, InHalves, HalvesCalled, Outcome,
     Silent, Called, Divided
<1>6. p_algorithm = "ForEach" => ForEachInv'
  BY <1>1, CallKept DEF ParallelInv, ForEachInv, ForEachPart
<1>7. p_algorithm = "ParallelAccumulate" => AccumulateInv'
  <2>1. ASSUME NEW i \in Parallel!Blocks, AccumulatePart(i) PROVE AccumulatePart(i)'
    <3>1. Parallel!SumOf(p_list, Parallel!First(i), Parallel!Last(i))'
            = Parallel!SumOf(p_list, Parallel!First(i), Parallel!Last(i))
      BY <1>1, CallKept
    <3>2. QED
      BY <1>1, <2>1, <3>1 DEF AccumulatePart
  <2>2. QED
    BY <1>1, <2>1, CallKept DEF ParallelInv, AccumulateInv
<1>8. p_algorithm = "PartialSum" => PartialSumInv'
  BY <1>1, CallKept DEF ParallelInv, PartialSumInv, PartialSumPart, HandedOn, BlockData
<1>9. QED
  BY <1>1, <1>2, <1>3, <1>4, <1>5, <1>6, <1>7, <1>8, CallKept DEF ParallelInv

LEMMA ParallelStep ==
    ASSUME Parallel!ParallelAssumption, ParallelInv, [Parallel!Next]_(Parallel!vars)
    PROVE  ParallelInv'
BY StepParallel, JoinParallel, StutterParallel DEF Parallel!Next, Parallel!Finished

LEMMA ParallelInvariant ==
    ASSUME Parallel!ParallelAssumption PROVE Parallel!Spec => []ParallelInv
<1>1. Parallel!Init => ParallelInv
  BY ParallelInit
<1>2. ParallelInv /\ [Parallel!Next]_(Parallel!vars) => ParallelInv'
  BY ParallelStep
<1>3. QED
  BY <1>1, <1>2, PTL DEF Parallel!Spec

\* The variables of the parallel algorithms keep their types: find.hpp, for_each.hpp,
\* partial_sum.hpp and parallel_accumulate.hpp.
THEOREM ParallelTypeCorrect ==
    ASSUME Parallel!ParallelAssumption PROVE Parallel!Spec => []Parallel!TypeOK
<1>1. ParallelInv => Parallel!TypeOK
  BY DEF ParallelInv
<1>2. QED
  BY <1>1, ParallelInvariant, PTL

\* Find and FindRecursive return a match, an exception or nothing only where the list
\* has one, or has none; ForEach, PartialSum and ParallelAccumulate leave and return
\* what the sequential algorithms do, or fail for a reason that is in the list:
\* find.hpp, for_each.hpp, partial_sum.hpp and parallel_accumulate.hpp, for every list,
\* min_per_thread and number of hardware threads.
THEOREM ParallelAnswersCorrect ==
    ASSUME Parallel!ParallelAssumption PROVE Parallel!Spec => []Answers
<1>1. ParallelInv => Answers
  BY DEF ParallelInv, Answers
<1>2. QED
  BY <1>1, ParallelInvariant, PTL
=================================================================================
