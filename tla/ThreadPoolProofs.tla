--------------------------- MODULE ThreadPoolProofs ---------------------------
(***************************************************************************)
(* Proofs about the two thread pools.                                      *)
(*                                                                         *)
(* ThreadPool, for any number of workers, clients and tasks: it keeps what *)
(* TaskPool promises, and no worker sleeps beside a task.                  *)
(*                                                                         *)
(* The parallel sort: every call returns its list, sorted, every task is   *)
(* in one place, and at the end none is left, for any lists, callers and   *)
(* number of workers.  Each unfinished call on a stack fits the list it    *)
(* began with, and each task the list it was made for; both lists are not  *)
(* in the state, so the invariant says that there are such.  A task is in  *)
(* the place of one entry of one queue or stack until it is done, and      *)
(* somebody waits for it.  A thread that waits for a task has only earlier *)
(* ones below it; so the first task that is not done is waited for by a    *)
(* caller, and is done once all of them have returned.                     *)
(***************************************************************************)
EXTENDS ThreadPool, SortOnPool, LinkedListProofs

-------------------------------------------------------------------------------
\* The constructor starts at least one thread whatever it is asked for, and at
\* most two for each processor when the number of processors is known and small
\* enough for twice that number to be representable.
THEOREM WorkerCountBounds ==
    /\ WorkerCount \in Nat \ {0}
    /\ Hardware # 0 /\ 2 * Hardware <= UIntMax => WorkerCount <= 2 * Hardware
<1> DEFINE maxNum == (2 * Hardware) % (UIntMax + 1)
<1>1. maxNum \in Nat
  BY NumAssumption
<1>2. 2 * Hardware <= UIntMax => maxNum = 2 * Hardware
  BY NumAssumption
<1>3. QED
  BY <1>1, <1>2, NumAssumption DEF WorkerCount

\* The workers are finitely many, and there is one.
LEMMA WorkersFacts ==
    /\ WorkerCount \in Nat
    /\ IsFiniteSet(Workers)
    /\ Cardinality(Workers) = WorkerCount
    /\ Workers # {}
<1>1. WorkerCount \in Nat \ {0}
  BY WorkerCountBounds
<1>2. /\ IsFiniteSet(1 .. WorkerCount)
      /\ Cardinality(1 .. WorkerCount) = WorkerCount
  BY <1>1, FS_Interval
<1>3. 1 \in 1 .. WorkerCount
  BY <1>1
<1>4. QED
  BY <1>1, <1>2, <1>3 DEF Workers

\* Pushing at the back of a queue adds one element, at the last place.
LEMMA PushElements ==
    ASSUME NEW S, NEW s \in Seq(S), NEW e \in S
    PROVE  /\ Append(s, e) \in Seq(S)
           /\ Len(Append(s, e)) = Len(s) + 1
           /\ DOMAIN Append(s, e) = 1 .. Len(s) + 1
           /\ \A i \in 1 .. Len(s) : Append(s, e)[i] = s[i]
           /\ Append(s, e)[Len(s) + 1] = e
           /\ {Append(s, e)[i] : i \in DOMAIN Append(s, e)} =
                {s[i] : i \in DOMAIN s} \cup {e}
OBVIOUS

\* Popping the front of a queue moves every other element one place forward.
LEMMA PopElements ==
    ASSUME NEW S, NEW s \in Seq(S), s # <<>>
    PROVE  /\ Head(s) \in S
           /\ Head(s) = s[1]
           /\ Tail(s) \in Seq(S)
           /\ Len(Tail(s)) = Len(s) - 1
           /\ Len(s) \in Nat \ {0}
           /\ DOMAIN s = 1 .. Len(s)
           /\ DOMAIN Tail(s) = 1 .. Len(s) - 1
           /\ \A i \in 1 .. Len(s) - 1 : Tail(s)[i] = s[i + 1]
           /\ {s[i] : i \in DOMAIN s} =
                {Tail(s)[i] : i \in DOMAIN Tail(s)} \cup {Head(s)}
<1>1. /\ Head(s) \in S
      /\ Head(s) = s[1]
      /\ Tail(s) \in Seq(S)
      /\ Len(Tail(s)) = Len(s) - 1
      /\ Len(s) \in Nat \ {0}
      /\ DOMAIN s = 1 .. Len(s)
      /\ DOMAIN Tail(s) = 1 .. Len(s) - 1
      /\ \A i \in 1 .. Len(s) - 1 : Tail(s)[i] = s[i + 1]
  BY HeadTailProperties, EmptySeq, LenProperties
<1>2. ASSUME NEW i \in 1 .. Len(s)
      PROVE  s[i] \in {Tail(s)[j] : j \in 1 .. Len(s) - 1} \cup {Head(s)}
  <2>1. CASE i = 1
    BY <1>1, <2>1
  <2>2. CASE i # 1
    <3>1. i - 1 \in 1 .. Len(s) - 1 /\ (i - 1) + 1 = i
      BY <1>1, <2>2
    <3>2. s[i] = Tail(s)[i - 1]
      BY <1>1, <3>1
    <3>3. QED
      BY <3>1, <3>2
  <2>3. QED
    BY <2>1, <2>2
<1>3. ASSUME NEW j \in 1 .. Len(s) - 1
      PROVE  Tail(s)[j] \in {s[i] : i \in 1 .. Len(s)}
  <2>1. j + 1 \in 1 .. Len(s)
    BY <1>1
  <2>2. QED
    BY <1>1, <2>1
<1>4. Head(s) \in {s[i] : i \in 1 .. Len(s)}
  <2>1. 1 \in 1 .. Len(s)
    BY <1>1
  <2>2. QED
    BY <1>1, <2>1
<1>5. {s[i] : i \in 1 .. Len(s)} =
        {Tail(s)[j] : j \in 1 .. Len(s) - 1} \cup {Head(s)}
  BY <1>2, <1>3, <1>4
<1>6. QED
  BY <1>1, <1>5

-------------------------------------------------------------------------------
\* How the pool ends: a worker leaves only a stopped and empty pool, only a
\* running task is inside a call, and the destructor begins by setting stop_,
\* when no client is inside a call, and ends when no worker is left.
Shutdown ==
    /\ \A w \in Workers : pc[w] = "exited" => stop_ /\ task_list_ = <<>>
    /\ \A w \in Workers : w \in notifying => pc[w] = "run"
    /\ life # "live" => stop_ /\ notifying \cap Clients = {}
    /\ life = "destroyed" => \A w \in Workers : pc[w] = "exited"

\* The inductive invariant.
IInv ==
    /\ TypeOK
    /\ Conservation
    /\ NoLostWakeup
    /\ StopReachesSleepers
    /\ Shutdown

-------------------------------------------------------------------------------
LEMMA InitInv == Init => IInv
<1> SUFFICES ASSUME Init PROVE IInv
  OBVIOUS
<1>1. TypeOK
  <2>1. task_list_ \in Seq(Tasks)
    BY EmptySeq DEF Init
  <2>2. QED
    BY <2>1, NamesAssumption DEF Init, TypeOK
<1>2. Queued = {}
  BY DEF Init, Queued
<1>3. Conservation
  BY <1>2, NamesAssumption DEF Init, Conservation, Running
<1>4. Waiting = {}
  BY DEF Init, Waiting
<1>5. NoLostWakeup /\ StopReachesSleepers
  BY <1>4 DEF NoLostWakeup, StopReachesSleepers
<1>6. Shutdown
  BY DEF Init, Shutdown
<1>7. QED
  BY <1>1, <1>3, <1>5, <1>6 DEF IInv

\* notify_one and notify_all only move sleeping workers to the mutex.
LEMMA NotifyEffect ==
    ASSUME pc \in [Workers -> {"check", "wait", "run", "exited"}],
           NotifyOne \/ NotifyAll
    PROVE  /\ pc' \in [Workers -> {"check", "wait", "run", "exited"}]
           /\ \A w \in Workers : pc[w] # "wait" => pc'[w] = pc[w]
           /\ \A w \in Workers : pc[w] = "wait" => pc'[w] \in {"wait", "check"}
           /\ Running' = Running
           /\ Waiting' \subseteq Waiting
BY DEF NotifyOne, NotifyAll, Waiting, Running

LEMMA TypeStep == TypeOK /\ [Next]_vars => TypeOK'
<1> SUFFICES ASSUME TypeOK, [Next]_vars PROVE TypeOK'
  OBVIOUS
<1>1. ASSUME NEW x \in Clients \cup Workers, NEW t \in Tasks, Accept(x, t)
      PROVE  TypeOK'
  <2>1. task_list_' \in Seq(Tasks)
    BY <1>1, PushElements DEF Accept, TypeOK
  <2>2. QED
    BY <1>1, <2>1, NotifyEffect DEF Accept, TypeOK
<1>2. ASSUME NEW x \in Clients \cup Workers, NEW t \in Tasks, Reject(x, t)
      PROVE  TypeOK'
  BY <1>2 DEF Reject, TypeOK
<1>3. ASSUME NEW x \in Clients \cup Workers, Stop(x)
      PROVE  TypeOK'
  BY <1>3 DEF Stop, TypeOK
<1>4. ASSUME NEW x \in Clients \cup Workers, Abort(x)
      PROVE  TypeOK'
  BY <1>4 DEF Abort, TypeOK
<1>5. ASSUME NEW x \in Clients \cup Workers, WakeWorkers(x)
      PROVE  TypeOK'
  BY <1>5, NotifyEffect DEF WakeWorkers, TypeOK
<1>6. ASSUME NEW w \in Workers, Take(w)
      PROVE  TypeOK'
  <2>1. Head(task_list_) \in Tasks /\ Tail(task_list_) \in Seq(Tasks)
    BY <1>6, PopElements DEF Take, TypeOK
  <2>2. QED
    BY <1>6, <2>1 DEF Take, TypeOK
<1>7. ASSUME NEW w \in Workers, Wait(w) \/ Exit(w) \/ SpuriousWake(w)
      PROVE  TypeOK'
  BY <1>7 DEF Wait, Exit, SpuriousWake, TypeOK
<1>8. ASSUME NEW w \in Workers, Finish(w)
      PROVE  TypeOK'
  BY <1>8, NamesAssumption DEF Finish, TypeOK
<1>9. CASE DestroyStop \/ DestroyJoin \/ Destroyed \/ UNCHANGED vars
  BY <1>9 DEF DestroyStop, DestroyJoin, Destroyed, vars, TypeOK
<1>10. CASE DestroyNotify
  BY <1>10, NotifyEffect DEF DestroyNotify, TypeOK
<1>11. QED
  BY <1>1, <1>2, <1>3, <1>4, <1>5, <1>6, <1>7, <1>8, <1>9, <1>10
     DEF Next, Call, Pass

-------------------------------------------------------------------------------
LEMMA QueuedAreTasks ==
    ASSUME TypeOK
    PROVE  /\ Queued \subseteq Tasks
           /\ NoTask \notin Queued
           /\ Queued = {} <=> task_list_ = <<>>
<1>1. /\ DOMAIN task_list_ = 1 .. Len(task_list_)
      /\ \A i \in 1 .. Len(task_list_) : task_list_[i] \in Tasks
      /\ Len(task_list_) \in Nat
      /\ task_list_ # <<>> => Len(task_list_) \in Nat \ {0}
  BY LenProperties, ElementOfSeq, EmptySeq DEF TypeOK
<1>2. task_list_ # <<>> => 1 \in DOMAIN task_list_
  BY <1>1
<1>3. Queued \subseteq Tasks
  BY <1>1 DEF Queued
<1>4. task_list_ # <<>> => task_list_[1] \in Queued
  BY <1>2 DEF Queued
<1>5. task_list_ = <<>> => Queued = {}
  BY <1>1 DEF Queued
<1>6. QED
  BY <1>3, <1>4, <1>5, NamesAssumption

\* A step that leaves the queue, the tasks in hand and the futures alone.
LEMMA ConservationFrame ==
    ASSUME Conservation, UNCHANGED <<task_list_, task, future>>,
           Running' = Running
    PROVE  Conservation'
BY DEF Conservation, Queued

LEMMA ConservationAccept ==
    ASSUME TypeOK, Conservation,
           NEW x \in Clients \cup Workers, NEW t \in Tasks, Accept(x, t)
    PROVE  Conservation'
<1>1. Queued' = Queued \cup {t}
  <2>1. task_list_ \in Seq(Tasks) /\ task_list_' = Append(task_list_, t)
    BY DEF Accept, TypeOK
  <2> DEFINE new == Append(task_list_, t)
  <2>2. {new[i] : i \in DOMAIN new} = {task_list_[i] : i \in DOMAIN task_list_} \cup {t}
    BY <2>1, PushElements
  <2> HIDE DEF new
  <2>3. task_list_' = new
    BY <2>1 DEF new
  <2>4. QED
    BY <2>2, <2>3 DEF Queued
<1>2. Running' = Running
  BY NotifyEffect DEF Accept, TypeOK
<1>3. t \notin Queued /\ \A w \in Workers : task[w] # t
  BY DEF Accept, Conservation
<1>4. /\ Len(task_list_) \in Nat
      /\ DOMAIN task_list_ = 1 .. Len(task_list_)
      /\ DOMAIN task_list_' = 1 .. Len(task_list_) + 1
      /\ \A i \in 1 .. Len(task_list_) : task_list_'[i] = task_list_[i]
      /\ task_list_'[Len(task_list_) + 1] = t
  BY PushElements, LenProperties DEF Accept, TypeOK
<1>5. \A i \in DOMAIN task_list_ : task_list_[i] # t
  BY <1>3 DEF Queued
<1>6. \A i, j \in DOMAIN task_list_' : task_list_'[i] = task_list_'[j] => i = j
  <2> SUFFICES ASSUME NEW i \in DOMAIN task_list_', NEW j \in DOMAIN task_list_',
                      task_list_'[i] = task_list_'[j]
               PROVE  i = j
    OBVIOUS
  <2>1. /\ i \in DOMAIN task_list_ \/ i = Len(task_list_) + 1
        /\ j \in DOMAIN task_list_ \/ j = Len(task_list_) + 1
    BY <1>4
  <2>2. QED
    BY <2>1, <1>4, <1>5 DEF Conservation
<1>7. \A u \in Tasks :
        future'[u] = "pending" <=> u \in Queued' \/ \E w \in Workers : task'[w] = u
  BY <1>1 DEF Accept, TypeOK, Conservation
<1>8. \A w \in Workers : task'[w] \notin Queued'
  BY <1>1, <1>3 DEF Accept, Conservation
<1>9. \A v, w \in Running' : task'[v] = task'[w] => v = w
  BY <1>2 DEF Accept, Conservation
<1>10. QED
  BY <1>6, <1>7, <1>8, <1>9 DEF Conservation

LEMMA ConservationAbort ==
    ASSUME TypeOK, Conservation, NEW x \in Clients \cup Workers, Abort(x)
    PROVE  Conservation'
<1>1. Queued' = {} /\ DOMAIN task_list_' = {}
  BY DEF Abort, Queued
<1>2. \A t \in Tasks :
        future'[t] = "pending" <=> t \in Queued' \/ \E w \in Workers : task'[w] = t
  BY <1>1 DEF Abort, Conservation, TypeOK
<1>3. Running' = Running
  BY DEF Abort, Running
<1>4. QED
  BY <1>1, <1>2, <1>3 DEF Abort, Conservation

\* A worker takes the front of the queue, which is nowhere else in it.
LEMMA TakeQueue ==
    ASSUME TypeOK, Conservation, NEW w \in Workers, Take(w)
    PROVE  /\ Head(task_list_) \in Tasks
           /\ Queued = Queued' \cup {Head(task_list_)}
           /\ Head(task_list_) \notin Queued'
           /\ \A i, j \in DOMAIN task_list_' :
                task_list_'[i] = task_list_'[j] => i = j
<1> DEFINE head == Head(task_list_)
           n == Len(task_list_)
<1>1. /\ head \in Tasks
      /\ head = task_list_[1]
      /\ n \in Nat \ {0}
      /\ DOMAIN task_list_ = 1 .. n
      /\ DOMAIN task_list_' = 1 .. n - 1
      /\ \A i \in 1 .. n - 1 : task_list_'[i] = task_list_[i + 1]
  BY PopElements DEF Take, TypeOK
<1>2. Queued = Queued' \cup {head}
  <2>1. {task_list_[i] : i \in DOMAIN task_list_} =
          {Tail(task_list_)[i] : i \in DOMAIN Tail(task_list_)} \cup {head}
    BY PopElements DEF Take, TypeOK
  <2>2. task_list_' = Tail(task_list_)
    BY DEF Take
  <2>3. QED
    BY <2>1, <2>2 DEF Queued
<1>3. \A i, j \in 1 .. n : task_list_[i] = task_list_[j] => i = j
  BY <1>1 DEF Conservation
<1>4. \A i \in 1 .. n - 1 : i + 1 \in 1 .. n /\ i + 1 # 1
  BY <1>1
<1>5. 1 \in 1 .. n
  BY <1>1
<1>6. head \notin Queued'
  BY <1>1, <1>3, <1>4, <1>5 DEF Queued
<1>7. \A i, j \in DOMAIN task_list_' : task_list_'[i] = task_list_'[j] => i = j
  <2> SUFFICES ASSUME NEW i \in 1 .. n - 1, NEW j \in 1 .. n - 1,
                      task_list_'[i] = task_list_'[j]
               PROVE  i = j
    BY <1>1
  <2>1. i + 1 = j + 1
    BY <1>1, <1>3, <1>4
  <2>2. QED
    BY <1>1, <2>1
<1>8. QED
  BY <1>1, <1>2, <1>6, <1>7

LEMMA ConservationTake ==
    ASSUME TypeOK, Conservation, NEW w \in Workers, Take(w)
    PROVE  Conservation'
<1> DEFINE head == Head(task_list_)
<1>1. /\ head \in Tasks
      /\ Queued = Queued' \cup {head}
      /\ head \notin Queued'
      /\ \A i, j \in DOMAIN task_list_' : task_list_'[i] = task_list_'[j] => i = j
  BY TakeQueue
<1>2. /\ task'[w] = head
      /\ \A v \in Workers : v # w => task'[v] = task[v]
      /\ future' = future
      /\ task[w] \notin Tasks
  BY DEF Take, TypeOK
<1>3. \A t \in Tasks :
        future'[t] = "pending" <=> t \in Queued' \/ \E v \in Workers : task'[v] = t
  BY <1>1, <1>2 DEF Conservation
<1>4. \A v \in Workers : task'[v] \notin Queued'
  BY <1>1, <1>2 DEF Conservation
<1>5. Running' = Running \cup {w}
  BY DEF Take, TypeOK, Running
<1>6. \A v \in Running : v # w /\ task[v] # head
  BY <1>1 DEF Running, Take, Conservation
<1>7. \A u, v \in Running' : task'[u] = task'[v] => u = v
  BY <1>2, <1>5, <1>6 DEF Conservation, Running
<1>8. QED
  BY <1>1, <1>3, <1>4, <1>7 DEF Conservation

LEMMA ConservationFinish ==
    ASSUME TypeOK, Conservation, NEW w \in Workers, Finish(w)
    PROVE  Conservation'
<1>1. /\ task[w] \in Tasks
      /\ task' = [task EXCEPT ![w] = NoTask]
      /\ task'[w] = NoTask
      /\ \A v \in Workers : v # w => task'[v] = task[v]
      /\ future'[task[w]] = "ready"
      /\ \A t \in Tasks : t # task[w] => future'[t] = future[t]
  BY DEF Finish, TypeOK
<1>2. Queued' = Queued
  BY DEF Finish, Queued
<1>3. Running' = Running \ {w} /\ w \in Running
  BY DEF Finish, TypeOK, Running
<1>4. \A v \in Workers : v # w => task[v] # task[w]
  BY <1>1, <1>3 DEF Conservation, Running, TypeOK
<1>5. \A t \in Tasks :
        future'[t] = "pending" <=> t \in Queued' \/ \E v \in Workers : task'[v] = t
  BY <1>1, <1>2, <1>4, NamesAssumption DEF Conservation
<1>6. \A v \in Workers : task'[v] \notin Queued'
  BY <1>1, <1>2, QueuedAreTasks DEF Conservation
<1>7. \A u, v \in Running' : task'[u] = task'[v] => u = v
  BY <1>1, <1>3 DEF Conservation, Running
<1>8. task_list_' = task_list_
  BY DEF Finish
<1>9. QED
  BY <1>5, <1>6, <1>7, <1>8 DEF Conservation

LEMMA ConservationStep == TypeOK /\ Conservation /\ [Next]_vars => Conservation'
<1> SUFFICES ASSUME TypeOK, Conservation, [Next]_vars PROVE Conservation'
  OBVIOUS
<1>1. ASSUME NEW x \in Clients \cup Workers, NEW t \in Tasks, Reject(x, t)
      PROVE  Conservation'
  <2>1. ~(t \in Queued \/ \E w \in Workers : task[w] = t)
    BY <1>1 DEF Reject, Conservation
  <2>2. Running' = Running /\ Queued' = Queued
    BY <1>1 DEF Reject, Running, Queued
  <2>3. QED
    BY <1>1, <2>1, <2>2 DEF Reject, Conservation, TypeOK
<1>2. ASSUME NEW x \in Clients \cup Workers, Stop(x)
      PROVE  Conservation'
  <2>1. Running' = Running
    BY <1>2 DEF Stop, Running
  <2>2. QED
    BY <1>2, <2>1, ConservationFrame DEF Stop
<1>3. ASSUME NEW x \in Clients \cup Workers, WakeWorkers(x)
      PROVE  Conservation'
  <2>1. Running' = Running
    BY <1>3, NotifyEffect DEF WakeWorkers, TypeOK
  <2>2. QED
    BY <1>3, <2>1, ConservationFrame DEF WakeWorkers
<1>4. ASSUME NEW w \in Workers, Wait(w) \/ Exit(w) \/ SpuriousWake(w)
      PROVE  Conservation'
  <2>1. Running' = Running
    BY <1>4 DEF Wait, Exit, SpuriousWake, TypeOK, Running
  <2>2. QED
    BY <1>4, <2>1, ConservationFrame DEF Wait, Exit, SpuriousWake
<1>5. CASE DestroyStop \/ DestroyJoin \/ Destroyed \/ UNCHANGED vars
  <2>1. Running' = Running
    BY <1>5 DEF DestroyStop, DestroyJoin, Destroyed, vars, Running
  <2>2. QED
    BY <1>5, <2>1, ConservationFrame DEF DestroyStop, DestroyJoin, Destroyed, vars
<1>6. CASE DestroyNotify
  <2>1. Running' = Running
    BY <1>6, NotifyEffect DEF DestroyNotify, TypeOK
  <2>2. QED
    BY <1>6, <2>1, ConservationFrame DEF DestroyNotify
<1>7. QED
  BY <1>1, <1>2, <1>3, <1>4, <1>5, <1>6, ConservationAccept, ConservationAbort,
     ConservationTake, ConservationFinish DEF Next, Call, Pass

-------------------------------------------------------------------------------
\* Moving a worker to or away from the mutex changes the number of those at it.
LEMMA CheckingFacts ==
    /\ IsFiniteSet(Checking) /\ Cardinality(Checking) \in Nat
    /\ \A w \in Workers :
         Cardinality(Checking \cup {w}) =
           IF w \in Checking THEN Cardinality(Checking) ELSE Cardinality(Checking) + 1
    /\ \A w \in Workers :
         Cardinality(Checking \ {w}) =
           IF w \in Checking THEN Cardinality(Checking) - 1 ELSE Cardinality(Checking)
<1>1. IsFiniteSet(Checking)
  BY WorkersFacts, FS_Subset DEF Checking
<1>2. QED
  BY <1>1, FS_CardinalityType, FS_AddElement, FS_RemoveElement

\* A queue that does not grow and as many workers at the mutex as before.
LEMMA WakeupFrame ==
    ASSUME NoLostWakeup, Waiting' \subseteq Waiting, Checking' = Checking,
           task_list_' = task_list_
    PROVE  NoLostWakeup'
BY DEF NoLostWakeup

LEMMA WakeupStep == TypeOK /\ NoLostWakeup /\ [Next]_vars => NoLostWakeup'
<1> SUFFICES ASSUME TypeOK, NoLostWakeup, [Next]_vars PROVE NoLostWakeup'
  OBVIOUS
<1> USE DEF TypeOK
<1>0. Len(task_list_) \in Nat /\ Cardinality(Checking) \in Nat
  BY CheckingFacts, LenProperties
<1>1. ASSUME NEW x \in Clients \cup Workers, NEW t \in Tasks, Accept(x, t)
      PROVE  NoLostWakeup'
  <2>1. Len(task_list_') = Len(task_list_) + 1
    BY <1>1, PushElements DEF Accept
  <2>2. CASE Waiting = {}
    <3>1. Waiting' = {}
      BY <1>1, <2>2, NotifyEffect DEF Accept
    <3>2. QED
      BY <3>1 DEF NoLostWakeup
  <2>3. CASE Waiting # {}
    <3>1. PICK w \in Waiting : pc' = [pc EXCEPT ![w] = "check"]
      BY <1>1, <2>3 DEF Accept, NotifyOne
    <3>2. Checking' = Checking \cup {w} /\ w \notin Checking /\ w \in Workers
      BY <3>1 DEF Checking, Waiting
    <3>3. Cardinality(Checking') = Cardinality(Checking) + 1
      BY <3>2, CheckingFacts
    <3>4. QED
      BY <1>0, <2>1, <2>3, <3>3 DEF NoLostWakeup
  <2>4. QED
    BY <2>2, <2>3
<1>2. ASSUME NEW x \in Clients \cup Workers,
             Stop(x) \/ \E t \in Tasks : Reject(x, t)
      PROVE  NoLostWakeup'
  BY <1>2, WakeupFrame DEF Reject, Stop, Waiting, Checking
<1>3. ASSUME NEW x \in Clients \cup Workers, Abort(x)
      PROVE  NoLostWakeup'
  <2>1. Len(task_list_') = 0 /\ Checking' = Checking
    BY <1>3 DEF Abort, Checking
  <2>2. QED
    BY <1>0, <2>1 DEF NoLostWakeup
<1>4. CASE DestroyNotify \/ \E x \in Clients \cup Workers : WakeWorkers(x)
  <2>1. Waiting' = {}
    BY <1>4 DEF DestroyNotify, WakeWorkers, NotifyAll, Waiting
  <2>2. QED
    BY <2>1 DEF NoLostWakeup
<1>5. ASSUME NEW w \in Workers, Take(w)
      PROVE  NoLostWakeup'
  <2>1. Len(task_list_') = Len(task_list_) - 1
    BY <1>5, PopElements DEF Take
  <2>2. /\ Checking' = Checking \ {w}
        /\ w \in Checking
        /\ Waiting' = Waiting
    BY <1>5 DEF Take, Checking, Waiting
  <2>3. Cardinality(Checking') = Cardinality(Checking) - 1
    BY <2>2, CheckingFacts
  <2>4. QED
    BY <1>0, <2>1, <2>2, <2>3 DEF NoLostWakeup
<1>6. ASSUME NEW w \in Workers, Wait(w) \/ Exit(w)
      PROVE  NoLostWakeup'
  <2>1. Len(task_list_') = 0
    BY <1>6 DEF Wait, Exit
  <2>2. Checking' = Checking \ {w}
    BY <1>6 DEF Wait, Exit, Checking
  <2>3. Cardinality(Checking') \in Nat
    <3>1. IsFiniteSet(Checking')
      BY <2>2, CheckingFacts, FS_RemoveElement
    <3>2. QED
      BY <3>1, FS_CardinalityType
  <2>4. QED
    BY <2>1, <2>3 DEF NoLostWakeup
<1>7. ASSUME NEW w \in Workers, Finish(w) \/ SpuriousWake(w)
      PROVE  NoLostWakeup'
  <2>1. /\ Checking' = Checking \cup {w}
        /\ w \notin Checking
        /\ Waiting' \subseteq Waiting
        /\ task_list_' = task_list_
    BY <1>7 DEF Finish, SpuriousWake, Checking, Waiting
  <2>2. Cardinality(Checking') = Cardinality(Checking) + 1
    BY <2>1, CheckingFacts
  <2>3. QED
    BY <1>0, <2>1, <2>2 DEF NoLostWakeup
<1>8. CASE DestroyStop \/ DestroyJoin \/ Destroyed \/ UNCHANGED vars
  BY <1>8, WakeupFrame
     DEF DestroyStop, DestroyJoin, Destroyed, vars, Waiting, Checking
<1>9. QED
  BY <1>1, <1>2, <1>3, <1>4, <1>5, <1>6, <1>7, <1>8 DEF Next, Call, Pass

-------------------------------------------------------------------------------
LEMMA SleepersStep ==
    TypeOK /\ StopReachesSleepers /\ [Next]_vars => StopReachesSleepers'
<1> SUFFICES ASSUME TypeOK, StopReachesSleepers, [Next]_vars
             PROVE  StopReachesSleepers'
  OBVIOUS
<1>1. ASSUME NEW x \in Clients \cup Workers, NEW t \in Tasks, Accept(x, t)
      PROVE  StopReachesSleepers'
  BY <1>1 DEF Accept, StopReachesSleepers
<1>2. ASSUME NEW x \in Clients \cup Workers, NEW t \in Tasks, Reject(x, t)
      PROVE  StopReachesSleepers'
  BY <1>2 DEF Reject, StopReachesSleepers, Waiting
<1>3. ASSUME NEW x \in Clients \cup Workers, Stop(x) \/ Abort(x)
      PROVE  StopReachesSleepers'
  BY <1>3 DEF Stop, Abort, StopReachesSleepers
<1>4. CASE DestroyNotify \/ \E x \in Clients \cup Workers : WakeWorkers(x)
  <2>1. Waiting' = {}
    BY <1>4 DEF DestroyNotify, WakeWorkers, NotifyAll, Waiting, TypeOK
  <2>2. QED
    BY <2>1 DEF StopReachesSleepers
<1>5. ASSUME NEW w \in Workers, Wait(w)
      PROVE  StopReachesSleepers'
  BY <1>5 DEF Wait, StopReachesSleepers
<1>6. ASSUME NEW w \in Workers,
             Take(w) \/ Exit(w) \/ Finish(w) \/ SpuriousWake(w)
      PROVE  StopReachesSleepers'
  <2>1. /\ Waiting' \subseteq Waiting
        /\ UNCHANGED <<stop_, notifying, life>>
    BY <1>6 DEF Take, Exit, Finish, SpuriousWake, Waiting, TypeOK
  <2>2. QED
    BY <2>1 DEF StopReachesSleepers
<1>7. CASE DestroyStop
  BY <1>7 DEF DestroyStop, StopReachesSleepers
<1>8. CASE DestroyJoin \/ Destroyed \/ UNCHANGED vars
  BY <1>8 DEF DestroyJoin, Destroyed, vars, StopReachesSleepers, Waiting
<1>9. QED
  BY <1>1, <1>2, <1>3, <1>4, <1>5, <1>6, <1>7, <1>8 DEF Next, Call, Pass

LEMMA ShutdownStep == TypeOK /\ Shutdown /\ [Next]_vars => Shutdown'
<1> SUFFICES ASSUME TypeOK, Shutdown, [Next]_vars PROVE Shutdown'
  OBVIOUS
<1>1. ASSUME NEW x \in Clients \cup Workers, NEW t \in Tasks, Accept(x, t)
      PROVE  Shutdown'
  <2>1. \A w \in Workers : pc'[w] = "exited" => pc[w] = "exited"
    BY <1>1, NotifyEffect DEF Accept, TypeOK
  <2>2. \A w \in Workers : pc[w] = "run" => pc'[w] = "run"
    BY <1>1, NotifyEffect DEF Accept, TypeOK
  <2>3. life # "destroyed"
    BY <1>1 DEF Accept, Shutdown
  <2>4. QED
    BY <1>1, <2>1, <2>2, <2>3 DEF Accept, Shutdown
<1>2. ASSUME NEW x \in Clients \cup Workers, NEW t \in Tasks, Reject(x, t)
      PROVE  Shutdown'
  BY <1>2 DEF Reject, Shutdown
<1>3. ASSUME NEW x \in Clients \cup Workers, Stop(x) \/ Abort(x)
      PROVE  Shutdown'
  <2>1. \/ x \in Clients /\ x \notin Workers /\ life = "live"
        \/ x \in Workers /\ x \notin Clients /\ pc[x] = "run"
    BY <1>3, NamesAssumption DEF Stop, Abort, CanCall, Running
  <2>2. /\ stop_' = TRUE /\ notifying' = notifying \cup {x}
        /\ UNCHANGED <<pc, life>>
        /\ task_list_ = <<>> => task_list_' = <<>>
    BY <1>3 DEF Stop, Abort
  <2>3. QED
    BY <2>1, <2>2 DEF Shutdown
<1>4. ASSUME NEW x \in Clients \cup Workers, WakeWorkers(x)
      PROVE  Shutdown'
  <2>1. \A w \in Workers : pc'[w] = "exited" <=> pc[w] = "exited"
    BY <1>4 DEF WakeWorkers, NotifyAll, TypeOK
  <2>2. \A w \in Workers : pc[w] = "run" => pc'[w] = "run"
    BY <1>4 DEF WakeWorkers, NotifyAll, TypeOK
  <2>3. QED
    BY <1>4, <2>1, <2>2 DEF WakeWorkers, Shutdown
<1>5. ASSUME NEW w \in Workers, Take(w)
      PROVE  Shutdown'
  BY <1>5 DEF Take, TypeOK, Shutdown
<1>6. ASSUME NEW w \in Workers, Wait(w) \/ Exit(w) \/ Finish(w) \/ SpuriousWake(w)
      PROVE  Shutdown'
  BY <1>6 DEF Wait, Exit, Finish, SpuriousWake, TypeOK, Shutdown
<1>7. CASE DestroyNotify
  <2>1. \A w \in Workers : pc'[w] = "exited" <=> pc[w] = "exited"
    BY <1>7 DEF DestroyNotify, NotifyAll, TypeOK
  <2>2. \A w \in Workers : pc[w] = "run" => pc'[w] = "run"
    BY <1>7 DEF DestroyNotify, NotifyAll, TypeOK
  <2>3. QED
    BY <1>7, <2>1, <2>2 DEF DestroyNotify, Shutdown
<1>8. CASE DestroyStop
  BY <1>8 DEF DestroyStop, Shutdown
<1>9. CASE DestroyJoin
  BY <1>9 DEF DestroyJoin, Shutdown
<1>10. CASE Destroyed \/ UNCHANGED vars
  BY <1>10 DEF Destroyed, vars, Shutdown
<1>11. QED
  BY <1>1, <1>2, <1>3, <1>4, <1>5, <1>6, <1>7, <1>8, <1>9, <1>10
     DEF Next, Call, Pass

-------------------------------------------------------------------------------
LEMMA StepInv == IInv /\ [Next]_vars => IInv'
BY TypeStep, ConservationStep, WakeupStep, SleepersStep, ShutdownStep DEF IInv

LEMMA DrainFollows == IInv => DrainBeforeDestroy
<1> SUFFICES ASSUME IInv, life = "destroyed"
             PROVE  /\ task_list_ = <<>>
                    /\ \A t \in Tasks : future[t] # "pending"
                    /\ notifying = {}
  BY DEF DrainBeforeDestroy
<1>1. \A w \in Workers : pc[w] = "exited"
  BY DEF IInv, Shutdown
<1>2. task_list_ = <<>>
  BY <1>1, WorkersFacts DEF IInv, Shutdown
<1>3. \A w \in Workers : task[w] \notin Tasks
  BY <1>1 DEF IInv, TypeOK
<1>4. Queued = {}
  BY <1>2, QueuedAreTasks DEF IInv
<1>5. notifying = {}
  BY <1>1 DEF IInv, Shutdown, TypeOK
<1>6. QED
  BY <1>2, <1>3, <1>4, <1>5 DEF IInv, Conservation

\* Whatever the number of threads, clients and tasks, the variables have their
\* types, no accepted task is lost, duplicated or in two hands, no worker sleeps
\* on a queue that needs it, stop, abort and the destructor reach every
\* sleeping worker, and nothing is left behind when the destructor returns.
THEOREM Invariance == SafeSpec => []IInv
<1>1. Init => IInv
  BY InitInv
<1>2. IInv /\ [Next]_vars => IInv'
  BY StepInv
<1>3. QED
  BY <1>1, <1>2, PTL DEF SafeSpec

\* Every variable keeps its type, and a worker holds a task just while it runs.
THEOREM TypeCorrect == SafeSpec => []TypeOK
BY Invariance, PTL DEF IInv

\* A future is pending exactly while its task is queued once or run once.
THEOREM TasksConserved == SafeSpec => []Conservation
BY Invariance, PTL DEF IInv

\* A worker never sleeps while more tasks are queued than workers are coming.
THEOREM WakeupsKept == SafeSpec => []NoLostWakeup
BY Invariance, PTL DEF IInv

\* After stop, abort or the destructor has set stop_, each sleeping worker is
\* going to be notified by a thread that has not done so yet.
THEOREM StopHeard == SafeSpec => []StopReachesSleepers
BY Invariance, PTL DEF IInv

\* The destructor returns with no task, worker or caller left in the pool.
THEOREM Drained == SafeSpec => []DrainBeforeDestroy
<1>1. IInv => DrainBeforeDestroy
  BY DrainFollows
<1>2. QED
  BY <1>1, Invariance, PTL

-------------------------------------------------------------------------------
\* The refinement.  What the abstract status says of a task.
LEMMA StatusFacts ==
    ASSUME TypeOK, Conservation
    PROVE  \A t \in Tasks :
             /\ PoolStatus[t] = "new" <=> future[t] = "none"
             /\ PoolStatus[t] = "queued" <=> t \in Queued
             /\ PoolStatus[t] = "started" <=> \E w \in Workers : task[w] = t
BY DEF TypeOK, Conservation, PoolStatus

\* The status depends on the futures and on the contents of the queue only.
LEMMA StatusFrame ==
    ASSUME UNCHANGED <<future, task_list_>>
    PROVE  PoolStatus' = PoolStatus
BY DEF PoolStatus, Queued

\* While a worker is at the mutex, fewer tasks run than there are workers: each
\* running task is in the hands of a worker of its own.
LEMMA RoomToStart ==
    ASSUME TypeOK, Conservation, NEW w \in Workers, pc[w] = "check"
    PROVE  Cardinality({t \in Tasks : PoolStatus[t] = "started"}) < WorkerCount
<1> DEFINE S == {t \in Tasks : PoolStatus[t] = "started"}
           Others == Workers \ {w}
           f == [t \in S |-> CHOOSE v \in Workers : task[v] = t]
<1>1. \A t \in S : f[t] \in Others /\ task[f[t]] = t
  <2> SUFFICES ASSUME NEW t \in S PROVE f[t] \in Others /\ task[f[t]] = t
    OBVIOUS
  <2>1. \E v \in Workers : task[v] = t
    BY StatusFacts
  <2>2. f[t] \in Workers /\ task[f[t]] = t
    BY <2>1
  <2>3. task[w] \notin Tasks
    BY DEF TypeOK
  <2>4. QED
    BY <2>2, <2>3
<1>2. f \in Injection(S, Others)
  <2>1. f \in [S -> Others]
    BY <1>1
  <2>2. \A a, b \in S : f[a] = f[b] => a = b
    BY <1>1
  <2> HIDE DEF f
  <2>3. QED
    BY <2>1, <2>2 DEF Injection, IsInjective
<1>3. IsFiniteSet(Others) /\ Cardinality(Others) = WorkerCount - 1
  BY WorkersFacts, FS_RemoveElement
<1>4. IsFiniteSet(S) /\ Cardinality(S) <= WorkerCount - 1
  BY <1>2, <1>3, FS_Injection
<1>5. Cardinality(S) \in Nat /\ WorkerCount \in Nat
  BY <1>4, FS_CardinalityType, WorkersFacts
<1>6. QED
  BY <1>4, <1>5

-------------------------------------------------------------------------------
LEMMA InitRefines == Init => Pool!Init
<1> SUFFICES ASSUME Init PROVE Pool!Init
  OBVIOUS
<1>1. PoolStatus = [t \in Tasks |-> "new"]
  BY DEF Init, PoolStatus
<1>2. QED
  BY <1>1 DEF Init, Pool!Init

LEMMA AcceptRefines ==
    ASSUME IInv, NEW x \in Clients \cup Workers, NEW t \in Tasks, Accept(x, t)
    PROVE  Pool!Submit(t)
<1>1. Queued' = Queued \cup {t}
  BY PushElements DEF Accept, IInv, TypeOK, Queued
<1>2. PoolStatus' = [PoolStatus EXCEPT ![t] = "queued"]
  BY <1>1 DEF Accept, IInv, TypeOK, PoolStatus
<1>3. life # "destroyed"
  BY DEF Accept, IInv, Shutdown
<1>4. PoolStatus[t] = "new"
  BY StatusFacts DEF Accept, IInv
<1>5. QED
  BY <1>2, <1>3, <1>4 DEF Accept, Pool!Submit

LEMMA RejectRefines ==
    ASSUME IInv, NEW x \in Clients \cup Workers, NEW t \in Tasks, Reject(x, t)
    PROVE  Pool!Refuse(t)
<1>1. PoolStatus' = [PoolStatus EXCEPT ![t] = "refused"]
  BY DEF Reject, IInv, TypeOK, PoolStatus, Queued
<1>2. life # "destroyed"
  BY DEF Reject, CanCall, Running, IInv, Shutdown
<1>3. PoolStatus[t] = "new"
  BY StatusFacts DEF Reject, IInv
<1>4. QED
  BY <1>1, <1>2, <1>3 DEF Reject, Pool!Refuse

LEMMA StopRefines ==
    ASSUME IInv, NEW x \in Clients \cup Workers, Stop(x)
    PROVE  Pool!Close
<1>1. life # "destroyed"
  BY DEF Stop, CanCall, Running, IInv, Shutdown
<1>2. PoolStatus' = PoolStatus
  BY StatusFrame DEF Stop
<1>3. QED
  BY <1>1, <1>2 DEF Stop, Pool!Close

LEMMA AbortRefines ==
    ASSUME IInv, NEW x \in Clients \cup Workers, Abort(x)
    PROVE  Pool!Drop
<1>1. life # "destroyed"
  BY DEF Abort, CanCall, Running, IInv, Shutdown
<1>2. Queued' = {}
  BY DEF Abort, Queued
<1>3. \A t \in Tasks : t \in Queued => future[t] = "pending"
  BY DEF IInv, Conservation
<1>4. PoolStatus' = [t \in Tasks |-> IF PoolStatus[t] = "queued"
                                     THEN "dropped" ELSE PoolStatus[t]]
  BY <1>2, <1>3 DEF Abort, IInv, TypeOK, PoolStatus
<1>5. QED
  BY <1>1, <1>4 DEF Abort, Pool!Drop

LEMMA TakeRefines ==
    ASSUME IInv, NEW w \in Workers, Take(w)
    PROVE  Pool!Begin
<1> DEFINE head == Head(task_list_)
<1>1. /\ head \in Tasks
      /\ Queued = Queued' \cup {head}
      /\ head \notin Queued'
  BY TakeQueue DEF IInv
<1>2. future[head] = "pending"
  BY <1>1 DEF IInv, Conservation
<1>3. PoolStatus' = [PoolStatus EXCEPT ![head] = "started"]
  BY <1>1, <1>2 DEF Take, IInv, TypeOK, PoolStatus
<1>4. life # "destroyed"
  BY DEF Take, IInv, Shutdown
<1>5. Cardinality(Pool!Started) < WorkerCount
  BY RoomToStart DEF Take, IInv, Pool!Started
<1>6. Pool!Cardinality(Pool!Started) = Cardinality(Pool!Started)
  BY DEF Pool!Cardinality, Cardinality, Pool!IsFiniteSet, IsFiniteSet
<1>7. QED
  BY <1>3, <1>4, <1>5, <1>6 DEF Take, Pool!Begin

LEMMA FinishRefines ==
    ASSUME IInv, NEW w \in Workers, Finish(w)
    PROVE  task[w] \in Tasks /\ Pool!Complete(task[w])
<1>1. task[w] \in Tasks
  BY DEF Finish, IInv, TypeOK
<1>2. PoolStatus[task[w]] = "started"
  BY <1>1, StatusFacts DEF IInv
<1>3. PoolStatus' = [PoolStatus EXCEPT ![task[w]] = "done"]
  BY <1>1 DEF Finish, IInv, TypeOK, PoolStatus, Queued
<1>4. life # "destroyed"
  BY DEF Finish, IInv, Shutdown
<1>5. QED
  BY <1>1, <1>2, <1>3, <1>4 DEF Finish, Pool!Complete

LEMMA JoinRefines == ASSUME IInv, DestroyJoin PROVE Pool!Destroy
<1>1. task_list_ = <<>>
  BY WorkersFacts DEF DestroyJoin, IInv, Shutdown
<1>2. Pool!Started = {}
  <2>1. \A w \in Workers : task[w] \notin Tasks
    BY DEF DestroyJoin, IInv, TypeOK
  <2>2. QED
    BY <2>1, StatusFacts DEF IInv, Pool!Started
<1>3. PoolStatus' = PoolStatus
  BY StatusFrame DEF DestroyJoin
<1>4. QED
  BY <1>1, <1>2, <1>3 DEF DestroyJoin, IInv, Shutdown, Pool!Destroy

LEMMA StepRefines == IInv /\ [Next]_vars => [Pool!Next]_(Pool!vars)
<1> SUFFICES ASSUME IInv, [Next]_vars PROVE [Pool!Next]_(Pool!vars)
  OBVIOUS
<1>1. ASSUME NEW x \in Clients \cup Workers, NEW t \in Tasks,
             Accept(x, t) \/ Reject(x, t)
      PROVE  Pool!Next
  BY <1>1, AcceptRefines, RejectRefines DEF Pool!Next
<1>2. ASSUME NEW x \in Clients \cup Workers, Stop(x) \/ Abort(x)
      PROVE  Pool!Next
  BY <1>2, StopRefines, AbortRefines DEF Pool!Next
<1>3. ASSUME NEW w \in Workers, Take(w)
      PROVE  Pool!Next
  BY <1>3, TakeRefines DEF Pool!Next
<1>4. ASSUME NEW w \in Workers, Finish(w)
      PROVE  Pool!Next
  BY <1>4, FinishRefines DEF Pool!Next
<1>5. CASE DestroyStop
  <2>1. PoolStatus' = PoolStatus
    BY <1>5, StatusFrame DEF DestroyStop
  <2>2. Pool!Close
    BY <1>5, <2>1 DEF DestroyStop, Pool!Close
  <2>3. QED
    BY <2>2 DEF Pool!Next
<1>6. CASE DestroyJoin
  BY <1>6, JoinRefines DEF Pool!Next
<1>7. CASE \/ \E x \in Clients \cup Workers : WakeWorkers(x)
           \/ \E w \in Workers : Wait(w) \/ Exit(w) \/ SpuriousWake(w)
           \/ DestroyNotify \/ Destroyed \/ UNCHANGED vars
  <2>1. /\ UNCHANGED <<task_list_, future, stop_>>
        /\ life' # "destroyed" <=> life # "destroyed"
    BY <1>7 DEF WakeWorkers, Wait, Exit, SpuriousWake, DestroyNotify,
                Destroyed, vars
  <2>2. PoolStatus' = PoolStatus
    BY <2>1, StatusFrame
  <2>3. QED
    BY <2>1, <2>2 DEF Pool!vars
<1>8. QED
  BY <1>1, <1>2, <1>3, <1>4, <1>5, <1>6, <1>7 DEF Next, Call, Pass

\* Every behaviour of the threads, mutex and condition variable, seen through
\* what the futures show, is one the abstract pool allows: tasks start in the
\* order of acceptance, once, no more than WorkerCount at a time, never after
\* they were dropped, and none is left when the pool is destroyed.
THEOREM PoolIsATaskPool == SafeSpec => PoolSafety
<1>1. Init => Pool!Init
  BY InitRefines
<1>2. IInv /\ [Next]_vars => [Pool!Next]_(Pool!vars)
  BY StepRefines
<1>3. QED
  BY <1>1, <1>2, Invariance, PTL DEF SafeSpec, PoolSafety, Pool!SafeSpec

-------------------------------------------------------------------------------
\* The parallel sort.

\* The operators of the instance are those that LinkedListProofs is about.
LEMMA SortUses ==
    /\ \A s, S : Sort!Those(s, S) = Those(s, S)
    /\ \A S : Sort!Cardinality(S) = Cardinality(S)
BY DEF Sort!Those, Sort!Cardinality, Sort!IsFiniteSet, Those, Cardinality, IsFiniteSet

\* f is on top of s.
Grown(s, new, f) ==
    /\ Len(new) = Len(s) + 1 /\ new[Len(s) + 1] = f
    /\ \A k \in 1 .. Len(s) : new[k] = s[k]

\* The last entry of s is gone.
Cut(s, new) ==
    /\ s # <<>> /\ Len(new) = Len(s) - 1
    /\ \A k \in 1 .. Len(new) : new[k] = s[k]

\* The first entry of s is gone.
Begun(s, new) ==
    /\ s # <<>> /\ Len(new) = Len(s) - 1
    /\ \A k \in 1 .. Len(new) : new[k] = s[k + 1]

\* The call on top of the stack s has returned list.
Done(s, new, list) ==
    /\ s # <<>> /\ Len(new) = Len(s) - 1
    /\ \A k \in 1 .. Len(new) :
         new[k] = IF k = Len(new) /\ s[Len(s)].task = NoPart
                  THEN [s[k] EXCEPT !.higher = list] ELSE s[k]

\* The call on top of the stack s waits for the task n, above it a call for high.
Split(s, new, n, point, high) ==
    /\ s # <<>> /\ Len(new) = Len(s) + 1
    /\ new[Len(s) + 1] = Sort!Call(NoPart, high)
    /\ new[Len(s)] = [s[Len(s)] EXCEPT !.list = <<point>>, !.lower = n, !.at = "wait"]
    /\ \A k \in 1 .. Len(s) - 1 : new[k] = s[k]

LEMMA ThreadFacts ==
    ASSUME Sort!SortAssumption
    PROVE  /\ \A w \in Sort!Workers :
                   /\ w \in Sort!Threads /\ w \in Nat /\ w # NoQueue /\ w # Dangling
                   /\ w \notin Callers
           /\ 0 \in Sort!Workers /\ Size \in Nat
           /\ \A t \in Sort!Threads : t \in Callers \/ t \in Sort!Workers
           /\ \A t \in Callers : t \in Sort!Threads
BY DEF Sort!SortAssumption, Sort!Workers, Sort!Threads

LEMMA AppendGrows ==
    ASSUME NEW S, NEW s \in Seq(S), NEW f \in S
    PROVE  Append(s, f) \in Seq(S) /\ Grown(s, Append(s, f), f)
BY AppendProperties DEF Grown

LEMMA FrontCuts ==
    ASSUME NEW S, NEW s \in Seq(S), s # <<>>
    PROVE  SubSeq(s, 1, Len(s) - 1) \in Seq(S) /\ Cut(s, SubSeq(s, 1, Len(s) - 1))
<1>1. Len(s) \in Nat /\ Len(s) # 0 /\ \A i \in 1 .. Len(s) : s[i] \in S
  BY EmptySeq, LenProperties, ElementOfSeq
<1> DEFINE n == Len(s) - 1
<1>2. n \in Int /\ 1 \in Int /\ \A i \in 1 .. n : s[i] \in S
  BY <1>1
<1> HIDE DEF n
<1>3. /\ SubSeq(s, 1, n) \in Seq(S)
      /\ Len(SubSeq(s, 1, n)) = IF 1 <= n THEN n - 1 + 1 ELSE 0
      /\ \A i \in 1 .. n - 1 + 1 : SubSeq(s, 1, n)[i] = s[1 + i - 1]
  BY <1>2, SubSeqProperties
<1>4. n \in Nat /\ n = Len(s) - 1
  BY <1>1 DEF n
<1>5. Len(SubSeq(s, 1, n)) = n
  BY <1>3, <1>4
<1>6. \A i \in 1 .. n : SubSeq(s, 1, n)[i] = s[i]
  <2>1. ASSUME NEW i \in 1 .. n PROVE SubSeq(s, 1, n)[i] = s[i]
    <3>1. i \in 1 .. n - 1 + 1 /\ 1 + i - 1 = i
      BY <1>4
    <3>2. QED
      BY <1>3, <3>1
  <2>2. QED
    BY <2>1
<1>7. Cut(s, SubSeq(s, 1, n))
  BY <1>4, <1>5, <1>6 DEF Cut
<1>8. QED
  BY <1>3, <1>7 DEF n

LEMMA TailBegins ==
    ASSUME NEW S, NEW s \in Seq(S), s # <<>>
    PROVE  Tail(s) \in Seq(S) /\ Begun(s, Tail(s)) /\ Head(s) = s[1] /\ s[1] \in S
<1>1. Len(s) \in Nat /\ Len(s) # 0 /\ \A i \in 1 .. Len(s) : s[i] \in S
  BY EmptySeq, LenProperties, ElementOfSeq
<1>2. /\ Tail(s) \in Seq(S)
      /\ Len(Tail(s)) = Len(s) - 1
      /\ \A i \in 1 .. Len(Tail(s)) : Tail(s)[i] = s[i + 1]
  BY HeadTailProperties
<1>3. Begun(s, Tail(s))
  BY <1>2 DEF Begun
<1>4. Head(s) = s[1]
  OBVIOUS
<1>5. QED
  BY <1>1, <1>2, <1>3, <1>4

\* s has as many entries as new, and so has every value in them.
Permuted(s, new) ==
    /\ new \in Seq(Nat) /\ Len(new) = Len(s)
    /\ \E p \in [1 .. Len(s) -> 1 .. Len(s)] :
         \E back \in [1 .. Len(s) -> 1 .. Len(s)] :
           \A i \in 1 .. Len(s) :
             /\ new[i] = s[p[i]] /\ s[i] = new[back[i]]
             /\ back[p[i]] = i /\ p[back[i]] = i

LEMMA SwapPermutes ==
    ASSUME NEW s \in Seq(Nat), NEW i \in 1 .. Len(s), NEW j \in 1 .. Len(s)
    PROVE  Permuted(s, Sort!Swapped(s, i, j)) /\ Permuted(s, Sort!InOrder(s, i, j))
<1> DEFINE N == Len(s)
           r == Sort!Swapped(s, i, j)
           p == [k \in 1 .. N |-> IF k = i THEN j ELSE IF k = j THEN i ELSE k]
           same == [k \in 1 .. N |-> k]
<1>1. N \in Nat /\ \A k \in 1 .. N : s[k] \in Nat
  BY LenProperties, ElementOfSeq
<1>2. r \in Seq(Nat) /\ Len(r) = N
  BY <1>1, ExceptSeq DEF Sort!Swapped
<1>3. \A k \in 1 .. N : r[k] = s[p[k]]
  <2>1. s \in [1 .. N -> Nat]
    BY LenProperties
  <2>2. QED
    BY <2>1, <1>1 DEF Sort!Swapped
<1>4. /\ p \in [1 .. N -> 1 .. N] /\ same \in [1 .. N -> 1 .. N]
      /\ \A k \in 1 .. N : p[p[k]] = k /\ same[k] = k
  OBVIOUS
<1>5. Permuted(s, r)
  <2>1. \A k \in 1 .. N : /\ r[k] = s[p[k]] /\ s[k] = r[p[k]] /\ p[p[k]] = k
    BY <1>3, <1>4
  <2> HIDE DEF r, p
  <2>2. QED
    BY <1>2, <1>4, <2>1 DEF Permuted
<1>6. Permuted(s, s)
  BY <1>4 DEF Permuted
<1>7. QED
  BY <1>5, <1>6 DEF Sort!InOrder

LEMMA PermutedBy ==
    ASSUME NEW s, NEW new \in Seq(Nat), Len(new) = Len(s),
           NEW p \in [1 .. Len(s) -> 1 .. Len(s)],
           NEW back \in [1 .. Len(s) -> 1 .. Len(s)],
           \A i \in 1 .. Len(s) : /\ new[i] = s[p[i]] /\ s[i] = new[back[i]]
                                 /\ back[p[i]] = i /\ p[back[i]] = i
    PROVE  Permuted(s, new)
BY DEF Permuted

LEMMA PermutedTwice ==
    ASSUME NEW s, NEW r, NEW q, Permuted(s, r), Permuted(r, q)
    PROVE  Permuted(s, q)
<1>1. PICK p \in [1 .. Len(s) -> 1 .. Len(s)] :
        \E back \in [1 .. Len(s) -> 1 .. Len(s)] :
           \A i \in 1 .. Len(s) :
             /\ r[i] = s[p[i]] /\ s[i] = r[back[i]]
             /\ back[p[i]] = i /\ p[back[i]] = i
  BY DEF Permuted
<1>2. PICK pb \in [1 .. Len(s) -> 1 .. Len(s)] :
           \A i \in 1 .. Len(s) :
             /\ r[i] = s[p[i]] /\ s[i] = r[pb[i]]
             /\ pb[p[i]] = i /\ p[pb[i]] = i
  BY <1>1
<1>3. Len(r) = Len(s) /\ Len(q) = Len(s) /\ q \in Seq(Nat)
  BY DEF Permuted
<1>4. PICK g \in [1 .. Len(s) -> 1 .. Len(s)] :
        \E back \in [1 .. Len(s) -> 1 .. Len(s)] :
           \A i \in 1 .. Len(s) :
             /\ q[i] = r[g[i]] /\ r[i] = q[back[i]]
             /\ back[g[i]] = i /\ g[back[i]] = i
  <2>1. PICK h \in [1 .. Len(r) -> 1 .. Len(r)] :
          \E back \in [1 .. Len(r) -> 1 .. Len(r)] :
           \A i \in 1 .. Len(r) :
             /\ q[i] = r[h[i]] /\ r[i] = q[back[i]]
             /\ back[h[i]] = i /\ h[back[i]] = i
    BY DEF Permuted
  <2> DEFINE n == Len(r)
  <2>2. n = Len(s)
    BY <1>3
  <2>3. PICK back \in [1 .. n -> 1 .. n] :
           \A i \in 1 .. n :
             /\ q[i] = r[h[i]] /\ r[i] = q[back[i]]
             /\ back[h[i]] = i /\ h[back[i]] = i
    BY <2>1
  <2>4. h \in [1 .. n -> 1 .. n]
    BY <2>1
  <2> HIDE DEF n
  <2>5. QED
    BY <2>2, <2>3, <2>4
<1>5. PICK gb \in [1 .. Len(s) -> 1 .. Len(s)] :
           \A i \in 1 .. Len(s) :
             /\ q[i] = r[g[i]] /\ r[i] = q[gb[i]]
             /\ gb[g[i]] = i /\ g[gb[i]] = i
  BY <1>4
<1> DEFINE a == [i \in 1 .. Len(s) |-> p[g[i]]]
           b == [i \in 1 .. Len(s) |-> gb[pb[i]]]
<1>6. a \in [1 .. Len(s) -> 1 .. Len(s)] /\ b \in [1 .. Len(s) -> 1 .. Len(s)]
  OBVIOUS
<1>7. \A i \in 1 .. Len(s) : /\ q[i] = s[a[i]] /\ s[i] = q[b[i]]
                             /\ b[a[i]] = i /\ a[b[i]] = i
  <2>1. ASSUME NEW i \in 1 .. Len(s)
        PROVE  /\ q[i] = s[a[i]] /\ s[i] = q[b[i]] /\ b[a[i]] = i /\ a[b[i]] = i
    <3>1. g[i] \in 1 .. Len(s) /\ pb[i] \in 1 .. Len(s) /\ p[g[i]] \in 1 .. Len(s)
          /\ gb[pb[i]] \in 1 .. Len(s)
      OBVIOUS
    <3>2. a[i] = p[g[i]] /\ b[i] = gb[pb[i]]
      OBVIOUS
    <3>3. b[p[g[i]]] = gb[pb[p[g[i]]]] /\ a[gb[pb[i]]] = p[g[gb[pb[i]]]]
      BY <3>1
    <3>4. a[i] \in 1 .. Len(s) /\ b[i] \in 1 .. Len(s)
      BY <3>1, <3>2
    <3>5. q[i] = s[a[i]]
      BY <1>2, <1>5, <3>1, <3>2
    <3>6. s[i] = q[b[i]]
      BY <1>2, <1>5, <3>1, <3>2
    <3> HIDE DEF a, b
    <3>7. b[a[i]] = i
      BY <1>2, <1>5, <3>1, <3>2, <3>3
    <3>8. a[b[i]] = i
      BY <1>2, <1>5, <3>1, <3>2, <3>3
    <3>9. QED
      BY <3>5, <3>6, <3>7, <3>8
  <2>2. QED
    BY <2>1
<1> HIDE DEF a, b
<1>8. QED
  BY <1>3, <1>6, <1>7, PermutedBy

LEMMA PermutedFacts ==
    ASSUME NEW s, NEW new, Permuted(s, new)
    PROVE  new \in Seq(Nat) /\ Len(new) = Len(s)
BY DEF Permuted

LEMMA MedianPermutes ==
    ASSUME NEW s \in Seq(Nat), Len(s) >= 1
    PROVE  Permuted(s, Sort!MedianFirst(s))
<1> DEFINE N == Len(s)
           mid == N \div 2 + 1
<1>1. N \in Nat
  BY LenProperties
<1>2. CASE N < 3
  <2>1. Sort!MedianFirst(s) = s
    BY <1>2 DEF Sort!MedianFirst
  <2>2. Sort!InOrder(s, 1, 1) = s /\ 1 \in 1 .. N
    BY <1>1 DEF Sort!InOrder, Sort!Swapped
  <2>3. QED
    BY <2>1, <2>2, SwapPermutes
<1>3. CASE ~(N < 3)
  <2>1. 1 \in 1 .. N /\ N \in 1 .. N /\ mid \in 1 .. N
    BY <1>1, <1>3
  <2> DEFINE a == Sort!InOrder(s, 1, mid)
             b == Sort!InOrder(a, 1, N)
             c == Sort!InOrder(b, mid, N)
             d == Sort!Swapped(c, 1, mid)
  <2>2. Sort!MedianFirst(s) = d
    BY <1>3 DEF Sort!MedianFirst
  <2> HIDE DEF mid
  <2>3. Permuted(s, a)
    BY <2>1, SwapPermutes
  <2>4. a \in Seq(Nat) /\ Len(a) = N
    BY <2>3, PermutedFacts
  <2> HIDE DEF a
  <2>5. Permuted(a, b)
    BY <2>1, <2>4, SwapPermutes
  <2>6. b \in Seq(Nat) /\ Len(b) = N
    BY <2>4, <2>5, PermutedFacts
  <2> HIDE DEF b
  <2>7. Permuted(b, c)
    BY <2>1, <2>6, SwapPermutes
  <2>8. c \in Seq(Nat) /\ Len(c) = N
    BY <2>6, <2>7, PermutedFacts
  <2> HIDE DEF c
  <2>9. Permuted(c, d)
    BY <2>1, <2>8, SwapPermutes
  <2> HIDE DEF d
  <2>10. QED
    BY <2>2, <2>3, <2>5, <2>7, <2>9, PermutedTwice
<1>4. QED
  BY <1>2, <1>3

-------------------------------------------------------------------------------
\* Where v is in s, and how often.
PositionsOf(s, v) == {i \in 1 .. Len(s) : s[i] = v}
Occurs(s, v) == Cardinality(PositionsOf(s, v))

LEMMA OccursFacts ==
    ASSUME NEW s \in Seq(Nat), NEW v
    PROVE  /\ IsFiniteSet(PositionsOf(s, v)) /\ Occurs(s, v) \in Nat
           /\ (Occurs(s, v) = 0 <=> \A i \in 1 .. Len(s) : s[i] # v)
           /\ (v \notin Nat => Occurs(s, v) = 0)
<1>1. Len(s) \in Nat /\ \A i \in 1 .. Len(s) : s[i] \in Nat
  BY LenProperties, ElementOfSeq
<1>2. IsFiniteSet(1 .. Len(s))
  BY <1>1, FS_Interval
<1>3. IsFiniteSet(PositionsOf(s, v))
  BY <1>2, FS_Subset DEF PositionsOf
<1>4. Occurs(s, v) \in Nat
  BY <1>3, FS_CardinalityType DEF Occurs
<1>5. Occurs(s, v) = 0 <=> PositionsOf(s, v) = {}
  BY <1>3, FS_EmptySet DEF Occurs
<1>6. QED
  BY <1>1, <1>3, <1>4, <1>5 DEF PositionsOf

\* g leads back from T to S what f leads from S to T.
Undoes(S, T, f, g) ==
    /\ f \in [S -> T] /\ g \in [T -> S]
    /\ \A x \in S : g[f[x]] = x
    /\ \A y \in T : f[g[y]] = y

LEMMA SameNumber ==
    ASSUME NEW S, NEW T, NEW f, NEW g, IsFiniteSet(S), Undoes(S, T, f, g)
    PROVE  IsFiniteSet(T) /\ Cardinality(T) = Cardinality(S)
<1>1. f \in Bijection(S, T)
  BY DEF Undoes, Bijection, Injection, Surjection, IsInjective
<1>2. ExistsBijection(S, T)
  BY <1>1 DEF ExistsBijection
<1>3. QED
  BY <1>2, FS_Bijection

LEMMA OccursPermuted ==
    ASSUME NEW s \in Seq(Nat), NEW new, Permuted(s, new), NEW v
    PROVE  Occurs(new, v) = Occurs(s, v)
<1>1. PICK p \in [1 .. Len(s) -> 1 .. Len(s)] :
        \E back \in [1 .. Len(s) -> 1 .. Len(s)] :
           \A i \in 1 .. Len(s) :
             /\ new[i] = s[p[i]] /\ s[i] = new[back[i]]
             /\ back[p[i]] = i /\ p[back[i]] = i
  BY DEF Permuted
<1>2. PICK back \in [1 .. Len(s) -> 1 .. Len(s)] :
           \A i \in 1 .. Len(s) :
             /\ new[i] = s[p[i]] /\ s[i] = new[back[i]]
             /\ back[p[i]] = i /\ p[back[i]] = i
  BY <1>1
<1>3. Len(new) = Len(s)
  BY DEF Permuted
<1> DEFINE S == PositionsOf(s, v)
           T == PositionsOf(new, v)
           f == [i \in S |-> back[i]]
           g == [i \in T |-> p[i]]
<1>4. \A i \in S : i \in 1 .. Len(s) /\ back[i] \in T
  BY <1>2, <1>3 DEF PositionsOf
<1>5. \A i \in T : i \in 1 .. Len(s) /\ p[i] \in S
  BY <1>2, <1>3 DEF PositionsOf
<1>6. f \in [S -> T] /\ g \in [T -> S]
  BY <1>4, <1>5
<1>7. (\A i \in S : g[f[i]] = i) /\ (\A i \in T : f[g[i]] = i)
  BY <1>2, <1>4, <1>5
<1>8. IsFiniteSet(S)
  BY OccursFacts
<1>9. Undoes(S, T, f, g)
  BY <1>6, <1>7 DEF Undoes
<1> HIDE DEF S, T, f, g
<1>10. Cardinality(T) = Cardinality(S)
  BY <1>8, <1>9, SameNumber
<1>11. QED
  BY <1>10 DEF S, T, Occurs

LEMMA OccursConcat ==
    ASSUME NEW s \in Seq(Nat), NEW t \in Seq(Nat), NEW v
    PROVE  Occurs(s \o t, v) = Occurs(s, v) + Occurs(t, v)
<1> DEFINE N == Len(s)
           A == PositionsOf(s, v)
           B == PositionsOf(t, v)
           C == {i + N : i \in B}
           f == [i \in B |-> i + N]
           g == [i \in C |-> i - N]
<1>1. N \in Nat /\ Len(t) \in Nat
  BY LenProperties
<1>2. /\ s \o t \in Seq(Nat) /\ Len(s \o t) = N + Len(t)
      /\ \A i \in 1 .. N + Len(t) :
           (s \o t)[i] = IF i <= N THEN s[i] ELSE t[i - N]
  BY ConcatProperties
<1>3. IsFiniteSet(A) /\ IsFiniteSet(B)
  BY OccursFacts
<1>4. A \subseteq 1 .. N /\ B \subseteq 1 .. Len(t)
  BY DEF PositionsOf
<1>5. PositionsOf(s \o t, v) = A \cup C
  <2>1. ASSUME NEW i \in PositionsOf(s \o t, v) PROVE i \in A \cup C
    <3>1. i \in 1 .. N + Len(t) /\ (s \o t)[i] = v
      BY <1>2 DEF PositionsOf
    <3>2. CASE i <= N
      BY <1>1, <1>2, <3>1, <3>2 DEF PositionsOf
    <3>3. CASE ~(i <= N)
      <4>1. i - N \in 1 .. Len(t) /\ t[i - N] = v /\ (i - N) + N = i
        BY <1>1, <1>2, <3>1, <3>3
      <4>2. QED
        BY <4>1 DEF PositionsOf
    <3>4. QED
      BY <3>2, <3>3
  <2>2. ASSUME NEW i \in A PROVE i \in PositionsOf(s \o t, v)
    <3>1. i \in 1 .. N /\ s[i] = v
      BY DEF PositionsOf
    <3>2. i \in 1 .. N + Len(t) /\ i <= N
      BY <1>1, <3>1
    <3>3. QED
      BY <1>2, <3>1, <3>2 DEF PositionsOf
  <2>3. ASSUME NEW i \in C PROVE i \in PositionsOf(s \o t, v)
    <3>1. PICK j \in B : i = j + N
      OBVIOUS
    <3>2. j \in 1 .. Len(t) /\ t[j] = v
      BY DEF PositionsOf
    <3>3. i \in 1 .. N + Len(t) /\ ~(i <= N) /\ i - N = j
      BY <1>1, <3>1, <3>2
    <3>4. QED
      BY <1>2, <3>2, <3>3 DEF PositionsOf
  <2>4. QED
    BY <2>1, <2>2, <2>3
<1>6. /\ f \in [B -> C] /\ g \in [C -> B]
      /\ (\A i \in B : g[f[i]] = i) /\ (\A i \in C : f[g[i]] = i)
  BY <1>1, <1>4
<1>7. A \cap C = {}
  BY <1>1, <1>4
<1>8. Undoes(B, C, f, g)
  BY <1>6 DEF Undoes
<1> HIDE DEF A, B, C, f, g
<1>9. IsFiniteSet(C) /\ Cardinality(C) = Cardinality(B)
  BY <1>3, <1>8, SameNumber
<1>10. Cardinality(A \cup C) = Cardinality(A) + Cardinality(C) - Cardinality(A \cap C)
  BY <1>3, <1>9, FS_Union
<1>11. Cardinality(A \cap C) = 0 /\ Cardinality(A) \in Nat /\ Cardinality(B) \in Nat
  BY <1>3, <1>7, FS_EmptySet, FS_CardinalityType
<1>12. QED
  BY <1>5, <1>9, <1>10, <1>11 DEF A, B, Occurs

LEMMA OccursOne ==
    ASSUME NEW e, NEW v
    PROVE  Occurs(<<e>>, v) = IF v = e THEN 1 ELSE 0
<1>1. PositionsOf(<<e>>, v) = IF v = e THEN {1} ELSE {}
  BY DEF PositionsOf
<1>2. QED
  BY <1>1, FS_Singleton, FS_EmptySet DEF Occurs

LEMMA OccursGrow ==
    ASSUME NEW s \in Seq(Nat), NEW e \in Nat, NEW v
    PROVE  Occurs(Append(s, e), v) = Occurs(s, v) + (IF v = e THEN 1 ELSE 0)
<1>1. <<e>> \in Seq(Nat) /\ Append(s, e) = s \o <<e>>
  BY AppendIsConcat
<1>2. Occurs(s \o <<e>>, v) = Occurs(s, v) + Occurs(<<e>>, v)
  BY <1>1, OccursConcat
<1>3. QED
  BY <1>1, <1>2, OccursOne

LEMMA OccursFront ==
    ASSUME NEW s \in Seq(Nat), NEW n \in 1 .. Len(s), NEW v
    PROVE  /\ SubSeq(s, 1, 0) = <<>> /\ SubSeq(s, 1, Len(s)) = s
           /\ SubSeq(s, 1, n) \in Seq(Nat) /\ SubSeq(s, 1, n - 1) \in Seq(Nat)
           /\ Occurs(SubSeq(s, 1, n), v)
                = Occurs(SubSeq(s, 1, n - 1), v) + (IF v = s[n] THEN 1 ELSE 0)
<1>1. Len(s) \in Nat /\ \A k \in 1 .. Len(s) : s[k] \in Nat
  BY LenProperties, ElementOfSeq
<1>2. SubSeq(s, 1, 0) = <<>> /\ SubSeq(s, 1, Len(s)) = s
  BY SubSeqEmpty, SubSeqFull
<1>3. n \in Int /\ n - 1 \in Int /\ 1 \in Int /\ n \in 1 .. n
      /\ (\A i \in 1 .. n : s[i] \in Nat) /\ (\A i \in 1 .. n - 1 : s[i] \in Nat)
  BY <1>1
<1>4. SubSeq(s, 1, n) \in Seq(Nat)
  BY <1>3, SubSeqProperties
<1> DEFINE m == n - 1
<1>5. m \in Int /\ \A i \in 1 .. m : s[i] \in Nat
  BY <1>3
<1> HIDE DEF m
<1>6. SubSeq(s, 1, m) \in Seq(Nat)
  BY <1>3, <1>5, SubSeqProperties
<1>7. 1 \in 1 .. Len(s) /\ n \in 1 .. Len(s)
  BY <1>1
<1>8. SubSeq(s, 1, n) = SubSeq(s, 1, m) \o <<s[n]>>
  BY <1>7, SubSeqRecursiveSecond DEF m
<1>9. SubSeq(s, 1, m) \o <<s[n]>> = Append(SubSeq(s, 1, m), s[n])
  BY <1>3, <1>6, AppendIsConcat
<1>10. Occurs(SubSeq(s, 1, n), v)
         = Occurs(SubSeq(s, 1, m), v) + (IF v = s[n] THEN 1 ELSE 0)
  <2>1. s[n] \in Nat
    BY <1>1
  <2>2. Occurs(Append(SubSeq(s, 1, m), s[n]), v)
          = Occurs(SubSeq(s, 1, m), v) + (IF v = s[n] THEN 1 ELSE 0)
    BY <1>6, <2>1, OccursGrow
  <2>3. QED
    BY <1>8, <1>9, <2>2
<1>11. QED
  BY <1>2, <1>4, <1>6, <1>10 DEF m

LEMMA OccursThose ==
    ASSUME NEW s \in Seq(Nat), NEW S, NEW v
    PROVE  Occurs(Those(s, S), v) = IF v \in S THEN Occurs(s, v) ELSE 0
<1> DEFINE N == Len(s)
           Part(n) == IF v \in S THEN Occurs(SubSeq(s, 1, n), v) ELSE 0
           g == [n \in 0 .. N |-> Part(n)]
<1>1. PICK own : Selection(Nat, s, S, own)
  BY ThoseIs
<1> DEFINE f == [n \in 0 .. N |-> Occurs(own[n], v)]
<1>2. N \in Nat /\ (\A k \in 1 .. N : s[k] \in Nat) /\ Occurs(<<>>, v) = 0
  <2>1. <<>> \in Seq(Nat) /\ Len(<<>>) = 0
    BY EmptySeq
  <2>2. Occurs(<<>>, v) = 0 <=> \A i \in 1 .. Len(<<>>) : <<>>[i] # v
    BY <2>1, OccursFacts
  <2>3. QED
    BY <2>1, <2>2, LenProperties, ElementOfSeq
<1>3. /\ own \in [0 .. N -> Seq(Nat)] /\ own[0] = <<>> /\ Those(s, S) = own[N]
      /\ \A n \in 1 .. N :
           own[n] = IF s[n] \in S THEN Append(own[n - 1], s[n]) ELSE own[n - 1]
  BY <1>1 DEF Selection
<1>4. f[0] = g[0]
  <2>1. SubSeq(s, 1, 0) = <<>> /\ 0 \in 0 .. N
    BY <1>2, SubSeqEmpty
  <2>2. f[0] = Occurs(own[0], v) /\ g[0] = Part(0)
    BY <2>1
  <2>3. QED
    BY <1>2, <1>3, <2>1, <2>2
<1>5. ASSUME NEW n \in 1 .. N, f[n - 1] = g[n - 1]
      PROVE  f[n] = g[n]
  <2>1. n \in 0 .. N /\ n - 1 \in 0 .. N /\ own[n - 1] \in Seq(Nat) /\ s[n] \in Nat
    <3>1. n \in 0 .. N /\ n - 1 \in 0 .. N
      BY <1>2
    <3>2. QED
      BY <1>2, <1>3, <3>1
  <2>2. Occurs(own[n - 1], v) = Part(n - 1)
    BY <1>5, <2>1
  <2>3. Occurs(own[n], v) = IF s[n] \in S
                            THEN Occurs(own[n - 1], v) + (IF v = s[n] THEN 1 ELSE 0)
                            ELSE Occurs(own[n - 1], v)
    BY <1>3, <2>1, OccursGrow
  <2>4. SubSeq(s, 1, n - 1) \in Seq(Nat)
        /\ Occurs(SubSeq(s, 1, n), v)
                = Occurs(SubSeq(s, 1, n - 1), v) + (IF v = s[n] THEN 1 ELSE 0)
    BY OccursFront
  <2>5. Occurs(SubSeq(s, 1, n - 1), v) \in Nat /\ Occurs(own[n - 1], v) \in Nat
    BY <2>1, <2>4, OccursFacts
  <2>6. Occurs(own[n], v) = Part(n)
    BY <2>2, <2>3, <2>4, <2>5
  <2>7. QED
    BY <2>1, <2>6
<1>6. Alike(N, f, g)
  BY <1>2, <1>4, <1>5 DEF Alike
<1> HIDE DEF f, g
<1>7. f[N] = g[N]
  BY <1>2, <1>6, SameSteps
<1>8. N \in 0 .. N /\ SubSeq(s, 1, N) = s
  BY <1>2, SubSeqFull
<1>9. QED
  BY <1>3, <1>7, <1>8 DEF f, g

LEMMA ThoseLengths ==
    ASSUME NEW s \in Seq(Nat), NEW S, NEW T,
           \A v \in Nat : v \in S <=> v \notin T
    PROVE  Len(Those(s, S)) + Len(Those(s, T)) = Len(s)
<1> DEFINE N == Len(s)
           g == [n \in 0 .. N |-> n]
<1>1. PICK a : Selection(Nat, s, S, a)
  BY ThoseIs
<1>2. PICK b : Selection(Nat, s, T, b)
  BY ThoseIs
<1> DEFINE f == [n \in 0 .. N |-> Len(a[n]) + Len(b[n])]
<1>3. N \in Nat /\ (\A k \in 1 .. N : s[k] \in Nat) /\ Len(<<>>) = 0
  BY LenProperties, ElementOfSeq, EmptySeq
<1>4. /\ a \in [0 .. N -> Seq(Nat)] /\ a[0] = <<>> /\ Those(s, S) = a[N]
      /\ \A n \in 1 .. N :
           a[n] = IF s[n] \in S THEN Append(a[n - 1], s[n]) ELSE a[n - 1]
  BY <1>1 DEF Selection
<1>5. /\ b \in [0 .. N -> Seq(Nat)] /\ b[0] = <<>> /\ Those(s, T) = b[N]
      /\ \A n \in 1 .. N :
           b[n] = IF s[n] \in T THEN Append(b[n - 1], s[n]) ELSE b[n - 1]
  BY <1>2 DEF Selection
<1>6. f[0] = g[0]
  BY <1>3, <1>4, <1>5
<1>7. ASSUME NEW n \in 1 .. N, f[n - 1] = g[n - 1]
      PROVE  f[n] = g[n]
  <2>1. /\ n \in 0 .. N /\ n - 1 \in 0 .. N /\ s[n] \in Nat
        /\ a[n - 1] \in Seq(Nat) /\ b[n - 1] \in Seq(Nat)
    <3>1. n \in 0 .. N /\ n - 1 \in 0 .. N
      BY <1>3
    <3>2. QED
      BY <1>3, <1>4, <1>5, <3>1
  <2>2. /\ Len(Append(a[n - 1], s[n])) = Len(a[n - 1]) + 1 /\ Len(a[n - 1]) \in Nat
        /\ Len(Append(b[n - 1], s[n])) = Len(b[n - 1]) + 1 /\ Len(b[n - 1]) \in Nat
    BY <2>1, AppendProperties, LenProperties
  <2>3. Len(a[n - 1]) + Len(b[n - 1]) = n - 1
    BY <1>7, <2>1
  <2> DEFINE A == Append(a[n - 1], s[n])
             B == Append(b[n - 1], s[n])
             x == Len(a[n - 1])
             y == Len(b[n - 1])
             p == Len(a[n])
             q == Len(b[n])
  <2>4. \/ a[n] = A /\ b[n] = b[n - 1]
        \/ a[n] = a[n - 1] /\ b[n] = B
    BY <1>4, <1>5, <2>1
  <2>5. x \in Nat /\ y \in Nat /\ Len(A) = x + 1 /\ Len(B) = y + 1 /\ x + y = n - 1
    BY <2>2, <2>3
  <2> HIDE DEF A, B
  <2>6. (p = x + 1 /\ q = y) \/ (p = x /\ q = y + 1)
    <3>1. CASE a[n] = A /\ b[n] = b[n - 1]
      BY <2>5, <3>1
    <3>2. CASE a[n] = a[n - 1] /\ b[n] = B
      BY <2>5, <3>2
    <3>3. QED
      BY <2>4, <3>1, <3>2
  <2> HIDE DEF x, y, p, q
  <2>7. n \in Nat /\ n \in 0 .. N
    BY <1>3
  <2>8. p + q = n
    <3>1. x \in Nat /\ y \in Nat /\ x + y = n - 1 /\ n \in Nat
      BY <2>5, <2>7
    <3>2. CASE p = x + 1 /\ q = y
      BY <3>1, <3>2
    <3>3. CASE p = x /\ q = y + 1
      BY <3>1, <3>3
    <3>4. QED
      BY <2>6, <3>2, <3>3
  <2>9. QED
    BY <2>7, <2>8 DEF p, q
<1>8. Alike(N, f, g)
  BY <1>3, <1>6, <1>7 DEF Alike
<1> HIDE DEF f, g
<1>9. f[N] = g[N]
  BY <1>3, <1>8, SameSteps
<1>10. QED
  BY <1>3, <1>4, <1>5, <1>9 DEF f, g

-------------------------------------------------------------------------------
\* What DoSort makes of a list of at least two entries.
Point(s) == Head(Sort!MedianFirst(s))
Rest(s)  == Tail(Sort!MedianFirst(s))
Low(s)   == Those(Rest(s), {v \in Nat : v < Point(s)})
High(s)  == Those(Rest(s), {v \in Nat : v >= Point(s)})

\* r is s, sorted.
Ascends(r) == \A i \in 1 .. Len(r) - 1 : r[i] <= r[i + 1]
SortOf(r, s) ==
    /\ r \in Seq(Nat) /\ Len(r) = Len(s)
    /\ Ascends(r)
    /\ \A v : Occurs(r, v) = Occurs(s, v)

LEMMA ShortSorted ==
    ASSUME NEW s \in Seq(Nat), Len(s) < 2
    PROVE  SortOf(s, s)
<1>1. Len(s) \in Nat
  BY LenProperties
<1>2. Ascends(s)
  BY <1>1 DEF Ascends
<1>3. QED
  BY <1>2 DEF SortOf

LEMMA Parts ==
    ASSUME NEW s \in Seq(Nat), Len(s) >= 2
    PROVE  /\ Point(s) \in Nat /\ Rest(s) \in Seq(Nat)
           /\ Low(s) \in Seq(Nat) /\ High(s) \in Seq(Nat)
           /\ Len(Low(s)) + Len(High(s)) + 1 = Len(s)
           /\ \A v : Occurs(s, v) = Occurs(Rest(s), v) + (IF v = Point(s) THEN 1 ELSE 0)
<1> DEFINE m == Sort!MedianFirst(s)
           x == Head(m)
           r == Tail(m)
<1>1. Len(s) \in Nat /\ Len(s) >= 1
  BY LenProperties
<1>2. Permuted(s, m)
  BY <1>1, MedianPermutes
<1>3. m \in Seq(Nat) /\ Len(m) = Len(s)
  BY <1>2, PermutedFacts
<1>4. m # <<>>
  BY <1>1, <1>3, EmptySeq
<1>5. x \in Nat /\ r \in Seq(Nat) /\ Len(r) = Len(m) - 1 /\ m = <<x>> \o r
  <2>1. /\ Head(m) \in Nat /\ Tail(m) \in Seq(Nat) /\ Len(Tail(m)) = Len(m) - 1
        /\ \A i \in 1 .. Len(Tail(m)) : Tail(m)[i] = m[i + 1]
    BY <1>3, <1>4, HeadTailProperties
  <2>2. 1 \in 1 .. Len(m) /\ Len(m) \in 1 .. Len(m)
    BY <1>1, <1>3
  <2>3. SubSeq(m, 1, Len(m)) = <<m[1]>> \o SubSeq(m, 2, Len(m))
    <3>1. 1 \in 1 .. Len(m) /\ Len(m) \in 1 .. Len(m) /\ 1 + 1 = 2
      BY <2>2
    <3>2. SubSeq(m, 1, Len(m)) = <<m[1]>> \o SubSeq(m, 1 + 1, Len(m))
      BY <1>3, <3>1, SubSeqRecursiveFirst
    <3>3. QED
      BY <3>1, <3>2
  <2>4. SubSeq(m, 1, Len(m)) = m /\ SubSeq(m, 2, Len(m)) = Tail(m)
    BY <1>3, <1>4, SubSeqFull, TailIsSubSeq
  <2>5. Head(m) = m[1]
    BY <1>3, <1>4, TailBegins
  <2>6. QED
    BY <2>1, <2>3, <2>4, <2>5
<1> HIDE DEF m, x, r
<1>6. Point(s) = x /\ Rest(s) = r
  BY DEF Point, Rest, x, r, m
<1>7. ASSUME NEW v
      PROVE  Occurs(s, v) = Occurs(r, v) + (IF v = x THEN 1 ELSE 0)
  <2>1. Occurs(m, v) = Occurs(s, v)
    BY <1>2, OccursPermuted
  <2>2. <<x>> \in Seq(Nat)
    BY <1>5
  <2>3. Occurs(<<x>> \o r, v) = Occurs(<<x>>, v) + Occurs(r, v)
    BY <1>5, <2>2, OccursConcat
  <2>4. Occurs(<<x>>, v) = IF v = x THEN 1 ELSE 0
    BY OccursOne
  <2>5. Occurs(r, v) \in Nat
    BY <1>5, OccursFacts
  <2>6. QED
    BY <1>5, <2>1, <2>3, <2>4, <2>5
<1> DEFINE small == {v \in Nat : v < x}
           large == {v \in Nat : v >= x}
<1>8. \A v \in Nat : v \in small <=> v \notin large
  BY <1>5
<1>9. Low(s) = Those(r, small) /\ High(s) = Those(r, large)
  BY <1>6 DEF Low, High
<1> HIDE DEF small, large
<1>10. Len(Those(r, small)) + Len(Those(r, large)) = Len(r)
  BY <1>5, <1>8, ThoseLengths
<1>11. Those(r, small) \in Seq(Nat) /\ Those(r, large) \in Seq(Nat)
  BY <1>5, ThoseType
<1>12. Len(Those(r, small)) \in Nat /\ Len(Those(r, large)) \in Nat
  BY <1>11, LenProperties
<1>13. Len(Low(s)) + Len(High(s)) + 1 = Len(s)
  BY <1>1, <1>3, <1>5, <1>9, <1>10, <1>12
<1>14. QED
  BY <1>5, <1>6, <1>7, <1>9, <1>11, <1>13

\* The entries of the sorted parts are those of the parts.
LEMMA PartsOccur ==
    ASSUME NEW s \in Seq(Nat), Len(s) >= 2, NEW l, NEW h,
           SortOf(l, Low(s)), SortOf(h, High(s)), NEW v
    PROVE  /\ Occurs(l, v) =
                IF v \in Nat /\ v < Point(s) THEN Occurs(Rest(s), v) ELSE 0
           /\ Occurs(h, v) =
                IF v \in Nat /\ v >= Point(s) THEN Occurs(Rest(s), v) ELSE 0
<1> DEFINE small == {w \in Nat : w < Point(s)}
           large == {w \in Nat : w >= Point(s)}
<1>1. Point(s) \in Nat /\ Rest(s) \in Seq(Nat)
  BY Parts
<1>2. /\ v \in small <=> v \in Nat /\ v < Point(s)
      /\ v \in large <=> v \in Nat /\ v >= Point(s)
  OBVIOUS
<1>3. Low(s) = Those(Rest(s), small) /\ High(s) = Those(Rest(s), large)
  BY DEF Low, High
<1>4. Occurs(l, v) = Occurs(Low(s), v) /\ Occurs(h, v) = Occurs(High(s), v)
  BY DEF SortOf
<1> HIDE DEF small, large
<1>5. Occurs(Those(Rest(s), small), v) = IF v \in small THEN Occurs(Rest(s), v) ELSE 0
  BY <1>1, OccursThose
<1>6. Occurs(Those(Rest(s), large), v) = IF v \in large THEN Occurs(Rest(s), v) ELSE 0
  BY <1>1, OccursThose
<1>7. QED
  BY <1>2, <1>3, <1>4, <1>5, <1>6

LEMMA PartsCounted ==
    ASSUME NEW s \in Seq(Nat), Len(s) >= 2, NEW l, NEW h,
           SortOf(l, Low(s)), SortOf(h, High(s)), NEW v
    PROVE  Occurs(l, v) + Occurs(h, v) = Occurs(Rest(s), v)
<1>1. /\ Occurs(l, v) = IF v \in Nat /\ v < Point(s) THEN Occurs(Rest(s), v) ELSE 0
      /\ Occurs(h, v) = IF v \in Nat /\ v >= Point(s) THEN Occurs(Rest(s), v) ELSE 0
  BY PartsOccur
<1>2. Point(s) \in Nat /\ Rest(s) \in Seq(Nat)
  BY Parts
<1>3. Occurs(Rest(s), v) \in Nat /\ (v \notin Nat => Occurs(Rest(s), v) = 0)
  BY <1>2, OccursFacts
<1>4. CASE v \in Nat
  <2>1. v < Point(s) <=> ~(v >= Point(s))
    BY <1>2, <1>4
  <2>2. QED
    BY <1>1, <1>3, <1>4, <2>1
<1>5. CASE v \notin Nat
  BY <1>1, <1>3, <1>5
<1>6. QED
  BY <1>4, <1>5

LEMMA PartsOrdered ==
    ASSUME NEW s \in Seq(Nat), Len(s) >= 2, NEW l, NEW h,
           SortOf(l, Low(s)), SortOf(h, High(s))
    PROVE  /\ \A i \in 1 .. Len(l) : l[i] \in Nat /\ l[i] < Point(s)
           /\ \A i \in 1 .. Len(h) : h[i] \in Nat /\ h[i] >= Point(s)
<1>1. l \in Seq(Nat) /\ h \in Seq(Nat)
  BY DEF SortOf
<1>2. ASSUME NEW i \in 1 .. Len(l) PROVE l[i] \in Nat /\ l[i] < Point(s)
  <2>1. Occurs(l, l[i]) # 0
    BY <1>1, OccursFacts
  <2>2. Occurs(l, l[i]) =
          IF l[i] \in Nat /\ l[i] < Point(s) THEN Occurs(Rest(s), l[i]) ELSE 0
    BY PartsOccur
  <2>3. QED
    BY <2>1, <2>2
<1>3. ASSUME NEW i \in 1 .. Len(h) PROVE h[i] \in Nat /\ h[i] >= Point(s)
  <2>1. Occurs(h, h[i]) # 0
    BY <1>1, OccursFacts
  <2>2. Occurs(h, h[i]) =
          IF h[i] \in Nat /\ h[i] >= Point(s) THEN Occurs(Rest(s), h[i]) ELSE 0
    BY PartsOccur
  <2>3. QED
    BY <2>1, <2>2
<1>4. QED
  BY <1>2, <1>3

LEMMA MergeSorted ==
    ASSUME NEW s \in Seq(Nat), Len(s) >= 2, NEW l, NEW h,
           SortOf(l, Low(s)), SortOf(h, High(s))
    PROVE  SortOf(l \o <<Point(s)>> \o h, s)
<1> DEFINE x == Point(s)
           a == l \o <<x>>
           r == a \o h
<1>1. /\ x \in Nat /\ Rest(s) \in Seq(Nat) /\ Low(s) \in Seq(Nat) /\ High(s) \in Seq(Nat)
      /\ Len(Low(s)) + Len(High(s)) + 1 = Len(s)
      /\ \A v : Occurs(s, v) = Occurs(Rest(s), v) + (IF v = x THEN 1 ELSE 0)
  BY Parts
<1>2. /\ l \in Seq(Nat) /\ Len(l) = Len(Low(s)) /\ h \in Seq(Nat) /\ Len(h) = Len(High(s))
      /\ Ascends(l) /\ Ascends(h)
  BY DEF SortOf
<1>3. /\ \A i \in 1 .. Len(l) : l[i] \in Nat /\ l[i] < x
      /\ \A i \in 1 .. Len(h) : h[i] \in Nat /\ h[i] >= x
      /\ \A v : Occurs(l, v) + Occurs(h, v) = Occurs(Rest(s), v)
  <2>1. \A i \in 1 .. Len(l) : l[i] \in Nat /\ l[i] < Point(s)
    BY PartsOrdered
  <2>2. \A i \in 1 .. Len(h) : h[i] \in Nat /\ h[i] >= Point(s)
    BY PartsOrdered
  <2>3. ASSUME NEW v PROVE Occurs(l, v) + Occurs(h, v) = Occurs(Rest(s), v)
    BY PartsCounted
  <2>4. QED
    BY <2>1, <2>2, <2>3
<1>4. Len(l) \in Nat /\ Len(h) \in Nat /\ <<x>> \in Seq(Nat) /\ Len(<<x>>) = 1 /\ <<x>>[1] = x
  BY <1>1, <1>2, LenProperties
<1> HIDE DEF x
<1>5. /\ a \in Seq(Nat) /\ Len(a) = Len(l) + 1
      /\ \A i \in 1 .. Len(l) + 1 : a[i] = IF i <= Len(l) THEN l[i] ELSE x
  <2>1. /\ a \in Seq(Nat) /\ Len(a) = Len(l) + Len(<<x>>)
        /\ \A i \in 1 .. Len(l) + Len(<<x>>) :
             a[i] = IF i <= Len(l) THEN l[i] ELSE <<x>>[i - Len(l)]
    BY <1>2, <1>4, ConcatProperties
  <2> HIDE DEF a
  <2>2. ASSUME NEW i \in 1 .. Len(l) + 1
        PROVE  a[i] = IF i <= Len(l) THEN l[i] ELSE x
    <3>1. ~(i <= Len(l)) => i - Len(l) = 1
      BY <1>4
    <3>2. QED
      BY <1>4, <2>1, <3>1
  <2>3. QED
    BY <1>4, <2>1, <2>2
<1> HIDE DEF a
<1>6. /\ r \in Seq(Nat) /\ Len(r) = Len(l) + 1 + Len(h)
      /\ \A i \in 1 .. Len(l) + 1 + Len(h) :
           r[i] = IF i <= Len(l) THEN l[i]
                  ELSE IF i = Len(l) + 1 THEN x
                  ELSE h[i - (Len(l) + 1)]
  <2>1. a \in Seq(Nat) /\ h \in Seq(Nat)
    BY <1>2, <1>5
  <2>2. /\ r \in Seq(Nat) /\ Len(r) = Len(a) + Len(h)
        /\ \A i \in 1 .. Len(a) + Len(h) :
             r[i] = IF i <= Len(a) THEN a[i] ELSE h[i - Len(a)]
    BY <2>1, ConcatProperties
  <2> HIDE DEF r
  <2>3. ASSUME NEW i \in 1 .. Len(l) + 1 + Len(h)
        PROVE  r[i] = IF i <= Len(l) THEN l[i]
                      ELSE IF i = Len(l) + 1 THEN x
                      ELSE h[i - (Len(l) + 1)]
    <3>1. r[i] = IF i <= Len(l) + 1 THEN a[i] ELSE h[i - (Len(l) + 1)]
      BY <1>5, <2>2
    <3>2. i <= Len(l) + 1 => a[i] = IF i <= Len(l) THEN l[i] ELSE x
      BY <1>4, <1>5
    <3>3. QED
      BY <1>4, <3>1, <3>2
  <2>4. QED
    BY <1>5, <2>2, <2>3
<1>7. \A v : Occurs(r, v) = Occurs(s, v)
  <2>1. ASSUME NEW v PROVE Occurs(r, v) = Occurs(s, v)
    <3>1. Occurs(a, v) = Occurs(l, v) + Occurs(<<x>>, v)
      BY <1>2, <1>4, OccursConcat DEF a
    <3>2. Occurs(r, v) = Occurs(a, v) + Occurs(h, v)
      BY <1>2, <1>5, OccursConcat
    <3>3. Occurs(<<x>>, v) = IF v = x THEN 1 ELSE 0
      BY OccursOne
    <3>4. Occurs(l, v) \in Nat /\ Occurs(h, v) \in Nat
      BY <1>2, OccursFacts
    <3> HIDE DEF r
    <3>5. QED
      BY <1>1, <1>3, <3>1, <3>2, <3>3, <3>4
  <2>2. QED
    BY <2>1
<1> HIDE DEF r
<1>8. Ascends(r)
  <2>1. ASSUME NEW i \in 1 .. Len(r) - 1 PROVE r[i] <= r[i + 1]
    <3>1. i \in 1 .. Len(l) + Len(h) /\ i \in Nat
      BY <1>4, <1>6
    <3>2. CASE i < Len(l)
      <4>1. /\ i \in 1 .. Len(l) /\ i + 1 \in 1 .. Len(l)
            /\ i \in 1 .. Len(l) - 1
        BY <1>4, <3>1, <3>2
      <4>2. r[i] = l[i] /\ r[i + 1] = l[i + 1]
        <5>1. ASSUME NEW k \in 1 .. Len(l) PROVE r[k] = l[k]
          <6>1. k \in 1 .. Len(l) + 1 + Len(h) /\ k <= Len(l)
            BY <1>4, <5>1
          <6>2. QED
            BY <1>6, <6>1
        <5>2. QED
          BY <4>1, <5>1
      <4>3. l[i] <= l[i + 1]
        BY <1>2, <4>1 DEF Ascends
      <4>4. QED
        BY <4>2, <4>3
    <3>3. CASE i = Len(l)
      <4>1. /\ i \in 1 .. Len(l) /\ i \in 1 .. Len(l) + 1 + Len(h) /\ i <= Len(l)
            /\ Len(l) + 1 \in 1 .. Len(l) + 1 + Len(h) /\ ~(Len(l) + 1 <= Len(l))
        BY <1>4, <3>1, <3>3
      <4>2. r[i] = l[i] /\ r[Len(l) + 1] = x
        BY <1>6, <4>1
      <4>3. r[i] = l[i] /\ r[i + 1] = x /\ i \in 1 .. Len(l)
        BY <3>3, <4>1, <4>2
      <4>4. QED
        BY <1>1, <1>3, <4>3
    <3>4. CASE i = Len(l) + 1
      <4> DEFINE p == Len(l)
                 q == Len(h)
      <4>1. /\ p \in Nat /\ q \in Nat /\ i \in 1 .. p + q /\ i = p + 1
            /\ \A k \in 1 .. p + 1 + q :
                 r[k] = IF k <= p THEN l[k] ELSE IF k = p + 1 THEN x
                        ELSE h[k - (p + 1)]
        BY <1>4, <1>6, <3>1, <3>4
      <4> HIDE DEF p, q
      <4>2. /\ i \in 1 .. p + 1 + q /\ ~(i <= p) /\ i = p + 1
            /\ i + 1 \in 1 .. p + 1 + q /\ ~(i + 1 <= p) /\ i + 1 # p + 1
            /\ i + 1 - (p + 1) = 1 /\ 1 \in 1 .. q
        BY <4>1
      <4>3. r[i] = x
        BY <4>1, <4>2
      <4>4. r[i + 1] = h[i + 1 - (p + 1)]
        BY <4>1, <4>2
      <4>5. r[i] = x /\ r[i + 1] = h[1] /\ 1 \in 1 .. Len(h)
        BY <4>2, <4>3, <4>4 DEF q
      <4>6. QED
        BY <1>1, <1>3, <4>5
    <3>5. CASE i > Len(l) + 1
      <4> DEFINE p == Len(l)
                 q == Len(h)
                 j == i - (p + 1)
      <4>1. /\ p \in Nat /\ q \in Nat /\ i \in 1 .. p + q /\ i > p + 1
            /\ \A k \in 1 .. p + 1 + q :
                 r[k] = IF k <= p THEN l[k] ELSE IF k = p + 1 THEN x
                        ELSE h[k - (p + 1)]
        BY <1>4, <1>6, <3>1, <3>5
      <4>2. \A k \in 1 .. q - 1 : h[k] <= h[k + 1]
        BY <1>2 DEF Ascends
      <4> HIDE DEF p, q
      <4>3. /\ i \in 1 .. p + 1 + q /\ ~(i <= p) /\ i # p + 1
            /\ i + 1 \in 1 .. p + 1 + q /\ ~(i + 1 <= p) /\ i + 1 # p + 1
            /\ i + 1 - (p + 1) = j + 1 /\ j \in 1 .. q - 1
        BY <4>1
      <4>4. r[i] = h[j] /\ r[i + 1] = h[i + 1 - (p + 1)]
        BY <4>1, <4>3
      <4>5. QED
        BY <4>2, <4>3, <4>4
    <3>6. QED
      BY <1>4, <3>1, <3>2, <3>3, <3>4, <3>5
  <2>2. QED
    BY <2>1 DEF Ascends
<1>9. Len(r) = Len(s)
  BY <1>1, <1>2, <1>4, <1>6
<1>10. QED
  BY <1>6, <1>7, <1>8, <1>9 DEF SortOf, r, a, x

LEMMA SortOfSorts ==
    ASSUME NEW r, NEW s, s \in Seq(Nat), SortOf(r, s)
    PROVE  Sort!IsSortOf(r, s)
<1>1. r \in Seq(Nat) /\ Len(r) = Len(s) /\ Ascends(r) /\ \A v : Occurs(r, v) = Occurs(s, v)
  BY DEF SortOf
<1>2. DOMAIN r = 1 .. Len(r) /\ DOMAIN s = 1 .. Len(s)
  BY <1>1, LenProperties
<1>3. QED
  BY <1>1, <1>2, SortUses DEF Sort!IsSortOf, Ascends, Occurs, PositionsOf

-------------------------------------------------------------------------------
\* The tasks in S, and no others, are in the places, each in one.
Placed(places, held, S) ==
    /\ held \in [places -> Seq(Nat \cup {NoPart})]
    /\ \A h, g \in places : \A i \in 1 .. Len(held[h]), j \in 1 .. Len(held[g]) :
         held[h][i] = held[g][j] /\ held[h][i] # NoPart => h = g /\ i = j
    /\ \A n \in Nat :
         n \in S <=> \E h \in places : \E i \in 1 .. Len(held[h]) : held[h][i] = n

\* Elsewhere the two hold the same.
SameBut(places, held, new, p) ==
    /\ new \in [places -> Seq(Nat \cup {NoPart})]
    /\ \A h \in places \ {p} : new[h] = held[h]

LEMMA PlacesAdd ==
    ASSUME Sort!SortAssumption,
           NEW places, NEW held, NEW new, NEW S, NEW S2, Placed(places, held, S),
           NEW p \in places, SameBut(places, held, new, p),
           NEW n, Grown(held[p], new[p], n), n \in Nat \cup {NoPart},
           n \notin S, S2 = IF n = NoPart THEN S ELSE S \cup {n}
    PROVE  Placed(places, new, S2)
<1>1. /\ held \in [places -> Seq(Nat \cup {NoPart})]
      /\ new \in [places -> Seq(Nat \cup {NoPart})]
      /\ \A h \in places \ {p} : new[h] = held[h]
  BY DEF Placed, SameBut
<1>2. /\ \A h \in places : Len(held[h]) \in Nat
      /\ Len(new[p]) = Len(held[p]) + 1 /\ new[p][Len(held[p]) + 1] = n
      /\ \A k \in 1 .. Len(held[p]) : new[p][k] = held[p][k]
  BY <1>1, LenProperties DEF Grown
<1>3. NoPart \notin Nat
  BY DEF Sort!SortAssumption
\* An entry of new is the new one or an old one.
<1>4. ASSUME NEW h \in places, NEW i \in 1 .. Len(new[h])
      PROVE  \/ h = p /\ i = Len(held[p]) + 1 /\ new[h][i] = n
             \/ i \in 1 .. Len(held[h]) /\ new[h][i] = held[h][i]
  <2>1. CASE h = p
    <3>1. i \in 1 .. Len(held[p]) + 1 /\ Len(held[p]) \in Nat
      BY <1>2, <2>1
    <3>2. i \in 1 .. Len(held[p]) \/ i = Len(held[p]) + 1
      BY <3>1
    <3>3. QED
      BY <1>2, <2>1, <3>2
  <2>2. CASE h # p
    BY <1>1, <2>2
  <2>3. QED
    BY <2>1, <2>2
<1>5. ASSUME NEW h \in places, NEW i \in 1 .. Len(held[h])
      PROVE  i \in 1 .. Len(new[h]) /\ new[h][i] = held[h][i]
  <2>1. CASE h = p
    <3>1. i \in 1 .. Len(held[p]) /\ Len(held[p]) \in Nat
      BY <1>2, <2>1
    <3>2. i \in 1 .. Len(held[p]) + 1
      BY <3>1
    <3>3. QED
      BY <1>2, <2>1, <3>1, <3>2
  <2>2. CASE h # p
    BY <1>1, <2>2
  <2>3. QED
    BY <2>1, <2>2
<1>6. ASSUME NEW h \in places, NEW i \in 1 .. Len(held[h]), held[h][i] = n, n # NoPart
      PROVE  FALSE
  BY <1>6 DEF Placed
<1>7. ASSUME NEW h \in places, NEW g \in places,
             NEW i \in 1 .. Len(new[h]), NEW j \in 1 .. Len(new[g]),
             new[h][i] = new[g][j], new[h][i] # NoPart
      PROVE  h = g /\ i = j
  <2>1. CASE i \in 1 .. Len(held[h]) /\ new[h][i] = held[h][i]
             /\ j \in 1 .. Len(held[g]) /\ new[g][j] = held[g][j]
    <3>1. held[h][i] = held[g][j] /\ held[h][i] # NoPart
      BY <1>7, <2>1
    <3>2. QED
      BY <2>1, <3>1 DEF Placed
  <2>2. CASE h = p /\ i = Len(held[p]) + 1 /\ new[h][i] = n
             /\ j \in 1 .. Len(held[g]) /\ new[g][j] = held[g][j]
    BY <1>6, <1>7, <2>2
  <2>3. CASE g = p /\ j = Len(held[p]) + 1 /\ new[g][j] = n
             /\ i \in 1 .. Len(held[h]) /\ new[h][i] = held[h][i]
    BY <1>6, <1>7, <2>3
  <2>4. QED
    BY <1>4, <2>1, <2>2, <2>3
<1>8. ASSUME NEW m \in Nat
      PROVE  m \in S2 <=> \E h \in places : \E i \in 1 .. Len(new[h]) : new[h][i] = m
  <2>1. ASSUME m \in S2
        PROVE  \E h \in places : \E i \in 1 .. Len(new[h]) : new[h][i] = m
    <3>1. CASE m \in S
      <4>1. PICK h \in places : \E i \in 1 .. Len(held[h]) : held[h][i] = m
        BY <3>1 DEF Placed
      <4>2. QED
        BY <1>5, <4>1
    <3>2. CASE m \notin S
      <4>1. m = n
        BY <2>1, <3>2
      <4>2. Len(held[p]) + 1 \in 1 .. Len(new[p])
        BY <1>2
      <4>3. QED
        BY <1>2, <4>1, <4>2
    <3>3. QED
      BY <3>1, <3>2
  <2>2. ASSUME NEW h \in places, NEW i \in 1 .. Len(new[h]), new[h][i] = m
        PROVE  m \in S2
    <3>1. CASE new[h][i] = n
      BY <1>3, <2>2, <3>1
    <3>2. CASE i \in 1 .. Len(held[h]) /\ new[h][i] = held[h][i]
      <4>1. m \in S
        BY <2>2, <3>2 DEF Placed
      <4>2. QED
        BY <4>1
    <3>3. QED
      BY <1>4, <3>1, <3>2
  <2>3. QED
    BY <2>1, <2>2
<1>9. QED
  BY <1>1, <1>7, <1>8 DEF Placed

\* The entry at place k of p is gone; those behind it have moved up.
Without(s, new, k) ==
    /\ k \in 1 .. Len(s) /\ Len(new) = Len(s) - 1
    /\ \A i \in 1 .. Len(new) : new[i] = IF i < k THEN s[i] ELSE s[i + 1]

LEMMA PlacesRemove ==
    ASSUME Sort!SortAssumption,
           NEW places, NEW held, NEW new, NEW S, NEW S2, Placed(places, held, S),
           NEW p \in places, SameBut(places, held, new, p),
           NEW k, Without(held[p], new[p], k),
           S2 = S \ {held[p][k]}
    PROVE  Placed(places, new, S2)
<1> DEFINE n == held[p][k]
           Old(h, i) == IF h = p /\ ~(i < k) THEN i + 1 ELSE i
<1>1. /\ held \in [places -> Seq(Nat \cup {NoPart})]
      /\ new \in [places -> Seq(Nat \cup {NoPart})]
      /\ \A h \in places \ {p} : new[h] = held[h]
  BY DEF Placed, SameBut
<1>2. /\ \A h \in places : Len(held[h]) \in Nat
      /\ Len(new[p]) = Len(held[p]) - 1 /\ k \in 1 .. Len(held[p])
      /\ \A i \in 1 .. Len(new[p]) :
           new[p][i] = IF i < k THEN held[p][i] ELSE held[p][i + 1]
  BY <1>1, LenProperties DEF Without
<1>3. NoPart \notin Nat
  BY DEF Sort!SortAssumption
<1>4. ASSUME NEW h \in places, NEW i \in 1 .. Len(new[h])
      PROVE  /\ Old(h, i) \in 1 .. Len(held[h]) /\ new[h][i] = held[h][Old(h, i)]
             /\ ~(h = p /\ Old(h, i) = k)
  <2>1. CASE h = p
    <3>1. Len(held[p]) \in Nat /\ k \in 1 .. Len(held[p])
          /\ i \in 1 .. Len(held[p]) - 1
      BY <1>2, <2>1
    <3>2. QED
      BY <1>2, <2>1, <3>1
  <2>2. CASE h # p
    BY <1>1, <2>2
  <2>3. QED
    BY <2>1, <2>2
<1>5. ASSUME NEW h \in places, NEW j \in 1 .. Len(held[h]), ~(h = p /\ j = k)
      PROVE  \E i \in 1 .. Len(new[h]) : new[h][i] = held[h][j]
  <2>1. CASE h = p /\ j < k
    <3>1. j \in 1 .. Len(new[p])
      BY <1>2, <2>1
    <3>2. QED
      BY <1>2, <2>1, <3>1
  <2>2. CASE h = p /\ j > k
    <3>1. j - 1 \in 1 .. Len(new[p]) /\ ~(j - 1 < k) /\ j - 1 + 1 = j
      BY <1>2, <2>2
    <3>2. new[p][j - 1] = held[p][j - 1 + 1]
      BY <1>2, <3>1
    <3>3. QED
      BY <2>2, <3>1, <3>2
  <2>3. CASE h # p
    BY <1>1, <2>3
  <2>4. QED
    BY <1>2, <1>5, <2>1, <2>2, <2>3
<1>6. ASSUME NEW h \in places, NEW g \in places,
             NEW i \in 1 .. Len(new[h]), NEW j \in 1 .. Len(new[g]),
             new[h][i] = new[g][j], new[h][i] # NoPart
      PROVE  h = g /\ i = j
  <2>1. /\ Old(h, i) \in 1 .. Len(held[h]) /\ new[h][i] = held[h][Old(h, i)]
        /\ Old(g, j) \in 1 .. Len(held[g]) /\ new[g][j] = held[g][Old(g, j)]
    BY <1>4
  <2>2. h = g /\ Old(h, i) = Old(g, j)
    <3> DEFINE a == Old(h, i)
               b == Old(g, j)
    <3>1. /\ a \in 1 .. Len(held[h]) /\ b \in 1 .. Len(held[g])
          /\ held[h][a] = held[g][b] /\ held[h][a] # NoPart
      BY <1>6, <2>1
    <3> HIDE DEF a, b
    <3>2. h = g /\ a = b
      BY <3>1 DEF Placed
    <3>3. QED
      BY <3>2 DEF a, b
  <2>3. i \in Nat /\ j \in Nat /\ k \in Nat
    BY <1>2
  <2>4. QED
    BY <2>2, <2>3
<1>7. ASSUME NEW m \in Nat
      PROVE  m \in S2 <=> \E h \in places : \E i \in 1 .. Len(new[h]) : new[h][i] = m
  <2>1. ASSUME m \in S2
        PROVE  \E h \in places : \E i \in 1 .. Len(new[h]) : new[h][i] = m
    <3>1. m \in S /\ m # n
      BY <2>1
    <3>2. PICK h \in places : \E i \in 1 .. Len(held[h]) : held[h][i] = m
      BY <3>1 DEF Placed
    <3>3. PICK j \in 1 .. Len(held[h]) : held[h][j] = m
      BY <3>2
    <3>4. ~(h = p /\ j = k)
      BY <3>1, <3>3
    <3>5. QED
      BY <1>5, <3>3, <3>4
  <2>2. ASSUME NEW h \in places, NEW i \in 1 .. Len(new[h]), new[h][i] = m
        PROVE  m \in S2
    <3> DEFINE j == Old(h, i)
    <3>1. j \in 1 .. Len(held[h]) /\ held[h][j] = m /\ ~(h = p /\ j = k)
      BY <1>4, <2>2
    <3> HIDE DEF j
    <3>2. m \in S
      BY <3>1 DEF Placed
    <3>3. m # n
      <4>1. SUFFICES ASSUME m = n PROVE FALSE
        OBVIOUS
      <4>2. held[h][j] = held[p][k] /\ held[h][j] # NoPart /\ k \in 1 .. Len(held[p])
        BY <1>2, <1>3, <3>1, <4>1
      <4>3. h = p /\ j = k
        BY <3>1, <4>2 DEF Placed
      <4>4. QED
        BY <3>1, <4>3
    <3>4. QED
      BY <3>2, <3>3
  <2>3. QED
    BY <2>1, <2>2
<1>8. QED
  BY <1>1, <1>6, <1>7 DEF Placed

-------------------------------------------------------------------------------
\* All queues, that of the pool too.
Queues == Sort!Workers \cup {NoQueue}
Queue == [q \in Queues |-> IF q = NoQueue THEN s_pool ELSE s_queues[q]]

\* Only at p the function new differs from old.
OnlyAt(p, S, T, old, new) == new \in [S -> T] /\ \A x \in S \ {p} : new[x] = old[x]

\* What divide does to the queues, and to the stack of t.
Queues1(n, list) ==
    \E q \in Queues : /\ OnlyAt(q, Queues, Seq(Sort!Tasks), Queue, Queue')
                      /\ Grown(Queue[q], Queue'[q], [task |-> n, list |-> list])

Divides(t) ==
    LET list == Sort!Top(t).list
        n    == Len(s_future) + 1
    IN  /\ s_stack[t] # <<>> /\ Sort!Top(t).at = "sort" /\ Len(list) >= 2
        /\ Queues1(n, Low(list))
        /\ s_future' = Append(s_future, Pending)
        /\ OnlyAt(t, Sort!Threads, Seq(Sort!Calls), s_stack, s_stack')
        /\ Split(s_stack[t], s_stack'[t], n, Point(list), High(list))
        /\ UNCHANGED <<s_look, s_tried, s_input, s_sorted>>

LEMMA SortQueueType ==
    ASSUME Sort!SortAssumption, Sort!TypeOK
    PROVE  /\ Queue \in [Queues -> Seq(Sort!Tasks)]
           /\ Queue[NoQueue] = s_pool
           /\ \A w \in Sort!Workers : Queue[w] = s_queues[w] /\ w # NoQueue
           /\ NoQueue \in Queues /\ \A w \in Sort!Workers : w \in Queues
BY ThreadFacts DEF Queue, Queues, Sort!TypeOK

LEMMA SortTopFacts ==
    ASSUME Sort!TypeOK, NEW t \in Sort!Threads, s_stack[t] # <<>>
    PROVE  /\ s_stack[t] \in Seq(Sort!Calls) /\ Len(s_stack[t]) \in Nat \ {0}
           /\ \A k \in 1 .. Len(s_stack[t]) : s_stack[t][k] \in Sort!Calls
           /\ Sort!Top(t) = s_stack[t][Len(s_stack[t])] /\ Sort!Top(t) \in Sort!Calls
           /\ Sort!Below(t) \in Seq(Sort!Calls) /\ Cut(s_stack[t], Sort!Below(t))
           /\ Len(Sort!Below(t)) \in Nat
<1>1. s_stack[t] \in Seq(Sort!Calls)
  BY DEF Sort!TypeOK
<1>2. /\ Len(s_stack[t]) \in Nat \ {0}
      /\ \A k \in 1 .. Len(s_stack[t]) : s_stack[t][k] \in Sort!Calls
  BY <1>1, EmptySeq, ElementOfSeq
<1>3. Sort!Top(t) = s_stack[t][Len(s_stack[t])] /\ Sort!Top(t) \in Sort!Calls
  BY <1>2 DEF Sort!Top
<1>4. Sort!Below(t) \in Seq(Sort!Calls) /\ Cut(s_stack[t], Sort!Below(t))
  BY <1>1, FrontCuts DEF Sort!Below
<1>5. QED
  BY <1>1, <1>2, <1>3, <1>4, LenProperties

LEMMA TwoOnTop ==
    ASSUME NEW S, NEW s \in Seq(S), NEW x \in S, NEW y \in S, NEW new, new = s \o <<x, y>>
    PROVE  /\ new \in Seq(S) /\ Len(new) = Len(s) + 2
           /\ new[Len(s) + 1] = x /\ new[Len(s) + 2] = y
           /\ \A i \in 1 .. Len(s) : new[i] = s[i]
<1> DEFINE two == <<x, y>>
           n == Len(s)
<1>1. two \in Seq(S) /\ Len(two) = 2 /\ two[1] = x /\ two[2] = y
  OBVIOUS
<1>2. new = s \o two
  OBVIOUS
<1> HIDE DEF two
<1>3. /\ s \o two \in Seq(S) /\ Len(s \o two) = Len(s) + Len(two)
      /\ \A i \in 1 .. Len(s) + Len(two) :
           (s \o two)[i] = IF i <= Len(s) THEN s[i] ELSE two[i - Len(s)]
  BY <1>1, ConcatProperties
<1>4. /\ new \in Seq(S) /\ Len(new) = n + 2 /\ n \in Nat
      /\ \A i \in 1 .. n + 2 : new[i] = IF i <= n THEN s[i] ELSE two[i - n]
  BY <1>1, <1>2, <1>3, LenProperties
<1>5. Len(s) = n
  OBVIOUS
<1> HIDE DEF n
<1>6. /\ n + 1 \in 1 .. n + 2 /\ ~(n + 1 <= n) /\ n + 1 - n = 1
      /\ n + 2 \in 1 .. n + 2 /\ ~(n + 2 <= n) /\ n + 2 - n = 2
      /\ \A i \in 1 .. n : i \in 1 .. n + 2 /\ i <= n
  BY <1>4
<1>7. new[n + 1] = two[1] /\ new[n + 2] = two[2]
  <2>1. ASSUME NEW i \in 1 .. n + 2, i = n + 1 PROVE new[i] = two[1]
    <3>1. i - n = 1 /\ ~(i <= n)
      BY <1>4, <2>1
    <3>2. QED
      BY <1>4, <3>1
  <2>2. ASSUME NEW i \in 1 .. n + 2, i = n + 2 PROVE new[i] = two[2]
    <3>1. i - n = 2 /\ ~(i <= n)
      BY <1>4, <2>2
    <3>2. QED
      BY <1>4, <3>1
  <2>3. QED
    BY <1>6, <2>1, <2>2
<1>8. \A i \in 1 .. n : new[i] = s[i]
  BY <1>4, <1>6
<1>9. QED
  BY <1>1, <1>4, <1>5, <1>6, <1>7, <1>8

LEMMA DivideDoes ==
    ASSUME Sort!SortAssumption, Sort!TypeOK, NEW t \in Sort!Threads, Sort!divide(t)
    PROVE  Divides(t)
<1> DEFINE s == s_stack[t]
           list == Sort!Top(t).list
           n == Len(s_future) + 1
           waiting == [Sort!Top(t) EXCEPT !.list = <<Point(list)>>, !.lower = n,
                         !.at = "wait"]
           call == Sort!Call(NoPart, High(list))
           e == [task |-> n, list |-> Low(list)]
<1>1. /\ s # <<>> /\ Sort!Top(t).at = "sort" /\ Len(list) >= 2
      /\ Sort!LocalAlive
      /\ IF s_local # NoQueue
         THEN /\ s_queues' = [s_queues EXCEPT ![s_local] = Append(@, e)]
              /\ UNCHANGED s_pool
         ELSE /\ s_pool' = Append(s_pool, e)
              /\ UNCHANGED s_queues
      /\ s_future' = Append(s_future, Pending)
      /\ s_stack' = [s_stack EXCEPT ![t] = Sort!Below(t) \o <<waiting, call>>]
      /\ UNCHANGED <<s_look, s_tried, s_input, s_sorted>>
  <2>1. /\ Low(list) = Sort!Those(Tail(Sort!MedianFirst(list)),
                              {v \in Nat : v < Head(Sort!MedianFirst(list))})
        /\ High(list) = Sort!Those(Tail(Sort!MedianFirst(list)),
                               {v \in Nat : v >= Head(Sort!MedianFirst(list))})
        /\ Point(list) = Head(Sort!MedianFirst(list))
    BY SortUses DEF Point, Low, High, Rest
  <2> HIDE DEF list
  <2>2. QED
    BY <2>1 DEF Sort!divide, Sort!In, Sort!AddTask, Sort!search, Sort!calls, list
<1>2. /\ s \in Seq(Sort!Calls) /\ Len(s) \in Nat \ {0}
      /\ Sort!Top(t) = s[Len(s)] /\ Sort!Top(t) \in Sort!Calls
      /\ Sort!Below(t) \in Seq(Sort!Calls) /\ Cut(s, Sort!Below(t))
      /\ Len(Sort!Below(t)) \in Nat
  BY <1>1, SortTopFacts
<1>3. list \in Seq(Nat) /\ n \in Nat
  <2>1. Len(s_future) \in Nat
    BY LenProperties DEF Sort!TypeOK
  <2>2. QED
    BY <1>2, <2>1 DEF Sort!Calls
<1>4. /\ Point(list) \in Nat /\ Low(list) \in Seq(Nat) /\ High(list) \in Seq(Nat)
  BY <1>1, <1>3, Parts
<1>5. e \in Sort!Tasks /\ call \in Sort!Calls /\ waiting \in Sort!Calls
  <2>1. <<Point(list)>> \in Seq(Nat) /\ <<>> \in Seq(Nat)
    BY <1>4
  <2> HIDE DEF list, n
  <2>2. e \in Sort!Tasks
    BY <1>3, <1>4 DEF Sort!Tasks
  <2>3. call \in Sort!Calls
    BY <1>4 DEF Sort!Calls, Sort!Call
  <2>4. waiting \in Sort!Calls
    BY <1>2, <1>3, <2>1 DEF Sort!Calls
  <2>5. QED
    BY <2>2, <2>3, <2>4
<1> HIDE DEF e, waiting, call
<1>6. Queues1(n, Low(list))
  <2>1. /\ Queue \in [Queues -> Seq(Sort!Tasks)]
        /\ Queue[NoQueue] = s_pool /\ s_pool \in Seq(Sort!Tasks)
        /\ \A w \in Sort!Workers : Queue[w] = s_queues[w] /\ w # NoQueue /\ w \in Queues
        /\ s_queues \in [Sort!Workers -> Seq(Sort!Tasks)]
        /\ NoQueue \in Queues
    BY SortQueueType DEF Sort!TypeOK
  <2>2. CASE s_local # NoQueue
    <3>1. s_local \in Sort!Workers /\ s_local \in Queues
      BY <1>1, <2>1, <2>2 DEF Sort!TypeOK, Sort!LocalAlive
    <3>2. Append(s_queues[s_local], e) \in Seq(Sort!Tasks)
          /\ Grown(s_queues[s_local], Append(s_queues[s_local], e), e)
      BY <1>5, <2>1, <3>1, AppendGrows
    <3>3. Queue' = [Queue EXCEPT ![s_local] = Append(s_queues[s_local], e)]
      BY <1>1, <2>1, <2>2, <3>1 DEF Queue, Queues
    <3>4. OnlyAt(s_local, Queues, Seq(Sort!Tasks), Queue, Queue')
      BY <2>1, <3>1, <3>2, <3>3 DEF OnlyAt
    <3>5. Grown(Queue[s_local], Queue'[s_local], e)
      BY <2>1, <3>1, <3>2, <3>3
    <3>6. QED
      BY <3>1, <3>4, <3>5 DEF Queues1, e
  <2>3. CASE s_local = NoQueue
    <3>1. Append(s_pool, e) \in Seq(Sort!Tasks)
          /\ Grown(s_pool, Append(s_pool, e), e)
      BY <1>5, <2>1, AppendGrows
    <3>2. Queue' = [Queue EXCEPT ![NoQueue] = Append(s_pool, e)]
      BY <1>1, <2>1, <2>3 DEF Queue, Queues
    <3>3. OnlyAt(NoQueue, Queues, Seq(Sort!Tasks), Queue, Queue')
      BY <2>1, <3>1, <3>2 DEF OnlyAt
    <3>4. Grown(Queue[NoQueue], Queue'[NoQueue], e)
      BY <2>1, <3>1, <3>2
    <3>5. QED
      BY <2>1, <3>3, <3>4 DEF Queues1, e
  <2>4. QED
    BY <2>2, <2>3
<1> DEFINE new == Sort!Below(t) \o <<waiting, call>>
<1>7. /\ new \in Seq(Sort!Calls) /\ Len(new) = Len(Sort!Below(t)) + 2
      /\ new[Len(Sort!Below(t)) + 1] = waiting /\ new[Len(Sort!Below(t)) + 2] = call
      /\ \A i \in 1 .. Len(Sort!Below(t)) : new[i] = Sort!Below(t)[i]
  BY <1>2, <1>5, TwoOnTop
<1>8. s_stack' = [s_stack EXCEPT ![t] = new]
  BY <1>1
<1> HIDE DEF new
<1>9. OnlyAt(t, Sort!Threads, Seq(Sort!Calls), s_stack, s_stack') /\ s_stack'[t] = new
  BY <1>7, <1>8 DEF OnlyAt, Sort!TypeOK
<1>10. Split(s, new, n, Point(list), High(list))
  <2>1. /\ Len(s) = Len(Sort!Below(t)) + 1
        /\ \A k \in 1 .. Len(Sort!Below(t)) : Sort!Below(t)[k] = s[k]
    BY <1>2 DEF Cut
  <2>2. new[Len(s)] = waiting /\ new[Len(s) + 1] = call /\ Len(new) = Len(s) + 1
    BY <1>2, <1>7, <2>1
  <2>3. \A k \in 1 .. Len(s) - 1 : new[k] = s[k]
    BY <1>2, <1>7, <2>1
  <2>4. QED
    BY <1>1, <1>2, <2>2, <2>3 DEF Split, waiting, call
<1>11. QED
  BY <1>1, <1>6, <1>9, <1>10 DEF Divides

\* What the return of list from the call on top of t does.
Gives(t, list) ==
    /\ s_stack[t] # <<>>
    /\ OnlyAt(t, Sort!Threads, Seq(Sort!Calls), s_stack, s_stack')
    /\ Done(s_stack[t], s_stack'[t], list)
    /\ s_future' = IF Sort!Top(t).task # NoPart
                   THEN [s_future EXCEPT ![Sort!Top(t).task] = list] ELSE s_future
    /\ s_sorted' = IF Sort!Top(t).task # NoPart \/ Len(s_stack[t]) > 1
                   THEN s_sorted ELSE [s_sorted EXCEPT ![t] = list]
    /\ Queue' = Queue
    /\ UNCHANGED <<s_look, s_tried, s_input>>

LEMMA ReturnDoes ==
    ASSUME Sort!SortAssumption, Sort!TypeOK, NEW t \in Sort!Threads, s_stack[t] # <<>>,
           NEW list \in Seq(Nat), Sort!Return(t, list),
           UNCHANGED <<Sort!tasks, s_look, s_tried, s_input>>
    PROVE  Gives(t, list)
<1> DEFINE s == s_stack[t]
           n == Len(s)
<1>1. /\ s \in Seq(Sort!Calls) /\ n \in Nat \ {0}
      /\ \A k \in 1 .. n : s[k] \in Sort!Calls
      /\ Sort!Top(t) = s[n] /\ Sort!Top(t) \in Sort!Calls
      /\ Sort!Below(t) \in Seq(Sort!Calls) /\ Cut(s, Sort!Below(t))
      /\ Len(Sort!Below(t)) \in Nat
  BY SortTopFacts
<1>2. Len(Sort!Below(t)) = n - 1 /\ \A k \in 1 .. n - 1 : Sort!Below(t)[k] = s[k]
  BY <1>1 DEF Cut
<1>3. Queue' = Queue /\ UNCHANGED <<s_look, s_tried, s_input>>
  BY DEF Queue, Queues, Sort!tasks
<1>4. s_stack \in [Sort!Threads -> Seq(Sort!Calls)]
  BY DEF Sort!TypeOK
<1>5. CASE Sort!Top(t).task # NoPart
  <2>1. /\ s_future' = [s_future EXCEPT ![Sort!Top(t).task] = list]
        /\ s_stack' = [s_stack EXCEPT ![t] = Sort!Below(t)]
        /\ s_sorted' = s_sorted
    BY <1>5 DEF Sort!Return
  <2>2. /\ OnlyAt(t, Sort!Threads, Seq(Sort!Calls), s_stack, s_stack')
        /\ s_stack'[t] = Sort!Below(t)
    BY <1>1, <1>4, <2>1 DEF OnlyAt
  <2>3. Done(s, Sort!Below(t), list)
    BY <1>1, <1>2, <1>5 DEF Done
  <2>4. QED
    BY <1>3, <1>5, <2>1, <2>2, <2>3 DEF Gives
<1>6. CASE Sort!Top(t).task = NoPart /\ n > 1
  <2> DEFINE new == [Sort!Below(t) EXCEPT ![n - 1].higher = list]
  <2>1. s_future' = s_future /\ s_sorted' = s_sorted /\ s_stack' = [s_stack EXCEPT ![t] = new]
    BY <1>6 DEF Sort!Return
  <2>2. /\ n - 1 \in 1 .. Len(Sort!Below(t)) /\ n - 1 \in 1 .. n
    BY <1>1, <1>2, <1>6
  <2>3. Sort!Below(t)[n - 1] \in Sort!Calls /\ Sort!Below(t)[n - 1] = s[n - 1]
    BY <1>1, <1>2, <2>2
  <2> DEFINE f == [s[n - 1] EXCEPT !.higher = list]
  <2>4. f \in Sort!Calls
    BY <2>3 DEF Sort!Calls
  <2>5. new = [Sort!Below(t) EXCEPT ![n - 1] = f]
    BY <2>3
  <2> HIDE DEF new, f
  <2>6. /\ new \in Seq(Sort!Calls) /\ Len(new) = n - 1
        /\ \A j \in 1 .. n - 1 : new[j] = IF j = n - 1 THEN f ELSE Sort!Below(t)[j]
    BY <1>1, <1>2, <2>2, <2>4, <2>5, ExceptSeq
  <2>7. OnlyAt(t, Sort!Threads, Seq(Sort!Calls), s_stack, s_stack') /\ s_stack'[t] = new
    BY <1>4, <2>1, <2>6 DEF OnlyAt
  <2>8. Done(s, new, list)
    BY <1>1, <1>2, <1>6, <2>6 DEF Done, f
  <2>9. QED
    BY <1>3, <1>6, <2>1, <2>7, <2>8 DEF Gives
<1>7. CASE Sort!Top(t).task = NoPart /\ ~(n > 1)
  <2>1. /\ s_future' = s_future /\ s_sorted' = [s_sorted EXCEPT ![t] = list]
        /\ s_stack' = [s_stack EXCEPT ![t] = <<>>]
    BY <1>7 DEF Sort!Return
  <2>2. <<>> \in Seq(Sort!Calls) /\ Len(<<>>) = 0
    BY EmptySeq
  <2>3. OnlyAt(t, Sort!Threads, Seq(Sort!Calls), s_stack, s_stack') /\ s_stack'[t] = <<>>
    BY <1>4, <2>1, <2>2 DEF OnlyAt
  <2>4. Done(s, <<>>, list)
    <3>1. n = 1 /\ s # <<>>
      <4>1. s # <<>>
        OBVIOUS
      <4>2. n \in Nat /\ n # 0
        BY <1>1
      <4>3. ~(n > 1)
        BY <1>7
      <4> HIDE DEF n
      <4>4. n = 1
        BY <4>2, <4>3
      <4>5. QED
        BY <4>1, <4>4
    <3>2. Len(<<>>) = n - 1 /\ 1 .. Len(<<>>) = {}
      BY <2>2, <3>1
    <3> HIDE DEF s, n
    <3>3. QED
      BY <3>1, <3>2 DEF Done, n
  <2>5. QED
    BY <1>3, <1>7, <2>1, <2>3, <2>4 DEF Gives
<1>8. QED
  BY <1>5, <1>6, <1>7

\* What taking a task from a queue does.
Takes(t) ==
    \E q \in Queues : \E k \in 1 .. Len(Queue[q]) :
      /\ OnlyAt(q, Queues, Seq(Sort!Tasks), Queue, Queue')
      /\ Without(Queue[q], Queue'[q], k)
      /\ OnlyAt(t, Sort!Threads, Seq(Sort!Calls), s_stack, s_stack')
      /\ Grown(s_stack[t], s_stack'[t], Sort!Call(Queue[q][k].task, Queue[q][k].list))
      /\ s_look' = [s_look EXCEPT ![t] = "no"] /\ s_tried' = [s_tried EXCEPT ![t] = 0]
      /\ UNCHANGED <<s_future, s_input, s_sorted>>

LEMMA TakeDoes ==
    ASSUME Sort!SortAssumption, Sort!TypeOK, NEW t \in Sort!Threads,
           NEW q \in Queues, NEW k \in 1 .. Len(Queue[q]), NEW new,
           Sort!Run(t, Queue[q][k]), Without(Queue[q], new, k), new \in Seq(Sort!Tasks),
           Queue' = [Queue EXCEPT ![q] = new],
           UNCHANGED <<s_future, s_input, s_sorted>>
    PROVE  Takes(t)
<1> DEFINE e == Queue[q][k]
           call == Sort!Call(e.task, e.list)
<1>1. Queue \in [Queues -> Seq(Sort!Tasks)]
  BY SortQueueType
<1>2. e \in Sort!Tasks
  BY <1>1, ElementOfSeq
<1> HIDE DEF e
<1>3. call \in Sort!Calls
  BY <1>2 DEF Sort!Tasks, Sort!Calls, Sort!Call
<1> HIDE DEF call
<1>4. s_stack \in [Sort!Threads -> Seq(Sort!Calls)]
  BY DEF Sort!TypeOK
<1>5. /\ s_stack' = [s_stack EXCEPT ![t] = Append(s_stack[t], call)]
      /\ s_look' = [s_look EXCEPT ![t] = "no"] /\ s_tried' = [s_tried EXCEPT ![t] = 0]
  BY DEF Sort!Run, Sort!Search, e, call
<1>6. /\ Append(s_stack[t], call) \in Seq(Sort!Calls)
      /\ Grown(s_stack[t], Append(s_stack[t], call), call)
  BY <1>3, <1>4, AppendGrows
<1>7. OnlyAt(t, Sort!Threads, Seq(Sort!Calls), s_stack, s_stack')
      /\ Grown(s_stack[t], s_stack'[t], call)
  BY <1>4, <1>5, <1>6 DEF OnlyAt
<1>8. OnlyAt(q, Queues, Seq(Sort!Tasks), Queue, Queue') /\ Without(Queue[q], Queue'[q], k)
  BY <1>1 DEF OnlyAt
<1>9. QED
  BY <1>5, <1>7, <1>8 DEF Takes, e, call

LEMMA TailIsWithout ==
    ASSUME NEW S, NEW s \in Seq(S), s # <<>>
    PROVE  /\ 1 \in 1 .. Len(s) /\ Len(s) \in 1 .. Len(s)
           /\ Head(s) = s[1]
           /\ Tail(s) \in Seq(S) /\ Without(s, Tail(s), 1)
           /\ SubSeq(s, 1, Len(s) - 1) \in Seq(S)
           /\ Without(s, SubSeq(s, 1, Len(s) - 1), Len(s))
<1>1. Len(s) \in Nat /\ Len(s) # 0
  BY EmptySeq
<1>2. Tail(s) \in Seq(S) /\ Begun(s, Tail(s)) /\ Head(s) = s[1]
  BY TailBegins
<1>3. SubSeq(s, 1, Len(s) - 1) \in Seq(S) /\ Cut(s, SubSeq(s, 1, Len(s) - 1))
  BY FrontCuts
<1>4. Without(s, Tail(s), 1)
  BY <1>1, <1>2 DEF Begun, Without
<1> DEFINE new == SubSeq(s, 1, Len(s) - 1)
<1> HIDE DEF new
<1>5. Without(s, new, Len(s))
  <2>1. Len(new) = Len(s) - 1 /\ \A k \in 1 .. Len(new) : new[k] = s[k]
    BY <1>3 DEF new, Cut
  <2>2. QED
    BY <1>1, <2>1 DEF Without
<1>6. QED
  BY <1>1, <1>2, <1>3, <1>4, <1>5 DEF new

\* What a look at an empty queue does.
Misses(t) ==
    /\ Queue' = Queue /\ UNCHANGED <<s_stack, s_future, s_input, s_sorted>>
    /\ OnlyAt(t, Sort!Threads, {"no", "local", "pool", "steal"}, s_look, s_look')
    /\ OnlyAt(t, Sort!Threads, Nat, s_tried, s_tried')

LEMMA LocalDoes ==
    ASSUME Sort!SortAssumption, Sort!TypeOK, NEW t \in Sort!Threads, Sort!popLocal(t)
    PROVE  s_look[t] = "local" /\ (Takes(t) \/ Misses(t))
<1>1. /\ s_look[t] = "local" /\ Sort!LocalAlive
      /\ UNCHANGED <<s_pool, s_future, s_input, s_sorted>>
  BY DEF Sort!popLocal, Sort!calls
<1>2. CASE s_local # NoQueue /\ s_queues[s_local] # <<>>
  <2> DEFINE w == s_local
             q == s_queues[w]
  <2>1. /\ w \in Sort!Workers /\ w \in Queues /\ w # NoQueue /\ Queue[w] = q
        /\ q \in Seq(Sort!Tasks)
    BY <1>1, <1>2, SortQueueType DEF Sort!TypeOK, Sort!LocalAlive
  <2>2. Sort!Run(t, Head(q)) /\ s_queues' = [s_queues EXCEPT ![w] = Tail(q)]
    BY <1>2 DEF Sort!popLocal
  <2>3. /\ 1 \in 1 .. Len(q) /\ Head(q) = q[1] /\ Tail(q) \in Seq(Sort!Tasks)
        /\ Without(q, Tail(q), 1)
    BY <1>2, <2>1, TailIsWithout
  <2>4. Queue' = [Queue EXCEPT ![w] = Tail(q)]
    <3> DEFINE new == Tail(q)
    <3>1. s_queues' = [s_queues EXCEPT ![w] = new] /\ s_pool' = s_pool
      BY <1>1, <2>2
    <3> HIDE DEF new
    <3>2. QED
      BY <2>1, <3>1 DEF Queue, Queues, Sort!TypeOK, new
  <2>5. Takes(t)
    BY <1>1, <2>1, <2>2, <2>3, <2>4, TakeDoes
  <2>6. QED
    BY <1>1, <2>5
<1>3. CASE ~(s_local # NoQueue /\ s_queues[s_local] # <<>>)
  <2>1. Sort!Search(t, "pool", 0) /\ UNCHANGED <<s_stack, s_queues>>
    BY <1>3 DEF Sort!popLocal
  <2>2. QED
    BY <1>1, <2>1 DEF Misses, Sort!Search, OnlyAt, Queue, Queues, Sort!TypeOK
<1>4. QED
  BY <1>2, <1>3

LEMMA PoolDoes ==
    ASSUME Sort!SortAssumption, Sort!TypeOK, NEW t \in Sort!Threads, Sort!popPool(t)
    PROVE  s_look[t] = "pool" /\ (Takes(t) \/ Misses(t))
<1>1. s_look[t] = "pool" /\ UNCHANGED <<s_queues, s_future, s_input, s_sorted>>
  BY DEF Sort!popPool, Sort!calls
<1>2. CASE s_pool # <<>>
  <2> DEFINE q == s_pool
  <2>1. NoQueue \in Queues /\ Queue[NoQueue] = q /\ q \in Seq(Sort!Tasks)
    BY SortQueueType DEF Sort!TypeOK
  <2>2. Sort!Run(t, Head(q)) /\ q' = Tail(q)
    BY <1>2 DEF Sort!popPool
  <2>3. /\ 1 \in 1 .. Len(q) /\ Head(q) = q[1] /\ Tail(q) \in Seq(Sort!Tasks)
        /\ Without(q, Tail(q), 1)
    BY <1>2, <2>1, TailIsWithout
  <2>4. Queue' = [Queue EXCEPT ![NoQueue] = Tail(q)]
    <3> DEFINE new == Tail(q)
    <3>1. q' = new /\ s_queues' = s_queues
      BY <1>1, <2>2
    <3> HIDE DEF new
    <3>2. QED
      BY <2>1, <3>1 DEF Queue, Queues, new
  <2>5. Takes(t)
    BY <1>1, <2>1, <2>2, <2>3, <2>4, TakeDoes
  <2>6. QED
    BY <1>1, <2>5
<1>3. CASE s_pool = <<>>
  <2>1. Sort!Search(t, "steal", 0) /\ UNCHANGED <<s_stack, s_pool>>
    BY <1>3 DEF Sort!popPool
  <2>2. QED
    BY <1>1, <2>1 DEF Misses, Sort!Search, OnlyAt, Queue, Queues, Sort!TypeOK
<1>4. QED
  BY <1>2, <1>3

LEMMA StealDoes ==
    ASSUME Sort!SortAssumption, Sort!TypeOK,
           NEW t \in Sort!Threads, Sort!steal(t), s_built >= 1
    PROVE  s_look[t] = "steal" /\ (Takes(t) \/ Misses(t))
<1> DEFINE w == (s_index + 1 + s_tried[t]) % s_built
           q == s_queues[w]
<1>1. s_look[t] = "steal" /\ UNCHANGED <<s_pool, s_future, s_input, s_sorted>>
  BY DEF Sort!steal, Sort!calls
<1>2. /\ w \in Sort!Workers /\ w \in Queues /\ w # NoQueue /\ Queue[w] = q
      /\ q \in Seq(Sort!Tasks)
  <2>1. s_index \in Nat /\ s_tried[t] \in Nat /\ s_built \in 0 .. Size /\ Size \in Nat
    BY ThreadFacts DEF Sort!TypeOK
  <2>2. w \in 0 .. s_built - 1
    BY <2>1
  <2>3. w \in Sort!Workers
    BY <2>1, <2>2 DEF Sort!Workers
  <2> HIDE DEF w
  <2>4. QED
    BY <2>3, SortQueueType DEF Sort!TypeOK
<1>3. \/ Sort!TriedAll(t) /\ Sort!Search(t, "no", 0) /\ UNCHANGED <<s_stack, s_queues>>
      \/ Sort!Search(t, "steal", s_tried[t] + 1) /\ UNCHANGED <<s_stack, s_queues>>
      \/ /\ q # <<>> /\ Sort!Run(t, q[Len(q)])
         /\ s_queues' = [s_queues EXCEPT ![w] = Sort!LeftAfterSteal(q)]
  BY DEF Sort!steal
<1> HIDE DEF w
<1>4. CASE Sort!TriedAll(t) /\ Sort!Search(t, "no", 0) /\ UNCHANGED <<s_stack, s_queues>>
  BY <1>1, <1>4 DEF Misses, Sort!Search, OnlyAt, Queue, Queues, Sort!TypeOK
<1>5. CASE Sort!Search(t, "steal", s_tried[t] + 1) /\ UNCHANGED <<s_stack, s_queues>>
  BY <1>1, <1>5 DEF Misses, Sort!Search, OnlyAt, Queue, Queues, Sort!TypeOK
<1>6. CASE /\ q # <<>> /\ Sort!Run(t, q[Len(q)])
           /\ s_queues' = [s_queues EXCEPT ![w] = Sort!LeftAfterSteal(q)]
  <2> DEFINE new == SubSeq(q, 1, Len(q) - 1)
  <2>1. Len(q) \in 1 .. Len(q) /\ new \in Seq(Sort!Tasks) /\ Without(q, new, Len(q))
    BY <1>2, <1>6, TailIsWithout
  <2>2. s_queues' = [s_queues EXCEPT ![w] = new]
    BY <1>6 DEF Sort!LeftAfterSteal
  <2> HIDE DEF new
  <2>3. Queue' = [Queue EXCEPT ![w] = new]
    BY <1>1, <1>2, <2>2 DEF Queue, Queues, Sort!TypeOK
  <2>4. Sort!Run(t, Queue[w][Len(q)]) /\ Without(Queue[w], new, Len(q))
        /\ Len(q) \in 1 .. Len(Queue[w])
    BY <1>2, <1>6, <2>1
  <2>5. Takes(t)
    BY <1>1, <1>2, <2>1, <2>3, <2>4, TakeDoes
  <2>6. QED
    BY <1>1, <2>5
<1>7. QED
  BY <1>3, <1>4, <1>5, <1>6

-------------------------------------------------------------------------------
\* arg is the lists of the first n tasks, own those that the calls on the stack s
\* began with.  The call at k has not begun, or waits for the lower part of its
\* list, and also for the higher part while the next call is the one for that.
Fits(s, own, k, arg, n) ==
    LET f == s[k]
    IN  /\ k < Len(s) => f.at = "wait"
        /\ f.at = "sort" => f.list = own[k]
        /\ f.at = "wait" =>
             /\ Len(own[k]) >= 2 /\ f.list = <<Point(own[k])>>
             /\ f.lower \in 1 .. n /\ arg[f.lower] = Low(own[k])
             /\ IF k < Len(s) /\ s[k + 1].task = NoPart
                THEN own[k + 1] = High(own[k])
                ELSE SortOf(f.higher, High(own[k]))
             /\ \A j \in 1 .. k : s[j].task # NoPart => s[j].task < f.lower
        /\ f.task # NoPart => f.task \in 1 .. n /\ own[k] = arg[f.task]

StackFits(s, own, arg, n) ==
    /\ own \in Seq(Seq(Nat)) /\ Len(own) = Len(s)
    /\ \A k \in 1 .. Len(s) : Fits(s, own, k, arg, n)

\* more is arg, and the lists of later tasks.
Extends(arg, n, more, m) ==
    /\ n \in Nat /\ m \in Nat /\ n <= m
    /\ arg \in [1 .. n -> Seq(Nat)] /\ more \in [1 .. m -> Seq(Nat)]
    /\ \A i \in 1 .. n : more[i] = arg[i]

LEMMA FitsMore ==
    ASSUME NEW s, NEW own, NEW arg, NEW n, NEW more, NEW m,
           StackFits(s, own, arg, n), Extends(arg, n, more, m)
    PROVE  StackFits(s, own, more, m)
<1>1. ASSUME NEW k \in 1 .. Len(s) PROVE Fits(s, own, k, more, m)
  <2>1. Fits(s, own, k, arg, n)
    BY DEF StackFits
  <2>2. \A i \in 1 .. n : i \in 1 .. m /\ more[i] = arg[i]
    BY DEF Extends
  <2>3. QED
    BY <2>1, <2>2 DEF Fits
<1>2. QED
  BY <1>1 DEF StackFits

\* A task begins, on an empty stack or on a call that waits for its lower part.
LEMMA FitsPushed ==
    ASSUME Sort!SortAssumption, NEW s \in Seq(Sort!Calls), NEW new, NEW own, NEW arg, NEW n,
           StackFits(s, own, arg, n), n \in Nat, arg \in [1 .. n -> Seq(Nat)],
           s = <<>> \/ s[Len(s)].at = "wait",
           NEW m \in 1 .. n, Grown(s, new, Sort!Call(m, arg[m]))
    PROVE  StackFits(new, Append(own, arg[m]), arg, n)
<1> DEFINE N == Len(s)
           o == Append(own, arg[m])
<1>1. N \in Nat /\ Len(new) = N + 1 /\ new[N + 1] = Sort!Call(m, arg[m])
      /\ \A k \in 1 .. N : new[k] = s[k]
  BY LenProperties DEF Grown
<1>2. own \in Seq(Seq(Nat)) /\ Len(own) = N /\ arg[m] \in Seq(Nat)
  BY DEF StackFits
<1>3. o \in Seq(Seq(Nat)) /\ Len(o) = N + 1 /\ o[N + 1] = arg[m]
      /\ \A k \in 1 .. N : o[k] = own[k]
  BY <1>2, AppendProperties
<1> HIDE DEF o
<1>4. m # NoPart
  BY DEF Sort!SortAssumption
<1>5. ASSUME NEW k \in 1 .. N PROVE Fits(new, o, k, arg, n)
  <2>1. Fits(s, own, k, arg, n)
    BY DEF StackFits
  <2>2. new[k] = s[k] /\ o[k] = own[k] /\ \A j \in 1 .. k : new[j] = s[j]
    BY <1>1, <1>3
  <2>3. new[k].at = "wait"
    <3>1. CASE k < N
      BY <2>1, <2>2, <3>1 DEF Fits
    <3>2. CASE k = N
      <4>1. s # <<>>
        BY <3>2
      <4>2. QED
        BY <2>2, <3>2, <4>1
    <3>3. QED
      BY <1>1, <3>1, <3>2
  <2>4. IF k < Len(new) /\ new[k + 1].task = NoPart
        THEN o[k + 1] = High(o[k])
        ELSE SortOf(new[k].higher, High(o[k]))
    <3>1. CASE k = N
      <4>1. new[k + 1].task = m
        BY <1>1, <3>1 DEF Sort!Call
      <4>2. SortOf(s[k].higher, High(own[k]))
        BY <2>1, <2>2, <2>3, <3>1 DEF Fits
      <4>3. QED
        BY <1>4, <2>2, <4>1, <4>2
    <3>2. CASE k # N
      <4>1. k < N /\ k + 1 \in 1 .. N /\ k < Len(new)
        BY <1>1, <3>2
      <4>2. new[k + 1] = s[k + 1] /\ o[k + 1] = own[k + 1]
        BY <1>1, <1>3, <4>1
      <4>3. QED
        BY <2>1, <2>2, <2>3, <4>1, <4>2 DEF Fits
    <3>3. QED
      BY <3>1, <3>2
  <2>5. QED
    BY <2>1, <2>2, <2>3, <2>4 DEF Fits
<1>6. Fits(new, o, N + 1, arg, n)
  <2>1. /\ new[N + 1].at = "sort" /\ new[N + 1].list = arg[m] /\ new[N + 1].task = m
    BY <1>1 DEF Sort!Call
  <2>2. ~(N + 1 < Len(new))
    BY <1>1
  <2>3. QED
    BY <1>3, <2>1, <2>2 DEF Fits
<1>7. ASSUME NEW k \in 1 .. Len(new) PROVE Fits(new, o, k, arg, n)
  <2>1. k \in 1 .. N \/ k = N + 1
    BY <1>1
  <2>2. QED
    BY <1>5, <1>6, <2>1
<1>8. QED
  BY <1>1, <1>3, <1>7 DEF StackFits, o

\* A caller begins.
LEMMA FitsStarted ==
    ASSUME Sort!SortAssumption, NEW s, s = <<>>, NEW new, NEW list \in Seq(Nat), NEW arg,
           NEW n,
           new = <<Sort!Call(NoPart, list)>>
    PROVE  StackFits(new, <<list>>, arg, n)
<1>1. Len(new) = 1 /\ new[1] = Sort!Call(NoPart, list) /\ <<list>> \in Seq(Seq(Nat))
      /\ Len(<<list>>) = 1 /\ <<list>>[1] = list
  OBVIOUS
<1>2. Fits(new, <<list>>, 1, arg, n)
  BY <1>1 DEF Fits, Sort!Call
<1>3. QED
  BY <1>1, <1>2 DEF StackFits

\* The call on top divides its list, and makes the lower part the next task.
LEMMA FitsSplit ==
    ASSUME Sort!SortAssumption, NEW s \in Seq(Sort!Calls), NEW new, NEW own, NEW arg, NEW n,
           NEW more, NEW list, s # <<>>,
           StackFits(s, own, arg, n), Extends(arg, n, more, n + 1),
           s[Len(s)].at = "sort", s[Len(s)].list = list, list \in Seq(Nat), Len(list) >= 2,
           more[n + 1] = Low(list),
           Split(s, new, n + 1, Point(list), High(list))
    PROVE  StackFits(new, Append(own, High(list)), more, n + 1)
<1> DEFINE N == Len(s)
           o == Append(own, High(list))
<1>1. /\ N \in Nat /\ N \in 1 .. N /\ Len(new) = N + 1
      /\ new[N + 1] = Sort!Call(NoPart, High(list))
      /\ new[N] = [s[N] EXCEPT !.list = <<Point(list)>>, !.lower = n + 1, !.at = "wait"]
      /\ \A k \in 1 .. N - 1 : new[k] = s[k]
  BY EmptySeq DEF Split
<1>2. own \in Seq(Seq(Nat)) /\ Len(own) = N /\ High(list) \in Seq(Nat)
  BY Parts DEF StackFits
<1>3. o \in Seq(Seq(Nat)) /\ Len(o) = N + 1 /\ o[N + 1] = High(list)
      /\ \A k \in 1 .. N : o[k] = own[k]
  BY <1>2, AppendProperties
<1> HIDE DEF o
<1>4. n \in Nat /\ \A i \in 1 .. n : i \in 1 .. n + 1 /\ more[i] = arg[i]
  BY DEF Extends
<1>5. \A k \in 1 .. N : s[k] \in Sort!Calls /\ Fits(s, own, k, arg, n)
  BY ElementOfSeq DEF StackFits
<1>6. /\ new[N].list = <<Point(list)>> /\ new[N].lower = n + 1 /\ new[N].at = "wait"
      /\ new[N].task = s[N].task
  <2>1. s[N] \in Sort!Calls
    BY <1>1, <1>5
  <2>2. QED
    BY <1>1, <2>1 DEF Sort!Calls
<1>7. \A k \in 1 .. N : new[k].task = s[k].task
  <2>1. ASSUME NEW k \in 1 .. N PROVE new[k].task = s[k].task
    <3>1. k = N \/ k \in 1 .. N - 1
      BY <1>1
    <3>2. QED
      BY <1>1, <1>6, <3>1
  <2>2. QED
    BY <2>1
<1>8. own[N] = list
  BY <1>1, <1>5 DEF Fits
<1>9. ASSUME NEW k \in 1 .. N - 1 PROVE Fits(new, o, k, more, n + 1)
  <2>1. k \in 1 .. N /\ k + 1 \in 1 .. N /\ k < N /\ k < Len(new)
    BY <1>1
  <2>2. Fits(s, own, k, arg, n)
    BY <1>5, <2>1
  <2>3. /\ new[k] = s[k] /\ o[k] = own[k] /\ o[k + 1] = own[k + 1]
        /\ new[k + 1].task = s[k + 1].task
        /\ \A j \in 1 .. k : new[j].task = s[j].task
    <3>1. \A j \in 1 .. k : j \in 1 .. N
      BY <2>1
    <3>2. QED
      BY <1>1, <1>3, <1>7, <2>1, <3>1
  <2>4. QED
    BY <1>4, <2>1, <2>2, <2>3 DEF Fits
<1>10. Fits(new, o, N, more, n + 1)
  <2>1. n + 1 \in 1 .. n + 1 /\ N < Len(new)
    BY <1>1, <1>4
  <2>2. new[N + 1].task = NoPart
    BY <1>1 DEF Sort!Call
  <2>3. \A j \in 1 .. N : new[j].task # NoPart => new[j].task < n + 1
    <3>1. ASSUME NEW j \in 1 .. N, s[j].task # NoPart PROVE s[j].task < n + 1
      <4>1. s[j].task \in 1 .. n
        BY <1>5, <3>1 DEF Fits
      <4>2. QED
        BY <1>4, <4>1
    <3>2. QED
      BY <1>7, <3>1
  <2>4. new[N].task # NoPart => new[N].task \in 1 .. n + 1 /\ o[N] = more[new[N].task]
    <3>1. SUFFICES ASSUME s[N].task # NoPart
                   PROVE  s[N].task \in 1 .. n + 1 /\ o[N] = more[s[N].task]
      BY <1>6
    <3>2. s[N].task \in 1 .. n /\ own[N] = arg[s[N].task]
      BY <1>1, <1>5, <3>1 DEF Fits
    <3>3. QED
      BY <1>1, <1>3, <1>4, <3>2
  <2>5. o[N] = list /\ o[N + 1] = High(list)
    BY <1>1, <1>3, <1>8
  <2>6. QED
    BY <1>6, <2>1, <2>2, <2>3, <2>4, <2>5 DEF Fits
<1>11. Fits(new, o, N + 1, more, n + 1)
  <2>1. new[N + 1].at = "sort" /\ new[N + 1].list = High(list) /\ new[N + 1].task = NoPart
    BY <1>1 DEF Sort!Call
  <2>2. ~(N + 1 < Len(new))
    BY <1>1
  <2>3. QED
    BY <1>3, <2>1, <2>2 DEF Fits
<1>12. ASSUME NEW k \in 1 .. Len(new) PROVE Fits(new, o, k, more, n + 1)
  <2>1. k \in 1 .. N - 1 \/ k = N \/ k = N + 1
    BY <1>1
  <2>2. QED
    BY <1>9, <1>10, <1>11, <2>1
<1>13. QED
  BY <1>1, <1>3, <1>12 DEF StackFits, o

\* The call on top returns.
LEMMA FitsDone ==
    ASSUME Sort!SortAssumption, NEW s \in Seq(Sort!Calls), NEW new, NEW own, NEW arg,
           NEW n, NEW list,
           StackFits(s, own, arg, n), Done(s, new, list), SortOf(list, own[Len(s)])
    PROVE  StackFits(new, SubSeq(own, 1, Len(own) - 1), arg, n)
<1> DEFINE N == Len(s)
           o == SubSeq(own, 1, Len(own) - 1)
<1>1. /\ N \in Nat /\ N \in 1 .. N /\ Len(new) = N - 1
      /\ \A k \in 1 .. N - 1 : new[k] = IF k = N - 1 /\ s[N].task = NoPart
                                        THEN [s[k] EXCEPT !.higher = list] ELSE s[k]
  BY EmptySeq DEF Done
<1>2. own \in Seq(Seq(Nat)) /\ Len(own) = N /\ own # <<>>
  BY <1>1, EmptySeq DEF StackFits
<1>3. o \in Seq(Seq(Nat)) /\ Cut(own, o)
  BY <1>2, FrontCuts
<1> HIDE DEF o
<1>4. Len(o) = N - 1 /\ \A k \in 1 .. N - 1 : o[k] = own[k]
  BY <1>2, <1>3 DEF Cut
<1>5. \A k \in 1 .. N : s[k] \in Sort!Calls /\ Fits(s, own, k, arg, n)
  BY ElementOfSeq DEF StackFits
<1>6. \A k \in 1 .. N - 1 :
        /\ new[k].task = s[k].task /\ new[k].list = s[k].list
        /\ new[k].lower = s[k].lower /\ new[k].at = s[k].at
        /\ new[k].higher = IF k = N - 1 /\ s[N].task = NoPart THEN list ELSE s[k].higher
  <2>1. ASSUME NEW k \in 1 .. N - 1
        PROVE  /\ new[k].task = s[k].task /\ new[k].list = s[k].list
               /\ new[k].lower = s[k].lower /\ new[k].at = s[k].at
               /\ new[k].higher = IF k = N - 1 /\ s[N].task = NoPart THEN list
                                  ELSE s[k].higher
    <3>1. k \in 1 .. N
      BY <1>1
    <3>2. s[k] \in Sort!Calls
      BY <1>5, <3>1
    <3>3. QED
      BY <1>1, <3>2 DEF Sort!Calls
  <2>2. QED
    BY <2>1
<1>7. ASSUME NEW k \in 1 .. N - 1 PROVE Fits(new, o, k, arg, n)
  <2>1. k \in 1 .. N /\ k + 1 \in 1 .. N /\ k < N
    BY <1>1
  <2>2. Fits(s, own, k, arg, n) /\ s[k].at = "wait"
    BY <1>5, <2>1 DEF Fits
  <2>3. o[k] = own[k] /\ \A j \in 1 .. k : new[j].task = s[j].task
    <3>1. \A j \in 1 .. k : j \in 1 .. N - 1
      BY <2>1
    <3>2. QED
      BY <1>4, <1>6, <3>1
  <2>4. IF k < Len(new) /\ new[k + 1].task = NoPart
        THEN o[k + 1] = High(o[k])
        ELSE SortOf(new[k].higher, High(o[k]))
    <3>1. CASE k < N - 1
      <4>1. k + 1 \in 1 .. N - 1 /\ k < Len(new)
        BY <1>1, <3>1
      <4>2. new[k + 1].task = s[k + 1].task /\ o[k + 1] = own[k + 1]
            /\ new[k].higher = s[k].higher
        BY <1>4, <1>6, <3>1, <4>1
      <4>3. QED
        BY <2>1, <2>2, <2>3, <4>1, <4>2 DEF Fits
    <3>2. CASE k = N - 1
      <4>1. ~(k < Len(new)) /\ k + 1 = N
        BY <1>1, <3>2
      <4>2. CASE s[N].task = NoPart
        <5>1. new[k].higher = list /\ own[N] = High(own[k])
          BY <1>6, <2>1, <2>2, <3>2, <4>1, <4>2 DEF Fits
        <5>2. QED
          BY <2>3, <4>1, <5>1
      <4>3. CASE s[N].task # NoPart
        <5>1. new[k].higher = s[k].higher /\ SortOf(s[k].higher, High(own[k]))
          BY <1>6, <2>1, <2>2, <3>2, <4>1, <4>3 DEF Fits
        <5>2. QED
          BY <2>3, <4>1, <5>1
      <4>4. QED
        BY <4>2, <4>3
    <3>3. QED
      BY <1>1, <3>1, <3>2
  <2>5. QED
    BY <1>6, <2>2, <2>3, <2>4 DEF Fits
<1>8. QED
  BY <1>1, <1>3, <1>4, <1>7 DEF StackFits, o

-------------------------------------------------------------------------------
\* The numbers of the tasks in a queue or on a stack, and in all of them.
Ids(s) == [i \in 1 .. Len(s) |-> s[i].task]

Holders == ({"queue"} \X Queues) \cup ({"stack"} \X Sort!Threads)

HeldOf(qs, stk) ==
    [h \in Holders |-> IF h[1] = "queue" THEN Ids(qs[h[2]]) ELSE Ids(stk[h[2]])]

LEMMA IdsFacts ==
    ASSUME NEW s, s \in Seq(Sort!Tasks) \/ s \in Seq(Sort!Calls)
    PROVE  /\ Ids(s) \in Seq(Nat \cup {NoPart}) /\ Len(Ids(s)) = Len(s) /\ Len(s) \in Nat
           /\ \A i \in 1 .. Len(s) : Ids(s)[i] = s[i].task
<1>1. Len(s) \in Nat
  BY LenProperties
<1>2. \A i \in 1 .. Len(s) : s[i].task \in Nat \cup {NoPart}
  <2>1. CASE s \in Seq(Sort!Tasks)
    <3>1. \A i \in 1 .. Len(s) : s[i] \in Sort!Tasks
      BY <2>1, ElementOfSeq
    <3>2. QED
      BY <3>1 DEF Sort!Tasks
  <2>2. CASE s \in Seq(Sort!Calls)
    <3>1. \A i \in 1 .. Len(s) : s[i] \in Sort!Calls
      BY <2>2, ElementOfSeq
    <3>2. QED
      BY <3>1 DEF Sort!Calls
  <2>3. QED
    BY <2>1, <2>2
<1>3. Ids(s) \in [1 .. Len(s) -> Nat \cup {NoPart}]
  BY <1>2 DEF Ids
<1>4. Ids(s) \in Seq(Nat \cup {NoPart})
  BY <1>1, <1>3, SeqDef
<1>5. DOMAIN Ids(s) = 1 .. Len(s) /\ DOMAIN Ids(s) = 1 .. Len(Ids(s)) /\ Len(Ids(s)) \in Nat
  BY <1>3, <1>4, LenProperties
<1>6. Len(Ids(s)) = Len(s)
  BY <1>1, <1>5
<1>7. QED
  BY <1>1, <1>4, <1>6 DEF Ids

LEMMA HeldFacts ==
    ASSUME NEW qs \in [Queues -> Seq(Sort!Tasks)],
           NEW stk \in [Sort!Threads -> Seq(Sort!Calls)]
    PROVE  /\ HeldOf(qs, stk) \in [Holders -> Seq(Nat \cup {NoPart})]
           /\ \A q \in Queues : /\ <<"queue", q>> \in Holders
                                /\ HeldOf(qs, stk)[<<"queue", q>>] = Ids(qs[q])
           /\ \A t \in Sort!Threads : /\ <<"stack", t>> \in Holders
                                      /\ HeldOf(qs, stk)[<<"stack", t>>] = Ids(stk[t])
           /\ \A h \in Holders : \/ h[2] \in Queues /\ h = <<"queue", h[2]>>
                                 \/ h[2] \in Sort!Threads /\ h = <<"stack", h[2]>>
<1>1. \A q \in Queues : Ids(qs[q]) \in Seq(Nat \cup {NoPart})
  BY IdsFacts
<1>2. \A t \in Sort!Threads : Ids(stk[t]) \in Seq(Nat \cup {NoPart})
  BY IdsFacts
<1>3. \A h \in Holders : \/ h[2] \in Queues /\ h = <<"queue", h[2]>>
                         \/ h[2] \in Sort!Threads /\ h = <<"stack", h[2]>>
  BY DEF Holders
<1>4. \A q \in Queues : <<"queue", q>> \in Holders
  BY DEF Holders
<1>5. \A t \in Sort!Threads : <<"stack", t>> \in Holders
  BY DEF Holders
<1>6. ASSUME NEW h \in Holders
      PROVE  (IF h[1] = "queue" THEN Ids(qs[h[2]]) ELSE Ids(stk[h[2]]))
               \in Seq(Nat \cup {NoPart})
  <2>1. CASE h[2] \in Queues /\ h = <<"queue", h[2]>>
    BY <1>1, <2>1
  <2>2. CASE h[2] \in Sort!Threads /\ h = <<"stack", h[2]>>
    BY <1>2, <2>2
  <2>3. QED
    BY <1>3, <2>1, <2>2
<1>7. HeldOf(qs, stk) \in [Holders -> Seq(Nat \cup {NoPart})]
  BY <1>6 DEF HeldOf
<1>8. \A q \in Queues : HeldOf(qs, stk)[<<"queue", q>>] = Ids(qs[q])
  BY <1>4 DEF HeldOf
<1>9. \A t \in Sort!Threads : HeldOf(qs, stk)[<<"stack", t>>] = Ids(stk[t])
  BY <1>5 DEF HeldOf
<1>10. QED
  BY <1>3, <1>4, <1>5, <1>7, <1>8, <1>9

LEMMA StackHeld ==
    ASSUME NEW qs \in [Queues -> Seq(Sort!Tasks)],
           NEW stk \in [Sort!Threads -> Seq(Sort!Calls)], NEW t \in Sort!Threads
    PROVE  HeldOf(qs, stk)[<<"stack", t>>] = Ids(stk[t])
BY HeldFacts

\* What happens in one queue or on one stack happens in one holder.
LEMMA HeldQueue ==
    ASSUME NEW qs, NEW qs2, NEW stk \in [Sort!Threads -> Seq(Sort!Calls)], NEW q \in Queues,
           qs \in [Queues -> Seq(Sort!Tasks)],
           OnlyAt(q, Queues, Seq(Sort!Tasks), qs, qs2)
    PROVE  SameBut(Holders, HeldOf(qs, stk), HeldOf(qs2, stk), <<"queue", q>>)
<1>1. qs2 \in [Queues -> Seq(Sort!Tasks)] /\ \A x \in Queues \ {q} : qs2[x] = qs[x]
  BY DEF OnlyAt
<1> DEFINE a == HeldOf(qs, stk)
           b == HeldOf(qs2, stk)
<1>2. /\ \A x \in Queues : a[<<"queue", x>>] = Ids(qs[x])
      /\ \A t \in Sort!Threads : a[<<"stack", t>>] = Ids(stk[t])
  BY HeldFacts
<1>3. /\ b \in [Holders -> Seq(Nat \cup {NoPart})]
      /\ \A x \in Queues : b[<<"queue", x>>] = Ids(qs2[x])
      /\ \A t \in Sort!Threads : b[<<"stack", t>>] = Ids(stk[t])
      /\ \A h \in Holders : \/ h[2] \in Queues /\ h = <<"queue", h[2]>>
                            \/ h[2] \in Sort!Threads /\ h = <<"stack", h[2]>>
  BY <1>1, HeldFacts
<1> HIDE DEF a, b
<1>4. ASSUME NEW h \in Holders \ {<<"queue", q>>} PROVE b[h] = a[h]
  <2>1. CASE h[2] \in Queues /\ h = <<"queue", h[2]>>
    <3>1. h[2] # q
      BY <1>4, <2>1
    <3>2. Ids(qs2[h[2]]) = Ids(qs[h[2]])
      BY <1>1, <2>1, <3>1
    <3> DEFINE x == h[2]
    <3>3. x \in Queues /\ h = <<"queue", x>> /\ Ids(qs2[x]) = Ids(qs[x])
      BY <2>1, <3>2
    <3> HIDE DEF x
    <3>4. QED
      BY <1>2, <1>3, <3>3
  <2>2. CASE h[2] \in Sort!Threads /\ h = <<"stack", h[2]>>
    <3> DEFINE x == h[2]
    <3>1. x \in Sort!Threads /\ h = <<"stack", x>>
      BY <2>2
    <3> HIDE DEF x
    <3>2. QED
      BY <1>2, <1>3, <3>1
  <2>3. QED
    BY <1>3, <2>1, <2>2
<1>5. QED
  BY <1>3, <1>4 DEF SameBut, a, b

LEMMA HeldStack ==
    ASSUME NEW qs \in [Queues -> Seq(Sort!Tasks)], NEW stk, NEW stk2, NEW t \in Sort!Threads,
           stk \in [Sort!Threads -> Seq(Sort!Calls)],
           OnlyAt(t, Sort!Threads, Seq(Sort!Calls), stk, stk2)
    PROVE  SameBut(Holders, HeldOf(qs, stk), HeldOf(qs, stk2), <<"stack", t>>)
<1>1. /\ stk2 \in [Sort!Threads -> Seq(Sort!Calls)]
      /\ \A x \in Sort!Threads \ {t} : stk2[x] = stk[x]
  BY DEF OnlyAt
<1> DEFINE a == HeldOf(qs, stk)
           b == HeldOf(qs, stk2)
<1>2. /\ \A x \in Queues : a[<<"queue", x>>] = Ids(qs[x])
      /\ \A x \in Sort!Threads : a[<<"stack", x>>] = Ids(stk[x])
  BY HeldFacts
<1>3. /\ b \in [Holders -> Seq(Nat \cup {NoPart})]
      /\ \A x \in Queues : b[<<"queue", x>>] = Ids(qs[x])
      /\ \A x \in Sort!Threads : b[<<"stack", x>>] = Ids(stk2[x])
      /\ \A h \in Holders : \/ h[2] \in Queues /\ h = <<"queue", h[2]>>
                            \/ h[2] \in Sort!Threads /\ h = <<"stack", h[2]>>
  BY <1>1, HeldFacts
<1> HIDE DEF a, b
<1>4. ASSUME NEW h \in Holders \ {<<"stack", t>>} PROVE b[h] = a[h]
  <2>1. CASE h[2] \in Sort!Threads /\ h = <<"stack", h[2]>>
    <3>1. h[2] # t
      BY <1>4, <2>1
    <3>2. Ids(stk2[h[2]]) = Ids(stk[h[2]])
      BY <1>1, <2>1, <3>1
    <3> DEFINE x == h[2]
    <3>3. x \in Sort!Threads /\ h = <<"stack", x>> /\ Ids(stk2[x]) = Ids(stk[x])
      BY <2>1, <3>2
    <3> HIDE DEF x
    <3>4. QED
      BY <1>2, <1>3, <3>3
  <2>2. CASE h[2] \in Queues /\ h = <<"queue", h[2]>>
    <3> DEFINE x == h[2]
    <3>1. x \in Queues /\ h = <<"queue", x>>
      BY <2>2
    <3> HIDE DEF x
    <3>2. QED
      BY <1>2, <1>3, <3>1
  <2>3. QED
    BY <1>3, <2>1, <2>2
<1>5. QED
  BY <1>3, <1>4 DEF SameBut, a, b

LEMMA IdsGrown ==
    ASSUME NEW T, T = Sort!Tasks \/ T = Sort!Calls, NEW s \in Seq(T), NEW new \in Seq(T),
           NEW f,
           Grown(s, new, f)
    PROVE  Grown(Ids(s), Ids(new), f.task)
<1>1. /\ Len(Ids(s)) = Len(s) /\ Len(s) \in Nat
      /\ \A i \in 1 .. Len(s) : Ids(s)[i] = s[i].task
  BY IdsFacts
<1>2. /\ Len(Ids(new)) = Len(new)
      /\ \A i \in 1 .. Len(new) : Ids(new)[i] = new[i].task
  BY IdsFacts
<1>3. /\ Len(new) = Len(s) + 1 /\ new[Len(s) + 1] = f
      /\ \A k \in 1 .. Len(s) : new[k] = s[k]
  BY DEF Grown
<1>4. Len(s) + 1 \in 1 .. Len(new) /\ \A k \in 1 .. Len(s) : k \in 1 .. Len(new)
  BY <1>1, <1>3
<1>5. QED
  BY <1>1, <1>2, <1>3, <1>4 DEF Grown

LEMMA IdsSplit ==
    ASSUME NEW s \in Seq(Sort!Calls), NEW new \in Seq(Sort!Calls), NEW n, NEW point, NEW high,
           Split(s, new, n, point, high)
    PROVE  Grown(Ids(s), Ids(new), NoPart)
<1>1. /\ Len(Ids(s)) = Len(s) /\ Len(s) \in Nat
      /\ \A i \in 1 .. Len(s) : Ids(s)[i] = s[i].task
  BY IdsFacts
<1>2. /\ Len(Ids(new)) = Len(new)
      /\ \A i \in 1 .. Len(new) : Ids(new)[i] = new[i].task
  BY IdsFacts
<1>3. /\ s # <<>> /\ Len(new) = Len(s) + 1
      /\ new[Len(s) + 1] = Sort!Call(NoPart, high)
      /\ new[Len(s)] = [s[Len(s)] EXCEPT !.list = <<point>>, !.lower = n, !.at = "wait"]
      /\ \A k \in 1 .. Len(s) - 1 : new[k] = s[k]
  BY DEF Split
<1>4. Len(s) \in 1 .. Len(s) /\ Len(s) \in 1 .. Len(new) /\ Len(s) + 1 \in 1 .. Len(new)
  BY <1>1, <1>3, EmptySeq
<1>5. s[Len(s)] \in Sort!Calls
  BY <1>4, ElementOfSeq
<1>6. new[Len(s)].task = s[Len(s)].task
  BY <1>3, <1>5 DEF Sort!Calls
<1>7. ASSUME NEW k \in 1 .. Len(s) PROVE Ids(new)[k] = Ids(s)[k]
  <2>1. k \in 1 .. Len(new) /\ (k = Len(s) \/ k \in 1 .. Len(s) - 1)
    BY <1>1, <1>3
  <2>2. new[k].task = s[k].task
    BY <1>3, <1>6, <2>1
  <2>3. QED
    BY <1>1, <1>2, <2>1, <2>2
<1>8. Ids(new)[Len(s) + 1] = NoPart
  BY <1>2, <1>3, <1>4 DEF Sort!Call
<1>9. QED
  BY <1>1, <1>2, <1>3, <1>7, <1>8 DEF Grown

LEMMA IdsWithout ==
    ASSUME NEW s \in Seq(Sort!Tasks), NEW new \in Seq(Sort!Tasks), NEW k, Without(s, new, k)
    PROVE  Without(Ids(s), Ids(new), k) /\ Ids(s)[k] = s[k].task
<1>1. /\ Len(Ids(s)) = Len(s) /\ Len(s) \in Nat
      /\ \A i \in 1 .. Len(s) : Ids(s)[i] = s[i].task
  BY IdsFacts
<1>2. /\ Len(Ids(new)) = Len(new)
      /\ \A i \in 1 .. Len(new) : Ids(new)[i] = new[i].task
  BY IdsFacts
<1>3. /\ k \in 1 .. Len(s) /\ Len(new) = Len(s) - 1
      /\ \A i \in 1 .. Len(new) : new[i] = IF i < k THEN s[i] ELSE s[i + 1]
  BY DEF Without
<1>4. ASSUME NEW i \in 1 .. Len(new)
      PROVE  Ids(new)[i] = IF i < k THEN Ids(s)[i] ELSE Ids(s)[i + 1]
  <2>1. i \in 1 .. Len(s) /\ i + 1 \in 1 .. Len(s)
    BY <1>1, <1>3
  <2>2. QED
    BY <1>1, <1>2, <1>3, <2>1
<1>5. QED
  BY <1>1, <1>2, <1>3, <1>4 DEF Without

LEMMA IdsDone ==
    ASSUME NEW s \in Seq(Sort!Calls), NEW new \in Seq(Sort!Calls),
           NEW list, Done(s, new, list)
    PROVE  Without(Ids(s), Ids(new), Len(s)) /\ Ids(s)[Len(s)] = s[Len(s)].task
<1>1. /\ Len(Ids(s)) = Len(s) /\ Len(s) \in Nat
      /\ \A i \in 1 .. Len(s) : Ids(s)[i] = s[i].task
  BY IdsFacts
<1>2. /\ Len(Ids(new)) = Len(new)
      /\ \A i \in 1 .. Len(new) : Ids(new)[i] = new[i].task
  BY IdsFacts
<1>3. /\ Len(s) \in 1 .. Len(s) /\ Len(new) = Len(s) - 1
      /\ \A k \in 1 .. Len(new) :
           new[k] = IF k = Len(new) /\ s[Len(s)].task = NoPart
                    THEN [s[k] EXCEPT !.higher = list] ELSE s[k]
  BY EmptySeq DEF Done
<1>4. ASSUME NEW i \in 1 .. Len(new)
      PROVE  i < Len(s) /\ Ids(new)[i] = Ids(s)[i]
  <2>1. i \in 1 .. Len(s) /\ i < Len(s)
    BY <1>1, <1>3
  <2>2. s[i] \in Sort!Calls
    BY <2>1, ElementOfSeq
  <2>3. new[i].task = s[i].task
    BY <1>3, <2>2 DEF Sort!Calls
  <2>4. QED
    BY <1>1, <1>2, <2>1, <2>3
<1>5. QED
  BY <1>1, <1>2, <1>3, <1>4 DEF Without

\* So every step puts the tasks that are not done in one place each.
LEMMA PlacesDivided ==
    ASSUME Sort!SortAssumption,
           NEW qs \in [Queues -> Seq(Sort!Tasks)],
           NEW stk \in [Sort!Threads -> Seq(Sort!Calls)],
           NEW qs2, NEW stk2, NEW S, NEW q \in Queues, NEW t \in Sort!Threads,
           NEW n \in Nat, n \notin S, S \subseteq Nat, NEW point, NEW high, NEW list,
           Placed(Holders, HeldOf(qs, stk), S),
           OnlyAt(q, Queues, Seq(Sort!Tasks), qs, qs2),
           OnlyAt(t, Sort!Threads, Seq(Sort!Calls), stk, stk2),
           Grown(qs[q], qs2[q], [task |-> n, list |-> list]),
           Split(stk[t], stk2[t], n, point, high)
    PROVE  Placed(Holders, HeldOf(qs2, stk2), S \cup {n})
<1> DEFINE a == HeldOf(qs, stk)
           b == HeldOf(qs2, stk)
           c == HeldOf(qs2, stk2)
           hq == <<"queue", q>>
           ht == <<"stack", t>>
           T == S \cup {n}
<1>1. qs2 \in [Queues -> Seq(Sort!Tasks)] /\ stk2 \in [Sort!Threads -> Seq(Sort!Calls)]
  BY DEF OnlyAt
<1>2. SameBut(Holders, a, b, hq)
  BY HeldQueue
<1>3. SameBut(Holders, b, c, ht)
  BY <1>1, HeldStack
<1>4. hq \in Holders /\ ht \in Holders /\ a[hq] = Ids(qs[q]) /\ b[hq] = Ids(qs2[q])
      /\ b[ht] = Ids(stk[t])
  <2>1. hq \in Holders /\ ht \in Holders /\ a[hq] = Ids(qs[q])
    BY HeldFacts
  <2>2. b[hq] = Ids(qs2[q])
    <3>1. \A k \in Queues : HeldOf(qs2, stk)[<<"queue", k>>] = Ids(qs2[k])
      BY <1>1, HeldFacts
    <3>2. QED
      BY <3>1
  <2>3. b[ht] = Ids(stk[t])
    BY <1>1, StackHeld
  <2> HIDE DEF a, b, hq, ht
  <2>4. QED
    BY <2>1, <2>2, <2>3
<1>5. c[ht] = Ids(stk2[t])
  BY <1>1, StackHeld
<1>6. Grown(Ids(qs[q]), Ids(qs2[q]), n)
  <2> DEFINE f == [task |-> n, list |-> list]
  <2>1. f.task = n /\ Grown(qs[q], qs2[q], f)
    OBVIOUS
  <2> HIDE DEF f
  <2>2. qs[q] \in Seq(Sort!Tasks) /\ qs2[q] \in Seq(Sort!Tasks)
    BY <1>1
  <2> DEFINE old == qs[q]
             new == qs2[q]
  <2>3. old \in Seq(Sort!Tasks) /\ new \in Seq(Sort!Tasks) /\ Grown(old, new, f)
    BY <2>1, <2>2
  <2> HIDE DEF old, new
  <2> DEFINE T2 == Sort!Tasks
  <2>4. old \in Seq(T2) /\ new \in Seq(T2) /\ (T2 = Sort!Tasks \/ T2 = Sort!Calls)
    BY <2>3
  <2> HIDE DEF T2
  <2>5. Grown(Ids(old), Ids(new), f.task)
    BY <2>3, <2>4, IdsGrown
  <2>6. QED
    BY <2>1, <2>5 DEF old, new
<1>7. Grown(Ids(stk[t]), Ids(stk2[t]), NoPart)
  BY <1>1, IdsSplit
<1>8. NoPart \notin Nat
  BY DEF Sort!SortAssumption
<1> HIDE DEF a, b, c, hq, ht
<1>9. Placed(Holders, a, S) /\ Grown(a[hq], b[hq], n) /\ Grown(b[ht], c[ht], NoPart)
  BY <1>4, <1>5, <1>6, <1>7 DEF a
<1>10. n \in Nat \cup {NoPart} /\ T = IF n = NoPart THEN S ELSE S \cup {n}
  BY <1>8
<1> HIDE DEF T
<1>11. Placed(Holders, b, T)
  BY <1>2, <1>4, <1>9, <1>10, PlacesAdd
<1>12. NoPart \notin T /\ NoPart \in Nat \cup {NoPart}
       /\ T = IF NoPart = NoPart THEN T ELSE T \cup {NoPart}
  BY <1>8 DEF T
<1>13. Placed(Holders, c, T)
  BY <1>3, <1>4, <1>9, <1>11, <1>12, PlacesAdd
<1>14. QED
  BY <1>13 DEF c, T

LEMMA PlacesTaken ==
    ASSUME Sort!SortAssumption,
           NEW qs \in [Queues -> Seq(Sort!Tasks)],
           NEW stk \in [Sort!Threads -> Seq(Sort!Calls)],
           NEW qs2, NEW stk2, NEW S, NEW q \in Queues, NEW t \in Sort!Threads,
           NEW k \in 1 .. Len(qs[q]),
           Placed(Holders, HeldOf(qs, stk), S),
           OnlyAt(q, Queues, Seq(Sort!Tasks), qs, qs2),
           OnlyAt(t, Sort!Threads, Seq(Sort!Calls), stk, stk2),
           Without(qs[q], qs2[q], k),
           Grown(stk[t], stk2[t], Sort!Call(qs[q][k].task, qs[q][k].list))
    PROVE  Placed(Holders, HeldOf(qs2, stk2), S) /\ qs[q][k].task \in S
<1> DEFINE a == HeldOf(qs, stk)
           b == HeldOf(qs2, stk)
           c == HeldOf(qs2, stk2)
           hq == <<"queue", q>>
           ht == <<"stack", t>>
           n == qs[q][k].task
           T == S \ {n}
<1>1. qs2 \in [Queues -> Seq(Sort!Tasks)] /\ stk2 \in [Sort!Threads -> Seq(Sort!Calls)]
  BY DEF OnlyAt
<1>2. SameBut(Holders, a, b, hq)
  BY HeldQueue
<1>3. SameBut(Holders, b, c, ht)
  BY <1>1, HeldStack
<1>4. hq \in Holders /\ ht \in Holders /\ a[hq] = Ids(qs[q]) /\ b[hq] = Ids(qs2[q])
      /\ b[ht] = Ids(stk[t])
  BY <1>1, HeldFacts
<1>5. c[ht] = Ids(stk2[t])
  BY <1>1, HeldFacts
<1>6. Without(Ids(qs[q]), Ids(qs2[q]), k) /\ Ids(qs[q])[k] = n
  BY <1>1, IdsWithout
<1>7. Grown(Ids(stk[t]), Ids(stk2[t]), n)
  <2> DEFINE f == Sort!Call(n, qs[q][k].list)
  <2>1. f.task = n /\ Grown(stk[t], stk2[t], f)
    BY DEF Sort!Call
  <2> HIDE DEF f
  <2> DEFINE T2 == Sort!Calls
  <2>2. stk[t] \in Seq(T2) /\ stk2[t] \in Seq(T2) /\ (T2 = Sort!Tasks \/ T2 = Sort!Calls)
    BY <1>1
  <2> HIDE DEF T2
  <2>3. Grown(Ids(stk[t]), Ids(stk2[t]), f.task)
    BY <2>1, <2>2, IdsGrown
  <2>4. QED
    BY <2>1, <2>3
<1>8. NoPart \notin Nat
  BY DEF Sort!SortAssumption
<1>9. n \in Nat
  <2>1. qs[q][k] \in Sort!Tasks
    BY ElementOfSeq
  <2>2. QED
    BY <2>1 DEF Sort!Tasks
<1>10. k \in 1 .. Len(Ids(qs[q]))
  BY IdsFacts
<1> HIDE DEF a, b, c, hq, ht, n
<1>11. Placed(Holders, a, S) /\ Without(a[hq], b[hq], k) /\ Grown(b[ht], c[ht], n)
       /\ a[hq][k] = n /\ k \in 1 .. Len(a[hq])
  BY <1>4, <1>5, <1>6, <1>7, <1>10 DEF a
<1>12. n \in S
  BY <1>4, <1>9, <1>11 DEF Placed
<1>13. T = S \ {a[hq][k]}
  BY <1>11
<1>14. n \notin T /\ n \in Nat \cup {NoPart} /\ S = IF n = NoPart THEN T ELSE T \cup {n}
  BY <1>8, <1>9, <1>12
<1> HIDE DEF T
<1>15. Placed(Holders, b, T)
  BY <1>2, <1>4, <1>11, <1>13, PlacesRemove
<1>16. Placed(Holders, c, S)
  BY <1>3, <1>4, <1>11, <1>14, <1>15, PlacesAdd
<1>17. QED
  BY <1>12, <1>16 DEF c, n

LEMMA PlacesReturned ==
    ASSUME Sort!SortAssumption,
           NEW qs \in [Queues -> Seq(Sort!Tasks)],
           NEW stk \in [Sort!Threads -> Seq(Sort!Calls)],
           NEW stk2, NEW S, NEW t \in Sort!Threads, NEW list,
           Placed(Holders, HeldOf(qs, stk), S), S \subseteq Nat,
           OnlyAt(t, Sort!Threads, Seq(Sort!Calls), stk, stk2), Done(stk[t], stk2[t], list)
    PROVE  /\ Placed(Holders, HeldOf(qs, stk2), S \ {stk[t][Len(stk[t])].task})
           /\ stk[t][Len(stk[t])].task # NoPart => stk[t][Len(stk[t])].task \in S
<1> DEFINE a == HeldOf(qs, stk)
           c == HeldOf(qs, stk2)
           ht == <<"stack", t>>
           k == Len(stk[t])
           n == stk[t][k].task
           T == S \ {n}
<1>1. stk2 \in [Sort!Threads -> Seq(Sort!Calls)]
  BY DEF OnlyAt
<1>2. SameBut(Holders, a, c, ht)
  BY HeldStack
<1>3. ht \in Holders /\ a[ht] = Ids(stk[t]) /\ c[ht] = Ids(stk2[t])
  BY <1>1, HeldFacts
<1>4. Without(Ids(stk[t]), Ids(stk2[t]), k) /\ Ids(stk[t])[k] = n
  BY <1>1, IdsDone
<1>5. n \in Nat \cup {NoPart} /\ k \in 1 .. Len(Ids(stk[t]))
  <2>1. k \in 1 .. k /\ Len(Ids(stk[t])) = k
    <3>1. stk[t] # <<>>
      BY DEF Done
    <3>2. QED
      BY <3>1, EmptySeq, IdsFacts
  <2>2. stk[t][k] \in Sort!Calls
    BY <2>1, ElementOfSeq
  <2>3. QED
    BY <2>1, <2>2 DEF Sort!Calls
<1> HIDE DEF a, c, ht, k, n
<1>6. Placed(Holders, a, S) /\ Without(a[ht], c[ht], k) /\ a[ht][k] = n
      /\ k \in 1 .. Len(a[ht])
  BY <1>3, <1>4, <1>5 DEF a
<1>7. T = S \ {a[ht][k]}
  BY <1>6
<1> HIDE DEF T
<1>8. Placed(Holders, c, T)
  BY <1>2, <1>3, <1>6, <1>7, PlacesRemove
<1>9. n # NoPart => n \in S
  BY <1>3, <1>5, <1>6 DEF Placed
<1>10. QED
  BY <1>8, <1>9 DEF c, T, n, k

-------------------------------------------------------------------------------
\* The tasks that are not done.
Open == {n \in 1 .. Len(s_future) : s_future[n] = Pending}

\* Every one of them is waited for.
Waited(stk, tasks2) ==
    \A n \in tasks2 : \E t \in Sort!Threads : \E k \in 1 .. Len(stk[t]) :
      stk[t][k].at = "wait" /\ stk[t][k].lower = n

\* The stack of a caller begins with its own call, that of a worker with a task.
Bases(stk, own, inp) ==
    \A t \in Sort!Threads : stk[t] # <<>> =>
      IF t \in Callers THEN stk[t][1].task = NoPart /\ own[t][1] = inp[t]
      ELSE stk[t][1].task # NoPart

StacksFit(stk, own, arg, n) == \A t \in Sort!Threads : StackFits(stk[t], own[t], arg, n)

QueuesFit(qs, arg, n) ==
    \A q \in Queues : \A i \in 1 .. Len(qs[q]) :
      qs[q][i].task \in 1 .. n /\ qs[q][i].list = arg[qs[q][i].task]

ResultsFit(results, args, S) ==
    \A x \in S : results[x] = Pending \/ SortOf(results[x], args[x])

\* What is there fits the lists of the tasks and of the calls.
Fit(arg, own) ==
    /\ arg \in [1 .. Len(s_future) -> Seq(Nat)] /\ own \in [Sort!Threads -> Seq(Seq(Nat))]
    /\ StacksFit(s_stack, own, arg, Len(s_future))
    /\ Bases(s_stack, own, s_input)
    /\ QueuesFit(Queue, arg, Len(s_future))
    /\ ResultsFit(s_future, arg, 1 .. Len(s_future))
    /\ ResultsFit(s_sorted, s_input, Callers)

Order ==
    /\ \A w \in Sort!Workers : s_worker[w] # "off" => s_built >= 1
    /\ \A t \in Sort!Threads : s_stack[t] # <<>> \/ s_look[t] # "no" => s_built >= 1
    /\ \A t \in Callers : s_input[t] = Pending =>
         s_stack[t] = <<>> /\ s_look[t] = "no" /\ s_sorted[t] = Pending
    /\ \A t \in Sort!Threads : s_look[t] # "no" =>
         \/ t \in Sort!Workers /\ s_stack[t] = <<>>
         \/ s_stack[t] # <<>> /\ Sort!Top(t).at = "wait"

Core ==
    /\ Waited(s_stack, Open)
    /\ Placed(Holders, HeldOf(Queue, s_stack), Open)
    /\ \E arg, own : Fit(arg, own)

SortInv == Sort!TypeOK /\ Order /\ Core

LEMMA SortInit == ASSUME Sort!SortAssumption PROVE Sort!Init => SortInv
<1> SUFFICES ASSUME Sort!Init PROVE SortInv
  OBVIOUS
<1>1. /\ s_future = <<>> /\ Len(s_future) = 0 /\ 1 .. Len(s_future) = {}
      /\ s_pool = <<>> /\ s_queues = [w \in Sort!Workers |-> <<>>]
      /\ s_stack = [t \in Sort!Threads |-> <<>>]
      /\ s_look = [t \in Sort!Threads |-> "no"] /\ s_tried = [t \in Sort!Threads |-> 0]
      /\ s_worker = [w \in Sort!Workers |-> "off"]
      /\ s_input = [t \in Callers |-> Pending] /\ s_sorted = [t \in Callers |-> Pending]
      /\ s_built = 0 /\ s_done = FALSE /\ s_local \in Leftovers /\ s_index = 0
  BY DEF Sort!Init
<1>2. Sort!TypeOK
  <2>1. /\ <<>> \in Seq(Sort!Tasks) /\ <<>> \in Seq(Sort!Calls)
        /\ <<>> \in Seq(Seq(Nat) \cup {Pending})
    BY EmptySeq
  <2>2. /\ s_built \in 0 .. Size /\ s_done \in BOOLEAN /\ s_index \in Sort!Workers
        /\ s_local \in Sort!Workers \cup {NoQueue, Dangling}
    <3>1. s_local \in {NoQueue, Dangling}
      BY <1>1 DEF Sort!SortAssumption
    <3>2. 0 \in Sort!Workers /\ Size \in Nat
      BY ThreadFacts
    <3>3. s_built \in 0 .. Size
      BY <1>1, <3>2
    <3>4. s_done \in BOOLEAN /\ s_index \in Sort!Workers
      BY <1>1, <3>2
    <3>5. QED
      BY <3>1, <3>3, <3>4
  <2>3. /\ s_pool \in Seq(Sort!Tasks) /\ s_queues \in [Sort!Workers -> Seq(Sort!Tasks)]
        /\ s_stack \in [Sort!Threads -> Seq(Sort!Calls)]
        /\ s_future \in Seq(Seq(Nat) \cup {Pending})
    BY <1>1, <2>1
  <2>4. QED
    BY <1>1, <2>2, <2>3 DEF Sort!TypeOK
<1>3. Order
  BY <1>1, ThreadFacts DEF Order
<1>4. Open = {}
  BY <1>1 DEF Open
<1>5. Waited(s_stack, Open)
  BY <1>4 DEF Waited
<1>6. \A q \in Queues : Queue[q] = <<>>
  BY <1>1 DEF Queue, Queues
<1>7. Placed(Holders, HeldOf(Queue, s_stack), Open)
  <2> DEFINE a == HeldOf(Queue, s_stack)
  <2>1. Queue \in [Queues -> Seq(Sort!Tasks)] /\ s_stack \in [Sort!Threads -> Seq(Sort!Calls)]
    BY <1>2, SortQueueType DEF Sort!TypeOK
  <2>2. /\ a \in [Holders -> Seq(Nat \cup {NoPart})]
        /\ \A q \in Queues : a[<<"queue", q>>] = Ids(Queue[q])
        /\ \A t \in Sort!Threads : a[<<"stack", t>>] = Ids(s_stack[t])
        /\ \A h \in Holders : \/ h[2] \in Queues /\ h = <<"queue", h[2]>>
                              \/ h[2] \in Sort!Threads /\ h = <<"stack", h[2]>>
    BY <2>1, HeldFacts
  <2> HIDE DEF a
  <2>3. Len(Ids(<<>>)) = 0
    <3>1. <<>> \in Seq(Sort!Tasks) /\ Len(<<>>) = 0
      BY EmptySeq
    <3>2. QED
      BY <3>1, IdsFacts
  <2>4. ASSUME NEW h \in Holders PROVE 1 .. Len(a[h]) = {}
    <3> DEFINE x == h[2]
    <3>1. \/ x \in Queues /\ h = <<"queue", x>>
          \/ x \in Sort!Threads /\ h = <<"stack", x>>
      BY <2>2
    <3> HIDE DEF x
    <3>2. a[h] = Ids(<<>>)
      BY <1>1, <1>6, <2>2, <3>1
    <3>3. QED
      BY <2>3, <3>2
  <2>5. Placed(Holders, a, Open)
    BY <1>4, <2>2, <2>4 DEF Placed
  <2>6. QED
    BY <2>5 DEF a
<1>8. \E arg, own : Fit(arg, own)
  <2> DEFINE arg == <<>>
             own == [t \in Sort!Threads |-> <<>>]
  <2>1. <<>> \in Seq(Seq(Nat)) /\ Len(<<>>) = 0
    BY EmptySeq
  <2>2. arg \in [1 .. Len(s_future) -> Seq(Nat)] /\ own \in [Sort!Threads -> Seq(Seq(Nat))]
    BY <1>1, <2>1
  <2>3. StacksFit(s_stack, own, arg, Len(s_future)) /\ Bases(s_stack, own, s_input)
    BY <1>1, <2>1 DEF StacksFit, StackFits, Bases
  <2>4. QueuesFit(Queue, arg, Len(s_future))
    BY <1>6, <2>1 DEF QueuesFit
  <2>5. /\ ResultsFit(s_future, arg, 1 .. Len(s_future))
        /\ ResultsFit(s_sorted, s_input, Callers)
    BY <1>1 DEF ResultsFit
  <2> HIDE DEF arg, own
  <2>6. QED
    BY <2>2, <2>3, <2>4, <2>5 DEF Fit
<1>9. QED
  BY <1>2, <1>3, <1>5, <1>7, <1>8 DEF SortInv, Core

LEMMA FutureFacts ==
    ASSUME Sort!TypeOK
    PROVE  /\ Len(s_future) \in Nat /\ Open \subseteq Nat /\ Len(s_future) + 1 \notin Open
           /\ \A i \in 1 .. Len(s_future) : s_future[i] \in Seq(Nat) \cup {Pending}
           /\ Open \subseteq 1 .. Len(s_future)
BY LenProperties, ElementOfSeq DEF Sort!TypeOK, Open

LEMMA DivideKeeps ==
    ASSUME Sort!SortAssumption, SortInv, NEW t \in Sort!Threads, Divides(t)
    PROVE  Core'
<1> DEFINE s == s_stack[t]
           N == Len(s)
           list == Sort!Top(t).list
           n == Len(s_future) + 1
<1>1. /\ Sort!TypeOK /\ Waited(s_stack, Open) /\ Placed(Holders, HeldOf(Queue, s_stack), Open)
      /\ Queue \in [Queues -> Seq(Sort!Tasks)]
      /\ s_stack \in [Sort!Threads -> Seq(Sort!Calls)]
  BY SortQueueType DEF SortInv, Core, Sort!TypeOK
<1>2. /\ s # <<>> /\ Sort!Top(t).at = "sort" /\ Len(list) >= 2
      /\ s_future' = Append(s_future, Pending)
      /\ OnlyAt(t, Sort!Threads, Seq(Sort!Calls), s_stack, s_stack')
      /\ Split(s, s_stack'[t], n, Point(list), High(list))
      /\ UNCHANGED <<s_input, s_sorted>>
  BY DEF Divides
<1>3. PICK q \in Queues : /\ OnlyAt(q, Queues, Seq(Sort!Tasks), Queue, Queue')
                          /\ Grown(Queue[q], Queue'[q], [task |-> n, list |-> Low(list)])
  BY DEF Divides, Queues1
<1>4. /\ s \in Seq(Sort!Calls) /\ N \in Nat \ {0} /\ N \in 1 .. N
      /\ Sort!Top(t) = s[N] /\ Sort!Top(t) \in Sort!Calls
  BY <1>1, <1>2, SortTopFacts
<1>5. /\ n - 1 = Len(s_future) /\ Len(s_future) \in Nat /\ n \in Nat /\ Open \subseteq Nat
      /\ n \notin Open
      /\ list \in Seq(Nat)
  BY <1>1, <1>4, FutureFacts DEF Sort!Calls
<1>6. /\ Len(s_future') = n /\ s_future'[n] = Pending
      /\ \A i \in 1 .. Len(s_future) : s_future'[i] = s_future[i]
  <2>1. s_future \in Seq(Seq(Nat) \cup {Pending}) /\ Pending \in Seq(Nat) \cup {Pending}
    BY <1>1 DEF Sort!TypeOK
  <2>2. QED
    BY <1>2, <2>1, AppendProperties
<1>7. Open' = Open \cup {n}
  <2>1. ASSUME NEW i PROVE i \in 1 .. n <=> i \in 1 .. Len(s_future) \/ i = n
    BY <1>5
  <2>2. n \in 1 .. n
    BY <1>5
  <2> HIDE DEF n
  <2>3. QED
    BY <1>6, <2>1, <2>2 DEF Open
<1>8. /\ s_stack' \in [Sort!Threads -> Seq(Sort!Calls)]
      /\ \A u \in Sort!Threads \ {t} : s_stack'[u] = s_stack[u]
      /\ Len(s_stack'[t]) = N + 1
      /\ \A k \in 1 .. N - 1 : s_stack'[t][k] = s[k]
      /\ s_stack'[t][N] = [s[N] EXCEPT !.list = <<Point(list)>>, !.lower = n, !.at = "wait"]
  BY <1>2 DEF OnlyAt, Split
<1>9. /\ s_stack'[t][N].at = "wait" /\ s_stack'[t][N].lower = n
      /\ s_stack'[t][N].task = s[N].task
  BY <1>4, <1>8 DEF Sort!Calls
<1>10. Waited(s_stack', Open')
  <2>1. ASSUME NEW i \in Open'
        PROVE  \E u \in Sort!Threads : \E k \in 1 .. Len(s_stack'[u]) :
                 s_stack'[u][k].at = "wait" /\ s_stack'[u][k].lower = i
    <3>1. CASE i = n
      <4>1. N \in 1 .. Len(s_stack'[t])
        BY <1>4, <1>8
      <4>2. QED
        BY <1>9, <3>1, <4>1
    <3>2. CASE i \in Open
      <4>1. PICK u \in Sort!Threads : \E k \in 1 .. Len(s_stack[u]) :
                 s_stack[u][k].at = "wait" /\ s_stack[u][k].lower = i
        BY <1>1, <3>2 DEF Waited
      <4>2. PICK k \in 1 .. Len(s_stack[u]) :
                 s_stack[u][k].at = "wait" /\ s_stack[u][k].lower = i
        BY <4>1
      <4>3. CASE u # t
        BY <1>8, <4>2, <4>3
      <4>4. CASE u = t
        <5>1. k # N
          BY <1>2, <1>4, <4>2, <4>4
        <5>2. k \in 1 .. N - 1 /\ k \in 1 .. Len(s_stack'[t])
          BY <1>4, <1>8, <4>4, <5>1
        <5>3. QED
          BY <1>8, <4>2, <4>4, <5>2
      <4>5. QED
        BY <4>3, <4>4
    <3>3. QED
      BY <1>7, <3>1, <3>2
  <2>2. QED
    BY <2>1 DEF Waited
<1>11. Placed(Holders, HeldOf(Queue', s_stack'), Open')
  <2> HIDE DEF s, N, list, n
  <2>1. Placed(Holders, HeldOf(Queue', s_stack'), Open \cup {n})
    BY <1>1, <1>2, <1>3, <1>5, PlacesDivided DEF s
  <2>2. QED
    BY <1>7, <2>1
<1>12. \E more, own2 : Fit(more, own2)'
  <2>1. PICK arg, own : Fit(arg, own)
    BY DEF SortInv, Core
  <2>2. PICK more : more = [i \in 1 .. n |-> IF i = n THEN Low(list) ELSE arg[i]]
    OBVIOUS
  <2>3. PICK own2 : own2 = [own EXCEPT ![t] = Append(own[t], High(list))]
    OBVIOUS
  <2>4. /\ arg \in [1 .. Len(s_future) -> Seq(Nat)] /\ own \in [Sort!Threads -> Seq(Seq(Nat))]
        /\ StacksFit(s_stack, own, arg, Len(s_future))
        /\ Bases(s_stack, own, s_input)
        /\ QueuesFit(Queue, arg, Len(s_future))
        /\ ResultsFit(s_future, arg, 1 .. Len(s_future))
        /\ ResultsFit(s_sorted, s_input, Callers)
    BY <2>1 DEF Fit
  <2>5. Low(list) \in Seq(Nat) /\ High(list) \in Seq(Nat)
    BY <1>2, <1>5, Parts
  <2> HIDE DEF list
  <2>6. /\ more \in [1 .. n -> Seq(Nat)] /\ more[n] = Low(list)
        /\ \A i \in 1 .. Len(s_future) : i \in 1 .. n /\ more[i] = arg[i]
    <3>1. n \in 1 .. n /\ \A i \in 1 .. Len(s_future) : i \in 1 .. n /\ i # n
      BY <1>5
    <3>2. \A i \in 1 .. n : i = n \/ i \in 1 .. Len(s_future)
      BY <1>5
    <3> HIDE DEF n
    <3>3. QED
      BY <2>2, <2>4, <2>5, <3>1, <3>2
  <2>7. Extends(arg, Len(s_future), more, n)
    BY <1>5, <2>4, <2>6 DEF Extends
  <2>8. /\ own2 \in [Sort!Threads -> Seq(Seq(Nat))]
        /\ own2[t] = Append(own[t], High(list))
        /\ \A u \in Sort!Threads \ {t} : own2[u] = own[u]
    <3>1. Append(own[t], High(list)) \in Seq(Seq(Nat))
      BY <2>4, <2>5, AppendProperties
    <3>2. QED
      BY <2>3, <2>4, <3>1
  <2>9. StacksFit(s_stack', own2, more, n)
    <3>1. ASSUME NEW u \in Sort!Threads \ {t} PROVE StackFits(s_stack'[u], own2[u], more, n)
      <4>1. StackFits(s_stack[u], own[u], arg, Len(s_future))
        BY <2>4 DEF StacksFit
      <4>2. StackFits(s_stack[u], own[u], more, n)
        BY <2>7, <4>1, FitsMore
      <4>3. QED
        BY <1>8, <2>8, <4>2
    <3>2. StackFits(s_stack'[t], own2[t], more, n)
      <4>1. StackFits(s, own[t], arg, Len(s_future))
        BY <2>4 DEF StacksFit
      <4>2. s[Len(s)].at = "sort" /\ s[Len(s)].list = list
        BY <1>2, <1>4 DEF list
      <4> DEFINE m == Len(s_future)
      <4>3. /\ StackFits(s, own[t], arg, m) /\ Extends(arg, m, more, m + 1)
            /\ more[m + 1] = Low(list)
            /\ Split(s, s_stack'[t], m + 1, Point(list), High(list))
        BY <1>2, <2>6, <2>7, <4>1
      <4> HIDE DEF m, s, n
      <4>4. StackFits(s_stack'[t], Append(own[t], High(list)), more, m + 1)
        BY <1>2, <1>4, <1>5, <4>2, <4>3, FitsSplit
      <4>5. QED
        BY <2>8, <4>4 DEF m, n
    <3>3. QED
      BY <3>1, <3>2 DEF StacksFit
  <2>10. Bases(s_stack', own2, s_input')
    <3>1. ASSUME NEW u \in Sort!Threads, s_stack'[u] # <<>>
          PROVE  IF u \in Callers
                 THEN s_stack'[u][1].task = NoPart /\ own2[u][1] = s_input'[u]
                 ELSE s_stack'[u][1].task # NoPart
      <4>1. CASE u # t
        BY <1>2, <1>8, <2>4, <2>8, <3>1, <4>1 DEF Bases
      <4>2. CASE u = t
        <5>1. s_stack'[t][1].task = s[1].task
          <6>1. CASE N = 1
            BY <1>9, <6>1
          <6>2. CASE N # 1
            <7> HIDE DEF N
            <7>1. 1 \in 1 .. N - 1
              BY <1>4, <6>2
            <7>2. QED
              BY <1>8, <7>1
          <6>3. QED
            BY <6>1, <6>2
        <5>2. own2[t][1] = own[t][1]
          <6>1. own[t] \in Seq(Seq(Nat)) /\ 1 \in 1 .. Len(own[t])
            BY <1>4, <2>4 DEF StacksFit, StackFits
          <6>2. QED
            BY <2>5, <2>8, <6>1, AppendProperties
        <5>3. QED
          BY <1>2, <2>4, <4>2, <5>1, <5>2 DEF Bases
      <4>3. QED
        BY <4>1, <4>2
    <3>2. QED
      BY <3>1 DEF Bases
  <2>11. QueuesFit(Queue', more, n)
    <3>1. /\ \A x \in Queues \ {q} : Queue'[x] = Queue[x]
          /\ Len(Queue'[q]) = Len(Queue[q]) + 1
          /\ Queue'[q][Len(Queue[q]) + 1] = [task |-> n, list |-> Low(list)]
          /\ \A k \in 1 .. Len(Queue[q]) : Queue'[q][k] = Queue[q][k]
          /\ Len(Queue[q]) \in Nat
      BY <1>1, <1>3, LenProperties DEF OnlyAt, Grown
    <3>2. ASSUME NEW x \in Queues, NEW i \in 1 .. Len(Queue[x])
          PROVE  Queue[x][i].task \in 1 .. n /\ Queue[x][i].list = more[Queue[x][i].task]
      BY <2>4, <2>6 DEF QueuesFit
    <3>3. n \in 1 .. n
      BY <1>5
    <3> HIDE DEF n
    <3>4. ASSUME NEW x \in Queues, NEW i \in 1 .. Len(Queue'[x])
          PROVE  Queue'[x][i].task \in 1 .. n /\ Queue'[x][i].list = more[Queue'[x][i].task]
      <4>1. CASE x # q
        BY <3>1, <3>2, <4>1
      <4>2. CASE x = q /\ i \in 1 .. Len(Queue[q])
        BY <3>1, <3>2, <4>2
      <4>3. CASE x = q /\ i = Len(Queue[q]) + 1
        BY <2>6, <3>1, <3>3, <4>3
      <4>4. QED
        BY <3>1, <4>1, <4>2, <4>3
    <3>5. QED
      BY <3>4 DEF QueuesFit
  <2>12. ResultsFit(s_future', more, 1 .. n) /\ ResultsFit(s_sorted', s_input', Callers)
    <3>1. ASSUME NEW i \in 1 .. n
          PROVE  s_future'[i] = Pending \/ SortOf(s_future'[i], more[i])
      <4>1. CASE i = n
        BY <1>6, <4>1
      <4>2. CASE i \in 1 .. Len(s_future)
        BY <1>6, <2>4, <2>6, <4>2 DEF ResultsFit
      <4>3. QED
        BY <1>5, <4>1, <4>2
    <3>2. QED
      BY <1>2, <2>4, <3>1 DEF ResultsFit
  <2>13. Fit(more, own2)'
    <3> HIDE DEF n
    <3>1. QED
      BY <1>6, <2>6, <2>8, <2>9, <2>10, <2>11, <2>12 DEF Fit
  <2>14. QED
    BY <2>13
<1>13. QED
  BY <1>10, <1>11, <1>12 DEF Core

LEMMA TakeKeeps ==
    ASSUME Sort!SortAssumption, SortInv, NEW t \in Sort!Threads, Takes(t), s_look[t] # "no"
    PROVE  Core'
<1> DEFINE s == s_stack[t]
           N == Len(s)
           n == Len(s_future)
<1>1. /\ Sort!TypeOK /\ Waited(s_stack, Open) /\ Placed(Holders, HeldOf(Queue, s_stack), Open)
      /\ Queue \in [Queues -> Seq(Sort!Tasks)]
      /\ s_stack \in [Sort!Threads -> Seq(Sort!Calls)]
  BY SortQueueType DEF SortInv, Core, Sort!TypeOK
<1>2. PICK q \in Queues : \E k \in 1 .. Len(Queue[q]) :
        /\ OnlyAt(q, Queues, Seq(Sort!Tasks), Queue, Queue')
        /\ Without(Queue[q], Queue'[q], k)
        /\ OnlyAt(t, Sort!Threads, Seq(Sort!Calls), s_stack, s_stack')
        /\ Grown(s, s_stack'[t], Sort!Call(Queue[q][k].task, Queue[q][k].list))
  BY DEF Takes
<1>3. PICK k \in 1 .. Len(Queue[q]) :
        /\ OnlyAt(q, Queues, Seq(Sort!Tasks), Queue, Queue')
        /\ Without(Queue[q], Queue'[q], k)
        /\ OnlyAt(t, Sort!Threads, Seq(Sort!Calls), s_stack, s_stack')
        /\ Grown(s, s_stack'[t], Sort!Call(Queue[q][k].task, Queue[q][k].list))
  BY <1>2
<1>4. UNCHANGED <<s_future, s_input, s_sorted>>
  BY DEF Takes
<1>5. s \in Seq(Sort!Calls) /\ N \in Nat /\ Len(s_future) \in Nat
  BY <1>1, LenProperties, FutureFacts
<1>6. Open' = Open
  BY <1>4 DEF Open
<1>7. /\ s_stack' \in [Sort!Threads -> Seq(Sort!Calls)]
      /\ \A u \in Sort!Threads \ {t} : s_stack'[u] = s_stack[u]
      /\ Len(s_stack'[t]) = N + 1
      /\ s_stack'[t][N + 1] = Sort!Call(Queue[q][k].task, Queue[q][k].list)
      /\ \A j \in 1 .. N : s_stack'[t][j] = s[j]
  BY <1>3 DEF OnlyAt, Grown
<1>8. Waited(s_stack', Open')
  <2>1. ASSUME NEW i \in Open
        PROVE  \E u \in Sort!Threads : \E j \in 1 .. Len(s_stack'[u]) :
                 s_stack'[u][j].at = "wait" /\ s_stack'[u][j].lower = i
    <3>1. PICK u \in Sort!Threads : \E j \in 1 .. Len(s_stack[u]) :
               s_stack[u][j].at = "wait" /\ s_stack[u][j].lower = i
      BY <1>1 DEF Waited
    <3>2. PICK j \in 1 .. Len(s_stack[u]) :
               s_stack[u][j].at = "wait" /\ s_stack[u][j].lower = i
      BY <3>1
    <3>3. j \in 1 .. Len(s_stack'[u]) /\ s_stack'[u][j] = s_stack[u][j]
      <4>1. CASE u = t
        <5>1. j \in 1 .. N + 1
          BY <1>5, <3>2, <4>1
        <5>2. QED
          BY <1>7, <3>2, <4>1, <5>1
      <4>2. CASE u # t
        BY <1>7, <3>2, <4>2
      <4>3. QED
        BY <4>1, <4>2
    <3>4. QED
      BY <3>2, <3>3
  <2>2. QED
    BY <1>6, <2>1 DEF Waited
<1>9. Placed(Holders, HeldOf(Queue', s_stack'), Open')
  <2> HIDE DEF N, n
  <2>1. Placed(Holders, HeldOf(Queue', s_stack'), Open)
    BY <1>1, <1>3, PlacesTaken
  <2>2. QED
    BY <1>6, <2>1
<1>10. \E arg, own2 : Fit(arg, own2)'
  <2>1. PICK arg, own : Fit(arg, own)
    BY DEF SortInv, Core
  <2> DEFINE m == Queue[q][k].task
  <2>2. PICK own2 : own2 = [own EXCEPT ![t] = Append(own[t], arg[m])]
    OBVIOUS
  <2>3. /\ arg \in [1 .. n -> Seq(Nat)] /\ own \in [Sort!Threads -> Seq(Seq(Nat))]
        /\ StacksFit(s_stack, own, arg, n)
        /\ Bases(s_stack, own, s_input)
        /\ QueuesFit(Queue, arg, n)
        /\ ResultsFit(s_future, arg, 1 .. n)
        /\ ResultsFit(s_sorted, s_input, Callers)
    BY <2>1 DEF Fit
  <2>4. m \in 1 .. n /\ Queue[q][k].list = arg[m] /\ arg[m] \in Seq(Nat)
    <3>1. m \in 1 .. n /\ Queue[q][k].list = arg[m]
      BY <2>3 DEF QueuesFit
    <3> HIDE DEF m, n
    <3>2. QED
      BY <2>3, <3>1
  <2>5. /\ own2 \in [Sort!Threads -> Seq(Seq(Nat))]
        /\ own2[t] = Append(own[t], arg[m])
        /\ \A u \in Sort!Threads \ {t} : own2[u] = own[u]
    <3>1. Append(own[t], arg[m]) \in Seq(Seq(Nat))
      BY <2>3, <2>4, AppendProperties
    <3>2. QED
      BY <2>2, <2>3, <3>1
  <2>6. StacksFit(s_stack', own2, arg, n)
    <3>1. ASSUME NEW u \in Sort!Threads \ {t} PROVE StackFits(s_stack'[u], own2[u], arg, n)
      BY <1>7, <2>3, <2>5 DEF StacksFit
    <3>2. StackFits(s_stack'[t], own2[t], arg, n)
      <4>1. StackFits(s, own[t], arg, n)
        BY <2>3 DEF StacksFit
      <4>2. s = <<>> \/ s[Len(s)].at = "wait"
        BY DEF SortInv, Order, Sort!Top
      <4>3. Grown(s, s_stack'[t], Sort!Call(m, arg[m]))
        BY <1>3, <2>4
      <4> HIDE DEF s, n, m
      <4>4. StackFits(s_stack'[t], Append(own[t], arg[m]), arg, n)
        BY <1>5, <2>3, <2>4, <4>1, <4>2, <4>3, FitsPushed DEF n
      <4>5. QED
        BY <2>5, <4>4
    <3>3. QED
      BY <3>1, <3>2 DEF StacksFit
  <2>7. Bases(s_stack', own2, s_input')
    <3>1. ASSUME NEW u \in Sort!Threads, s_stack'[u] # <<>>
          PROVE  IF u \in Callers
                 THEN s_stack'[u][1].task = NoPart /\ own2[u][1] = s_input'[u]
                 ELSE s_stack'[u][1].task # NoPart
      <4>1. CASE u # t
        BY <1>4, <1>7, <2>3, <2>5, <3>1, <4>1 DEF Bases
      <4>2. CASE u = t /\ s # <<>>
        <5>1. 1 \in 1 .. N
          BY <1>5, <4>2, EmptySeq
        <5>2. s_stack'[t][1] = s[1]
          BY <1>7, <5>1
        <5>3. own2[t][1] = own[t][1]
          <6>1. own[t] \in Seq(Seq(Nat)) /\ 1 \in 1 .. Len(own[t])
            BY <2>3, <5>1 DEF StacksFit, StackFits
          <6>2. QED
            BY <2>4, <2>5, <6>1, AppendProperties
        <5>4. QED
          BY <1>4, <2>3, <4>2, <5>2, <5>3 DEF Bases
      <4>3. CASE u = t /\ s = <<>>
        <5>1. t \notin Callers
          BY <4>3, ThreadFacts DEF SortInv, Order
        <5>2. N = 0
          BY <4>3
        <5>3. s_stack'[t][1] = Sort!Call(Queue[q][k].task, Queue[q][k].list)
          <6> HIDE DEF N
          <6>1. N + 1 = 1
            BY <5>2
          <6>2. QED
            BY <1>7, <6>1
        <5>4. s_stack'[t][1].task = m
          BY <5>3 DEF Sort!Call
        <5>5. m # NoPart
          <6> HIDE DEF m
          <6>1. m \in Nat
            BY <1>5, <2>4
          <6>2. QED
            BY <6>1 DEF Sort!SortAssumption
        <5>6. QED
          BY <4>3, <5>1, <5>4, <5>5
      <4>4. QED
        BY <4>1, <4>2, <4>3
    <3>2. QED
      BY <3>1 DEF Bases
  <2>8. QueuesFit(Queue', arg, n)
    <3>1. /\ \A x \in Queues \ {q} : Queue'[x] = Queue[x]
          /\ Len(Queue'[q]) = Len(Queue[q]) - 1
          /\ \A i \in 1 .. Len(Queue'[q]) :
               Queue'[q][i] = IF i < k THEN Queue[q][i] ELSE Queue[q][i + 1]
          /\ Len(Queue[q]) \in Nat
      BY <1>1, <1>3, LenProperties DEF OnlyAt, Without
    <3> HIDE DEF n
    <3>2. ASSUME NEW x \in Queues, NEW i \in 1 .. Len(Queue'[x])
          PROVE  Queue'[x][i].task \in 1 .. n /\ Queue'[x][i].list = arg[Queue'[x][i].task]
      <4>1. CASE x # q
        <5>1. Queue'[x] = Queue[x]
          BY <3>1, <4>1
        <5>2. i \in 1 .. Len(Queue[x])
          BY <5>1
        <5>3. Queue[x][i].task \in 1 .. n /\ Queue[x][i].list = arg[Queue[x][i].task]
          BY <2>3, <5>2 DEF QueuesFit
        <5>4. QED
          BY <5>1, <5>3
      <4>2. CASE x = q
        <5>1. i \in 1 .. Len(Queue[q]) /\ i + 1 \in 1 .. Len(Queue[q])
          BY <3>1, <4>2
        <5>2. Queue'[q][i] = Queue[q][i] \/ Queue'[q][i] = Queue[q][i + 1]
          BY <3>1, <4>2
        <5>3. QED
          BY <2>3, <4>2, <5>1, <5>2 DEF QueuesFit
      <4>3. QED
        BY <4>1, <4>2
    <3>3. QED
      BY <3>2 DEF QueuesFit
  <2>9. Fit(arg, own2)'
    BY <1>4, <2>3, <2>5, <2>6, <2>7, <2>8 DEF Fit
  <2>10. QED
    BY <2>9
<1>11. QED
  BY <1>8, <1>9, <1>10 DEF Core

LEMMA ReturnKeeps ==
    ASSUME Sort!SortAssumption, SortInv, NEW t \in Sort!Threads, NEW list, Gives(t, list),
           NEW arg, NEW own, Fit(arg, own), SortOf(list, own[t][Len(s_stack[t])]),
           Sort!Top(t).at = "wait" => s_future[Sort!Top(t).lower] # Pending
    PROVE  Core'
<1> DEFINE s == s_stack[t]
           N == Len(s)
           n == Len(s_future)
           part == s[N].task
<1>1. /\ Sort!TypeOK /\ Waited(s_stack, Open) /\ Placed(Holders, HeldOf(Queue, s_stack), Open)
      /\ Queue \in [Queues -> Seq(Sort!Tasks)]
      /\ s_stack \in [Sort!Threads -> Seq(Sort!Calls)]
  BY SortQueueType DEF SortInv, Core, Sort!TypeOK
<1>2. /\ s # <<>>
      /\ OnlyAt(t, Sort!Threads, Seq(Sort!Calls), s_stack, s_stack')
      /\ Done(s, s_stack'[t], list)
      /\ Queue' = Queue /\ s_input' = s_input
  BY DEF Gives
<1>3. /\ s \in Seq(Sort!Calls) /\ N \in Nat \ {0} /\ N \in 1 .. N /\ Sort!Top(t) = s[N]
      /\ \A k \in 1 .. N : s[k] \in Sort!Calls
  BY <1>1, <1>2, SortTopFacts
<1>4. /\ arg \in [1 .. n -> Seq(Nat)] /\ own \in [Sort!Threads -> Seq(Seq(Nat))]
      /\ StacksFit(s_stack, own, arg, n)
      /\ Bases(s_stack, own, s_input)
      /\ QueuesFit(Queue, arg, n)
      /\ ResultsFit(s_future, arg, 1 .. n)
      /\ ResultsFit(s_sorted, s_input, Callers)
  BY DEF Fit
<1>5. /\ s_future' = IF part # NoPart THEN [s_future EXCEPT ![part] = list] ELSE s_future
      /\ s_sorted' = IF part # NoPart \/ N > 1
                     THEN s_sorted ELSE [s_sorted EXCEPT ![t] = list]
  BY <1>3 DEF Gives
<1>6. /\ s_stack' \in [Sort!Threads -> Seq(Sort!Calls)]
      /\ \A u \in Sort!Threads \ {t} : s_stack'[u] = s_stack[u]
      /\ Len(s_stack'[t]) = N - 1
      /\ \A k \in 1 .. N - 1 : /\ s_stack'[t][k].task = s[k].task
                               /\ s_stack'[t][k].at = s[k].at
                               /\ s_stack'[t][k].lower = s[k].lower
  <2>1. /\ s_stack' \in [Sort!Threads -> Seq(Sort!Calls)]
        /\ \A u \in Sort!Threads \ {t} : s_stack'[u] = s_stack[u]
        /\ Len(s_stack'[t]) = N - 1
        /\ \A k \in 1 .. N - 1 :
             s_stack'[t][k] = IF k = N - 1 /\ part = NoPart
                              THEN [s[k] EXCEPT !.higher = list] ELSE s[k]
    BY <1>2 DEF OnlyAt, Done
  <2>2. ASSUME NEW k \in 1 .. N - 1
        PROVE  /\ s_stack'[t][k].task = s[k].task
               /\ s_stack'[t][k].at = s[k].at
               /\ s_stack'[t][k].lower = s[k].lower
    <3>1. s[k] \in Sort!Calls
      BY <1>3
    <3>2. QED
      BY <2>1, <3>1 DEF Sort!Calls
  <2>3. QED
    BY <2>1, <2>2
<1>7. Fits(s, own[t], N, arg, n) /\ own[t] \in Seq(Seq(Nat)) /\ Len(own[t]) = N
  BY <1>3, <1>4 DEF StacksFit, StackFits
<1>8. part # NoPart => part \in 1 .. n /\ own[t][N] = arg[part]
  BY <1>7 DEF Fits
<1>9. list \in Seq(Nat) /\ list # Pending
  BY DEF SortOf, Sort!SortAssumption
<1>10. /\ Len(s_future') = n
       /\ \A i \in 1 .. n : s_future'[i] = IF i = part THEN list ELSE s_future[i]
  <2>1. s_future \in Seq(Seq(Nat) \cup {Pending}) /\ list \in Seq(Nat) \cup {Pending}
    BY <1>1, <1>9 DEF Sort!TypeOK
  <2>2. CASE part # NoPart
    <3> HIDE DEF part, n, N, s
    <3>1. part \in 1 .. Len(s_future)
      BY <1>8, <2>2 DEF n
    <3>2. QED
      BY <1>5, <2>1, <2>2, <3>1, ExceptSeq DEF n
  <2>3. CASE part = NoPart
    <3>1. \A i \in 1 .. n : i # part
      <4>1. n \in Nat
        BY <1>1, FutureFacts
      <4>2. QED
        BY <2>3, <4>1 DEF Sort!SortAssumption
    <3>2. QED
      BY <1>5, <2>3, <3>1
  <2>4. QED
    BY <2>2, <2>3
<1>11. Open' = Open \ {part}
  <2> HIDE DEF part
  <2>1. QED
    BY <1>9, <1>10 DEF Open
<1>12. Waited(s_stack', Open')
  <2>1. ASSUME NEW i \in Open
        PROVE  \E u \in Sort!Threads : \E j \in 1 .. Len(s_stack'[u]) :
                 s_stack'[u][j].at = "wait" /\ s_stack'[u][j].lower = i
    <3>1. PICK u \in Sort!Threads : \E j \in 1 .. Len(s_stack[u]) :
               s_stack[u][j].at = "wait" /\ s_stack[u][j].lower = i
      BY <1>1 DEF Waited
    <3>2. PICK j \in 1 .. Len(s_stack[u]) :
               s_stack[u][j].at = "wait" /\ s_stack[u][j].lower = i
      BY <3>1
    <3>3. CASE u = t
      <4>1. j # N
        BY <1>3, <3>2, <3>3 DEF Open
      <4>2. j \in 1 .. N /\ N \in Nat
        BY <1>3, <3>3
      <4> HIDE DEF N
      <4>3. j \in 1 .. N - 1
        BY <4>1, <4>2
      <4>4. QED
        BY <1>6, <3>2, <3>3, <4>3
    <3>4. CASE u # t
      BY <1>6, <3>2, <3>4
    <3>5. QED
      BY <3>3, <3>4
  <2>2. QED
    BY <1>11, <2>1 DEF Waited
<1>13. Placed(Holders, HeldOf(Queue', s_stack'), Open')
  <2>1. Open \subseteq Nat
    BY <1>1, FutureFacts
  <2>2. Placed(Holders, HeldOf(Queue, s_stack'), Open \ {s_stack[t][Len(s_stack[t])].task})
    BY <1>1, <1>2, <2>1, PlacesReturned
  <2>3. QED
    BY <1>2, <1>11, <2>2
<1>14. \E own2 : Fit(arg, own2)'
  <2> DEFINE front == SubSeq(own[t], 1, Len(own[t]) - 1)
  <2>1. PICK own2 : own2 = [own EXCEPT ![t] = front]
    OBVIOUS
  <2>2. front \in Seq(Seq(Nat)) /\ Cut(own[t], front)
    <3>1. own[t] # <<>>
      BY <1>3, <1>7
    <3>2. QED
      BY <1>7, <3>1, FrontCuts
  <2>3. /\ own2 \in [Sort!Threads -> Seq(Seq(Nat))] /\ own2[t] = front
        /\ \A u \in Sort!Threads \ {t} : own2[u] = own[u]
    <3> HIDE DEF front
    <3>1. QED
      BY <1>4, <2>1, <2>2
  <2>4. StacksFit(s_stack', own2, arg, n)
    <3>1. ASSUME NEW u \in Sort!Threads \ {t} PROVE StackFits(s_stack'[u], own2[u], arg, n)
      BY <1>4, <1>6, <2>3 DEF StacksFit
    <3>2. StackFits(s_stack'[t], own2[t], arg, n)
      <4>1. StackFits(s, own[t], arg, n)
        BY <1>4 DEF StacksFit
      <4> HIDE DEF s, n
      <4>2. StackFits(s_stack'[t], front, arg, n)
        BY <1>2, <1>3, <4>1, FitsDone DEF s
      <4>3. QED
        BY <2>3, <4>2
    <3>3. QED
      BY <3>1, <3>2 DEF StacksFit
  <2>5. Bases(s_stack', own2, s_input')
    <3>1. ASSUME NEW u \in Sort!Threads, s_stack'[u] # <<>>
          PROVE  IF u \in Callers
                 THEN s_stack'[u][1].task = NoPart /\ own2[u][1] = s_input'[u]
                 ELSE s_stack'[u][1].task # NoPart
      <4>1. CASE u # t
        BY <1>2, <1>4, <1>6, <2>3, <3>1, <4>1 DEF Bases
      <4>2. CASE u = t
        <5>1. 1 \in 1 .. N - 1
          <6>1. s_stack'[t] \in Seq(Sort!Calls)
            BY <1>6
          <6>2. Len(s_stack'[t]) \in Nat \ {0}
            BY <3>1, <4>2, <6>1, EmptySeq
          <6>3. N \in Nat /\ Len(s_stack'[t]) = N - 1
            BY <1>3, <1>6
          <6> HIDE DEF N
          <6>4. QED
            BY <6>2, <6>3
        <5>2. s_stack'[t][1].task = s[1].task
          BY <1>6, <5>1
        <5>3. own2[t][1] = own[t][1]
          BY <1>7, <2>2, <2>3, <5>1 DEF Cut
        <5>4. QED
          BY <1>2, <1>4, <4>2, <5>2, <5>3 DEF Bases
      <4>3. QED
        BY <4>1, <4>2
    <3>2. QED
      BY <3>1 DEF Bases
  <2>6. QueuesFit(Queue', arg, n)
    BY <1>2, <1>4
  <2>7. ResultsFit(s_future', arg, 1 .. n)
    <3>1. ASSUME NEW i \in 1 .. n PROVE s_future'[i] = Pending \/ SortOf(s_future'[i], arg[i])
      <4>1. CASE i = part
        <5>1. part # NoPart
          BY <1>1, <4>1, FutureFacts DEF Sort!SortAssumption
        <5>2. SortOf(list, arg[part])
          BY <1>8, <5>1
        <5>3. s_future'[i] = list /\ arg[i] = arg[part]
          BY <1>10, <4>1
        <5>4. QED
          BY <5>2, <5>3
      <4>2. CASE i # part
        BY <1>4, <1>10, <4>2 DEF ResultsFit
      <4>3. QED
        BY <4>1, <4>2
    <3>2. QED
      BY <3>1 DEF ResultsFit
  <2>8. ResultsFit(s_sorted', s_input', Callers)
    <3>1. CASE part # NoPart \/ N > 1
      BY <1>2, <1>4, <1>5, <3>1
    <3>2. CASE part = NoPart /\ ~(N > 1)
      <4>1. N = 1
        <5>1. N \in Nat /\ N # 0 /\ ~(N > 1)
          BY <1>3, <3>2
        <5> HIDE DEF N
        <5>2. QED
          BY <5>1
      <4>2. t \in Callers /\ own[t][1] = s_input[t]
        BY <1>2, <1>4, <3>2, <4>1 DEF Bases
      <4>3. SortOf(list, s_input[t])
        BY <4>1, <4>2
      <4>4. /\ s_sorted \in [Callers -> Seq(Nat) \cup {Pending}]
            /\ s_sorted' = [s_sorted EXCEPT ![t] = list]
        BY <1>1, <1>5, <3>2 DEF Sort!TypeOK
      <4>5. QED
        BY <1>2, <1>4, <4>2, <4>3, <4>4 DEF ResultsFit
    <3>3. QED
      BY <3>1, <3>2
  <2>9. Fit(arg, own2)'
    BY <1>4, <1>10, <2>3, <2>4, <2>5, <2>6, <2>7, <2>8 DEF Fit
  <2>10. QED
    BY <2>9
<1>15. QED
  BY <1>12, <1>13, <1>14 DEF Core

LEMMA StartKeeps ==
    ASSUME Sort!SortAssumption, SortInv, NEW t \in Callers,
           NEW list \in Lists, Sort!DoSort(t, list)
    PROVE  Core' /\ Sort!TypeOK'
<1> DEFINE n == Len(s_future)
           new == <<Sort!Call(NoPart, list)>>
<1>1. /\ Sort!TypeOK /\ Order /\ Waited(s_stack, Open)
      /\ Placed(Holders, HeldOf(Queue, s_stack), Open)
      /\ Queue \in [Queues -> Seq(Sort!Tasks)]
      /\ s_stack \in [Sort!Threads -> Seq(Sort!Calls)]
  BY SortQueueType DEF SortInv, Core, Sort!TypeOK
<1>2. /\ s_input[t] = Pending /\ s_input' = [s_input EXCEPT ![t] = list]
      /\ s_stack' = [s_stack EXCEPT ![t] = new]
      /\ Queue' = Queue
      /\ UNCHANGED <<Sort!life, Sort!statics, Sort!tasks, s_worker, Sort!search,
                     s_future, s_sorted>>
  BY DEF Sort!DoSort, Queue, Queues, Sort!tasks
<1>3. t \in Sort!Threads /\ s_stack[t] = <<>> /\ s_sorted[t] = Pending
  BY <1>1, <1>2, ThreadFacts DEF Order
<1>4. list \in Seq(Nat)
  BY DEF Sort!SortAssumption
<1>5. Sort!Call(NoPart, list) \in Sort!Calls
  BY <1>4 DEF Sort!Call, Sort!Calls
<1>6. /\ new \in Seq(Sort!Calls) /\ Len(new) = 1 /\ new[1] = Sort!Call(NoPart, list)
      /\ Len(s_stack[t]) = 0
  <2> DEFINE call == Sort!Call(NoPart, list)
  <2>1. call \in Sort!Calls
    BY <1>5
  <2> HIDE DEF call
  <2>2. <<call>> \in Seq(Sort!Calls) /\ Len(<<call>>) = 1 /\ <<call>>[1] = call
    BY <2>1
  <2>3. QED
    BY <1>3, <2>2 DEF call
<1> HIDE DEF new
<1>7. /\ s_stack' \in [Sort!Threads -> Seq(Sort!Calls)] /\ s_stack'[t] = new
      /\ \A u \in Sort!Threads \ {t} : s_stack'[u] = s_stack[u]
  BY <1>1, <1>2, <1>3, <1>6
<1>8. Sort!TypeOK'
  BY <1>1, <1>2, <1>4, <1>7 DEF Sort!TypeOK, Sort!life, Sort!statics, Sort!tasks, Sort!search
<1>9. Open' = Open /\ s_future' = s_future /\ s_sorted' = s_sorted
  BY <1>2 DEF Open
<1>10. Waited(s_stack', Open')
  <2>1. ASSUME NEW i \in Open
        PROVE  \E u \in Sort!Threads : \E j \in 1 .. Len(s_stack'[u]) :
                 s_stack'[u][j].at = "wait" /\ s_stack'[u][j].lower = i
    <3>1. PICK u \in Sort!Threads : \E j \in 1 .. Len(s_stack[u]) :
               s_stack[u][j].at = "wait" /\ s_stack[u][j].lower = i
      BY <1>1 DEF Waited
    <3>2. u # t
      BY <1>6, <3>1
    <3>3. QED
      BY <1>7, <3>1, <3>2
  <2>2. QED
    BY <1>9, <2>1 DEF Waited
<1>11. Placed(Holders, HeldOf(Queue', s_stack'), Open')
  <2> DEFINE a == HeldOf(Queue, s_stack)
             c == HeldOf(Queue, s_stack')
             ht == <<"stack", t>>
  <2>1. OnlyAt(t, Sort!Threads, Seq(Sort!Calls), s_stack, s_stack')
    BY <1>7 DEF OnlyAt
  <2>2. SameBut(Holders, a, c, ht)
    BY <1>1, <1>3, <2>1, HeldStack
  <2>3. a[ht] = Ids(s_stack[t]) /\ c[ht] = Ids(new) /\ ht \in Holders
    <3>1. a[ht] = Ids(s_stack[t]) /\ ht \in Holders
      BY <1>1, <1>3, HeldFacts
    <3>2. c[ht] = Ids(s_stack'[t])
      BY <1>1, <1>3, <1>7, HeldFacts
    <3>3. QED
      BY <1>7, <3>1, <3>2
  <2>4. Grown(s_stack[t], new, Sort!Call(NoPart, list))
    <3>1. Len(s_stack[t]) + 1 = 1 /\ 1 .. Len(s_stack[t]) = {}
      BY <1>6
    <3>2. QED
      BY <1>6, <3>1 DEF Grown
  <2>5. Grown(Ids(s_stack[t]), Ids(new), NoPart)
    <3> DEFINE f == Sort!Call(NoPart, list)
               T == Sort!Calls
    <3>1. f.task = NoPart /\ Grown(s_stack[t], new, f) /\ (T = Sort!Tasks \/ T = Sort!Calls)
          /\ s_stack[t] \in Seq(T) /\ new \in Seq(T)
      BY <1>1, <1>3, <1>6, <2>4 DEF Sort!Call
    <3> HIDE DEF f, T
    <3>2. Grown(Ids(s_stack[t]), Ids(new), f.task)
      BY <3>1, IdsGrown
    <3>3. QED
      BY <3>1, <3>2
  <2> HIDE DEF a, c, ht
  <2>6. Placed(Holders, a, Open) /\ Grown(a[ht], c[ht], NoPart)
    BY <1>1, <2>3, <2>5 DEF a
  <2>7. NoPart \notin Open /\ NoPart \in Nat \cup {NoPart}
        /\ Open = IF NoPart = NoPart THEN Open ELSE Open \cup {NoPart}
    BY <1>1, FutureFacts DEF Sort!SortAssumption
  <2>8. Placed(Holders, c, Open)
    BY <2>2, <2>3, <2>6, <2>7, PlacesAdd
  <2>9. QED
    BY <1>2, <1>9, <2>8 DEF c
<1>12. \E arg, own2 : Fit(arg, own2)'
  <2>1. PICK arg, own : Fit(arg, own)
    BY DEF SortInv, Core
  <2>2. PICK own2 : own2 = [own EXCEPT ![t] = <<list>>]
    OBVIOUS
  <2>3. /\ arg \in [1 .. n -> Seq(Nat)] /\ own \in [Sort!Threads -> Seq(Seq(Nat))]
        /\ StacksFit(s_stack, own, arg, n)
        /\ Bases(s_stack, own, s_input)
        /\ QueuesFit(Queue, arg, n)
        /\ ResultsFit(s_future, arg, 1 .. n)
        /\ ResultsFit(s_sorted, s_input, Callers)
    BY <2>1 DEF Fit
  <2>4. StackFits(new, <<list>>, arg, n) /\ <<list>> \in Seq(Seq(Nat)) /\ <<list>>[1] = list
    <3>1. StackFits(new, <<list>>, arg, n)
      BY <1>3, <1>4, FitsStarted DEF new
    <3>2. QED
      BY <1>4, <3>1
  <2>5. /\ own2 \in [Sort!Threads -> Seq(Seq(Nat))] /\ own2[t] = <<list>>
        /\ \A u \in Sort!Threads \ {t} : own2[u] = own[u]
    BY <1>3, <2>2, <2>3, <2>4
  <2>6. StacksFit(s_stack', own2, arg, n)
    <3>1. ASSUME NEW u \in Sort!Threads PROVE StackFits(s_stack'[u], own2[u], arg, n)
      <4>1. CASE u = t
        BY <1>7, <2>4, <2>5, <4>1
      <4>2. CASE u # t
        BY <1>7, <2>3, <2>5, <4>2 DEF StacksFit
      <4>3. QED
        BY <4>1, <4>2
    <3>2. QED
      BY <3>1 DEF StacksFit
  <2>7. s_input' \in [Callers -> Seq(Nat) \cup {Pending}] /\ s_input'[t] = list
        /\ \A u \in Callers \ {t} : s_input'[u] = s_input[u]
    BY <1>1, <1>2, <1>4 DEF Sort!TypeOK
  <2>8. Bases(s_stack', own2, s_input')
    <3>1. ASSUME NEW u \in Sort!Threads, s_stack'[u] # <<>>
          PROVE  IF u \in Callers
                 THEN s_stack'[u][1].task = NoPart /\ own2[u][1] = s_input'[u]
                 ELSE s_stack'[u][1].task # NoPart
      <4>1. CASE u # t
        BY <1>7, <2>3, <2>5, <2>7, <3>1, <4>1 DEF Bases
      <4>2. CASE u = t
        <5>1. s_stack'[t][1].task = NoPart
          BY <1>6, <1>7 DEF Sort!Call
        <5>2. QED
          BY <2>4, <2>5, <2>7, <4>2, <5>1
      <4>3. QED
        BY <4>1, <4>2
    <3>2. QED
      BY <3>1 DEF Bases
  <2>9. ResultsFit(s_sorted', s_input', Callers)
    <3>1. ASSUME NEW u \in Callers
          PROVE  s_sorted'[u] = Pending \/ SortOf(s_sorted'[u], s_input'[u])
      <4>1. CASE u = t
        BY <1>3, <1>9, <4>1
      <4>2. CASE u # t
        BY <1>9, <2>3, <2>7, <4>2 DEF ResultsFit
      <4>3. QED
        BY <4>1, <4>2
    <3>2. QED
      BY <3>1 DEF ResultsFit
  <2>10. Fit(arg, own2)'
    BY <1>2, <1>9, <2>3, <2>5, <2>6, <2>8, <2>9 DEF Fit
  <2>11. QED
    BY <2>10
<1>13. QED
  BY <1>8, <1>10, <1>11, <1>12 DEF Core

LEMMA SortStayKeeps ==
    ASSUME SortInv, Queue' = Queue, UNCHANGED <<s_stack, s_future, s_input, s_sorted>>
    PROVE  Core'
<1>1. /\ Waited(s_stack, Open) /\ Placed(Holders, HeldOf(Queue, s_stack), Open)
      /\ \E arg, own : Fit(arg, own)
  BY DEF SortInv, Core
<1>2. Open' = Open
  BY DEF Open
<1>3. PICK arg, own : Fit(arg, own)
  BY <1>1
<1>4. Fit(arg, own)'
  BY <1>3 DEF Fit
<1>5. Waited(s_stack', Open') /\ Placed(Holders, HeldOf(Queue', s_stack'), Open')
  BY <1>1, <1>2
<1>6. QED
  BY <1>4, <1>5 DEF Core

-------------------------------------------------------------------------------
\* The type invariant and Order.
LEMMA QueuesTyped ==
    ASSUME Sort!SortAssumption, Queue' \in [Queues -> Seq(Sort!Tasks)],
           s_queues' = [w \in Sort!Workers |-> s_queues'[w]]
    PROVE  s_pool' \in Seq(Sort!Tasks) /\ s_queues' \in [Sort!Workers -> Seq(Sort!Tasks)]
<1>1. /\ \A q \in Queues : Queue'[q] = IF q = NoQueue THEN s_pool' ELSE s_queues'[q]
      /\ \A q \in Queues : Queue'[q] \in Seq(Sort!Tasks)
      /\ NoQueue \in Queues /\ \A w \in Sort!Workers : w \in Queues
  BY DEF Queue, Queues
<1>2. \A w \in Sort!Workers : w # NoQueue
  BY ThreadFacts
<1>3. \A w \in Sort!Workers : s_queues'[w] \in Seq(Sort!Tasks)
  BY <1>1, <1>2
<1>4. QED
  BY <1>1, <1>3

\* A step of a thread that may run.
LEMMA OrderStep ==
    ASSUME Sort!SortAssumption, Sort!TypeOK, Order, NEW t \in Sort!Threads, s_built >= 1,
           t \in Callers => s_input[t] # Pending,
           UNCHANGED <<s_built, s_worker, s_input>>,
           OnlyAt(t, Sort!Threads, Seq(Sort!Calls), s_stack, s_stack'),
           OnlyAt(t, Sort!Threads, {"no", "local", "pool", "steal"}, s_look, s_look'),
           \A u \in Callers \ {t} : s_sorted'[u] = s_sorted[u],
           s_look'[t] # "no" => \/ t \in Sort!Workers /\ s_stack'[t] = <<>>
                                \/ s_stack'[t] # <<>> /\ Sort!Top(t)'.at = "wait"
    PROVE  Order'
<1>1. ASSUME NEW u \in Sort!Threads, s_look'[u] # "no"
      PROVE  \/ u \in Sort!Workers /\ s_stack'[u] = <<>>
             \/ s_stack'[u] # <<>> /\ Sort!Top(u)'.at = "wait"
  <2>1. CASE u = t
    BY <1>1, <2>1
  <2>2. CASE u # t
    <3>1. s_look'[u] = s_look[u] /\ s_stack'[u] = s_stack[u]
      BY <2>2 DEF OnlyAt
    <3>2. Sort!Top(u)' = Sort!Top(u)
      BY <3>1 DEF Sort!Top
    <3>3. QED
      BY <1>1, <3>1, <3>2 DEF Order
  <2>3. QED
    BY <2>1, <2>2
<1>2. ASSUME NEW u \in Callers, s_input'[u] = Pending
      PROVE  s_stack'[u] = <<>> /\ s_look'[u] = "no" /\ s_sorted'[u] = Pending
  <2>1. u # t /\ s_input[u] = Pending /\ u \in Sort!Threads
    BY <1>2, ThreadFacts
  <2>2. s_stack'[u] = s_stack[u] /\ s_look'[u] = s_look[u] /\ s_sorted'[u] = s_sorted[u]
    BY <2>1 DEF OnlyAt
  <2>3. QED
    BY <2>1, <2>2 DEF Order
<1>3. QED
  BY <1>1, <1>2 DEF Order

\* A thread with a call, or in a search, may run.
LEMMA MayRun ==
    ASSUME Sort!SortAssumption, Sort!TypeOK, Order,
           NEW t \in Sort!Threads, s_stack[t] # <<>> \/ s_look[t] # "no"
    PROVE  s_built >= 1 /\ (t \in Callers => s_input[t] # Pending)
BY DEF Order

LEMMA LifeKeeps ==
    ASSUME Sort!SortAssumption, SortInv,
           Sort!construct \/ Sort!destroy \/ Sort!Finished
             \/ \E w \in Sort!Workers : Sort!Start(w)
    PROVE  SortInv'
<1>1. Sort!TypeOK /\ Order
  BY DEF SortInv
<1>2. UNCHANGED <<Sort!tasks, s_stack, s_look, s_tried, s_future, s_input, s_sorted>>
  BY DEF Sort!construct, Sort!destroy, Sort!Finished, Sort!Start, Sort!setIndex,
           Sort!setQueue, Sort!leave, Sort!vars,
         Sort!search, Sort!calls, Sort!tasks
<1>3. Queue' = Queue
  BY <1>2 DEF Queue, Queues, Sort!tasks
<1>4. Core'
  BY <1>2, <1>3, SortStayKeeps
<1>5. /\ s_built' \in 0 .. Size /\ s_built' >= s_built /\ s_done' \in BOOLEAN
      /\ s_local' \in Sort!Workers \cup {NoQueue, Dangling}
      /\ s_index' \in Sort!Workers
      /\ s_worker' \in [Sort!Workers -> {"off", "start", "index", "run", "left"}]
      /\ \A w \in Sort!Workers : s_worker'[w] # "off" => s_built' >= 1
  <2>1. CASE Sort!construct
    <3>1. /\ s_built \in 0 .. Size /\ s_built < Size /\ s_built' = s_built + 1 /\ Size \in Nat
          /\ s_worker' = [s_worker EXCEPT ![s_built] = "start"]
          /\ UNCHANGED <<s_done, s_local, s_index>>
      BY <1>1, <2>1, ThreadFacts DEF Sort!construct, Sort!statics, Sort!TypeOK
    <3>2. s_built' \in 0 .. Size /\ s_built' >= s_built /\ s_built' >= 1
      BY <3>1
    <3>3. QED
      BY <1>1, <3>1, <3>2 DEF Sort!TypeOK
  <2>2. CASE Sort!destroy \/ Sort!Finished
    <3>1. /\ s_done' \in BOOLEAN /\ UNCHANGED <<s_built, s_local, s_index, s_worker>>
      BY <1>1, <2>2 DEF Sort!destroy, Sort!Finished, Sort!statics, Sort!vars, Sort!life,
               Sort!TypeOK
    <3>2. s_built \in Nat
      BY <1>1, ThreadFacts DEF Sort!TypeOK
    <3>3. QED
      BY <1>1, <3>1, <3>2 DEF Sort!TypeOK, Order
  <2>3. CASE \E w \in Sort!Workers : Sort!Start(w)
    <3>1. PICK w \in Sort!Workers : Sort!Start(w)
      BY <2>3
    <3>2. /\ UNCHANGED <<s_built, s_done>> /\ s_worker[w] # "off"
          /\ \E s \in {"off", "start", "index", "run", "left"} :
                  s_worker' = [s_worker EXCEPT ![w] = s]
          /\ s_local' \in {s_local, w} /\ s_index' \in {s_index, w}
      BY <3>1 DEF Sort!Start, Sort!setIndex, Sort!setQueue, Sort!leave, Sort!life,
               Sort!statics
    <3>3. s_built \in 0 .. Size /\ s_built >= 1 /\ Size \in Nat
      BY <1>1, <3>2, ThreadFacts DEF Sort!TypeOK, Order
    <3>4. QED
      BY <1>1, <3>2, <3>3 DEF Sort!TypeOK
  <2>4. QED
    BY <2>1, <2>2, <2>3
<1>6. Sort!TypeOK'
  BY <1>1, <1>2, <1>5 DEF Sort!TypeOK, Sort!tasks
<1>7. Order'
  <2>1. /\ s_built \in Nat /\ s_built' \in Nat /\ s_built' >= s_built
        /\ \A t \in Sort!Threads : Sort!Top(t)' = Sort!Top(t)
    BY <1>1, <1>2, <1>5, ThreadFacts DEF Sort!TypeOK, Sort!Top
  <2>2. \A t \in Sort!Threads : s_stack[t] # <<>> \/ s_look[t] # "no" => s_built' >= 1
    BY <1>1, <2>1 DEF Order
  <2>3. QED
    BY <1>1, <1>2, <1>5, <2>1, <2>2 DEF Order
<1>8. QED
  BY <1>4, <1>6, <1>7 DEF SortInv

LEMMA BeginKeeps ==
    ASSUME Sort!SortAssumption, SortInv, NEW t \in Callers,
           NEW list \in Lists, Sort!DoSort(t, list)
    PROVE  SortInv'
<1>1. Core' /\ Sort!TypeOK'
  BY StartKeeps
<1>2. Sort!TypeOK /\ Order
  BY DEF SortInv
<1>3. /\ s_input[t] = Pending /\ s_built = Size
      /\ s_input' = [s_input EXCEPT ![t] = list]
      /\ s_stack' = [s_stack EXCEPT ![t] = <<Sort!Call(NoPart, list)>>]
      /\ UNCHANGED <<s_built, s_worker, s_look, s_sorted>>
  BY DEF Sort!DoSort, Sort!life, Sort!search
<1>4. /\ t \in Sort!Threads /\ list # Pending /\ s_built >= 1
      /\ s_look[t] = "no"
  BY <1>2, <1>3, ThreadFacts DEF Order, Sort!SortAssumption
<1>5. /\ \A u \in Sort!Threads \ {t} : s_stack'[u] = s_stack[u] /\ Sort!Top(u)' = Sort!Top(u)
      /\ s_input'[t] = list /\ \A u \in Callers \ {t} : s_input'[u] = s_input[u]
  BY <1>2, <1>3, <1>4 DEF Sort!TypeOK, Sort!Top
<1>6. ASSUME NEW u \in Sort!Threads, s_look'[u] # "no"
      PROVE  \/ u \in Sort!Workers /\ s_stack'[u] = <<>>
             \/ s_stack'[u] # <<>> /\ Sort!Top(u)'.at = "wait"
  <2>1. u # t /\ s_look[u] # "no"
    BY <1>3, <1>4, <1>6
  <2>2. QED
    BY <1>2, <1>5, <2>1 DEF Order
<1>7. ASSUME NEW u \in Callers, s_input'[u] = Pending
      PROVE  s_stack'[u] = <<>> /\ s_look'[u] = "no" /\ s_sorted'[u] = Pending
  <2>1. u # t /\ s_input[u] = Pending /\ u \in Sort!Threads
    BY <1>4, <1>5, <1>7, ThreadFacts
  <2>2. QED
    BY <1>2, <1>3, <1>5, <2>1 DEF Order
<1>8. Order'
  BY <1>3, <1>4, <1>6, <1>7 DEF Order
<1>9. QED
  BY <1>1, <1>8 DEF SortInv

\* Looking for a task.
LEMMA LookKeeps ==
    ASSUME Sort!SortAssumption, SortInv, NEW t \in Sort!Threads, Sort!RunPendingTasks(t)
    PROVE  SortInv'
<1>1. Sort!TypeOK /\ Order
  BY DEF SortInv
<1>2. /\ s_look[t] = "no" /\ Sort!Idles(t)
      /\ s_look' = [s_look EXCEPT ![t] = "local"] /\ s_tried' = [s_tried EXCEPT ![t] = 0]
      /\ UNCHANGED <<s_built, s_done, s_local, s_index, s_pool, s_queues,
                     s_worker, s_stack, s_future, s_input, s_sorted>>
  BY DEF Sort!RunPendingTasks, Sort!Search, Sort!life, Sort!statics, Sort!tasks, Sort!calls
<1>3. Queue' = Queue
  BY <1>2 DEF Queue, Queues
<1>4. Core'
  BY <1>2, <1>3, SortStayKeeps
<1>5. /\ OnlyAt(t, Sort!Threads, {"no", "local", "pool", "steal"}, s_look, s_look')
      /\ OnlyAt(t, Sort!Threads, Seq(Sort!Calls), s_stack, s_stack')
      /\ s_tried' \in [Sort!Threads -> Nat]
  BY <1>1, <1>2 DEF Sort!TypeOK, OnlyAt
<1>6. Sort!TypeOK'
  BY <1>1, <1>2, <1>5 DEF Sort!TypeOK, OnlyAt
<1>7. \/ t \in Sort!Workers /\ s_worker[t] = "run" /\ s_stack[t] = <<>>
      \/ s_stack[t] # <<>> /\ Sort!Top(t).at = "wait"
  BY <1>2 DEF Sort!Idles, Sort!In
<1>8. s_built >= 1 /\ (t \in Callers => s_input[t] # Pending)
  <2>1. CASE t \in Sort!Workers /\ s_worker[t] = "run"
    BY <1>1, <2>1, ThreadFacts DEF Order
  <2>2. CASE s_stack[t] # <<>>
    BY <1>1, <2>2, MayRun
  <2>3. QED
    BY <1>7, <2>1, <2>2
<1>9. Sort!Top(t)' = Sort!Top(t)
  BY <1>2 DEF Sort!Top
<1>10. Order'
  BY <1>1, <1>2, <1>5, <1>7, <1>8, <1>9, OrderStep
<1>11. QED
  BY <1>4, <1>6, <1>10 DEF SortInv

LEMMA PopKeeps ==
    ASSUME Sort!SortAssumption, SortInv, NEW t \in Sort!Threads,
           Sort!popLocal(t) \/ Sort!popPool(t) \/ Sort!steal(t)
    PROVE  SortInv'
<1>1. Sort!TypeOK /\ Order
  BY DEF SortInv
<1>2. s_look[t] # "no"
  BY DEF Sort!popLocal, Sort!popPool, Sort!steal
<1>3. s_built >= 1 /\ (t \in Callers => s_input[t] # Pending)
  BY <1>1, <1>2, MayRun
<1>4. Takes(t) \/ Misses(t)
  BY <1>1, <1>3, LocalDoes, PoolDoes, StealDoes
<1>5. UNCHANGED <<s_built, s_done, s_local, s_index, s_worker, s_future, s_input, s_sorted>>
  BY DEF Sort!popLocal, Sort!popPool, Sort!steal, Sort!life, Sort!statics, Sort!calls
<1>6. s_queues' = [w \in Sort!Workers |-> s_queues'[w]]
  <2>1. \/ UNCHANGED s_queues
        \/ \E q, new : s_queues' = [s_queues EXCEPT ![q] = new]
    BY DEF Sort!popLocal, Sort!popPool, Sort!steal
  <2>2. QED
    BY <1>1, <2>1 DEF Sort!TypeOK
<1>7. Core'
  <2>1. CASE Takes(t)
    BY <1>2, <2>1, TakeKeeps
  <2>2. CASE Misses(t)
    BY <2>2, SortStayKeeps DEF Misses
  <2>3. QED
    BY <1>4, <2>1, <2>2
<1>8. /\ Queue' \in [Queues -> Seq(Sort!Tasks)]
      /\ OnlyAt(t, Sort!Threads, Seq(Sort!Calls), s_stack, s_stack')
      /\ OnlyAt(t, Sort!Threads, {"no", "local", "pool", "steal"}, s_look, s_look')
      /\ s_tried' \in [Sort!Threads -> Nat]
      /\ s_look'[t] # "no" => \/ t \in Sort!Workers /\ s_stack'[t] = <<>>
                              \/ s_stack'[t] # <<>> /\ Sort!Top(t)'.at = "wait"
  <2>1. CASE Takes(t)
    <3>1. /\ OnlyAt(t, Sort!Threads, Seq(Sort!Calls), s_stack, s_stack')
          /\ s_look' = [s_look EXCEPT ![t] = "no"] /\ s_tried' = [s_tried EXCEPT ![t] = 0]
      BY <2>1 DEF Takes
    <3>2. Queue' \in [Queues -> Seq(Sort!Tasks)]
      BY <2>1 DEF Takes, OnlyAt
    <3>3. /\ OnlyAt(t, Sort!Threads, {"no", "local", "pool", "steal"}, s_look, s_look')
          /\ s_look'[t] = "no" /\ s_tried' \in [Sort!Threads -> Nat]
      BY <1>1, <3>1 DEF Sort!TypeOK, OnlyAt
    <3>4. QED
      BY <3>1, <3>2, <3>3
  <2>2. CASE Misses(t)
    <3>1. /\ Queue' = Queue /\ s_stack' = s_stack
          /\ OnlyAt(t, Sort!Threads, {"no", "local", "pool", "steal"}, s_look, s_look')
          /\ OnlyAt(t, Sort!Threads, Nat, s_tried, s_tried')
      BY <2>2 DEF Misses
    <3>2. Queue' \in [Queues -> Seq(Sort!Tasks)]
      BY <1>1, <3>1, SortQueueType
    <3>3. /\ OnlyAt(t, Sort!Threads, Seq(Sort!Calls), s_stack, s_stack')
          /\ s_tried' \in [Sort!Threads -> Nat]
      BY <1>1, <3>1 DEF Sort!TypeOK, OnlyAt
    <3>4. Sort!Top(t)' = Sort!Top(t)
      BY <3>1 DEF Sort!Top
    <3>5. \/ t \in Sort!Workers /\ s_stack[t] = <<>>
          \/ s_stack[t] # <<>> /\ Sort!Top(t).at = "wait"
      BY <1>1, <1>2 DEF Order
    <3>6. QED
      BY <3>1, <3>2, <3>3, <3>4, <3>5
  <2>3. QED
    BY <1>4, <2>1, <2>2
<1>9. s_pool' \in Seq(Sort!Tasks) /\ s_queues' \in [Sort!Workers -> Seq(Sort!Tasks)]
  BY <1>6, <1>8, QueuesTyped
<1>10. Sort!TypeOK'
  <2>1. /\ s_stack' \in [Sort!Threads -> Seq(Sort!Calls)]
        /\ s_look' \in [Sort!Threads -> {"no", "local", "pool", "steal"}]
    BY <1>8 DEF OnlyAt
  <2>2. QED
    BY <1>1, <1>5, <1>8, <1>9, <2>1 DEF Sort!TypeOK
<1>11. Order'
  BY <1>1, <1>3, <1>5, <1>8, OrderStep
<1>12. QED
  BY <1>7, <1>10, <1>11 DEF SortInv

LEMMA SplitKeeps ==
    ASSUME Sort!SortAssumption, SortInv, NEW t \in Sort!Threads, Sort!divide(t)
    PROVE  SortInv'
<1>1. Sort!TypeOK /\ Order
  BY DEF SortInv
<1>2. Divides(t)
  BY <1>1, DivideDoes
<1>3. Core'
  BY <1>2, DivideKeeps
<1>4. /\ s_stack[t] # <<>> /\ s_look[t] = "no"
      /\ UNCHANGED <<s_built, s_done, s_local, s_index, s_worker, s_look, s_tried,
                     s_input, s_sorted>>
      /\ s_future' = Append(s_future, Pending)
      /\ OnlyAt(t, Sort!Threads, Seq(Sort!Calls), s_stack, s_stack')
  BY <1>2 DEF Sort!divide, Sort!In, Divides, Sort!life, Sort!statics
<1>5. s_built >= 1 /\ (t \in Callers => s_input[t] # Pending)
  BY <1>1, <1>4, MayRun
<1>6. s_queues' = [w \in Sort!Workers |-> s_queues'[w]]
  <2>1. \/ UNCHANGED s_queues
        \/ \E q, new : s_queues' = [s_queues EXCEPT ![q] = new]
    BY DEF Sort!divide, Sort!AddTask
  <2>2. QED
    BY <1>1, <2>1 DEF Sort!TypeOK
<1>7. Queue' \in [Queues -> Seq(Sort!Tasks)]
  BY <1>2 DEF Divides, Queues1, OnlyAt
<1>8. s_pool' \in Seq(Sort!Tasks) /\ s_queues' \in [Sort!Workers -> Seq(Sort!Tasks)]
  BY <1>6, <1>7, QueuesTyped
<1>9. /\ s_stack' \in [Sort!Threads -> Seq(Sort!Calls)]
      /\ s_future' \in Seq(Seq(Nat) \cup {Pending})
  BY <1>1, <1>4 DEF Sort!TypeOK, OnlyAt
<1>10. Sort!TypeOK'
  BY <1>1, <1>4, <1>8, <1>9 DEF Sort!TypeOK
<1>11. /\ OnlyAt(t, Sort!Threads, {"no", "local", "pool", "steal"}, s_look, s_look')
       /\ s_look'[t] = "no"
  BY <1>1, <1>4 DEF Sort!TypeOK, OnlyAt
<1>12. Order'
  BY <1>1, <1>4, <1>5, <1>11, OrderStep
<1>13. QED
  BY <1>3, <1>10, <1>12 DEF SortInv

\* A call that returns returns its list, sorted.
LEMMA GiveKeeps ==
    ASSUME Sort!SortAssumption, SortInv, NEW t \in Sort!Threads, NEW list,
           s_stack[t] # <<>>, s_look[t] = "no", Sort!Return(t, list),
           UNCHANGED <<Sort!life, Sort!statics, Sort!tasks, s_worker, Sort!search, s_input>>,
           NEW arg, NEW own, Fit(arg, own), SortOf(list, own[t][Len(s_stack[t])]),
           Sort!Top(t).at = "wait" => s_future[Sort!Top(t).lower] # Pending
    PROVE  SortInv'
<1>1. Sort!TypeOK /\ Order
  BY DEF SortInv
<1>2. list \in Seq(Nat)
  BY DEF SortOf
<1>3. UNCHANGED <<s_built, s_done, s_local, s_index, Sort!tasks, s_pool, s_queues,
                  s_worker, s_look, s_tried, s_input>>
  BY DEF Sort!life, Sort!statics, Sort!tasks, Sort!search
<1>4. Gives(t, list)
  BY <1>1, <1>2, <1>3, ReturnDoes
<1>5. Core'
  BY <1>4, ReturnKeeps
<1>6. /\ OnlyAt(t, Sort!Threads, Seq(Sort!Calls), s_stack, s_stack')
      /\ s_future' = IF Sort!Top(t).task # NoPart
                     THEN [s_future EXCEPT ![Sort!Top(t).task] = list] ELSE s_future
      /\ s_sorted' = IF Sort!Top(t).task # NoPart \/ Len(s_stack[t]) > 1
                     THEN s_sorted ELSE [s_sorted EXCEPT ![t] = list]
  BY <1>4 DEF Gives
<1>7. /\ s_future \in Seq(Seq(Nat) \cup {Pending})
      /\ s_sorted \in [Callers -> Seq(Nat) \cup {Pending}]
  BY <1>1 DEF Sort!TypeOK
<1>8. s_future' \in Seq(Seq(Nat) \cup {Pending})
  BY <1>2, <1>6, <1>7
<1>9. /\ s_sorted' \in [Callers -> Seq(Nat) \cup {Pending}]
      /\ \A u \in Callers \ {t} : s_sorted'[u] = s_sorted[u]
  BY <1>2, <1>6, <1>7
<1>10. s_stack' \in [Sort!Threads -> Seq(Sort!Calls)]
  BY <1>6 DEF OnlyAt
<1>11. Sort!TypeOK'
  BY <1>1, <1>3, <1>8, <1>9, <1>10 DEF Sort!TypeOK
<1>12. /\ OnlyAt(t, Sort!Threads, {"no", "local", "pool", "steal"}, s_look, s_look')
       /\ s_look'[t] = "no"
  BY <1>1, <1>3 DEF Sort!TypeOK, OnlyAt
<1>13. s_built >= 1 /\ (t \in Callers => s_input[t] # Pending)
  BY <1>1, MayRun
<1>14. Order'
  BY <1>1, <1>3, <1>6, <1>9, <1>12, <1>13, OrderStep
<1>15. QED
  BY <1>5, <1>11, <1>14 DEF SortInv

\* What Fits says of the call on top of a stack.
LEMMA TopFits ==
    ASSUME Sort!SortAssumption, SortInv, NEW t \in Sort!Threads, s_stack[t] # <<>>,
           NEW arg, NEW own, Fit(arg, own)
    PROVE  LET mine == own[t][Len(s_stack[t])]
           IN  /\ mine \in Seq(Nat)
               /\ Sort!Top(t).at = "sort" => Sort!Top(t).list = mine
               /\ Sort!Top(t).at = "wait" =>
                    /\ Len(mine) >= 2 /\ Sort!Top(t).list = <<Point(mine)>>
                    /\ Sort!Top(t).lower \in 1 .. Len(s_future)
                    /\ arg[Sort!Top(t).lower] = Low(mine)
                    /\ SortOf(Sort!Top(t).higher, High(mine))
<1>1. Sort!TypeOK
  BY DEF SortInv
<1>2. /\ Len(s_stack[t]) \in Nat \ {0} /\ Sort!Top(t) = s_stack[t][Len(s_stack[t])]
  BY <1>1, SortTopFacts
<1>3. StackFits(s_stack[t], own[t], arg, Len(s_future))
  BY DEF Fit, StacksFit
<1> DEFINE n == Len(s_stack[t])
<1>4. n \in 1 .. n /\ ~(n < n)
  BY <1>2
<1>5. /\ Fits(s_stack[t], own[t], n, arg, Len(s_future)) /\ own[t] \in Seq(Seq(Nat))
      /\ Len(own[t]) = n
  BY <1>3, <1>4 DEF StackFits
<1>6. own[t][n] \in Seq(Nat)
  BY <1>4, <1>5
<1>7. Sort!Top(t) = s_stack[t][n] /\ n = Len(s_stack[t])
  BY <1>2
<1> HIDE DEF n
<1>8. QED
  BY <1>4, <1>5, <1>6, <1>7 DEF Fits

LEMMA ShortKeeps ==
    ASSUME Sort!SortAssumption, SortInv, NEW t \in Sort!Threads, Sort!short(t)
    PROVE  SortInv'
<1>1. /\ s_stack[t] # <<>> /\ s_look[t] = "no" /\ Sort!Top(t).at = "sort"
      /\ Len(Sort!Top(t).list) < 2
      /\ Sort!Return(t, Sort!Top(t).list)
      /\ UNCHANGED <<Sort!life, Sort!statics, Sort!tasks, s_worker, Sort!search, s_input>>
  BY DEF Sort!short, Sort!In
<1>2. PICK arg, own : Fit(arg, own)
  BY DEF SortInv, Core
<1>3. PICK list : list = Sort!Top(t).list
  OBVIOUS
<1>4. list \in Seq(Nat) /\ list = own[t][Len(s_stack[t])]
  BY <1>1, <1>2, <1>3, TopFits
<1>5. SortOf(list, list)
  BY <1>1, <1>3, <1>4, ShortSorted
<1>6. SortOf(list, own[t][Len(s_stack[t])])
  BY <1>4, <1>5
<1>7. Sort!Return(t, list) /\ Sort!Top(t).at # "wait"
  BY <1>1, <1>3
<1>8. QED
  BY <1>1, <1>2, <1>6, <1>7, GiveKeeps

LEMMA CollectKeeps ==
    ASSUME Sort!SortAssumption, SortInv, NEW t \in Sort!Threads, Sort!collect(t)
    PROVE  SortInv'
<1>1. PICK lower : lower = s_future[Sort!Top(t).lower]
  OBVIOUS
<1>2. /\ s_stack[t] # <<>> /\ s_look[t] = "no" /\ Sort!Top(t).at = "wait" /\ lower # Pending
      /\ UNCHANGED <<Sort!life, Sort!statics, Sort!tasks, s_worker, Sort!search, s_input>>
  BY <1>1 DEF Sort!collect, Sort!Ready, Sort!In
<1>3. Sort!Return(t, lower \o Sort!Top(t).list \o Sort!Top(t).higher)
  BY <1>1, <1>2 DEF Sort!collect
<1>4. PICK arg, own : Fit(arg, own)
  BY DEF SortInv, Core
<1>5. PICK mine : mine = own[t][Len(s_stack[t])]
  OBVIOUS
<1>6. /\ mine \in Seq(Nat)
      /\ Len(mine) >= 2 /\ Sort!Top(t).list = <<Point(mine)>>
      /\ Sort!Top(t).lower \in 1 .. Len(s_future) /\ arg[Sort!Top(t).lower] = Low(mine)
      /\ SortOf(Sort!Top(t).higher, High(mine))
  BY <1>2, <1>4, <1>5, TopFits
<1>7. SortOf(lower, Low(mine))
  <2>1. ResultsFit(s_future, arg, 1 .. Len(s_future))
    BY <1>4 DEF Fit
  <2>2. QED
    BY <1>1, <1>2, <1>6, <2>1 DEF ResultsFit
<1>8. SortOf(lower \o <<Point(mine)>> \o Sort!Top(t).higher, mine)
  BY <1>6, <1>7, MergeSorted
<1>9. PICK list : list = lower \o <<Point(mine)>> \o Sort!Top(t).higher
  OBVIOUS
<1>10. Sort!Return(t, list) /\ SortOf(list, own[t][Len(s_stack[t])])
  BY <1>3, <1>5, <1>6, <1>8, <1>9
<1>11. Sort!Top(t).at = "wait" => s_future[Sort!Top(t).lower] # Pending
  BY <1>1, <1>2
<1>12. QED
  BY <1>2, <1>4, <1>10, <1>11, GiveKeeps

LEMMA SortStep ==
    ASSUME Sort!SortAssumption, SortInv, [Sort!Next]_(Sort!vars)
    PROVE  SortInv'
<1>1. CASE UNCHANGED Sort!vars
  <2>1. Queue' = Queue /\ \A t \in Sort!Threads : Sort!Top(t)' = Sort!Top(t)
    BY <1>1 DEF Sort!vars, Sort!tasks, Queue, Queues, Sort!Top
  <2>2. UNCHANGED <<s_built, s_done, s_local, s_index, s_pool, s_queues,
                    s_worker, s_stack, s_look, s_tried, s_future, s_input, s_sorted>>
    BY <1>1 DEF Sort!vars, Sort!life, Sort!statics, Sort!tasks, Sort!search, Sort!calls
  <2>3. Core'
    BY <2>1, <2>2, SortStayKeeps
  <2>4. Sort!TypeOK'
    BY <2>2 DEF SortInv, Sort!TypeOK
  <2>5. Order'
    BY <2>1, <2>2 DEF SortInv, Order
  <2>6. QED
    BY <2>3, <2>4, <2>5 DEF SortInv
<1>2. CASE Sort!construct \/ Sort!destroy \/ Sort!Finished
             \/ \E w \in Sort!Workers : Sort!Start(w)
  BY <1>2, LifeKeeps
<1>3. ASSUME NEW t \in Callers, NEW list \in Lists, Sort!DoSort(t, list) PROVE SortInv'
  BY <1>3, BeginKeeps
<1>4. ASSUME NEW t \in Sort!Threads, Sort!Step(t) PROVE SortInv'
  BY <1>4, SplitKeeps, ShortKeeps, CollectKeeps, LookKeeps, PopKeeps DEF Sort!Step
<1>5. QED
  BY <1>1, <1>2, <1>3, <1>4 DEF Sort!Next

-------------------------------------------------------------------------------
\* What the invariant says of the tasks, and of the end.
LEMMA CountOnce ==
    ASSUME NEW s, s \in Seq(Sort!Tasks) \/ s \in Seq(Sort!Calls), NEW n,
           NEW i \in 1 .. Len(s),
           s[i].task = n, \A j \in 1 .. Len(s) : s[j].task = n => j = i
    PROVE  Sort!Count(s, n) = 1
<1>1. DOMAIN s = 1 .. Len(s)
  OBVIOUS
<1>2. {j \in DOMAIN s : s[j].task = n} = {i}
  BY <1>1
<1>3. Cardinality({i}) = 1
  BY FS_Singleton
<1>4. QED
  BY <1>2, <1>3, SortUses DEF Sort!Count

LEMMA CountNone ==
    ASSUME NEW s, s \in Seq(Sort!Tasks) \/ s \in Seq(Sort!Calls), NEW n,
           \A j \in 1 .. Len(s) : s[j].task # n
    PROVE  Sort!Count(s, n) = 0
<1>1. DOMAIN s = 1 .. Len(s)
  OBVIOUS
<1>2. {j \in DOMAIN s : s[j].task = n} = {}
  BY <1>1
<1>3. Cardinality({}) = 0
  BY FS_EmptySet
<1>4. QED
  BY <1>2, <1>3, SortUses DEF Sort!Count

\* The tasks of h.
Held(h) == IF h[1] = "queue" THEN Queue[h[2]] ELSE s_stack[h[2]]

LEMMA HeldTasks ==
    ASSUME Sort!SortAssumption, Sort!TypeOK
    PROVE  /\ \A h \in Holders : /\ Held(h) \in Seq(Sort!Tasks) \/ Held(h) \in Seq(Sort!Calls)
                                 /\ HeldOf(Queue, s_stack)[h] = Ids(Held(h))
           /\ \A q \in Queues : <<"queue", q>> \in Holders /\ Held(<<"queue", q>>) = Queue[q]
           /\ \A t \in Sort!Threads :
                   <<"stack", t>> \in Holders /\ Held(<<"stack", t>>) = s_stack[t]
<1>1. Queue \in [Queues -> Seq(Sort!Tasks)] /\ s_stack \in [Sort!Threads -> Seq(Sort!Calls)]
  BY SortQueueType DEF Sort!TypeOK
<1>2. ASSUME NEW h \in Holders
      PROVE  /\ Held(h) \in Seq(Sort!Tasks) \/ Held(h) \in Seq(Sort!Calls)
             /\ HeldOf(Queue, s_stack)[h] = Ids(Held(h))
  <2>1. (h[1] = "queue" /\ h[2] \in Queues) \/ (h[1] = "stack" /\ h[2] \in Sort!Threads)
    BY DEF Holders
  <2>2. CASE h[1] = "queue"
    BY <1>1, <2>1, <2>2 DEF Held, HeldOf
  <2>3. CASE h[1] = "stack"
    BY <1>1, <2>1, <2>3 DEF Held, HeldOf
  <2>4. QED
    BY <2>1, <2>2, <2>3
<1>3. \A q \in Queues : <<"queue", q>> \in Holders /\ Held(<<"queue", q>>) = Queue[q]
  BY DEF Holders, Held
<1>4. \A t \in Sort!Threads : <<"stack", t>> \in Holders /\ Held(<<"stack", t>>) = s_stack[t]
  BY DEF Holders, Held
<1>5. QED
  BY <1>2, <1>3, <1>4

LEMMA HeldOnce ==
    ASSUME Sort!SortAssumption, SortInv, NEW n \in Nat
    PROVE  IF n \in Open
           THEN \E p \in Holders :
                  \A h \in Holders : Sort!Count(Held(h), n) = IF h = p THEN 1 ELSE 0
           ELSE \A h \in Holders : Sort!Count(Held(h), n) = 0
<1>1. Placed(Holders, HeldOf(Queue, s_stack), Open) /\ Sort!TypeOK
  BY DEF SortInv, Core
<1>2. /\ \A h \in Holders : /\ Held(h) \in Seq(Sort!Tasks) \/ Held(h) \in Seq(Sort!Calls)
                            /\ HeldOf(Queue, s_stack)[h] = Ids(Held(h))
  BY <1>1, HeldTasks
<1>3. \A h \in Holders : /\ Len(Ids(Held(h))) = Len(Held(h))
                         /\ \A i \in 1 .. Len(Held(h)) : Ids(Held(h))[i] = Held(h)[i].task
  BY <1>2, IdsFacts
<1>4. /\ \A h, g \in Holders : \A i \in 1 .. Len(Held(h)), j \in 1 .. Len(Held(g)) :
           Held(h)[i].task = n /\ Held(g)[j].task = n => h = g /\ i = j
      /\ n \in Open <=> \E h \in Holders : \E i \in 1 .. Len(Held(h)) : Held(h)[i].task = n
  <2>1. n # NoPart
    BY DEF Sort!SortAssumption
  <2>2. QED
    BY <1>1, <1>2, <1>3, <2>1 DEF Placed
<1>5. CASE n \in Open
  <2>1. PICK p \in Holders : \E i \in 1 .. Len(Held(p)) : Held(p)[i].task = n
    BY <1>4, <1>5
  <2>2. PICK i \in 1 .. Len(Held(p)) : Held(p)[i].task = n
    BY <2>1
  <2>3. Sort!Count(Held(p), n) = 1
    <3>1. \A j \in 1 .. Len(Held(p)) : Held(p)[j].task = n => j = i
      BY <1>4, <2>2
    <3>2. Held(p) \in Seq(Sort!Tasks) \/ Held(p) \in Seq(Sort!Calls)
      BY <1>2
    <3>3. QED
      BY <2>2, <3>1, <3>2, CountOnce
  <2>4. ASSUME NEW h \in Holders, h # p PROVE Sort!Count(Held(h), n) = 0
    <3>1. \A j \in 1 .. Len(Held(h)) : Held(h)[j].task # n
      BY <1>4, <2>2, <2>4
    <3>2. Held(h) \in Seq(Sort!Tasks) \/ Held(h) \in Seq(Sort!Calls)
      BY <1>2
    <3>3. QED
      BY <3>1, <3>2, CountNone
  <2>5. QED
    BY <1>5, <2>3, <2>4
<1>6. CASE n \notin Open
  <2>1. ASSUME NEW h \in Holders PROVE Sort!Count(Held(h), n) = 0
    <3>1. \A j \in 1 .. Len(Held(h)) : Held(h)[j].task # n
      BY <1>4, <1>6
    <3>2. Held(h) \in Seq(Sort!Tasks) \/ Held(h) \in Seq(Sort!Calls)
      BY <1>2
    <3>3. QED
      BY <3>1, <3>2, CountNone
  <2>2. QED
    BY <1>6, <2>1
<1>7. QED
  BY <1>5, <1>6

LEMMA AccountedFromInv ==
    ASSUME Sort!SortAssumption, SortInv
    PROVE  Sort!TasksAccounted
<1> SUFFICES ASSUME NEW n \in DOMAIN s_future
             PROVE  Sort!Count(s_pool, n)
                      + Cardinality({w \in Sort!Workers : Sort!Count(s_queues[w], n) = 1})
                      + Cardinality({t \in Sort!Threads : Sort!Count(s_stack[t], n) = 1})
                      + (IF s_future[n] # Pending THEN 1 ELSE 0) = 1
  BY SortUses DEF Sort!TasksAccounted
<1> DEFINE ws == {w \in Sort!Workers : Sort!Count(s_queues[w], n) = 1}
           ts == {t \in Sort!Threads : Sort!Count(s_stack[t], n) = 1}
           pool == Sort!Count(s_pool, n)
<1>1. Sort!TypeOK
  BY DEF SortInv
<1>2. n \in Nat /\ (n \in Open <=> s_future[n] = Pending)
  BY <1>1 DEF Sort!TypeOK, Open
<1>3. /\ \A q \in Queues : <<"queue", q>> \in Holders /\ Held(<<"queue", q>>) = Queue[q]
      /\ \A t \in Sort!Threads :
              <<"stack", t>> \in Holders /\ Held(<<"stack", t>>) = s_stack[t]
  BY <1>1, HeldTasks
<1>4. /\ Queue[NoQueue] = s_pool
      /\ \A w \in Sort!Workers : Queue[w] = s_queues[w] /\ w # NoQueue
      /\ NoQueue \in Queues /\ \A w \in Sort!Workers : w \in Queues
  BY <1>1, SortQueueType
<1>5. Cardinality({}) = 0 /\ \A x : Cardinality({x}) = 1
  BY FS_EmptySet, FS_Singleton
<1>6. CASE n \notin Open
  <2>1. \A h \in Holders : Sort!Count(Held(h), n) = 0
    BY <1>2, <1>6, HeldOnce
  <2>2. pool = 0 /\ ws = {} /\ ts = {}
    <3>1. /\ Sort!Count(s_pool, n) = 0
          /\ \A w \in Sort!Workers : Sort!Count(s_queues[w], n) = 0
          /\ \A t \in Sort!Threads : Sort!Count(s_stack[t], n) = 0
      BY <1>3, <1>4, <2>1
    <3>2. QED
      BY <3>1
  <2>3. (IF s_future[n] # Pending THEN 1 ELSE 0) = 1
    BY <1>2, <1>6
  <2> HIDE DEF ws, ts, pool
  <2>4. pool + Cardinality(ws) + Cardinality(ts)
          + (IF s_future[n] # Pending THEN 1 ELSE 0) = 1
    BY <1>5, <2>2, <2>3
  <2>5. QED
    BY <2>4 DEF ws, ts, pool
<1>7. CASE n \in Open
  <2>1. PICK p \in Holders : \A h \in Holders : Sort!Count(Held(h), n) = IF h = p
                                                                         THEN 1 ELSE 0
    BY <1>2, <1>7, HeldOnce
  <2>2. /\ Sort!Count(s_pool, n) = IF p = <<"queue", NoQueue>> THEN 1 ELSE 0
        /\ \A w \in Sort!Workers : Sort!Count(s_queues[w], n) = IF p = <<"queue", w>>
                                                                THEN 1 ELSE 0
        /\ \A t \in Sort!Threads : Sort!Count(s_stack[t], n) = IF p = <<"stack", t>>
                                                               THEN 1 ELSE 0
    <3>1. \A q \in Queues : Sort!Count(Queue[q], n) = IF p = <<"queue", q>> THEN 1 ELSE 0
      BY <1>3, <2>1
    <3>2. \A t \in Sort!Threads : Sort!Count(s_stack[t], n) = IF p = <<"stack", t>>
                                                              THEN 1 ELSE 0
      BY <1>3, <2>1
    <3>3. QED
      BY <1>4, <3>1, <3>2
  <2>3. (IF s_future[n] # Pending THEN 1 ELSE 0) = 0
    BY <1>2, <1>7
  <2>4. pool + Cardinality(ws) + Cardinality(ts) = 1
    <3>1. CASE p = <<"queue", NoQueue>>
      <4>1. pool = 1 /\ ws = {} /\ ts = {}
        BY <1>4, <2>2, <3>1
      <4> HIDE DEF ws, ts, pool
      <4>2. Cardinality(ws) = 0 /\ Cardinality(ts) = 0
        BY <1>5, <4>1
      <4>3. QED
        BY <4>1, <4>2
    <3>2. ASSUME NEW w \in Sort!Workers, p = <<"queue", w>>
          PROVE  pool + Cardinality(ws) + Cardinality(ts) = 1
      <4>1. pool = 0 /\ ws = {w} /\ ts = {}
        BY <1>4, <2>2, <3>2
      <4> HIDE DEF ws, ts, pool
      <4>2. Cardinality(ws) = 1 /\ Cardinality(ts) = 0
        BY <1>5, <4>1
      <4>3. QED
        BY <4>1, <4>2
    <3>3. ASSUME NEW t \in Sort!Threads, p = <<"stack", t>>
          PROVE  pool + Cardinality(ws) + Cardinality(ts) = 1
      <4>1. pool = 0 /\ ws = {} /\ ts = {t}
        BY <1>4, <2>2, <3>3
      <4> HIDE DEF ws, ts, pool
      <4>2. Cardinality(ws) = 0 /\ Cardinality(ts) = 1
        BY <1>5, <4>1
      <4>3. QED
        BY <4>1, <4>2
    <3>4. \/ p = <<"queue", NoQueue>> \/ (\E w \in Sort!Workers : p = <<"queue", w>>)
          \/ (\E t \in Sort!Threads : p = <<"stack", t>>)
      BY <2>1 DEF Holders, Queues
    <3>5. QED
      BY <3>1, <3>2, <3>3, <3>4
  <2> HIDE DEF ws, ts, pool
  <2>5. pool + Cardinality(ws) + Cardinality(ts)
          + (IF s_future[n] # Pending THEN 1 ELSE 0) = 1
    BY <2>3, <2>4
  <2>6. QED
    BY <2>5 DEF ws, ts, pool
<1>8. QED
  BY <1>6, <1>7

\* A task in a queue or on a stack is not done.
LEMMA HeldIsOpen ==
    ASSUME Sort!SortAssumption, SortInv, NEW h \in Holders, NEW i \in 1 .. Len(Held(h)),
           Held(h)[i].task # NoPart
    PROVE  Held(h)[i].task \in Open
<1>1. Placed(Holders, HeldOf(Queue, s_stack), Open) /\ Sort!TypeOK
  BY DEF SortInv, Core
<1>2. /\ Held(h) \in Seq(Sort!Tasks) \/ Held(h) \in Seq(Sort!Calls)
      /\ HeldOf(Queue, s_stack)[h] = Ids(Held(h))
  BY <1>1, HeldTasks
<1>3. /\ Ids(Held(h)) \in Seq(Nat \cup {NoPart}) /\ Len(Ids(Held(h))) = Len(Held(h))
      /\ Ids(Held(h))[i] = Held(h)[i].task
  BY <1>2, IdsFacts
<1>4. Ids(Held(h))[i] \in Nat
  BY <1>3
<1>5. QED
  BY <1>1, <1>2, <1>3, <1>4 DEF Placed

\* Once no caller has a call every task is done: the first of those that are not
\* would be waited for on the stack of a worker, which begins with an earlier one.
LEMMA QuietEnd ==
    ASSUME Sort!SortAssumption, SortInv, \A t \in Callers : s_stack[t] = <<>>
    PROVE  Open = {}
<1> SUFFICES ASSUME Open # {} PROVE FALSE
  OBVIOUS
<1>1. Sort!TypeOK /\ Waited(s_stack, Open) /\ \E arg, own : Fit(arg, own)
  BY DEF SortInv, Core
<1>2. Open \subseteq Nat
  BY <1>1, FutureFacts
<1>3. PICK n \in Open : \A m \in Open : n <= m
  BY <1>2, LeastNumber
<1>4. PICK t \in Sort!Threads : \E k \in 1 .. Len(s_stack[t]) :
           s_stack[t][k].at = "wait" /\ s_stack[t][k].lower = n
  BY <1>1 DEF Waited
<1>5. PICK k \in 1 .. Len(s_stack[t]) : s_stack[t][k].at = "wait" /\ s_stack[t][k].lower = n
  BY <1>4
<1>6. PICK arg, own : Fit(arg, own)
  BY <1>1
<1>7. /\ s_stack[t] \in Seq(Sort!Calls) /\ s_stack[t] # <<>> /\ 1 \in 1 .. Len(s_stack[t])
      /\ 1 \in 1 .. k
  <2>1. s_stack[t] \in Seq(Sort!Calls)
    BY <1>1 DEF Sort!TypeOK
  <2>2. Len(s_stack[t]) \in Nat /\ k \in Nat /\ k >= 1 /\ Len(s_stack[t]) >= k
    BY <1>5, <2>1
  <2>3. s_stack[t] # <<>>
    BY <2>2
  <2>4. QED
    BY <2>1, <2>2, <2>3
<1>8. t \notin Callers
  BY <1>7
<1>9. s_stack[t][1].task # NoPart
  BY <1>6, <1>7, <1>8 DEF Fit, Bases
<1>10. StackFits(s_stack[t], own[t], arg, Len(s_future))
  BY <1>6 DEF Fit, StacksFit
<1>11. Fits(s_stack[t], own[t], k, arg, Len(s_future))
  BY <1>5, <1>10 DEF StackFits
<1>12. s_stack[t][1].task < n
  BY <1>5, <1>7, <1>9, <1>11 DEF Fits
<1>13. <<"stack", t>> \in Holders /\ Held(<<"stack", t>>) = s_stack[t]
  BY <1>1, HeldTasks
<1>14. s_stack[t][1].task \in Open
  BY <1>7, <1>9, <1>13, HeldIsOpen
<1>15. PICK m : m = s_stack[t][1].task
  OBVIOUS
<1>16. m \in Nat /\ n \in Nat /\ n <= m /\ m < n
  BY <1>2, <1>3, <1>12, <1>14, <1>15
<1>17. QED
  BY <1>16

LEMMA QuietFromInv ==
    ASSUME Sort!SortAssumption, SortInv
    PROVE  Sort!SortedAndQuiet
<1>1. Sort!TypeOK /\ Order
  BY DEF SortInv
<1>2. PICK arg, own : Fit(arg, own)
  BY DEF SortInv, Core
<1>3. ASSUME NEW t \in Callers, s_sorted[t] # Pending
      PROVE  Sort!IsSortOf(s_sorted[t], s_input[t])
  <2>1. s_input[t] # Pending
    BY <1>1, <1>3 DEF Order
  <2>2. s_input[t] \in Seq(Nat)
    BY <1>1, <2>1 DEF Sort!TypeOK
  <2>3. SortOf(s_sorted[t], s_input[t])
    BY <1>2, <1>3 DEF Fit, ResultsFit
  <2>4. QED
    BY <2>2, <2>3, SortOfSorts
<1>4. ASSUME \A t \in Callers : s_stack[t] = <<>>
      PROVE  s_pool = <<>> /\ \A w \in Sort!Workers : s_queues[w] = <<>> /\ s_stack[w] = <<>>
  <2>1. Open = {}
    BY <1>4, QuietEnd
  <2>2. ASSUME NEW q \in Queues PROVE Queue[q] = <<>>
    <3>1. <<"queue", q>> \in Holders /\ Held(<<"queue", q>>) = Queue[q]
      BY <1>1, HeldTasks
    <3>2. SUFFICES ASSUME Queue[q] # <<>> PROVE FALSE
      OBVIOUS
    <3>3. Queue[q] \in Seq(Sort!Tasks)
      BY <1>1, SortQueueType
    <3>4. 1 \in 1 .. Len(Queue[q])
      BY <3>2, <3>3
    <3>5. Queue[q][1] \in Sort!Tasks
      BY <3>3, <3>4
    <3>6. Queue[q][1].task # NoPart
      BY <3>5 DEF Sort!Tasks, Sort!SortAssumption
    <3>7. Queue[q][1].task \in Open
      BY <3>1, <3>4, <3>6, HeldIsOpen
    <3>8. QED
      BY <2>1, <3>7
  <2>3. ASSUME NEW w \in Sort!Workers PROVE s_stack[w] = <<>>
    <3>1. w \in Sort!Threads /\ w \notin Callers
      BY ThreadFacts
    <3>2. <<"stack", w>> \in Holders /\ Held(<<"stack", w>>) = s_stack[w]
      BY <1>1, <3>1, HeldTasks
    <3>3. SUFFICES ASSUME s_stack[w] # <<>> PROVE FALSE
      OBVIOUS
    <3>4. s_stack[w] \in Seq(Sort!Calls)
      BY <1>1, <3>1 DEF Sort!TypeOK
    <3>5. 1 \in 1 .. Len(s_stack[w])
      BY <3>3, <3>4
    <3>6. s_stack[w][1].task # NoPart
      BY <1>2, <3>1, <3>3 DEF Fit, Bases
    <3>7. s_stack[w][1].task \in Open
      BY <3>2, <3>5, <3>6, HeldIsOpen
    <3>8. QED
      BY <2>1, <3>7
  <2>4. QED
    BY <1>1, <2>2, <2>3, SortQueueType
<1>5. QED
  BY <1>3, <1>4 DEF Sort!SortedAndQuiet

\* The variables of the parallel sort have their types.
THEOREM SortTypeCorrect ==
    ASSUME Sort!SortAssumption
    PROVE  Sort!Spec => []Sort!TypeOK
<1>1. Sort!Init => SortInv
  BY SortInit
<1>2. SortInv /\ [Sort!Next]_(Sort!vars) => SortInv'
  BY SortStep
<1>3. SortInv => Sort!TypeOK
  BY DEF SortInv
<1>4. QED
  BY <1>1, <1>2, <1>3, PTL DEF Sort!Spec

\* Every task of the pool is in one queue, on one stack or done, and in no two places, while
\* AddTask, RunPendingTasks and the returning calls move it (thread_pool.hpp:121).
THEOREM EveryTaskOnce ==
    ASSUME Sort!SortAssumption
    PROVE  Sort!Spec => []TasksAccounted
<1>1. Sort!Init => SortInv
  BY SortInit
<1>2. SortInv /\ [Sort!Next]_(Sort!vars) => SortInv'
  BY SortStep
<1>3. SortInv => TasksAccounted
  BY AccountedFromInv DEF TasksAccounted
<1>4. QED
  BY <1>1, <1>2, <1>3, PTL DEF Sort!Spec

\* DoSort returns what it was given, sorted, whichever thread sorts which part, and when the
\* last call has returned no task is left for the destructor to drop (sort.hpp:89).
THEOREM SortsAndLeavesNothing ==
    ASSUME Sort!SortAssumption
    PROVE  Sort!Spec => []SortedAndQuiet
<1>1. Sort!Init => SortInv
  BY SortInit
<1>2. SortInv /\ [Sort!Next]_(Sort!vars) => SortInv'
  BY SortStep
<1>3. SortInv => SortedAndQuiet
  BY QuietFromInv DEF SortedAndQuiet
<1>4. QED
  BY <1>1, <1>2, <1>3, PTL DEF Sort!Spec
================================================================================
