---------------------------- MODULE AsyncLogProofs ----------------------------
(***************************************************************************)
(* Proofs about AsyncLog for any number of threads, lines, sessions and    *)
(* files: what is pushed on the queue reaches the console in order, the    *)
(* exit flag loses nothing that was pushed before it was set, and the      *)
(* files are bounded and hold pieces of what went to the console.          *)
(***************************************************************************)
EXTENDS AsyncLog, LinkedListProofs

-------------------------------------------------------------------------------
\* Pushing at the back of a concatenation, and moving an element from the front
\* of its second part to the back of its first part.
LEMMA PushBack ==
    ASSUME NEW S, NEW s \in Seq(S), NEW t \in Seq(S), NEW e \in S
    PROVE  s \o Append(t, e) = Append(s \o t, e)
<1>1. /\ s \o t \in Seq(S)
      /\ s \o Append(t, e) \in Seq(S)
      /\ Append(s \o t, e) \in Seq(S)
      /\ Len(s \o Append(t, e)) = Len(Append(s \o t, e))
  BY ConcatProperties
<1>2. /\ Append(t, e) \in Seq(S)
      /\ Len(Append(t, e)) = Len(t) + 1
      /\ \A i \in 1 .. Len(t) : Append(t, e)[i] = t[i]
      /\ Append(t, e)[Len(t) + 1] = e
      /\ Len(s) \in Nat /\ Len(t) \in Nat
  BY LenProperties
<1>3. /\ Len(s \o t) = Len(s) + Len(t)
      /\ \A i \in 1 .. Len(s \o t) : Append(s \o t, e)[i] = (s \o t)[i]
      /\ Append(s \o t, e)[Len(s \o t) + 1] = e
      /\ Len(s \o Append(t, e)) = Len(s) + Len(t) + 1
  BY <1>1, <1>2, ConcatProperties
<1>4. ASSUME NEW i \in 1 .. Len(s) + Len(t) + 1
      PROVE  (s \o Append(t, e))[i] = Append(s \o t, e)[i]
  <2>0. Append(t, e) \in Seq(S) /\ i \in 1 .. Len(s) + Len(Append(t, e))
    BY <1>2
  <2>1. (s \o Append(t, e))[i] =
          IF i <= Len(s) THEN s[i] ELSE Append(t, e)[i - Len(s)]
    BY <2>0, ConcatProperties
  <2>2. CASE i = Len(s) + Len(t) + 1
    BY <1>2, <1>3, <2>1, <2>2
  <2>3. CASE i # Len(s) + Len(t) + 1
    <3>1. i \in 1 .. Len(s) + Len(t)
      BY <1>2, <2>3
    <3>2. (s \o t)[i] = IF i <= Len(s) THEN s[i] ELSE t[i - Len(s)]
      BY <3>1, ConcatProperties
    <3>3. ~(i <= Len(s)) => i - Len(s) \in 1 .. Len(t)
      BY <1>2, <3>1
    <3>4. QED
      BY <1>2, <1>3, <2>1, <3>1, <3>2, <3>3
  <2>4. QED
    BY <2>2, <2>3
<1>5. QED
  BY <1>1, <1>3, <1>4, SeqEqual

LEMMA MoveFront ==
    ASSUME NEW S, NEW s \in Seq(S), NEW t \in Seq(S), t # <<>>
    PROVE  /\ Head(t) \in S /\ Tail(t) \in Seq(S)
           /\ Append(s, Head(t)) \o Tail(t) = s \o t
<1>1. Head(t) \in S /\ Tail(t) \in Seq(S) /\ Len(Tail(t)) = Len(t) - 1
  BY HeadTailProperties
<1>2. Len(t) \in Nat \ {0} /\ Len(s) \in Nat
  BY EmptySeq, LenProperties
<1>3. /\ Append(s, Head(t)) \in Seq(S)
      /\ Len(Append(s, Head(t))) = Len(s) + 1
      /\ \A i \in 1 .. Len(s) : Append(s, Head(t))[i] = s[i]
      /\ Append(s, Head(t))[Len(s) + 1] = Head(t)
  BY <1>1
<1>4. /\ Append(s, Head(t)) \o Tail(t) \in Seq(S)
      /\ s \o t \in Seq(S)
      /\ Len(Append(s, Head(t)) \o Tail(t)) = Len(s \o t)
      /\ Len(s \o t) = Len(s) + Len(t)
  BY <1>1, <1>2, <1>3, ConcatProperties
<1>5. ASSUME NEW i \in 1 .. Len(s) + Len(t)
      PROVE  (Append(s, Head(t)) \o Tail(t))[i] = (s \o t)[i]
  <2>1. (s \o t)[i] = IF i <= Len(s) THEN s[i] ELSE t[i - Len(s)]
    BY <1>2, ConcatProperties
  <2>2. (Append(s, Head(t)) \o Tail(t))[i] =
          IF i <= Len(s) + 1 THEN Append(s, Head(t))[i]
          ELSE Tail(t)[i - (Len(s) + 1)]
    BY <1>1, <1>2, <1>3, ConcatProperties
  <2>3. CASE i <= Len(s)
    BY <2>1, <2>2, <2>3, <1>2, <1>3
  <2>4. CASE i = Len(s) + 1
    <3>1. t[i - Len(s)] = Head(t)
      BY <1>2, <2>4
    <3>2. QED
      BY <2>1, <2>2, <2>4, <3>1, <1>2, <1>3
  <2>5. CASE i > Len(s) + 1
    <3>1. i - (Len(s) + 1) \in 1 .. Len(Tail(t))
      BY <1>1, <1>2, <2>5
    <3>2. Tail(t)[i - (Len(s) + 1)] = t[(i - (Len(s) + 1)) + 1]
      BY <3>1, HeadTailProperties
    <3>3. (i - (Len(s) + 1)) + 1 = i - Len(s)
      BY <1>2
    <3>4. QED
      BY <2>1, <2>2, <2>5, <3>2, <3>3, <1>2
  <2>6. QED
    BY <2>3, <2>4, <2>5, <1>2
<1>6. QED
  BY <1>1, <1>4, <1>5, SeqEqual

-------------------------------------------------------------------------------
\* What ties uninit to the writer in the first session: m_bExit is clear until
\* uninit sets it, and only then may the writer leave.
ExitOrder ==
    /\ owed <= Len(accepted)
    /\ session = 0 => main = "down" /\ writer = "off" /\ ~m_bExit
    /\ session = 1 /\ main = "up" => ~m_bExit /\ writer # "stopped"

\* There is no writer before init and after uninit has joined it.
Joined == main = "down" => writer \in {"off", "stopped", "failed"}

IInv == TypeOK /\ Joined /\ OrderKept /\ ExitOrder /\ UninitFlushes

LEMMA InitInv == Init => IInv
<1> SUFFICES ASSUME Init PROVE IInv
  OBVIOUS
<1>1. <<>> \in Seq(Lines)
  BY EmptySeq
<1>2. DOMAIN disk = {}
  BY DEF Init
<1>3. TypeOK
  <2>1. /\ m_listLinesToWrite \in Seq(Lines)
        /\ accepted \in Seq(Lines) /\ printed \in Seq(Lines)
    BY <1>1 DEF Init
  <2>2. /\ m_nCurrentLevel \in 0 .. FATAL
        /\ m_strFileName \in BOOLEAN /\ crashed \in BOOLEAN
        /\ m_bExit \in BOOLEAN /\ m_bRunning \in BOOLEAN
    <3>1. m_nCurrentLevel \in 0 .. FATAL
      BY DEF Init, FATAL
    <3>2. /\ m_strFileName \in BOOLEAN /\ crashed \in BOOLEAN
          /\ m_bExit \in BOOLEAN /\ m_bRunning \in BOOLEAN
      BY DEF Init
    <3>3. QED
      BY <3>1, <3>2
  <2>3. /\ DOMAIN disk \subseteq 0 .. second
        /\ \A s \in DOMAIN disk : disk[s] \in Seq(Lines)
        /\ m_hLogFile \in DOMAIN disk \cup {NoFile}
        /\ m_nCurrentWrittenSize \in Nat
    <3>1. m_hLogFile = NoFile /\ m_nCurrentWrittenSize \in Nat
      BY DEF Init
    <3>2. QED
      BY <1>2, <3>1
  <2>4. /\ writer \in WriterStates
        /\ line \in Lines \cup {NoLine}
        /\ line \in Lines <=> writer \in {"print", "file"}
    BY LogAssumption DEF Init, WriterStates
  <2>5. /\ thread \in [Threads -> {"idle", "push", "fatal", "create", "write",
                                   "crash"}]
        /\ arg \in [Threads -> Lines \cup {NoLine}]
        /\ \A c \in Threads : arg[c] \in Lines <=> thread[c] # "idle"
    BY LogAssumption DEF Init
  <2>6. /\ main \in {"down", "up", "notify", "join"}
        /\ session \in Nat /\ owed \in Nat
        /\ second \in Seconds /\ logged \subseteq Lines
    BY LogAssumption DEF Init, Seconds
  <2>7. QED
    BY <2>1, <2>2, <2>3, <2>4, <2>5, <2>6 DEF TypeOK
<1>4. OrderKept
  BY <1>1, ConcatEmptySeq DEF Init, OrderKept, InHand
<1>5. Joined /\ ExitOrder /\ UninitFlushes
  BY EmptySeq DEF Init, Joined, ExitOrder, UninitFlushes
<1>6. QED
  BY <1>3, <1>4, <1>5 DEF IInv

-------------------------------------------------------------------------------
\* Opening a file and writing to it keep the type of the files.
FilesOK ==
    /\ DOMAIN disk \subseteq 0 .. second
    /\ \A s \in DOMAIN disk : disk[s] \in Seq(Lines)
    /\ m_hLogFile \in DOMAIN disk \cup {NoFile}

LEMMA CreateKeepsFiles ==
    ASSUME FilesOK, second \in Nat, second' = second,
           NEW ok \in BOOLEAN, createNewFile(ok)
    PROVE  FilesOK'
<1>1. CASE ok
  <2>1. DOMAIN disk' = DOMAIN disk \cup {second} /\ m_hLogFile' = second
    BY <1>1 DEF createNewFile
  <2>2. ASSUME NEW s \in DOMAIN disk'
        PROVE  disk'[s] \in Seq(Lines)
    <3>1. s \in DOMAIN disk \cup {second}
      BY <2>1
    <3>2. disk'[s] = IF s = second THEN <<>> ELSE disk[s]
      BY <1>1, <3>1 DEF createNewFile
    <3>3. QED
      BY <3>1, <3>2, EmptySeq DEF FilesOK
  <2>3. second \in 0 .. second
    OBVIOUS
  <2>4. QED
    BY <2>1, <2>2, <2>3 DEF FilesOK
<1>2. CASE ~ok
  BY <1>2 DEF createNewFile, FilesOK
<1>3. QED
  BY <1>1, <1>2

LEMMA WriteKeepsFiles ==
    ASSUME FilesOK, second' = second, NEW l \in Lines,
           NEW ok \in BOOLEAN, writeToFile(l, ok)
    PROVE  FilesOK' /\ crashed' \in BOOLEAN
<1>1. crashed' \in BOOLEAN
  BY DEF writeToFile
<1>2. CASE ok /\ m_hLogFile # NoFile
  <2>1. m_hLogFile \in DOMAIN disk /\ disk[m_hLogFile] \in Seq(Lines)
    BY <1>2 DEF FilesOK
  <2>2. Append(disk[m_hLogFile], l) \in Seq(Lines)
    BY <2>1
  <2>3. /\ DOMAIN disk' = DOMAIN disk
        /\ m_hLogFile' = m_hLogFile
        /\ \A s \in DOMAIN disk :
             disk'[s] = IF s = m_hLogFile THEN Append(disk[m_hLogFile], l) ELSE disk[s]
    BY <1>2 DEF writeToFile
  <2>4. QED
    BY <1>1, <2>2, <2>3 DEF FilesOK
<1>3. CASE ~(ok /\ m_hLogFile # NoFile)
  BY <1>1, <1>3 DEF writeToFile, FilesOK
<1>4. QED
  BY <1>2, <1>3

LEMMA TypeStep == TypeOK /\ Joined /\ [Next]_vars => TypeOK'
<1> SUFFICES ASSUME TypeOK, Joined, [Next]_vars PROVE TypeOK'
  OBVIOUS
<1> USE LogAssumption DEF TypeOK, WriterStates, Seconds
<1>1. ASSUME Main
      PROVE  TypeOK'
  <2>1. CASE StartLog
    <3>1. /\ m_strFileName' \in BOOLEAN
          /\ UNCHANGED <<m_bExit, m_bRunning, crashed>>
      BY <2>1 DEF StartLog, flags, world
    <3>2. session' \in Nat
      BY <2>1 DEF StartLog
    <3>3. /\ writer' = "start" /\ main' = "up"
          /\ line \notin Lines
          /\ UNCHANGED <<m_nCurrentLevel, owed, file, queue, callers, line,
                         printed, second>>
      BY <2>1 DEF StartLog, Joined, world
    <3>4. QED
      BY <3>1, <3>2, <3>3 DEF file, queue, callers
  <2>2. CASE uninit
    <3>1. Len(accepted) \in Nat
      BY LenProperties
    <3>2. QED
      BY <2>2, <3>1 DEF uninit, config, file, queue, callers, output, world
  <2>3. CASE uninitNotify
    BY <2>3 DEF uninitNotify, config, flags, file, queue, callers, world
  <2>4. CASE uninitJoin
    BY <2>4 DEF uninitJoin, config, flags, queue, callers, output, world
  <2>5. QED
    BY <1>1, <2>1, <2>2, <2>3, <2>4 DEF Main
<1>2. ASSUME NEW n \in LevelArgs, setLevel(n)
      PROVE  TypeOK'
  BY <1>2 DEF setLevel, flags, control, file, queue, callers, output, world
<1>3. ASSUME NEW c \in Threads, NEW l \in Lines, outputFilter(c, l)
      PROVE  TypeOK'
  <2>1. /\ logged' \subseteq Lines
        /\ UNCHANGED <<config, flags, control, file, queue, output, world>>
    BY <1>3 DEF outputFilter
  <2>2. CASE UNCHANGED <<thread, arg>>
    BY <2>1, <2>2 DEF config, flags, control, file, queue, output, world
  <2>3. CASE /\ thread' = [thread EXCEPT ![c] =
                             IF Level[l] = FATAL THEN "fatal" ELSE "push"]
             /\ arg' = [arg EXCEPT ![c] = l]
    <3>1. /\ thread' \in [Threads -> {"idle", "push", "fatal", "create",
                                      "write", "crash"}]
          /\ arg' \in [Threads -> Lines \cup {NoLine}]
      BY <2>3
    <3>2. \A d \in Threads : (arg'[d] \in Lines) <=> (thread'[d] # "idle")
      BY <2>3
    <3>3. QED
      BY <2>1, <3>1, <3>2
         DEF config, flags, control, file, queue, output, world
  <2>4. QED
    BY <1>3, <2>2, <2>3 DEF outputFilter
<1>4. ASSUME NEW c \in Threads, outputPush(c)
      PROVE  TypeOK'
  <2>1. arg[c] \in Lines
    BY <1>4 DEF outputPush
  <2>2. Append(m_listLinesToWrite, arg[c]) \in Seq(Lines)
        /\ Append(accepted, arg[c]) \in Seq(Lines)
    BY <2>1
  <2>3. QED
    BY <1>4, <2>2 DEF outputPush, config, flags, control, file, world
<1>5. ASSUME NEW c \in Threads, fatalCheck(c)
      PROVE  TypeOK'
  BY <1>5 DEF fatalCheck, config, flags, control, file, queue, output, world
<1>6. ASSUME NEW c \in Threads, fatalCreate(c)
      PROVE  TypeOK'
  <2>1. FilesOK'
    BY <1>6, CreateKeepsFiles DEF fatalCreate, FilesOK, world
  <2>2. QED
    BY <1>6, <2>1
       DEF fatalCreate, FilesOK, config, flags, control, queue, output, world
<1>7. ASSUME NEW c \in Threads, fatalWrite(c)
      PROVE  TypeOK'
  <2>1. arg[c] \in Lines
    BY <1>7 DEF fatalWrite
  <2>2. FilesOK' /\ crashed' \in BOOLEAN
    BY <1>7, <2>1, WriteKeepsFiles DEF fatalWrite, FilesOK
  <2>3. QED
    BY <1>7, <2>2
       DEF fatalWrite, FilesOK, config, flags, control, queue, output
<1>8. ASSUME NEW c \in Threads, crash(c)
      PROVE  TypeOK'
  BY <1>8 DEF crash, config, flags, control, file, queue, callers, output
<1>9. CASE writerStart \/ writerRoll \/ writerTest \/ writerWait \/ spuriousWake
  <2>1. CASE writerStart
    <3>1. m_bRunning' \in BOOLEAN
      BY <2>1 DEF writerStart
    <3>2. QED
      BY <2>1, <3>1
         DEF writerStart, config, control, file, queue, callers, world
  <2>2. CASE writerRoll
    BY <2>2 DEF writerRoll, config, flags, control, queue, callers, world
  <2>3. CASE writerTest \/ writerWait \/ spuriousWake
    BY <2>3 DEF writerTest, writerWait, spuriousWake, config, flags, control,
                file, queue, callers, world
  <2>4. QED
    BY <1>9, <2>1, <2>2, <2>3
<1>10. CASE writerCreate
  <2>1. FilesOK'
    BY <1>10, CreateKeepsFiles DEF writerCreate, FilesOK, world
  <2>2. QED
    BY <1>10, <2>1
       DEF writerCreate, FilesOK, config, flags, control, queue, callers, world
<1>11. CASE writerTake
  <2>1. /\ Head(m_listLinesToWrite) \in Lines
        /\ Tail(m_listLinesToWrite) \in Seq(Lines)
    BY <1>11, HeadTailProperties DEF writerTake
  <2>2. QED
    BY <1>11, <2>1 DEF writerTake, config, flags, control, file, callers, world
<1>12. CASE writerPrint
  <2>1. Append(printed, line) \in Seq(Lines)
    BY <1>12 DEF writerPrint
  <2>2. QED
    BY <1>12, <2>1
       DEF writerPrint, config, flags, control, file, queue, callers, world
<1>13. CASE writerWrite
  <2>1. line \in Lines
    BY <1>13 DEF writerWrite
  <2>2. CASE ~m_strFileName
    BY <1>13, <2>2
       DEF writerWrite, config, flags, control, file, queue, callers
  <2>3. CASE m_strFileName
    <3>1. PICK ok \in BOOLEAN :
            /\ writeToFile(line, ok)
            /\ writer' = IF ok THEN "roll" ELSE "failed"
            /\ m_nCurrentWrittenSize' =
                 m_nCurrentWrittenSize + IF ok THEN Size[line] ELSE 0
      BY <1>13, <2>3 DEF writerWrite
    <3>2. FilesOK' /\ crashed' \in BOOLEAN
      BY <1>13, <2>1, <3>1, WriteKeepsFiles DEF writerWrite, FilesOK
    <3>3. Size[line] \in Nat
      BY <2>1
    <3>4. m_nCurrentWrittenSize' \in Nat
      BY <3>1, <3>3
    <3>5. writer' \in WriterStates /\ writer' \notin {"print", "file"}
      BY <3>1
    <3>6. QED
      BY <1>13, <3>2, <3>4, <3>5
         DEF writerWrite, FilesOK, config, flags, control, queue, callers
  <2>4. QED
    BY <2>2, <2>3
<1>14. CASE Tick
  BY <1>14 DEF Tick, config, flags, control, file, queue, callers, output
<1>15. CASE UNCHANGED vars
  BY <1>15 DEF vars, config, flags, control, file, queue, callers, output, world
<1>16. QED
  BY <1>1, <1>2, <1>3, <1>4, <1>5, <1>6, <1>7, <1>8, <1>9, <1>10, <1>11, <1>12,
     <1>13, <1>14, <1>15 DEF Next, Call, Writer, Rest

LEMMA JoinedStep == TypeOK /\ Joined /\ [Next]_vars => Joined'
<1> SUFFICES ASSUME TypeOK, Joined, [Next]_vars PROVE Joined'
  OBVIOUS
<1>1. CASE Main
  BY <1>1 DEF Main, StartLog, uninit, uninitNotify, uninitJoin, output, Joined
<1>2. CASE Writer \/ spuriousWake
  BY <1>2 DEF Writer, writerStart, writerRoll, writerCreate, writerTake,
              writerTest, writerWait, writerPrint, writerWrite, spuriousWake,
              control, Joined
<1>3. CASE \E c \in Threads : Call(c)
  BY <1>3 DEF Call, outputFilter, outputPush, fatalCheck, fatalCreate,
              fatalWrite, crash, control, output, Joined
<1>4. CASE Tick \/ UNCHANGED vars \/ \E n \in LevelArgs : setLevel(n)
  BY <1>4 DEF Tick, setLevel, vars, control, output, Joined
<1>5. QED
  BY <1>1, <1>2, <1>3, <1>4 DEF Next, Rest

-------------------------------------------------------------------------------
\* A step that moves no line between the queue, the writer and the console.
LEMMA OrderFrame ==
    ASSUME OrderKept, UNCHANGED <<m_listLinesToWrite, accepted, printed, line>>,
           writer' = "print" <=> writer = "print"
    PROVE  OrderKept'
BY DEF OrderKept, InHand

LEMMA OrderStep == TypeOK /\ Joined /\ OrderKept /\ [Next]_vars => OrderKept'
<1> SUFFICES ASSUME TypeOK, Joined, OrderKept, [Next]_vars PROVE OrderKept'
  OBVIOUS
<1>1. CASE Main
  <2>1. /\ UNCHANGED <<m_listLinesToWrite, accepted, printed, line>>
        /\ writer' = "print" <=> writer = "print"
    BY <1>1 DEF Main, StartLog, uninit, uninitNotify, uninitJoin, queue, output,
                Joined
  <2>2. QED
    BY <2>1, OrderFrame
<1>2. ASSUME NEW c \in Threads, outputPush(c)
      PROVE  OrderKept'
  <2>1. arg[c] \in Lines
    BY <1>2 DEF outputPush, TypeOK
  <2>2. InHand \in Seq(Lines) /\ InHand' = InHand
    BY <1>2, EmptySeq DEF outputPush, InHand, TypeOK
  <2>3. printed \o InHand \in Seq(Lines) /\ m_listLinesToWrite \in Seq(Lines)
    BY <2>2, ConcatProperties DEF TypeOK
  <2>4. (printed \o InHand) \o Append(m_listLinesToWrite, arg[c]) =
          Append((printed \o InHand) \o m_listLinesToWrite, arg[c])
    BY <2>1, <2>3, PushBack
  <2>5. QED
    BY <1>2, <2>2, <2>4 DEF outputPush, OrderKept
<1>3. CASE writerTake
  <2>1. /\ m_listLinesToWrite # <<>>
        /\ m_listLinesToWrite \in Seq(Lines) /\ printed \in Seq(Lines)
    BY <1>3 DEF writerTake, TypeOK
  <2>2. Append(printed, Head(m_listLinesToWrite)) \o Tail(m_listLinesToWrite)
          = printed \o m_listLinesToWrite
    BY <2>1, MoveFront
  <2>3. printed \o InHand = printed
    BY <1>3, <2>1, ConcatEmptySeq DEF writerTake, InHand
  <2>4. InHand' = <<Head(m_listLinesToWrite)>>
    BY <1>3 DEF writerTake, InHand
  <2>5. printed \o <<Head(m_listLinesToWrite)>> =
          Append(printed, Head(m_listLinesToWrite))
    BY <2>1, MoveFront
  <2>6. QED
    BY <1>3, <2>2, <2>3, <2>4, <2>5 DEF writerTake, OrderKept
<1>4. CASE writerPrint
  <2>1. line \in Lines /\ printed \in Seq(Lines)
    BY <1>4 DEF writerPrint, TypeOK
  <2>2. printed \o InHand = Append(printed, line)
    BY <1>4, <2>1 DEF writerPrint, InHand
  <2>3. InHand' = <<>> /\ Append(printed, line) \in Seq(Lines)
    BY <1>4, <2>1 DEF writerPrint, InHand
  <2>4. Append(printed, line) \o InHand' = Append(printed, line)
    BY <2>3, ConcatEmptySeq
  <2>5. QED
    BY <1>4, <2>2, <2>4 DEF writerPrint, queue, OrderKept
<1>5. CASE \/ writerStart \/ writerRoll \/ writerCreate \/ writerTest
           \/ writerWait \/ spuriousWake
  <2>1. /\ UNCHANGED <<m_listLinesToWrite, accepted, printed, line>>
        /\ writer' = "print" <=> writer = "print"
    BY <1>5 DEF writerStart, writerRoll, writerCreate, writerTest, writerWait,
                spuriousWake, queue
  <2>2. QED
    BY <2>1, OrderFrame
<1>6. CASE writerWrite
  <2>1. /\ UNCHANGED <<m_listLinesToWrite, accepted, printed>>
        /\ InHand = <<>> /\ InHand' = <<>>
    BY <1>6 DEF writerWrite, queue, InHand
  <2>2. QED
    BY <2>1 DEF OrderKept
<1>7. ASSUME NEW c \in Threads,
             \/ \E l \in Lines : outputFilter(c, l)
             \/ fatalCheck(c) \/ fatalCreate(c) \/ fatalWrite(c) \/ crash(c)
      PROVE  OrderKept'
  <2>1. UNCHANGED <<queue, output>>
    BY <1>7 DEF outputFilter, fatalCheck, fatalCreate, fatalWrite, crash
  <2>2. QED
    BY <2>1, OrderFrame DEF queue, output
<1>8. CASE Tick \/ UNCHANGED vars \/ \E n \in LevelArgs : setLevel(n)
  <2>1. UNCHANGED <<queue, output>>
    BY <1>8 DEF Tick, setLevel, vars
  <2>2. QED
    BY <2>1, OrderFrame DEF queue, output
<1>9. QED
  BY <1>1, <1>2, <1>3, <1>4, <1>5, <1>6, <1>7, <1>8
     DEF Next, Call, Writer, Rest

-------------------------------------------------------------------------------
\* An empty queue and empty hands: everything that was pushed is printed.
LEMMA AllPrinted ==
    ASSUME TypeOK, OrderKept, m_listLinesToWrite = <<>>, writer = "lock"
    PROVE  printed = accepted
<1>1. printed \in Seq(Lines) /\ InHand = <<>>
  BY DEF TypeOK, InHand
<1>2. (printed \o <<>>) \o <<>> = printed
  BY <1>1, ConcatEmptySeq
<1>3. QED
  BY <1>1, <1>2 DEF OrderKept

LEMMA ExitStep == IInv /\ [Next]_vars => ExitOrder' /\ UninitFlushes'
<1> SUFFICES ASSUME IInv, [Next]_vars PROVE ExitOrder' /\ UninitFlushes'
  OBVIOUS
<1>0. /\ owed \in Nat /\ session \in Nat
      /\ Len(accepted) \in Nat /\ Len(printed) \in Nat
  BY LenProperties DEF IInv, TypeOK
<1> USE DEF IInv, ExitOrder, UninitFlushes
<1>1. CASE Main
  <2>1. CASE StartLog
    BY <1>0, <2>1 DEF StartLog, flags, queue
  <2>2. CASE uninit
    BY <1>0, <2>2 DEF uninit, queue, output
  <2>3. CASE uninitNotify \/ uninitJoin
    BY <2>3 DEF uninitNotify, uninitJoin, queue, output
  <2>4. QED
    BY <1>1, <2>1, <2>2, <2>3 DEF Main
<1>2. ASSUME NEW c \in Threads, outputPush(c)
      PROVE  ExitOrder' /\ UninitFlushes'
  <2>1. Len(accepted') = Len(accepted) + 1
    BY <1>2 DEF outputPush, TypeOK
  <2>2. /\ UNCHANGED <<flags, control, printed>>
        /\ writer' = IF writer = "wait" THEN "lock" ELSE writer
    BY <1>2 DEF outputPush
  <2>3. ExitOrder'
    BY <1>0, <2>1, <2>2 DEF flags, control
  <2>4. UNCHANGED <<session, owed, printed>>
    BY <2>2 DEF control
  <2>5. UninitFlushes'
    BY <2>2, <2>4
  <2>6. QED
    BY <2>3, <2>5
<1>3. CASE writerTest
  <2>1. CASE m_bExit
    <3>1. printed = accepted
      BY <1>3, AllPrinted DEF writerTest
    <3>2. QED
      BY <1>0, <1>3, <2>1, <3>1 DEF writerTest, flags, control, queue
  <2>2. CASE ~m_bExit
    BY <1>3, <2>2 DEF writerTest, flags, control, queue
  <2>3. QED
    BY <2>1, <2>2
<1>4. CASE \/ writerStart \/ writerRoll \/ writerCreate \/ writerTake
           \/ writerWait \/ spuriousWake \/ writerPrint \/ writerWrite
  <2>1. /\ UNCHANGED <<m_bExit, control, accepted>>
        /\ writer' # "stopped"
        /\ writer \notin {"off", "stopped", "failed"}
    <3>1. CASE writerStart \/ writerRoll \/ writerCreate \/ writerTake
      BY <3>1 DEF writerStart, writerRoll, writerCreate, writerTake, queue, flags
    <3>2. CASE writerWait \/ spuriousWake \/ writerPrint
      BY <3>2 DEF writerWait, spuriousWake, writerPrint, queue, flags
    <3>3. CASE writerWrite
      BY <3>3 DEF writerWrite, queue, flags
    <3>4. QED
      BY <1>4, <3>1, <3>2, <3>3
  <2>2. QED
    BY <2>1 DEF control
<1>5. ASSUME NEW c \in Threads,
             \/ \E l \in Lines : outputFilter(c, l)
             \/ fatalCheck(c) \/ fatalCreate(c) \/ fatalWrite(c) \/ crash(c)
      PROVE  ExitOrder' /\ UninitFlushes'
  <2>1. UNCHANGED <<queue, output, flags, control>>
    BY <1>5 DEF outputFilter, fatalCheck, fatalCreate, fatalWrite, crash
  <2>2. QED
    BY <2>1 DEF queue, output, flags, control
<1>6. CASE Tick \/ UNCHANGED vars \/ \E n \in LevelArgs : setLevel(n)
  <2>1. UNCHANGED <<queue, output, flags, control>>
    BY <1>6 DEF Tick, setLevel, vars
  <2>2. QED
    BY <2>1 DEF queue, output, flags, control
<1>7. QED
  BY <1>1, <1>2, <1>3, <1>4, <1>5, <1>6 DEF Next, Call, Writer, Rest

\* The inductive invariant, for any number of threads, lines and sessions.
THEOREM LogInvariance == SafeSpec => []IInv
<1>1. Init => IInv
  BY InitInv
<1>2. IInv /\ [Next]_vars => IInv'
  BY TypeStep, JoinedStep, OrderStep, ExitStep DEF IInv
<1>3. QED
  BY <1>1, <1>2, PTL DEF SafeSpec

\* Every variable keeps its type, and an open file exists on the disk.
THEOREM LogTypeCorrect == SafeSpec => []TypeOK
BY LogInvariance, PTL DEF IInv

\* What was pushed is what was printed, is in hand or is queued, in that order.
THEOREM LogOrderKept == SafeSpec => []OrderKept
BY LogInvariance, PTL DEF IInv

\* In the first session no exit of the writer leaves behind a line that was
\* pushed before uninit was called.
THEOREM LogUninitFlushes == SafeSpec => []UninitFlushes
BY LogInvariance, PTL DEF IInv

-------------------------------------------------------------------------------
\* What the writer adds to a file it finds behind its other lines, and a FATAL
\* line changes nothing in that.
LEMMA OwnLinesGrow ==
    ASSUME NEW lines \in Seq(Lines), NEW l \in Lines
    PROVE  OwnLines(Append(lines, l)) =
             IF Ordinary(l) THEN Append(OwnLines(lines), l) ELSE OwnLines(lines)
BY ThoseGrow DEF OwnLines

\* The bytes of a sequence of lines have the steps of their definition.
ByteSteps(lines, sum) ==
    sum = [n \in 0 .. Len(lines) |->
             IF n = 0 THEN 0 ELSE sum[n - 1] + Size[lines[n]]]

LEMMA BytesIs ==
    ASSUME NEW lines \in Seq(Lines)
    PROVE  \E sum \in [0 .. Len(lines) -> Nat] :
             /\ Bytes(lines) = sum[Len(lines)]
             /\ sum[0] = 0
             /\ \A n \in 1 .. Len(lines) : sum[n] = sum[n - 1] + Size[lines[n]]
<1> DEFINE N == Len(lines)
           step == [n \in 1 .. N |-> [b \in Nat |-> b + Size[lines[n]]]]
           w == CHOOSE sum : ByteSteps(lines, sum)
<1>1. N \in Nat /\ \A n \in 1 .. N : lines[n] \in Lines /\ Size[lines[n]] \in Nat
  BY LenProperties, ElementOfSeq, LogAssumption
<1>2. step \in [1 .. N -> [Nat -> Nat]]
  BY <1>1
<1>3. PICK f \in [0 .. N -> Nat] :
        f[0] = 0 /\ \A k \in 1 .. N : f[k] = step[k][f[k - 1]]
  <2>1. Steps(Nat, 0, N, step)
    BY <1>1, <1>2 DEF Steps
  <2> HIDE DEF step, N
  <2>2. QED
    BY <2>1, Iterates
<1>4. \A k \in 1 .. N : f[k] = f[k - 1] + Size[lines[k]]
  <2>1. \A k \in 1 .. N : k - 1 \in 0 .. N /\ f[k - 1] \in Nat
    BY <1>1
  <2>2. QED
    BY <1>3, <2>1
<1>5. ByteSteps(lines, f)
  <2>1. ASSUME NEW k \in 0 .. N
        PROVE  f[k] = IF k = 0 THEN 0 ELSE f[k - 1] + Size[lines[k]]
    <3>1. k # 0 => k \in 1 .. N
      BY <1>1
    <3>2. QED
      BY <1>3, <1>4, <3>1
  <2>2. QED
    BY <2>1 DEF ByteSteps
<1>6. ByteSteps(lines, w)
  BY <1>5
<1>7. Bytes(lines) = w[N]
  BY DEF Bytes, ByteSteps
<1> HIDE DEF w, step
<1>8. w[0] = 0 /\ \A k \in 1 .. N : w[k] = w[k - 1] + Size[lines[k]]
  <2>1. 0 \in 0 .. N /\ \A k \in 1 .. N : k \in 0 .. N /\ k # 0
    BY <1>1
  <2>2. QED
    BY <1>6, <2>1 DEF ByteSteps
<1>9. \A k \in 0 .. N : f[k] = w[k]
  <2>1. f[0] = w[0]
    BY <1>3, <1>8
  <2>2. \A k \in 1 .. N : f[k - 1] = w[k - 1] => f[k] = w[k]
    BY <1>4, <1>8
  <2>3. Alike(N, f, w)
    BY <1>1, <2>1, <2>2 DEF Alike
  <2>4. QED
    BY <2>3, SameSteps
<1>10. Bytes(lines) = f[N]
  BY <1>1, <1>7, <1>9
<1>11. QED
  BY <1>3, <1>4, <1>10

LEMMA BytesGrow ==
    ASSUME NEW lines \in Seq(Lines), NEW l \in Lines
    PROVE  /\ Bytes(<<>>) = 0
           /\ Bytes(lines) \in Nat
           /\ Bytes(Append(lines, l)) = Bytes(lines) + Size[l]
<1> DEFINE N == Len(lines)
           more == Append(lines, l)
<1>1. /\ N \in Nat /\ more \in Seq(Lines) /\ Len(more) = N + 1
      /\ more[N + 1] = l /\ \A k \in 1 .. N : more[k] = lines[k]
  BY LenProperties, AppendProperties
<1>2. PICK sum :
        /\ sum \in [0 .. N -> Nat]
        /\ Bytes(lines) = sum[N]
        /\ sum[0] = 0
        /\ \A n \in 1 .. N : sum[n] = sum[n - 1] + Size[lines[n]]
  BY BytesIs
<1> HIDE DEF more, N
<1>3. PICK new :
        /\ new \in [0 .. N + 1 -> Nat]
        /\ Bytes(more) = new[N + 1]
        /\ new[0] = 0
        /\ \A n \in 1 .. N + 1 : new[n] = new[n - 1] + Size[more[n]]
  <2>1. \E new \in [0 .. Len(more) -> Nat] :
          /\ Bytes(more) = new[Len(more)]
          /\ new[0] = 0
          /\ \A n \in 1 .. Len(more) : new[n] = new[n - 1] + Size[more[n]]
    BY <1>1, BytesIs
  <2>2. QED
    BY <1>1, <2>1
<1>4. \A k \in 0 .. N : sum[k] = new[k]
  <2>1. ASSUME NEW k \in 1 .. N, sum[k - 1] = new[k - 1] PROVE sum[k] = new[k]
    <3>1. k \in 1 .. N + 1 /\ more[k] = lines[k]
      BY <1>1
    <3>2. QED
      BY <1>2, <1>3, <2>1, <3>1
  <2>2. \A k \in 1 .. N : sum[k - 1] = new[k - 1] => sum[k] = new[k]
    BY <2>1
  <2>3. Alike(N, sum, new)
    BY <1>1, <1>2, <1>3, <2>2 DEF Alike
  <2>4. QED
    BY <2>3, SameSteps
<1>5. new[N] = Bytes(lines) /\ Bytes(lines) \in Nat
  BY <1>1, <1>2, <1>4
<1>6. Bytes(more) = Bytes(lines) + Size[l]
  <2>1. N + 1 \in 1 .. N + 1 /\ N + 1 - 1 = N
    BY <1>1
  <2>2. QED
    BY <1>1, <1>3, <1>5, <2>1
<1>7. Bytes(<<>>) = 0
  <2>1. <<>> \in Seq(Lines) /\ Len(<<>>) = 0
    BY EmptySeq
  <2>2. PICK none \in [0 .. Len(<<>>) -> Nat] :
          Bytes(<<>>) = none[Len(<<>>)] /\ none[0] = 0
    BY <2>1, BytesIs
  <2>3. QED
    BY <2>1, <2>2
<1>8. QED
  BY <1>5, <1>6, <1>7 DEF more

LEMMA OwnType ==
    ASSUME NEW lines \in Seq(Lines)
    PROVE  OwnLines(lines) \in Seq(Lines) /\ Bytes(lines) \in Nat
<1>1. Len(lines) \in 0 .. Len(lines)
  BY LenProperties
<1>2. PICK sum \in [0 .. Len(lines) -> Nat] : Bytes(lines) = sum[Len(lines)]
  BY BytesIs
<1>3. OwnLines(lines) \in Seq(Lines)
  BY ThoseType DEF OwnLines
<1>4. QED
  BY <1>1, <1>2, <1>3

-------------------------------------------------------------------------------
\* Pieces of a sequence that grows.
LEMMA PieceStays ==
    ASSUME NEW s \in Seq(Lines), NEW l \in Lines,
           NEW i \in 0 .. Len(s), NEW j \in 0 .. Len(s)
    PROVE  SubSeq(Append(s, l), i + 1, j) = SubSeq(s, i + 1, j)
<1>1. /\ Len(s) \in Nat /\ Append(s, l) \in Seq(Lines)
      /\ Len(Append(s, l)) = Len(s) + 1
      /\ \A k \in 1 .. Len(s) : Append(s, l)[k] = s[k]
  BY LenProperties, AppendProperties
<1>2. \A k \in i + 1 .. j : Append(s, l)[k] = s[k]
  BY <1>1
<1>3. QED
  BY <1>1, <1>2

LEMMA PieceGrows ==
    ASSUME NEW s \in Seq(Lines), s # <<>>, NEW i \in 0 .. Len(s) - 1
    PROVE  /\ Len(s) - 1 \in 0 .. Len(s)
           /\ Append(SubSeq(s, i + 1, Len(s) - 1), s[Len(s)]) = SubSeq(s, i + 1, Len(s))
<1>1. Len(s) \in Nat /\ Len(s) # 0
  BY LenProperties, EmptySeq
<1>2. QED
  BY <1>1

-------------------------------------------------------------------------------
\* The queue and the writer have no FATAL line, and a thread writes no other.
OrdinaryLines ==
    /\ \A i \in 1 .. Len(m_listLinesToWrite) : Ordinary(m_listLinesToWrite[i])
    /\ line \in Lines => Ordinary(line)
    /\ \A c \in Threads :
         /\ thread[c] = "push" => Ordinary(arg[c])
         /\ thread[c] \in {"fatal", "create", "write", "crash"} => ~Ordinary(arg[c])

\* The line that is about to go to the file is the last one on the console.
LastPrinted ==
    writer = "file" => printed # <<>> /\ printed[Len(printed)] = line

\* The writer may write to the file without looking at its size again.
Writing == {"lock", "tested", "wait", "print", "file"}

\* How the lines of the writer in the open file relate to what it believes to be
\* the size, which a FATAL line may only leave too big.
OpenFileBound ==
    m_hLogFile # NoFile =>
      /\ writer # "create" =>
           Bytes(OwnLines(disk[m_hLogFile])) <= m_nCurrentWrittenSize
      /\ m_strFileName /\ writer \in Writing =>
           Bytes(OwnLines(disk[m_hLogFile])) < RollSize

\* How many lines of the console the open file has seen.
Reached == IF writer = "file" THEN Len(printed) - 1 ELSE Len(printed)

\* The lines of the writer in the open file are those that it printed last, until
\* a write fails; before the first one of a session there are none.
OpenFileFollows ==
    m_hLogFile # NoFile /\ OwnLines(disk[m_hLogFile]) # <<>> =>
      /\ m_strFileName /\ main # "down"
      /\ writer # "failed" =>
           \E i \in 0 .. Len(printed) :
             OwnLines(disk[m_hLogFile]) = SubSeq(printed, i + 1, Reached)

\* RollBound and FilesFollowConsole for one file.
BoundedFile(lines) ==
    OwnLines(lines) # <<>> =>
      Bytes(OwnLines(lines))
        < RollSize + Size[OwnLines(lines)[Len(OwnLines(lines))]]

FollowingFile(lines) ==
    \E i, j \in 0 .. Len(printed) : OwnLines(lines) = SubSeq(printed, i + 1, j)

FilesInv ==
    /\ OpenFileBound /\ OpenFileFollows
    /\ \A s \in DOMAIN disk : BoundedFile(disk[s]) /\ FollowingFile(disk[s])

LEMMA FilesAsStated ==
    ASSUME FilesInv
    PROVE  RollBound /\ FilesFollowConsole
<1>1. RollBound
  BY DEF FilesInv, BoundedFile, RollBound
<1>2. FilesFollowConsole
  BY DEF FilesInv, FollowingFile, FilesFollowConsole
<1>3. QED
  BY <1>1, <1>2

LEMMA OrdinaryStep == TypeOK /\ OrdinaryLines /\ [Next]_vars => OrdinaryLines'
<1> SUFFICES ASSUME TypeOK, OrdinaryLines, [Next]_vars PROVE OrdinaryLines'
  OBVIOUS
<1>0. /\ thread \in [Threads -> {"idle", "push", "fatal", "create", "write",
                                 "crash"}]
      /\ arg \in [Threads -> Lines \cup {NoLine}]
      /\ m_listLinesToWrite \in Seq(Lines)
      /\ NoLine \notin Lines
      /\ \A c \in Threads : arg[c] \in Lines <=> thread[c] # "idle"
  BY LogAssumption DEF TypeOK
<1>1. ASSUME UNCHANGED <<m_listLinesToWrite, thread, arg>>, line' \in {line, NoLine}
      PROVE  OrdinaryLines'
  BY <1>0, <1>1 DEF OrdinaryLines, Ordinary
<1>2. CASE Main \/ spuriousWake \/ Tick \/ UNCHANGED vars
  <2>1. UNCHANGED <<m_listLinesToWrite, thread, arg, line>>
    BY <1>2 DEF Main, StartLog, uninit, uninitNotify, uninitJoin, spuriousWake,
                Tick, vars, queue, callers, output
  <2>2. QED
    BY <1>1, <2>1
<1>3. CASE \/ writerStart \/ writerRoll \/ writerCreate \/ writerTest
           \/ writerWait \/ writerPrint \/ writerWrite
  <2>1. UNCHANGED <<m_listLinesToWrite, thread, arg>> /\ line' \in {line, NoLine}
    BY <1>3 DEF writerStart, writerRoll, writerCreate, writerTest, writerWait,
                writerPrint, writerWrite, queue, callers
  <2>2. QED
    BY <1>1, <2>1
<1>4. CASE writerTake
  <2>1. /\ m_listLinesToWrite # <<>> /\ line' = Head(m_listLinesToWrite)
        /\ m_listLinesToWrite' = Tail(m_listLinesToWrite)
        /\ UNCHANGED <<thread, arg>>
    BY <1>4 DEF writerTake, callers
  <2>2. /\ Head(m_listLinesToWrite) = m_listLinesToWrite[1]
        /\ 1 \in 1 .. Len(m_listLinesToWrite)
        /\ Len(m_listLinesToWrite) \in Nat
        /\ Len(Tail(m_listLinesToWrite)) = Len(m_listLinesToWrite) - 1
        /\ \A i \in 1 .. Len(Tail(m_listLinesToWrite)) :
             Tail(m_listLinesToWrite)[i] = m_listLinesToWrite[i + 1]
    BY <1>0, <2>1, HeadTailProperties, EmptySeq, LenProperties
  <2>3. ASSUME NEW i \in 1 .. Len(Tail(m_listLinesToWrite))
        PROVE  Ordinary(Tail(m_listLinesToWrite)[i])
    <3>1. i + 1 \in 1 .. Len(m_listLinesToWrite)
      BY <2>2
    <3>2. Ordinary(m_listLinesToWrite[i + 1])
      BY <3>1 DEF OrdinaryLines
    <3>3. QED
      BY <2>2, <3>2
  <2>4. Ordinary(line')
    BY <2>1, <2>2 DEF OrdinaryLines
  <2>5. QED
    BY <2>1, <2>3, <2>4 DEF OrdinaryLines, Ordinary
<1>5. ASSUME NEW c \in Threads, outputPush(c) PROVE OrdinaryLines'
  <2>1. /\ thread[c] = "push" /\ arg[c] \in Lines /\ Ordinary(arg[c])
        /\ m_listLinesToWrite' = Append(m_listLinesToWrite, arg[c])
        /\ thread' = [thread EXCEPT ![c] = "idle"]
        /\ arg' = [arg EXCEPT ![c] = NoLine]
        /\ line' = line
    BY <1>0, <1>5 DEF outputPush, OrdinaryLines
  <2>2. /\ Len(m_listLinesToWrite) \in Nat
        /\ Len(m_listLinesToWrite') = Len(m_listLinesToWrite) + 1
        /\ \A i \in 1 .. Len(m_listLinesToWrite) :
             m_listLinesToWrite'[i] = m_listLinesToWrite[i]
        /\ m_listLinesToWrite'[Len(m_listLinesToWrite) + 1] = arg[c]
    BY <1>0, <2>1, LenProperties, AppendProperties
  <2>3. ASSUME NEW i \in 1 .. Len(m_listLinesToWrite')
        PROVE  Ordinary(m_listLinesToWrite'[i])
    <3>1. CASE i = Len(m_listLinesToWrite) + 1
      BY <2>1, <2>2, <3>1
    <3>2. CASE i # Len(m_listLinesToWrite) + 1
      <4>1. i \in 1 .. Len(m_listLinesToWrite)
        BY <2>2, <3>2
      <4>2. QED
        BY <2>2, <4>1 DEF OrdinaryLines
    <3>3. QED
      BY <3>1, <3>2
  <2>4. ASSUME NEW d \in Threads
        PROVE  /\ thread'[d] = "push" => Ordinary(arg'[d])
               /\ thread'[d] \in {"fatal", "create", "write", "crash"} =>
                    ~Ordinary(arg'[d])
    BY <1>0, <2>1 DEF OrdinaryLines
  <2>5. QED
    BY <2>1, <2>3, <2>4 DEF OrdinaryLines, Ordinary
<1>6. ASSUME NEW c \in Threads, NEW l \in Lines, outputFilter(c, l)
      PROVE  OrdinaryLines'
  <2>1. m_listLinesToWrite' = m_listLinesToWrite /\ line' = line
    BY <1>6 DEF outputFilter, queue, output
  <2>2. CASE UNCHANGED <<thread, arg>>
    BY <1>1, <2>1, <2>2
  <2>3. CASE /\ thread' = [thread EXCEPT ![c] =
                             IF Level[l] = FATAL THEN "fatal" ELSE "push"]
             /\ arg' = [arg EXCEPT ![c] = l]
    <3>1. ASSUME NEW d \in Threads
          PROVE  /\ thread'[d] = "push" => Ordinary(arg'[d])
                 /\ thread'[d] \in {"fatal", "create", "write", "crash"} =>
                      ~Ordinary(arg'[d])
      <4>1. CASE d = c
        BY <1>0, <2>3, <4>1 DEF Ordinary
      <4>2. CASE d # c
        BY <1>0, <2>3, <4>2 DEF OrdinaryLines
      <4>3. QED
        BY <4>1, <4>2
    <3>2. QED
      BY <2>1, <3>1 DEF OrdinaryLines, Ordinary
  <2>4. QED
    BY <1>6, <2>2, <2>3 DEF outputFilter
<1>7. ASSUME NEW c \in Threads,
             fatalCheck(c) \/ fatalCreate(c) \/ fatalWrite(c) \/ crash(c)
      PROVE  OrdinaryLines'
  <2>1. m_listLinesToWrite' = m_listLinesToWrite /\ line' = line
    BY <1>7 DEF fatalCheck, fatalCreate, fatalWrite, crash, queue, output
  <2>2. \/ UNCHANGED <<thread, arg>>
        \/ /\ thread[c] \in {"fatal", "create", "write"}
           /\ \E label \in {"crash", "create", "write", "idle"} :
                thread' = [thread EXCEPT ![c] = label]
           /\ arg' = arg \/ arg' = [arg EXCEPT ![c] = arg[c]]
              \/ (thread'[c] = "idle" /\ arg' = [arg EXCEPT ![c] = NoLine])
    <3>1. CASE fatalCheck(c)
      BY <3>1 DEF fatalCheck
    <3>2. CASE fatalCreate(c)
      <4>1. PICK ok \in BOOLEAN :
              /\ thread' = [thread EXCEPT ![c] = IF ok THEN "write" ELSE "idle"]
              /\ arg' = [arg EXCEPT ![c] = IF ok THEN @ ELSE NoLine]
        BY <3>2 DEF fatalCreate
      <4>2. thread[c] = "create"
        BY <3>2 DEF fatalCreate
      <4>3. CASE ok
        BY <4>1, <4>2, <4>3
      <4>4. CASE ~ok
        BY <1>0, <4>1, <4>2, <4>4
      <4>5. QED
        BY <4>3, <4>4
    <3>3. CASE fatalWrite(c)
      BY <3>3 DEF fatalWrite
    <3>4. CASE crash(c)
      BY <3>4 DEF crash, callers
    <3>5. QED
      BY <1>7, <3>1, <3>2, <3>3, <3>4
  <2>3. CASE UNCHANGED <<thread, arg>>
    BY <1>1, <2>1, <2>3
  <2>4. CASE /\ thread[c] \in {"fatal", "create", "write"}
             /\ \E label \in {"crash", "create", "write", "idle"} :
                  thread' = [thread EXCEPT ![c] = label]
             /\ arg' = arg \/ arg' = [arg EXCEPT ![c] = arg[c]]
                \/ (thread'[c] = "idle" /\ arg' = [arg EXCEPT ![c] = NoLine])
    <3>1. ASSUME NEW d \in Threads
          PROVE  /\ thread'[d] = "push" => Ordinary(arg'[d])
                 /\ thread'[d] \in {"fatal", "create", "write", "crash"} =>
                      ~Ordinary(arg'[d])
      <4>1. CASE d = c
        BY <1>0, <2>4, <4>1 DEF OrdinaryLines
      <4>2. CASE d # c
        BY <1>0, <2>4, <4>2 DEF OrdinaryLines
      <4>3. QED
        BY <4>1, <4>2
    <3>2. QED
      BY <2>1, <3>1 DEF OrdinaryLines, Ordinary
  <2>5. QED
    BY <2>2, <2>3, <2>4
<1>8. ASSUME NEW n \in LevelArgs, setLevel(n) PROVE OrdinaryLines'
  <2>1. UNCHANGED <<m_listLinesToWrite, thread, arg, line>>
    BY <1>8 DEF setLevel, queue, callers, output
  <2>2. QED
    BY <1>1, <2>1
<1>9. QED
  BY <1>2, <1>3, <1>4, <1>5, <1>6, <1>7, <1>8 DEF Next, Call, Writer, Rest

LEMMA LastPrintedStep == TypeOK /\ LastPrinted /\ [Next]_vars => LastPrinted'
<1> SUFFICES ASSUME TypeOK, LastPrinted, [Next]_vars PROVE LastPrinted'
  OBVIOUS
<1>1. CASE writerPrint
  <2>1. printed \in Seq(Lines) /\ line \in Lines /\ printed' = Append(printed, line)
        /\ line' = line
    BY <1>1 DEF writerPrint, TypeOK
  <2>2. /\ Append(printed, line) # <<>>
        /\ Append(printed, line)[Len(Append(printed, line))] = line
    BY <2>1, AppendProperties
  <2>3. QED
    BY <2>1, <2>2 DEF LastPrinted
<1>2. CASE ~writerPrint
  <2>1. writer' = "file" => writer = "file" /\ UNCHANGED <<printed, line>>
    <3>1. CASE Main
      BY <3>1 DEF Main, StartLog, uninit, uninitNotify, uninitJoin, output
    <3>2. CASE Writer \/ spuriousWake
      BY <1>2, <3>2 DEF Writer, writerStart, writerRoll, writerCreate, writerTake,
                  writerTest, writerWait, writerWrite, spuriousWake
    <3>3. CASE \E c \in Threads : Call(c)
      BY <3>3 DEF Call, outputFilter, outputPush, fatalCheck, fatalCreate,
                  fatalWrite, crash, output
    <3>4. CASE Tick \/ UNCHANGED vars \/ \E n \in LevelArgs : setLevel(n)
      BY <3>4 DEF Tick, setLevel, vars, output
    <3>5. QED
      BY <3>1, <3>2, <3>3, <3>4 DEF Next, Rest
  <2>2. QED
    BY <2>1 DEF LastPrinted
<1>3. QED
  BY <1>1, <1>2

-------------------------------------------------------------------------------
\* A step that neither opens nor closes a file nor adds a line of the writer.
LEMMA FilesFrame ==
    ASSUME TypeOK, FilesInv, DOMAIN disk' = DOMAIN disk,
           \A s \in DOMAIN disk : OwnLines(disk'[s]) = OwnLines(disk[s]),
           UNCHANGED <<m_hLogFile, m_nCurrentWrittenSize, m_strFileName, printed>>,
           writer = "create" => writer' = "create",
           m_strFileName /\ writer' \in Writing => writer \in Writing,
           main' = "down" => main = "down",
           writer = "failed" => writer' = "failed",
           writer' # "failed" => (writer' = "file" <=> writer = "file")
    PROVE  FilesInv'
<1> USE DEF FilesInv
<1>1. m_hLogFile # NoFile => m_hLogFile \in DOMAIN disk
                             /\ OwnLines(disk'[m_hLogFile]) = OwnLines(disk[m_hLogFile])
  BY DEF TypeOK
<1>2. OpenFileBound'
  BY <1>1 DEF OpenFileBound, Writing
<1>3. OpenFileFollows'
  <2> SUFFICES ASSUME m_hLogFile # NoFile, OwnLines(disk[m_hLogFile]) # <<>>
               PROVE  /\ m_strFileName /\ main' # "down"
                      /\ writer' # "failed" =>
                           \E i \in 0 .. Len(printed) :
                             OwnLines(disk[m_hLogFile]) = SubSeq(printed, i + 1, Reached')
    BY <1>1 DEF OpenFileFollows
  <2>1. m_strFileName /\ main # "down"
    BY DEF OpenFileFollows
  <2>2. ASSUME writer' # "failed"
        PROVE  \E i \in 0 .. Len(printed) :
                 OwnLines(disk[m_hLogFile]) = SubSeq(printed, i + 1, Reached')
    <3>1. Reached' = Reached /\ writer # "failed"
      BY <2>2 DEF Reached
    <3>2. QED
      BY <3>1 DEF OpenFileFollows
  <2>3. QED
    BY <2>1, <2>2
<1>4. \A s \in DOMAIN disk' : (BoundedFile(disk[s]) /\ FollowingFile(disk[s]))'
  BY DEF BoundedFile, FollowingFile
<1>5. QED
  BY <1>2, <1>3, <1>4

\* A new file is empty, and without a file there is nothing to say.
LEMMA CreateKeepsInv ==
    ASSUME TypeOK, FilesInv, second' = second, printed' = printed,
           NEW ok \in BOOLEAN, createNewFile(ok), m_nCurrentWrittenSize' \in Nat
    PROVE  FilesInv'
<1>1. NoFile \notin Nat /\ second \in Nat /\ RollSize \in Nat \ {0}
  BY LogAssumption DEF TypeOK, Seconds
<1>2. OwnLines(<<>>) = <<>> /\ Bytes(<<>>) = 0
  <2>1. <<>> \in Seq(Lines) /\ Len(<<>>) = 0
    BY EmptySeq
  <2>2. OwnLines(<<>>) = <<>>
    BY ThoseNone DEF OwnLines
  <2>3. QED
    BY <2>1, <2>2, BytesIs
<1>3. CASE ok
  <2>1. /\ m_hLogFile' = second /\ DOMAIN disk' = DOMAIN disk \cup {second}
        /\ disk'[second] = <<>>
        /\ \A s \in DOMAIN disk : s # second => disk'[s] = disk[s]
    BY <1>3 DEF createNewFile
  <2>2. OpenFileBound' /\ OpenFileFollows'
    BY <1>1, <1>2, <2>1 DEF OpenFileBound, OpenFileFollows
  <2>3. ASSUME NEW s \in DOMAIN disk'
        PROVE  (BoundedFile(disk[s]) /\ FollowingFile(disk[s]))'
    <3>1. CASE s = second
      <4>1. BoundedFile(disk[s])'
        BY <1>2, <2>1, <3>1 DEF BoundedFile
      <4>2. 0 \in 0 .. Len(printed) /\ SubSeq(printed, 0 + 1, 0) = <<>>
        BY LenProperties DEF TypeOK
      <4>3. FollowingFile(disk[s])'
        BY <1>2, <2>1, <3>1, <4>2 DEF FollowingFile
      <4>4. QED
        BY <4>1, <4>3
    <3>2. CASE s # second
      <4>1. s \in DOMAIN disk /\ disk'[s] = disk[s]
        BY <2>1, <3>2
      <4>2. QED
        BY <4>1 DEF FilesInv, BoundedFile, FollowingFile
    <3>3. QED
      BY <3>1, <3>2
  <2>4. QED
    BY <2>2, <2>3 DEF FilesInv
<1>4. CASE ~ok
  <2>1. m_hLogFile' = NoFile /\ disk' = disk
    BY <1>4 DEF createNewFile
  <2>2. QED
    BY <2>1 DEF FilesInv, OpenFileBound, OpenFileFollows, BoundedFile, FollowingFile
<1>5. QED
  BY <1>3, <1>4

\* A FATAL line, which the writer does not count.
LEMMA FatalKeepsInv ==
    ASSUME TypeOK, FilesInv, NEW c \in Threads, fatalWrite(c),
           arg[c] \in Lines, ~Ordinary(arg[c])
    PROVE  FilesInv'
<1>1. PICK ok \in BOOLEAN : writeToFile(arg[c], ok)
  BY DEF fatalWrite
<1>2. /\ DOMAIN disk' = DOMAIN disk /\ m_hLogFile' = m_hLogFile
      /\ \A s \in DOMAIN disk :
           disk'[s] = disk[s] \/ disk'[s] = Append(disk[s], arg[c])
  BY <1>1 DEF writeToFile
<1>3. ASSUME NEW s \in DOMAIN disk PROVE OwnLines(disk'[s]) = OwnLines(disk[s])
  <2>1. disk[s] \in Seq(Lines)
    BY DEF TypeOK
  <2>2. OwnLines(Append(disk[s], arg[c])) = OwnLines(disk[s])
    BY <2>1, OwnLinesGrow
  <2>3. QED
    BY <1>2, <2>2
<1>4. UNCHANGED <<m_hLogFile, m_nCurrentWrittenSize, m_strFileName, printed,
                  writer, main>>
  BY <1>2 DEF fatalWrite, config, control, output
<1>5. QED
  BY <1>2, <1>3, <1>4, FilesFrame

LEMMA RollKeepsInv ==
    ASSUME TypeOK, FilesInv, writerRoll
    PROVE  FilesInv'
<1>1. UNCHANGED <<m_hLogFile, disk, m_strFileName, printed, main>> /\ writer = "roll"
  BY DEF writerRoll, config, control
<1>2. OpenFileBound'
  <2>1. CASE m_strFileName /\ NeedsFile /\ writer' = "create"
    BY <1>1, <2>1 DEF OpenFileBound, Writing
  <2>2. CASE /\ ~m_strFileName \/ ~NeedsFile
             /\ writer' = "lock" /\ UNCHANGED m_nCurrentWrittenSize
    <3>1. m_strFileName /\ m_hLogFile # NoFile => m_nCurrentWrittenSize < RollSize
      BY <2>2, LogAssumption DEF NeedsFile, TypeOK
    <3>2. m_hLogFile # NoFile =>
            /\ disk[m_hLogFile] \in Seq(Lines)
            /\ Bytes(OwnLines(disk[m_hLogFile])) <= m_nCurrentWrittenSize
      BY <1>1 DEF FilesInv, OpenFileBound, TypeOK
    <3>3. m_hLogFile # NoFile => Bytes(OwnLines(disk[m_hLogFile])) \in Nat
      <4> SUFFICES ASSUME m_hLogFile # NoFile
                   PROVE  Bytes(OwnLines(disk[m_hLogFile])) \in Nat
        OBVIOUS
      <4>1. OwnLines(disk[m_hLogFile]) \in Seq(Lines)
        BY <3>2, OwnType
      <4>2. QED
        BY <4>1, OwnType
    <3>4. QED
      BY <1>1, <2>2, <3>1, <3>2, <3>3, LogAssumption DEF OpenFileBound, TypeOK
  <2>3. QED
    BY <2>1, <2>2 DEF writerRoll
<1>3. OpenFileFollows'
  <2>1. writer' # "file" /\ Reached' = Reached
    BY <1>1 DEF writerRoll, Reached
  <2>2. QED
    BY <1>1, <2>1 DEF FilesInv, OpenFileFollows
<1>4. QED
  BY <1>1, <1>2, <1>3 DEF FilesInv, BoundedFile, FollowingFile

LEMMA PrintKeepsInv ==
    ASSUME TypeOK, FilesInv, writerPrint
    PROVE  FilesInv'
<1>1. /\ UNCHANGED <<m_hLogFile, disk, m_nCurrentWrittenSize, m_strFileName, main>>
      /\ writer = "print" /\ writer' = "file"
      /\ printed' = Append(printed, line)
      /\ printed \in Seq(Lines) /\ line \in Lines
  BY DEF writerPrint, config, control, file, TypeOK
<1>2. /\ Len(printed) \in Nat /\ Len(printed') = Len(printed) + 1
      /\ Reached = Len(printed) /\ Reached' = Len(printed)
  BY <1>1, LenProperties, AppendProperties DEF Reached
<1>3. OpenFileBound'
  BY <1>1 DEF FilesInv, OpenFileBound, Writing
<1>4. OpenFileFollows'
  <2> SUFFICES ASSUME m_hLogFile # NoFile, OwnLines(disk[m_hLogFile]) # <<>>
               PROVE  /\ m_strFileName /\ main # "down"
                      /\ \E i \in 0 .. Len(printed') :
                           OwnLines(disk[m_hLogFile])
                             = SubSeq(printed', i + 1, Reached')
    BY <1>1 DEF OpenFileFollows
  <2>1. m_strFileName /\ main # "down"
    BY DEF FilesInv, OpenFileFollows
  <2>2. PICK i \in 0 .. Len(printed) :
          OwnLines(disk[m_hLogFile]) = SubSeq(printed, i + 1, Reached)
    BY <1>1 DEF FilesInv, OpenFileFollows
  <2>3. Len(printed) \in 0 .. Len(printed)
    BY <1>2
  <2>4. SubSeq(Append(printed, line), i + 1, Len(printed))
          = SubSeq(printed, i + 1, Len(printed))
    BY <1>1, <2>3, PieceStays
  <2>5. i \in 0 .. Len(printed')
    BY <1>2
  <2>6. QED
    BY <1>1, <1>2, <2>1, <2>2, <2>4, <2>5
<1>5. ASSUME NEW s \in DOMAIN disk
      PROVE  (BoundedFile(disk[s]) /\ FollowingFile(disk[s]))'
  <2>1. PICK i \in 0 .. Len(printed), j \in 0 .. Len(printed) :
          OwnLines(disk[s]) = SubSeq(printed, i + 1, j)
    BY DEF FilesInv, FollowingFile
  <2>2. SubSeq(Append(printed, line), i + 1, j) = SubSeq(printed, i + 1, j)
    BY <1>1, PieceStays
  <2>3. i \in 0 .. Len(printed') /\ j \in 0 .. Len(printed')
    BY <1>2
  <2>4. FollowingFile(disk[s])'
    BY <1>1, <2>1, <2>2, <2>3 DEF FollowingFile
  <2>5. BoundedFile(disk[s])'
    BY <1>1 DEF FilesInv, BoundedFile
  <2>6. QED
    BY <2>4, <2>5
<1>6. QED
  BY <1>1, <1>3, <1>4, <1>5 DEF FilesInv

LEMMA WriteKeepsInv ==
    ASSUME TypeOK, Joined, OrdinaryLines, LastPrinted, FilesInv, writerWrite
    PROVE  FilesInv'
<1>1. /\ writer = "file" /\ line \in Lines /\ Ordinary(line) /\ main' = main
      /\ UNCHANGED <<m_strFileName, printed>>
      /\ main # "down" /\ writer' \in {"roll", "failed"}
  BY DEF writerWrite, config, control, TypeOK, Joined, OrdinaryLines
<1>2. CASE ~m_strFileName
  <2>1. UNCHANGED <<m_hLogFile, disk, m_nCurrentWrittenSize>>
    BY <1>2 DEF writerWrite, file
  <2>2. OpenFileBound'
    BY <1>1, <1>2, <2>1 DEF FilesInv, OpenFileBound
  <2>3. OpenFileFollows'
    BY <1>1, <1>2, <2>1 DEF FilesInv, OpenFileFollows
  <2>4. QED
    BY <1>1, <2>1, <2>2, <2>3 DEF FilesInv, BoundedFile, FollowingFile
<1>3. CASE m_strFileName
  <2>1. PICK ok \in BOOLEAN :
          /\ writeToFile(line, ok)
          /\ writer' = IF ok THEN "roll" ELSE "failed"
          /\ m_nCurrentWrittenSize' =
               m_nCurrentWrittenSize + IF ok THEN Size[line] ELSE 0
    BY <1>3 DEF writerWrite
  <2>2. m_hLogFile' = m_hLogFile /\ m_nCurrentWrittenSize \in Nat /\ Size[line] \in Nat
    BY <1>1, <2>1, LogAssumption DEF writeToFile, TypeOK
  <2>3. CASE m_hLogFile = NoFile
    <3>1. disk' = disk
      BY <2>1, <2>3 DEF writeToFile
    <3>2. QED
      BY <1>1, <2>2, <2>3, <3>1
         DEF FilesInv, OpenFileBound, OpenFileFollows, BoundedFile, FollowingFile
  <2>4. CASE m_hLogFile # NoFile /\ ~ok
    <3>1. disk' = disk /\ writer' = "failed" /\ m_nCurrentWrittenSize' = m_nCurrentWrittenSize
      BY <2>1, <2>2, <2>4 DEF writeToFile
    <3>2. OpenFileBound'
      BY <1>1, <2>2, <3>1 DEF FilesInv, OpenFileBound, Writing
    <3>3. OpenFileFollows'
      BY <1>1, <1>3, <2>2, <3>1 DEF OpenFileFollows
    <3>4. QED
      BY <1>1, <3>1, <3>2, <3>3 DEF FilesInv, BoundedFile, FollowingFile
  <2>5. CASE m_hLogFile # NoFile /\ ok
    <3> DEFINE own == OwnLines(disk[m_hLogFile])
    <3>1. /\ m_hLogFile \in DOMAIN disk /\ disk[m_hLogFile] \in Seq(Lines)
          /\ DOMAIN disk' = DOMAIN disk
          /\ disk'[m_hLogFile] = Append(disk[m_hLogFile], line)
          /\ \A s \in DOMAIN disk : s # m_hLogFile => disk'[s] = disk[s]
      BY <2>1, <2>5 DEF writeToFile, TypeOK
    <3>2. /\ OwnLines(disk'[m_hLogFile]) = Append(own, line) /\ own \in Seq(Lines)
      BY <1>1, <3>1, OwnLinesGrow, OwnType
    <3> HIDE DEF own
    <3>3. /\ Bytes(Append(own, line)) = Bytes(own) + Size[line] /\ Bytes(own) \in Nat
          /\ Append(own, line) # <<>>
          /\ Append(own, line)[Len(Append(own, line))] = line
      BY <1>1, <3>2, BytesGrow, OwnType, AppendProperties
    <3>4. Bytes(own) <= m_nCurrentWrittenSize /\ Bytes(own) < RollSize
      BY <1>1, <1>3, <2>5 DEF own, FilesInv, OpenFileBound, Writing
    <3>5. PICK i \in 0 .. Len(printed) :
            Append(own, line) = SubSeq(printed, i + 1, Len(printed))
      <4>1. /\ printed \in Seq(Lines) /\ printed # <<>>
            /\ Len(printed) \in Nat /\ printed[Len(printed)] = line
        BY <1>1, LenProperties DEF TypeOK, LastPrinted
      <4>2. CASE own = <<>>
        <5>1. /\ Len(printed) - 1 \in 0 .. Len(printed) - 1
              /\ Len(printed) - 1 \in 0 .. Len(printed)
          BY <4>1, EmptySeq
        <5>2. SubSeq(printed, Len(printed) - 1 + 1, Len(printed) - 1) = <<>>
          BY <4>1
        <5>3. Append(SubSeq(printed, Len(printed) - 1 + 1, Len(printed) - 1), line)
                = SubSeq(printed, Len(printed) - 1 + 1, Len(printed))
          BY <4>1, <5>1, PieceGrows
        <5>4. QED
          BY <4>2, <5>1, <5>2, <5>3
      <4>3. CASE own # <<>>
        <5>1. PICK i \in 0 .. Len(printed) :
                own = SubSeq(printed, i + 1, Len(printed) - 1)
          BY <1>1, <2>5, <4>3 DEF own, FilesInv, OpenFileFollows, Reached
        <5>2. i \in 0 .. Len(printed) - 1
          <6>1. ~(Len(printed) - 1 < i + 1)
            BY <4>1, <4>3, <5>1
          <6>2. QED
            BY <4>1, <6>1
        <5>3. Append(SubSeq(printed, i + 1, Len(printed) - 1), line)
                = SubSeq(printed, i + 1, Len(printed))
          BY <4>1, <5>2, PieceGrows
        <5>4. QED
          BY <5>1, <5>3
      <4>4. QED
        BY <4>2, <4>3
    <3>6. writer' = "roll" /\ m_nCurrentWrittenSize' = m_nCurrentWrittenSize + Size[line]
      BY <2>1, <2>5
    <3>7. OpenFileBound'
      <4>1. Bytes(OwnLines(disk'[m_hLogFile])) <= m_nCurrentWrittenSize'
        BY <2>2, <3>2, <3>3, <3>4, <3>6
      <4>2. QED
        BY <2>2, <3>6, <4>1 DEF OpenFileBound, Writing
    <3>8. OpenFileFollows'
      <4>1. Reached' = Len(printed)
        BY <1>1, <3>6 DEF Reached
      <4>2. QED
        BY <1>1, <1>3, <2>2, <3>2, <3>5, <4>1 DEF OpenFileFollows
    <3>9. ASSUME NEW s \in DOMAIN disk'
          PROVE  (BoundedFile(disk[s]) /\ FollowingFile(disk[s]))'
      <4>1. CASE s = m_hLogFile
        <5>1. BoundedFile(disk[s])'
          <6>1. RollSize \in Nat
            BY LogAssumption
          <6>2. Bytes(Append(own, line)) < RollSize + Size[line]
            BY <2>2, <3>3, <3>4, <6>1
          <6>3. OwnLines(disk'[s]) = Append(own, line)
            BY <3>2, <4>1
          <6>4. QED
            BY <3>3, <6>2, <6>3 DEF BoundedFile
        <5>2. Len(printed) \in 0 .. Len(printed)
          BY LenProperties DEF TypeOK
        <5>3. FollowingFile(disk[s])'
          BY <1>1, <3>2, <3>5, <4>1, <5>2 DEF FollowingFile
        <5>4. QED
          BY <5>1, <5>3
      <4>2. CASE s # m_hLogFile
        <5>1. s \in DOMAIN disk /\ disk'[s] = disk[s]
          BY <3>1, <4>2
        <5>2. QED
          BY <1>1, <5>1 DEF FilesInv, BoundedFile, FollowingFile
      <4>3. QED
        BY <4>1, <4>2
    <3>10. QED
      BY <3>7, <3>8, <3>9 DEF FilesInv
  <2>6. QED
    BY <2>3, <2>4, <2>5
<1>4. QED
  BY <1>2, <1>3

LEMMA FilesStep ==
    ASSUME TypeOK, Joined, OrdinaryLines, LastPrinted, FilesInv, [Next]_vars
    PROVE  FilesInv'
<1>1. ASSUME UNCHANGED <<file, m_strFileName, printed>>,
             writer = "create" => writer' = "create",
             m_strFileName /\ writer' \in Writing => writer \in Writing,
             main' = "down" => main = "down",
             writer = "failed" => writer' = "failed",
             writer' # "failed" => (writer' = "file" <=> writer = "file")
      PROVE  FilesInv'
  <2>1. UNCHANGED <<m_hLogFile, m_nCurrentWrittenSize, disk>>
    BY <1>1 DEF file
  <2>2. /\ DOMAIN disk' = DOMAIN disk
        /\ \A s \in DOMAIN disk : OwnLines(disk'[s]) = OwnLines(disk[s])
    BY <2>1
  <2>3. UNCHANGED <<m_hLogFile, m_nCurrentWrittenSize, m_strFileName, printed>>
    BY <1>1, <2>1
  <2>4. QED
    BY <1>1, <2>2, <2>3, FilesFrame
<1>2. CASE StartLog
  <2>1. /\ main = "down" /\ writer \in {"off", "stopped", "failed"}
        /\ writer' = "start" /\ main' = "up"
        /\ UNCHANGED <<m_hLogFile, m_nCurrentWrittenSize, disk, printed>>
    BY <1>2 DEF StartLog, Joined, file
  <2>2. m_hLogFile # NoFile => OwnLines(disk[m_hLogFile]) = <<>>
    BY <2>1 DEF FilesInv, OpenFileFollows
  <2>3. OpenFileBound' /\ OpenFileFollows'
    BY <2>1, <2>2 DEF FilesInv, OpenFileBound, OpenFileFollows, Writing
  <2>4. QED
    BY <2>1, <2>3 DEF FilesInv, BoundedFile, FollowingFile
<1>3. CASE uninitJoin
  <2>1. m_hLogFile' = NoFile /\ UNCHANGED <<disk, printed>>
    BY <1>3 DEF uninitJoin, output
  <2>2. QED
    BY <2>1 DEF FilesInv, OpenFileBound, OpenFileFollows, BoundedFile, FollowingFile
<1>4. CASE uninit \/ uninitNotify
  <2>1. /\ UNCHANGED <<file, m_strFileName, printed>> /\ main' # "down"
        /\ writer' = IF uninitNotify /\ writer = "wait" THEN "lock" ELSE writer
    BY <1>4 DEF uninit, uninitNotify, config, output
  <2>2. QED
    BY <1>1, <2>1 DEF Writing
<1>5. CASE \/ writerStart \/ writerTake \/ writerTest \/ writerWait \/ spuriousWake
  <2>1. /\ UNCHANGED <<file, m_strFileName, printed, main>>
        /\ writer \in {"start", "lock", "tested", "wait"}
        /\ writer' \notin {"file", "failed"}
        /\ writer' \in Writing => writer \in Writing
    <3>1. CASE writerStart
      BY <3>1 DEF writerStart, config, control, Writing
    <3>2. CASE writerTake
      BY <3>2 DEF writerTake, config, control, Writing
    <3>3. CASE writerTest
      BY <3>3 DEF writerTest, config, control, Writing
    <3>4. CASE writerWait \/ spuriousWake
      BY <3>4 DEF writerWait, spuriousWake, config, control, Writing
    <3>5. QED
      BY <1>5, <3>1, <3>2, <3>3, <3>4
  <2>2. QED
    BY <1>1, <2>1
<1>6. CASE writerRoll
  BY <1>6, RollKeepsInv
<1>7. CASE writerCreate
  <2>1. /\ \E ok \in BOOLEAN : createNewFile(ok)
        /\ m_nCurrentWrittenSize' \in Nat /\ second' = second /\ printed' = printed
    BY <1>7 DEF writerCreate, world, TypeOK
  <2>2. QED
    BY <2>1, CreateKeepsInv
<1>8. CASE writerPrint
  BY <1>8, PrintKeepsInv
<1>9. CASE writerWrite
  BY <1>9, WriteKeepsInv
<1>10. ASSUME NEW c \in Threads, fatalCreate(c) PROVE FilesInv'
  <2>1. /\ \E ok \in BOOLEAN : createNewFile(ok)
        /\ m_nCurrentWrittenSize' \in Nat /\ second' = second /\ printed' = printed
    BY <1>10 DEF fatalCreate, world, output, TypeOK
  <2>2. QED
    BY <2>1, CreateKeepsInv
<1>11. ASSUME NEW c \in Threads, fatalWrite(c) PROVE FilesInv'
  <2>1. arg[c] \in Lines /\ ~Ordinary(arg[c])
    BY <1>11 DEF fatalWrite, TypeOK, OrdinaryLines
  <2>2. QED
    BY <1>11, <2>1, FatalKeepsInv
<1>12. ASSUME NEW c \in Threads,
              \/ \E l \in Lines : outputFilter(c, l)
              \/ outputPush(c) \/ fatalCheck(c) \/ crash(c)
       PROVE  FilesInv'
  <2>1. /\ UNCHANGED <<file, m_strFileName, printed, main>>
        /\ writer' = writer \/ (writer = "wait" /\ writer' = "lock")
    BY <1>12 DEF outputFilter, outputPush, fatalCheck, crash, config, control, output
  <2>2. QED
    BY <1>1, <2>1 DEF Writing
<1>13. CASE Tick \/ UNCHANGED vars \/ \E n \in LevelArgs : setLevel(n)
  <2>1. UNCHANGED <<file, m_strFileName, printed, main, writer>>
    BY <1>13 DEF Tick, setLevel, vars, config, control, output
  <2>2. QED
    BY <1>1, <2>1
<1>14. QED
  BY <1>2, <1>3, <1>4, <1>5, <1>6, <1>7, <1>8, <1>9, <1>10, <1>11, <1>12, <1>13
     DEF Next, Main, Call, Writer, Rest

\* The invariant that carries the two properties of the files.
LogFilesInv == IInv /\ OrdinaryLines /\ LastPrinted /\ FilesInv

THEOREM LogFilesInvariance == SafeSpec => []LogFilesInv
<1>1. Init => LogFilesInv
  <2> SUFFICES ASSUME Init PROVE LogFilesInv
    OBVIOUS
  <2>1. IInv
    BY InitInv
  <2>2. OrdinaryLines
    <3>1. Len(<<>>) = 0
      BY EmptySeq
    <3>2. QED
      BY <3>1, LogAssumption DEF Init, OrdinaryLines
  <2>3. LastPrinted
    BY DEF Init, LastPrinted
  <2>4. FilesInv
    <3>1. DOMAIN disk = {}
      BY DEF Init
    <3>2. QED
      BY <3>1 DEF Init, FilesInv, OpenFileBound, OpenFileFollows
  <2>5. QED
    BY <2>1, <2>2, <2>3, <2>4 DEF LogFilesInv
<1>2. LogFilesInv /\ [Next]_vars => LogFilesInv'
  <2> SUFFICES ASSUME LogFilesInv, [Next]_vars PROVE LogFilesInv'
    OBVIOUS
  <2>1. TypeOK /\ Joined /\ IInv
    BY DEF LogFilesInv, IInv
  <2>2. IInv'
    BY <2>1, TypeStep, JoinedStep, OrderStep, ExitStep DEF IInv
  <2>3. OrdinaryLines' /\ LastPrinted'
    BY <2>1, OrdinaryStep, LastPrintedStep DEF LogFilesInv
  <2>4. FilesInv'
    BY <2>1, FilesStep DEF LogFilesInv
  <2>5. QED
    BY <2>2, <2>3, <2>4 DEF LogFilesInv
<1>3. QED
  BY <1>1, <1>2, PTL DEF SafeSpec

\* No file holds more than one line beyond the roll size of what the writer put in
\* it, for any roll size and any sizes of lines.
THEOREM LogRollBound == SafeSpec => []RollBound
<1>1. LogFilesInv => RollBound
  BY FilesAsStated DEF LogFilesInv
<1>2. QED
  BY <1>1, LogFilesInvariance, PTL

\* What the writer put in a file is a piece of what it printed, without gaps.
THEOREM LogFilesFollowConsole == SafeSpec => []FilesFollowConsole
<1>1. LogFilesInv => FilesFollowConsole
  BY FilesAsStated DEF LogFilesInv
<1>2. QED
  BY <1>1, LogFilesInvariance, PTL
===============================================================================
