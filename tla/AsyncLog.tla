------------------------------- MODULE AsyncLog -------------------------------
(***************************************************************************)
(* playground::CAsyncLog (async_log.h, async_log.cpp): threads that log, a *)
(* writer thread, a queue under a mutex, and the thread that calls init    *)
(* and uninit.                                                             *)
(*                                                                         *)
(* Only the queue is protected.  uninit sets m_bExit and notifies without  *)
(* the mutex, so the writer's test of m_bExit and its wait are two steps,  *)
(* between which it holds the mutex.  A FATAL line is written by the       *)
(* thread that logs it, which opens m_hLogFile behind the writer's back    *)
(* and then crashes the process.  The text of a line, its prefix and the   *)
(* truncation of long lines only show in its size.                         *)
(***************************************************************************)
EXTENDS Selections, FiniteSets

CONSTANTS
    Threads,      \* the threads that log
    Lines,        \* the calls of output and outputBinary, each of them one line
    Level,        \* the level of each line
    Size,         \* the bytes of each line
    LevelArgs,    \* the arguments that setLevel is called with
    RollSize,     \* the argument nRollSize of init
    MaxSecond,    \* bound: the clock stops there
    MaxSessions,  \* bound: calls of init
    NoLine, NoFile

FATAL    == 6
CRITICAL == 7
BINARY   == 8   \* not a level of the code: the line comes from outputBinary

ASSUME LogAssumption ==
    /\ Level \in [Lines -> 0 .. BINARY]
    /\ LevelArgs \subseteq Nat
    /\ Size \in [Lines -> Nat \ {0}]
    /\ RollSize \in Nat \ {0}
    /\ MaxSecond \in Nat /\ MaxSessions \in Nat
    /\ NoLine \notin Lines /\ NoFile \notin Nat

Seconds == 0 .. MaxSecond

VARIABLES
    m_listLinesToWrite,     \* the queue
    m_nCurrentLevel,
    m_strFileName,          \* TRUE: a file name is set, FALSE: console only
    m_hLogFile,             \* the open file, named by the second it was opened
    m_nCurrentWrittenSize,
    m_bExit, m_bRunning,
    writer,    \* where the writer thread is; "off" when there is none
    line,      \* the line it took from the queue
    thread,    \* where each logging thread is
    arg,       \* the line it logs
    main,      \* the caller of init and uninit: "down", "up", "notify", "join"
    session,   \* how many times init was called
    crashed,   \* the process is gone
    second,    \* the clock that names the files
    disk,      \* the files and the lines in them
    accepted,  \* history: the lines pushed on the queue, in that order
    printed,   \* history: the lines the writer sent to the console
    logged,    \* the lines whose call has begun
    owed       \* history: how many lines were pushed when uninit was called

config  == <<m_nCurrentLevel, m_strFileName>>
flags   == <<m_bExit, m_bRunning>>
control == <<main, session, owed>>
file    == <<m_hLogFile, m_nCurrentWrittenSize, disk>>
queue   == <<m_listLinesToWrite, accepted>>
callers == <<thread, arg, logged>>
output  == <<writer, line, printed>>
world   == <<crashed, second>>
vars    == <<config, flags, control, file, queue, callers, output, world>>

Init ==
    /\ m_listLinesToWrite = <<>> /\ accepted = <<>> /\ printed = <<>>
    /\ m_nCurrentLevel = 2
    /\ m_strFileName = TRUE
    /\ m_hLogFile = NoFile /\ m_nCurrentWrittenSize = 0 /\ disk = <<>>
    /\ m_bExit = FALSE /\ m_bRunning = FALSE
    /\ writer = "off" /\ line = NoLine
    /\ thread = [c \in Threads |-> "idle"] /\ arg = [c \in Threads |-> NoLine]
    /\ main = "down" /\ session = 0
    /\ crashed = FALSE /\ second = 0 /\ logged = {} /\ owed = 0

\* fopen with "w+" under the name of this second: an existing file is emptied.
\* The file it replaces is closed; when fopen fails no file is open.
createNewFile(ok) ==
    IF ok THEN /\ m_hLogFile' = second
               /\ disk' = [s \in DOMAIN disk \cup {second} |->
                             IF s = second THEN <<>> ELSE disk[s]]
          ELSE m_hLogFile' = NoFile /\ UNCHANGED disk

\* The line reaches the open file, or not when fwrite fails.  Without an open
\* file, fwrite is given a null pointer, which ends the process.
writeToFile(l, ok) ==
    /\ crashed' = (m_hLogFile = NoFile)
    /\ IF ok /\ m_hLogFile # NoFile
       THEN disk' = [disk EXCEPT ![m_hLogFile] = Append(@, l)]
       ELSE UNCHANGED disk
    /\ UNCHANGED m_hLogFile

-------------------------------------------------------------------------------
\* init, called again only after uninit has returned, and uninit.
StartLog ==
    /\ ~crashed /\ main = "down" /\ session < MaxSessions
    /\ m_strFileName' \in BOOLEAN
    /\ session' = session + 1
    /\ main' = "up"
    /\ writer' = "start"
    /\ UNCHANGED <<m_nCurrentLevel, flags, owed, file, queue, callers, line,
                   printed, world>>

uninit ==
    /\ ~crashed /\ main = "up"
    /\ m_bExit' = TRUE
    /\ owed' = Len(accepted)
    /\ main' = "notify"
    /\ UNCHANGED <<config, m_bRunning, session, file, queue, callers, output,
                   world>>

uninitNotify ==
    /\ ~crashed /\ main = "notify"
    /\ main' = "join"
    /\ writer' = IF writer = "wait" THEN "lock" ELSE writer
    /\ UNCHANGED <<config, flags, session, owed, file, queue, callers, line,
                   printed, world>>

uninitJoin ==
    /\ ~crashed /\ main = "join"
    /\ writer \in {"stopped", "failed"}
    /\ main' = "down"
    /\ m_hLogFile' = NoFile
    /\ UNCHANGED <<config, flags, session, owed, m_nCurrentWrittenSize, disk,
                   queue, callers, output, world>>

setLevel(n) ==
    /\ ~crashed /\ n \in 0 .. FATAL
    /\ m_nCurrentLevel' = n
    /\ UNCHANGED <<m_strFileName, flags, control, file, queue, callers, output,
                   world>>

-------------------------------------------------------------------------------
\* A thread calls output: the level decides, before the mutex is taken.
outputFilter(c, l) ==
    /\ ~crashed /\ thread[c] = "idle"
    /\ l \notin logged
    /\ logged' = logged \cup {l}
    /\ \/ /\ Level[l] < CRITICAL /\ Level[l] < m_nCurrentLevel
          /\ UNCHANGED <<thread, arg>>
       \/ /\ Level[l] >= CRITICAL \/ Level[l] >= m_nCurrentLevel
          /\ thread' = [thread EXCEPT ![c] =
                          IF Level[l] = FATAL THEN "fatal" ELSE "push"]
          /\ arg' = [arg EXCEPT ![c] = l]
    /\ UNCHANGED <<config, flags, control, file, queue, output, world>>

\* Faulty: the line is pushed without a notification.
pushQuietly(c) ==
    /\ ~crashed /\ thread[c] = "push"
    /\ writer # "tested"
    /\ m_listLinesToWrite' = Append(m_listLinesToWrite, arg[c])
    /\ accepted' = Append(accepted, arg[c])
    /\ thread' = [thread EXCEPT ![c] = "idle"]
    /\ arg' = [arg EXCEPT ![c] = NoLine]
    /\ UNCHANGED <<config, flags, control, file, logged, output, world>>

\* The critical section of output and outputBinary.  While the writer is between
\* its test of m_bExit and its wait, it holds the mutex.
outputPush(c) ==
    /\ ~crashed /\ thread[c] = "push"
    /\ writer # "tested"
    /\ m_listLinesToWrite' = Append(m_listLinesToWrite, arg[c])
    /\ accepted' = Append(accepted, arg[c])
    /\ writer' = IF writer = "wait" THEN "lock" ELSE writer
    /\ thread' = [thread EXCEPT ![c] = "idle"]
    /\ arg' = [arg EXCEPT ![c] = NoLine]
    /\ UNCHANGED <<config, flags, control, file, logged, line, printed, world>>

\* A FATAL line, after it was printed: is there a file?
fatalCheck(c) ==
    /\ ~crashed /\ thread[c] = "fatal"
    /\ thread' = [thread EXCEPT ![c] =
                    IF ~m_strFileName THEN "crash"
                    ELSE IF m_hLogFile = NoFile THEN "create" ELSE "write"]
    /\ UNCHANGED <<config, flags, control, file, queue, arg, logged, output,
                   world>>

\* The file is created; if that fails, output returns and nothing crashes.
fatalCreate(c) ==
    /\ ~crashed /\ thread[c] = "create"
    /\ \E ok \in BOOLEAN :
         /\ createNewFile(ok)
         /\ thread' = [thread EXCEPT ![c] = IF ok THEN "write" ELSE "idle"]
         /\ arg' = [arg EXCEPT ![c] = IF ok THEN @ ELSE NoLine]
    /\ UNCHANGED <<config, flags, control, m_nCurrentWrittenSize, queue,
                   logged, output, world>>

fatalWrite(c) ==
    /\ ~crashed /\ thread[c] = "write"
    /\ \E ok \in BOOLEAN : writeToFile(arg[c], ok)
    /\ thread' = [thread EXCEPT ![c] = "crash"]
    /\ UNCHANGED <<config, flags, control, m_nCurrentWrittenSize, queue, arg,
                   logged, output, second>>

crash(c) ==
    /\ ~crashed /\ thread[c] = "crash"
    /\ crashed' = TRUE
    /\ UNCHANGED <<config, flags, control, file, queue, callers, output,
                   second>>

-------------------------------------------------------------------------------
\* writeThreadProc.
writerStart ==
    /\ ~crashed /\ writer = "start"
    /\ m_bRunning' = TRUE
    /\ writer' = "roll"
    /\ UNCHANGED <<config, m_bExit, control, file, queue, callers, line,
                   printed, world>>

\* Faulty: a file that is exactly full is not rolled.
NeedsFileLate == m_hLogFile = NoFile \/ m_nCurrentWrittenSize > RollSize

\* The top of the loop: is a new file needed?
NeedsFile == m_hLogFile = NoFile \/ m_nCurrentWrittenSize >= RollSize

writerRoll ==
    /\ ~crashed /\ writer = "roll"
    /\ \/ /\ m_strFileName
          /\ NeedsFile
          /\ m_nCurrentWrittenSize' = 0
          /\ writer' = "create"
       \/ /\ ~m_strFileName \/ ~NeedsFile
          /\ writer' = "lock"
          /\ UNCHANGED m_nCurrentWrittenSize
    /\ UNCHANGED <<config, flags, control, m_hLogFile, disk, queue, callers,
                   line, printed, world>>

writerCreate ==
    /\ ~crashed /\ writer = "create"
    /\ \E ok \in BOOLEAN :
         /\ createNewFile(ok)
         /\ writer' = IF ok THEN "lock" ELSE "failed"
    /\ UNCHANGED <<config, flags, control, m_nCurrentWrittenSize, queue,
                   callers, line, printed, world>>

\* Faulty: the newest line is taken first.
writerTakeBack ==
    /\ ~crashed /\ writer = "lock"
    /\ m_listLinesToWrite # <<>>
    /\ LET n == Len(m_listLinesToWrite)
       IN  /\ line' = m_listLinesToWrite[n]
           /\ m_listLinesToWrite' = SubSeq(m_listLinesToWrite, 1, n - 1)
    /\ writer' = "print"
    /\ UNCHANGED <<config, flags, control, file, accepted, callers, printed,
                   world>>

\* Faulty: the line goes to the file alone.
writerTakeSilently ==
    /\ ~crashed /\ writer = "lock"
    /\ m_listLinesToWrite # <<>>
    /\ line' = Head(m_listLinesToWrite)
    /\ m_listLinesToWrite' = Tail(m_listLinesToWrite)
    /\ writer' = "file"
    /\ UNCHANGED <<config, flags, control, file, accepted, callers, printed,
                   world>>

writerTake ==
    /\ ~crashed /\ writer = "lock"
    /\ m_listLinesToWrite # <<>>
    /\ line' = Head(m_listLinesToWrite)
    /\ m_listLinesToWrite' = Tail(m_listLinesToWrite)
    /\ writer' = "print"
    /\ UNCHANGED <<config, flags, control, file, accepted, callers, printed,
                   world>>

\* Faulty: the exit flag is looked at before the queue.
writerLeave ==
    /\ ~crashed /\ writer = "lock"
    /\ m_listLinesToWrite = <<>> \/ m_bExit
    /\ writer' = IF m_bExit THEN "stopped" ELSE "tested"
    /\ UNCHANGED <<config, flags, control, file, queue, callers, line, printed,
                   world>>

\* The queue is empty: the writer leaves, or is about to wait with the mutex
\* in its hands.
writerTest ==
    /\ ~crashed /\ writer = "lock"
    /\ m_listLinesToWrite = <<>>
    /\ writer' = IF m_bExit THEN "stopped" ELSE "tested"
    /\ UNCHANGED <<config, flags, control, file, queue, callers, line, printed,
                   world>>

writerWait ==
    /\ ~crashed /\ writer = "tested"
    /\ writer' = "wait"
    /\ UNCHANGED <<config, flags, control, file, queue, callers, line, printed,
                   world>>

spuriousWake ==
    /\ ~crashed /\ writer = "wait"
    /\ writer' = "lock"
    /\ UNCHANGED <<config, flags, control, file, queue, callers, line, printed,
                   world>>

writerPrint ==
    /\ ~crashed /\ writer = "print"
    /\ printed' = Append(printed, line)
    /\ writer' = "file"
    /\ UNCHANGED <<config, flags, control, file, queue, callers, line, world>>

writerWrite ==
    /\ ~crashed /\ writer = "file"
    /\ line' = NoLine
    /\ \/ /\ ~m_strFileName
          /\ writer' = "roll"
          /\ UNCHANGED <<file, crashed>>
       \/ /\ m_strFileName
          /\ \E ok \in BOOLEAN :
               /\ writeToFile(line, ok)
               /\ writer' = IF ok THEN "roll" ELSE "failed"
               /\ m_nCurrentWrittenSize' =
                    m_nCurrentWrittenSize + IF ok THEN Size[line] ELSE 0
    /\ UNCHANGED <<config, flags, control, queue, callers, printed, second>>

-------------------------------------------------------------------------------
Tick ==
    /\ ~crashed /\ second < MaxSecond
    /\ second' = second + 1
    /\ UNCHANGED <<config, flags, control, file, queue, callers, output,
                   crashed>>

\* A process that crashed or never calls init again has nothing to do.
Rest == (crashed \/ main = "down") /\ UNCHANGED vars

Main == StartLog \/ uninit \/ uninitNotify \/ uninitJoin

Call(c) ==
    \/ \E l \in Lines : outputFilter(c, l)
    \/ outputPush(c)
    \/ fatalCheck(c) \/ fatalCreate(c) \/ fatalWrite(c) \/ crash(c)

Writer ==
    \/ writerStart \/ writerRoll \/ writerCreate \/ writerTake \/ writerTest
    \/ writerWait \/ writerPrint \/ writerWrite

Next ==
    \/ Main \/ Writer \/ spuriousWake \/ Tick \/ Rest
    \/ \E n \in LevelArgs : setLevel(n)
    \/ \E c \in Threads : Call(c)

SafeSpec == Init /\ [][Next]_vars

\* Threads run until they block and a call that has begun is completed; nobody
\* has to log, to call init or uninit, or to wake the writer for no reason.
Fairness ==
    /\ WF_vars(Writer)
    /\ WF_vars(uninitNotify \/ uninitJoin)
    /\ \A c \in Threads : WF_vars(Call(c) /\ thread[c] # "idle")

Spec == SafeSpec /\ Fairness

-------------------------------------------------------------------------------
WriterStates == {"off", "start", "roll", "create", "lock", "tested", "wait",
                 "print", "file", "stopped", "failed"}

\* The types of the variables; an open file exists.
TypeOK ==
    /\ m_listLinesToWrite \in Seq(Lines)
    /\ accepted \in Seq(Lines) /\ printed \in Seq(Lines)
    /\ m_nCurrentLevel \in 0 .. FATAL
    /\ m_strFileName \in BOOLEAN /\ crashed \in BOOLEAN
    /\ m_bExit \in BOOLEAN /\ m_bRunning \in BOOLEAN
    /\ DOMAIN disk \subseteq 0 .. second
    /\ \A s \in DOMAIN disk : disk[s] \in Seq(Lines)
    /\ m_hLogFile \in DOMAIN disk \cup {NoFile}
    /\ m_nCurrentWrittenSize \in Nat
    /\ writer \in WriterStates
    /\ line \in Lines \cup {NoLine}
    /\ line \in Lines <=> writer \in {"print", "file"}
    /\ thread \in [Threads -> {"idle", "push", "fatal", "create", "write", "crash"}]
    /\ arg \in [Threads -> Lines \cup {NoLine}]
    /\ \A c \in Threads : arg[c] \in Lines <=> thread[c] # "idle"
    /\ main \in {"down", "up", "notify", "join"}
    /\ session \in Nat /\ owed \in Nat
    /\ second \in Seconds /\ logged \subseteq Lines

InHand == IF writer = "print" THEN <<line>> ELSE <<>>

\* Nothing that was pushed is lost, doubled or overtaken on its way to the
\* console, whatever the writer does when it leaves or fails.
OrderKept == printed \o InHand \o m_listLinesToWrite = accepted

Elements(s) == {s[i] : i \in DOMAIN s}

Bytes(lines) ==
    LET sum[n \in 0 .. Len(lines)] ==
          IF n = 0 THEN 0 ELSE sum[n - 1] + Size[lines[n]]
    IN  sum[Len(lines)]

Ordinary(l) == Level[l] # FATAL

\* The lines in a file that the writer put there.
OwnLines(lines) == Those(lines, {l \in Lines : Ordinary(l)})

\* No file holds more than one line beyond the roll size of what the writer put
\* in it, although a FATAL line may change the file without the writer noticing.
RollBound ==
    \A s \in DOMAIN disk :
      LET lines == OwnLines(disk[s])
      IN  lines # <<>> => Bytes(lines) < RollSize + Size[lines[Len(lines)]]

\* The writer's lines in a file are consecutive lines of the console: a line
\* that failed to be written is the last one, and files are not mixed up.
FilesFollowConsole ==
    \A s \in DOMAIN disk :
      \E i, j \in 0 .. Len(printed) :
        OwnLines(disk[s]) = SubSeq(printed, i + 1, j)

\* The exit flag alone does not make the writer leave: in the first session, a
\* writer that leaves without a failed file operation has printed every line
\* pushed before uninit was called.  init does not reset m_bExit, so the writer
\* of a later session leaves as soon as it finds the queue empty.
UninitFlushes ==
    writer = "stopped" /\ session = 1 => Len(printed) >= owed

\* A pushed line is printed, unless the process or the writer ends first.
EveryLinePrinted ==
    \A l \in Lines :
      l \in Elements(m_listLinesToWrite) /\ writer # "off"
        ~> \/ l \in Elements(printed)
           \/ crashed
           \/ writer \in {"stopped", "failed"}

\* async_log.h:111 calls m_bExit the flag that ends the writer.
ExitFlagStopsWriter ==
    main = "notify" ~> crashed \/ writer \in {"stopped", "failed"}

\* async_log.cpp:394: a file is always created anew, so what is in a file stays.
FilesOnlyGrow ==
    [][\A s \in DOMAIN disk :
         /\ s \in DOMAIN disk'
         /\ Len(disk[s]) <= Len(disk'[s])
         /\ SubSeq(disk'[s], 1, Len(disk[s])) = disk[s]]_vars
===============================================================================
