--------------------------- MODULE ParallelAlgorithms ---------------------------
(***************************************************************************)
(* One call of Find, FindRecursive, ForEach, PartialSum or                 *)
(* ParallelAccumulate.  All but FindRecursive divide the list into blocks  *)
(* of equal length, the last of which takes the rest, give every block but *)
(* the last to a thread of its own, work on the last block themselves and  *)
(* join the threads.  Threads are numbered by their blocks; the last       *)
(* number is the caller.  FindRecursive halves the list again and again,   *)
(* and a thread is a call of FindRecursiveCore, named by its range.        *)
(*                                                                         *)
(* Comparing with the element Bad and calling f on it throw; a sum above   *)
(* Limit throws.  An element that a block alone works on may be worked on  *)
(* in one step with the ones around it where no other thread looks on.     *)
(***************************************************************************)
EXTENDS Integers, Sequences, FiniteSets, FiniteSetsExt

CONSTANTS
    Lists,          \* the lists it may be called with
    Match, Bad, Limit,
    min_per_thread, \* 25 in the code
    Hardware,       \* what hardware_concurrency may be
    None, Thrown, NotFound, Terminated

Marks == {None, Thrown, NotFound, Terminated}

ParallelAssumption ==
    /\ Lists \subseteq Seq(Int) /\ Match # Bad /\ Limit \in Int
    /\ min_per_thread \in Nat \ {0}
    /\ Hardware \subseteq Nat
    /\ Marks \cap (Int \cup Seq(Int)) = {}
    /\ None # Thrown /\ NotFound \notin {None, Thrown}
    /\ Terminated \notin {None, Thrown, NotFound}

Algorithms ==
    {"Find", "FindRecursive", "ForEach", "PartialSum", "ParallelAccumulate"}

VARIABLES
    algorithm, list, hardware_threads,
    data,      \* the list as the algorithm leaves it
    started,   \* blocks that somebody has begun to work on
    pc, at,    \* where each thread is: its step, and its element
    done_flag, found,  \* of Find: the flag and the promise
    future,    \* what each thread hands on: its promise, its future, its sum
    result

call == <<algorithm, list, hardware_threads>>
find == <<done_flag, found>>
vars == <<call, data, started, pc, at, find, future, result>>

length == Len(list)

num_threads ==
    LET max_threads == (length + min_per_thread - 1) \div min_per_thread
        h           == hardware_threads
    IN  IF algorithm = "ParallelAccumulate"
        THEN Min({IF h = 0 THEN 2 ELSE h, max_threads})
        ELSE Min({max_threads, Max({2, h})})

block_size == length \div num_threads
recursive  == algorithm = "FindRecursive"
Root       == <<1, length>>
Ranges     == {r \in (1 .. length) \X (1 .. length) : r[1] <= r[2]}

Blocks   == IF length = 0 THEN {} ELSE IF recursive THEN Ranges
            ELSE 1 .. num_threads
First(i) == IF recursive THEN i[1] ELSE (i - 1) * block_size + 1
Last(i)  == IF recursive THEN i[2]
            ELSE IF i = num_threads THEN length ELSE i * block_size
Block(i) == First(i) .. Last(i)

Init ==
    /\ algorithm \in Algorithms
    /\ list \in Lists /\ hardware_threads \in Hardware
    /\ data = list /\ started = 0
    /\ pc = [i \in Blocks |-> IF recursive /\ i = Root THEN "work" ELSE "new"]
    /\ at = [i \in Blocks |-> First(i)]
    /\ done_flag = FALSE /\ found = None
    /\ future = [i \in Blocks |-> None]
    /\ result = None

Goto(i, label) == pc' = [pc EXCEPT ![i] = label]

\* The next thread is started; after the last one the caller begins its block.
start(i) ==
    /\ ~recursive /\ i = started + 1
    /\ started' = i
    /\ Goto(i, "work")
    /\ UNCHANGED <<call, data, at, find, future, result>>

At(i, name) == algorithm = name /\ pc[i] = "work"
Ended(i)    == at[i] > Last(i)
Advance(i)  == at' = [at EXCEPT ![i] = @ + 1] /\ UNCHANGED pc

-------------------------------------------------------------------------------
\* Faulty: an exception is kept and nobody is told.
SettleQuietly(i, r) ==
    IF found = None THEN found' = r /\ Goto(i, IF r = Thrown THEN "ended" ELSE "flag")
    ELSE UNCHANGED found /\ Goto(i, "ended")

\* Find: the promise takes one result.  Setting it again throws, and so does
\* setting an exception after that, which is ignored.
Settle(i, r) ==
    IF found = None THEN found' = r /\ Goto(i, "flag")
    ELSE UNCHANGED found /\ Goto(i, "ended")

compare(i) ==
    /\ At(i, "Find")
    /\ IF Ended(i) \/ done_flag THEN Goto(i, "ended") /\ UNCHANGED <<at, found>>
       ELSE IF list[at[i]] \in {Match, Bad}
       THEN /\ Settle(i, IF list[at[i]] = Bad THEN Thrown ELSE at[i])
            /\ UNCHANGED at
       ELSE Advance(i) /\ UNCHANGED found
    /\ UNCHANGED <<call, data, started, done_flag, future, result>>

storeDone(i) ==
    /\ pc[i] = "flag"
    /\ done_flag' = TRUE
    /\ Goto(i, "ended")
    /\ UNCHANGED <<call, data, started, at, found, future, result>>

-------------------------------------------------------------------------------
\* FindRecursiveCore of a long range: the second half in a thread of its own.
FirstHalf(c)  == <<c[1], c[1] + (c[2] - c[1] + 1) \div 2 - 1>>
SecondHalf(c) == <<c[1] + (c[2] - c[1] + 1) \div 2, c[2]>>
Short(c)      == c[2] - c[1] + 1 < 2 * min_per_thread

divide(c) ==
    /\ At(c, "FindRecursive") /\ ~Short(c)
    /\ pc' = [pc EXCEPT ![c] = "halves", ![FirstHalf(c)] = "work",
                        ![SecondHalf(c)] = "work"]
    /\ UNCHANGED <<call, data, started, at, find, future, result>>

searchShort(c) ==
    /\ At(c, "FindRecursive") /\ Short(c)
    /\ IF Ended(c) \/ done_flag
       THEN /\ future' = [future EXCEPT ![c] = NotFound]
            /\ Goto(c, "ended") /\ UNCHANGED at
       ELSE IF list[at[c]] \in {Match, Bad}
       THEN /\ future' = [future EXCEPT ![c] =
                            IF list[at[c]] = Bad THEN Thrown ELSE at[c]]
            /\ Goto(c, "flag") /\ UNCHANGED at
       ELSE Advance(c) /\ UNCHANGED future
    /\ UNCHANGED <<call, data, started, find, result>>

\* The call waits for both halves in any case: for the second one in get, or when
\* the future is destroyed.  An exception finds the flag set.
combine(c) ==
    /\ pc[c] = "halves"
    /\ pc[FirstHalf(c)] = "ended" /\ pc[SecondHalf(c)] = "ended"
    /\ future' = [future EXCEPT ![c] =
         IF future[FirstHalf(c)] = NotFound THEN future[SecondHalf(c)]
         ELSE future[FirstHalf(c)]]
    /\ Goto(c, "ended")
    /\ UNCHANGED <<call, data, started, at, find, result>>

-------------------------------------------------------------------------------
\* ForEach, with a function that adds one; what it throws is in the future.
apply(i) ==
    /\ At(i, "ForEach")
    /\ IF Ended(i) THEN Goto(i, "ended") /\ UNCHANGED <<at, data>>
       ELSE IF list[at[i]] = Bad
       THEN Goto(i, "thrown") /\ UNCHANGED <<at, data>>
       ELSE Advance(i) /\ data' = [data EXCEPT ![at[i]] = @ + 1]
    /\ UNCHANGED <<call, started, find, future, result>>

\* The sum of a part, added up from its first element on.
SumOf(s, from, to) ==
    LET sum[k \in from - 1 .. to] == IF k < from THEN 0 ELSE sum[k - 1] + s[k]
    IN  sum[to]

\* ParallelAccumulate: the sum of one block.
accumulate(i) ==
    /\ At(i, "ParallelAccumulate")
    /\ future' = [future EXCEPT ![i] = SumOf(list, First(i), Last(i))]
    /\ Goto(i, "ended")
    /\ UNCHANGED <<call, data, started, at, find, result>>

-------------------------------------------------------------------------------
\* PartialSum: the sums of the block, then the sum of what is before it is added
\* to the last element, handed on, and added to the other elements.
HandOn(i, value) ==
    future' = IF i = num_threads THEN future ELSE [future EXCEPT ![i] = value]

\* An exception is handed on as well; the caller throws it.
Fail(i) ==
    /\ HandOn(i, Thrown)
    /\ Goto(i, IF i = num_threads THEN "thrown" ELSE "ended")
    /\ UNCHANGED <<data, result>>

sumBlock(i) ==
    LET sums == [k \in Block(i) |-> SumOf(list, First(i), k)]
    IN  /\ At(i, "PartialSum")
        /\ IF \E k \in Block(i) : sums[k] > Limit THEN Fail(i)
           ELSE /\ data' = [k \in DOMAIN data |-> IF k \in Block(i) THEN sums[k]
                                                  ELSE data[k]]
                /\ IF i = 1 THEN HandOn(i, sums[Last(i)]) /\ Goto(i, "ended")
                   ELSE UNCHANGED future /\ Goto(i, "last")
                /\ UNCHANGED result
        /\ UNCHANGED <<call, started, at, find>>

\* Faulty: the sum of the block alone is handed on.
addToLastLate(i) ==
    /\ pc[i] = "last" /\ future[i - 1] # None
    /\ IF future[i - 1] = Thrown \/ data[Last(i)] + future[i - 1] > Limit
       THEN Fail(i)
       ELSE /\ HandOn(i, data[Last(i)])
            /\ data' = [data EXCEPT ![Last(i)] = @ + future[i - 1]]
            /\ Goto(i, "others")
            /\ UNCHANGED result
    /\ UNCHANGED <<call, started, at, find>>

addToLast(i) ==
    /\ pc[i] = "last" /\ future[i - 1] # None
    /\ IF future[i - 1] = Thrown \/ data[Last(i)] + future[i - 1] > Limit
       THEN Fail(i)
       ELSE /\ data' = [data EXCEPT ![Last(i)] = @ + future[i - 1]]
            /\ HandOn(i, data'[Last(i)])
            /\ Goto(i, "others")
            /\ UNCHANGED result
    /\ UNCHANGED <<call, started, at, find>>

\* When this throws in a thread, its promise is already set: set_exception throws
\* out of the handler and the program is terminated.
addToOthers(i) ==
    LET others == First(i) .. Last(i) - 1
    IN  /\ pc[i] = "others"
        /\ IF \E k \in others : data[k] + future[i - 1] > Limit
           THEN /\ IF i = num_threads THEN Goto(i, "thrown") /\ UNCHANGED result
                   ELSE result' = Terminated /\ UNCHANGED pc
                /\ UNCHANGED data
           ELSE /\ data' = [k \in DOMAIN data |-> IF k \in others
                              THEN data[k] + future[i - 1] ELSE data[k]]
                /\ Goto(i, "ended")
                /\ UNCHANGED result
        /\ UNCHANGED <<call, started, at, find, future>>

-------------------------------------------------------------------------------
\* The caller has joined the threads.
Answer ==
    IF recursive THEN IF length = 0 THEN NotFound ELSE future[Root]
    ELSE IF algorithm = "Find" THEN IF done_flag THEN found ELSE NotFound
    ELSE IF \E i \in Blocks : pc[i] = "thrown" THEN Thrown
    ELSE IF algorithm = "ParallelAccumulate"
         THEN SumOf(future, 1, num_threads)
    ELSE data

join ==
    /\ result = None
    /\ \A i \in Blocks :
         (recursive => i = Root) => pc[i] \in {"ended", "thrown"}
    /\ result' = Answer
    /\ UNCHANGED <<call, data, started, pc, at, find, future>>

Finished == result # None /\ UNCHANGED vars

Step(i) ==
    /\ result = None
    /\ \/ start(i) \/ compare(i) \/ storeDone(i)
       \/ divide(i) \/ searchShort(i) \/ combine(i)
       \/ apply(i) \/ accumulate(i) \/ sumBlock(i) \/ addToLast(i) \/ addToOthers(i)

Next == join \/ Finished \/ \E i \in Blocks : Step(i)

Spec == Init /\ [][Next]_vars

-------------------------------------------------------------------------------
Steps == {"new", "work", "flag", "halves", "last", "others", "thrown", "ended"}

TypeOK ==
    /\ algorithm \in Algorithms /\ list \in Lists /\ hardware_threads \in Hardware
    /\ data \in Seq(Int) /\ Len(data) = length
    /\ started \in Nat
    /\ pc \in [Blocks -> Steps] /\ at \in [Blocks -> Nat]
    /\ done_flag \in BOOLEAN /\ found \in (1 .. length) \cup {None, Thrown}
    /\ future \in [Blocks -> Int \cup {None, Thrown, NotFound}]
    /\ result \in Marks \cup
         IF algorithm \in {"ForEach", "PartialSum"} THEN Seq(Int) ELSE Int

Has(v) == \E k \in 1 .. length : list[k] = v
Exceeds == \E j, k \in 1 .. length : j <= k /\ SumOf(list, j, k) > Limit

FindAnswers ==
    IF result = Thrown THEN Has(Bad)
    ELSE IF result = NotFound THEN ~Has(Match) /\ ~Has(Bad)
    ELSE list[result] = Match

ForEachAnswers ==
    IF result = Thrown THEN Has(Bad)
    ELSE ~Has(Bad) /\ result = [k \in 1 .. length |-> list[k] + 1]

PartialSumAnswers ==
    IF result \in {Thrown, Terminated} THEN Exceeds
    ELSE result = [k \in 1 .. length |-> SumOf(list, 1, k)]

\* The answer is that of the sequential algorithm, except that the searches may
\* return any of several matches and may throw although there is one, and that
\* PartialSum may fail when the sum of a part of the list does.
Answers ==
    result # None =>
      /\ algorithm \in {"Find", "FindRecursive"} => FindAnswers
      /\ algorithm = "ForEach" => ForEachAnswers
      /\ algorithm = "PartialSum" => PartialSumAnswers
      /\ algorithm = "ParallelAccumulate" => result = SumOf(list, 1, length)

\* The searches return the first of several matches, as the tests say they do: for
\* repeated values the first place is guaranteed (test_find.cpp:57, 172).
FirstMatch ==
    (algorithm \in {"Find", "FindRecursive"} /\ result \notin {None, Thrown, NotFound}) =>
      \A k \in 1 .. result - 1 : list[k] # Match
=================================================================================
