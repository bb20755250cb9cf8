----------------------------- MODULE AbstractStack -----------------------------
(***************************************************************************)
(* What the concurrent stacks of the library promise: every Push and every *)
(* Pop takes effect at one moment between its call and its return, and the *)
(* effects are those of a stack.  Nothing is said of nodes, counters or    *)
(* memory.                                                                 *)
(***************************************************************************)
EXTENDS Sequences

CONSTANTS
    Threads,
    Values,
    NoValue    \* what Pop returns when the stack is empty

VARIABLES
    stack,     \* the values, the top first
    call       \* the call each thread is in, and its argument or its result

vars == <<stack, call>>

Idle      == [op |-> "idle", value |-> NoValue]
Pushing   == [op : {"push"}, value : Values]
Popping   == [op |-> "pop", value |-> NoValue]
Popped(v) == [op |-> "popped", value |-> v]

Init ==
    /\ stack = <<>>
    /\ call = [t \in Threads |-> Idle]

Begin(t) ==
    /\ call[t] = Idle
    /\ \E c \in Pushing \cup {Popping} : call' = [call EXCEPT ![t] = c]
    /\ UNCHANGED stack

Push(t) ==
    /\ call[t] \in Pushing
    /\ stack' = <<call[t].value>> \o stack
    /\ call' = [call EXCEPT ![t] = Idle]

Pop(t) ==
    /\ call[t] = Popping
    /\ \/ /\ stack = <<>>
          /\ call' = [call EXCEPT ![t] = Popped(NoValue)]
          /\ UNCHANGED stack
       \/ /\ stack # <<>>
          /\ call' = [call EXCEPT ![t] = Popped(Head(stack))]
          /\ stack' = Tail(stack)

Return(t) ==
    /\ call[t].op = "popped"
    /\ call' = [call EXCEPT ![t] = Idle]
    /\ UNCHANGED stack

Next == \E t \in Threads : Begin(t) \/ Push(t) \/ Pop(t) \/ Return(t)

Spec == Init /\ [][Next]_vars
===============================================================================
