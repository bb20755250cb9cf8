------------------------------ MODULE LinkedLists ------------------------------
(***************************************************************************)
(* What the stacks and the list of the library have in common: nodes that  *)
(* are linked by a pointer to the next one.  A list begins at a pointer,   *)
(* nxt is what the nodes point to, and a pointer that is not to a node     *)
(* ends the list.                                                          *)
(***************************************************************************)
EXTENDS Naturals, FiniteSets, Sequences

\* The pointers met on the way from first, in this order.
Walk(nodes, first, nxt) ==
    LET at[k \in 0 .. Cardinality(nodes)] ==
          IF k = 0 THEN first
          ELSE LET node == at[k - 1] IN IF node \in nodes THEN nxt[node] ELSE node
    IN  at

\* The nodes of the list, as a set and as a sequence.
From(nodes, first, nxt) ==
    {Walk(nodes, first, nxt)[k] : k \in 0 .. Cardinality(nodes)} \cap nodes

Line(nodes, first, nxt) ==
    [k \in 1 .. Cardinality(From(nodes, first, nxt)) |->
       Walk(nodes, first, nxt)[k - 1]]

\* What the nodes contain, in the order of a sequence of nodes.
Contents(order, data) == [k \in DOMAIN order |-> data[order[k]]]
===============================================================================
