------------------------------- MODULE Selections -------------------------------
(***************************************************************************)
(* The part of a sequence that belongs to a set, in the same order.  It is *)
(* a recursive function and not SelectSeq, which takes an operator, so     *)
(* that proofs can say something about it.                                 *)
(***************************************************************************)
EXTENDS Naturals, Sequences

Those(s, S) ==
    LET those[n \in 0 .. Len(s)] ==
          IF n = 0 THEN <<>>
          ELSE IF s[n] \in S THEN Append(those[n - 1], s[n])
          ELSE those[n - 1]
    IN  those[Len(s)]
=================================================================================
