--------------------------------- MODULE MCFind ---------------------------------
(* Two lists with two matches: in blocks of their own, and in one block.       *)
EXTENDS ParallelAlgorithms

MCLists == {<<1, 5, 2, 5, 3>>, <<2, 1, 5, 5>>}
=================================================================================
