------------------------------ MODULE MCAsyncLog ------------------------------
(* The lines are an INFO line, a line that the level may suppress or not, and *)
(* a FATAL line; a file that is full, after two bytes, may hold both.          *)
EXTENDS AsyncLog, TLC

CONSTANTS info, warning, fatal

MCLines == {info, warning, fatal}
MCLevel == info :> 2 @@ warning :> 3 @@ fatal :> 6
MCSize  == info :> 1 @@ warning :> 2 @@ fatal :> 1
===============================================================================
