------------------------------ MODULE MCEventLoop ------------------------------
(***************************************************************************)
(* The event loop alone, after three clicks, the first of which the filter *)
(* eats.  A round takes two events, in place of 256.                       *)
(***************************************************************************)
EXTENDS EventLoop

MCBeginnings == {<<"User", "User", "User">>}
================================================================================
