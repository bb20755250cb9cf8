----------------------------- MODULE MCThreadPool -----------------------------
(* Two workers (asked for with the default argument on two processors), one  *)
(* or more clients and a few tasks.                                          *)
EXTENDS ThreadPool, TLC
===============================================================================
