------------------------------- MODULE MCLog --------------------------------
(* The log for TLC: three concurrent operations on two blocks, and room in  *)
(* the log for two of them at a time.                                       *)
EXTENDS Log
=============================================================================
