------------------------------- MODULE MCProc -------------------------------
(* The process table for TLC: constants are given in the .cfg files. *)
EXTENDS Proc
=============================================================================
