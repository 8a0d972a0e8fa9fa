------------------------------ MODULE MCConsole ------------------------------
(* Console input for TLC: constants are given in MCConsole.cfg. *)
EXTENDS Console
=============================================================================
