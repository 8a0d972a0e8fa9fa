-------------------------------- MODULE MCVm --------------------------------
(* Address spaces of four pages in two tables for TLC. *)
EXTENDS Vm

MCSbrkArgs == {-6, -1, 1}
=============================================================================
