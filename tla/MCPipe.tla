------------------------------- MODULE MCPipe -------------------------------
(* The pipe for TLC: bytes are only copied, so they are interchangeable. *)
EXTENDS Pipe, TLC

Symmetry == Permutations(Vals)
=============================================================================
