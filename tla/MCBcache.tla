------------------------------ MODULE MCBcache ------------------------------
(* The buffer cache for TLC: two users of three blocks in two buffers, one   *)
(* of which the log may pin.                                                 *)
EXTENDS Bcache
=============================================================================
