-------------------------------- MODULE Fifo --------------------------------
(***************************************************************************)
(* What a pipe promises its users: a bounded first-in first-out channel of *)
(* bytes.  A byte is put at the end while there is room, taken from the    *)
(* front into the hands of a reader, and never lost, repeated or reordered. *)
(***************************************************************************)
EXTENDS Integers, Sequences

CONSTANTS Vals, Size

VARIABLES queue, got

FInit == queue = <<>> /\ got \in Vals

Put(v) ==
    /\ Len(queue) < Size
    /\ queue' = Append(queue, v)
    /\ UNCHANGED got

Get ==
    /\ queue # <<>>
    /\ got' = Head(queue)
    /\ queue' = Tail(queue)

FNext == (\E v \in Vals : Put(v)) \/ Get

FSpec == FInit /\ [][FNext]_<<queue, got>>
=============================================================================
