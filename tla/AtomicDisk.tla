----------------------------- MODULE AtomicDisk -----------------------------
(***************************************************************************)
(* What the logging layer promises the file system: a disk on which        *)
(* operations, bracketed by begin and end, write blocks of a volatile view *)
(* and the durable view only ever moves, in one step, to a volatile view   *)
(* in which no operation is unfinished.  A crash falls back to the durable *)
(* view, so no operation survives a crash in part.                         *)
(***************************************************************************)
CONSTANTS Blocks, Vals, Procs

VARIABLES volatile, durable, active

avars == <<volatile, durable, active>>

AInit ==
    /\ durable \in [Blocks -> Vals]
    /\ volatile = durable
    /\ active = {}

ABegin(p) ==
    /\ active' = active \cup {p}
    /\ UNCHANGED <<volatile, durable>>

AWrite(p, b, v) ==
    /\ p \in active
    /\ volatile' = [volatile EXCEPT ![b] = v]
    /\ UNCHANGED <<durable, active>>

AEnd(p) ==
    /\ active' = active \ {p}
    /\ UNCHANGED <<volatile, durable>>

ACommit ==
    /\ active = {}
    /\ durable' = volatile
    /\ UNCHANGED <<volatile, active>>

ACrash ==
    /\ volatile' = durable
    /\ active' = {}
    /\ UNCHANGED durable

ANext ==
    \/ \E p \in Procs : ABegin(p) \/ AEnd(p)
    \/ \E p \in Procs, b \in Blocks, v \in Vals : AWrite(p, b, v)
    \/ ACommit
    \/ ACrash

ASpec == AInit /\ [][ANext]_avars
=============================================================================
