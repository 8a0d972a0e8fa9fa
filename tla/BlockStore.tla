----------------------------- MODULE BlockStore -----------------------------
(***************************************************************************)
(* What the buffer cache promises: "a synchronization point for disk       *)
(* blocks used by multiple processes".  Every block has one contents,      *)
(* which only the one user that has the block may see and change, and      *)
(* which reaches the disk when that user writes it.                        *)
(***************************************************************************)
CONSTANTS Blocks, Vals, Users, Nobody

VARIABLES contents, stored, user

bvars == <<contents, stored, user>>

BInit ==
    /\ stored \in [Blocks -> Vals]
    /\ contents = stored
    /\ user = [k \in Blocks |-> Nobody]

BGet(p, k) ==
    /\ user[k] = Nobody
    /\ user' = [user EXCEPT ![k] = p]
    /\ UNCHANGED <<contents, stored>>

BChange(p, k, v) ==
    /\ user[k] = p
    /\ contents' = [contents EXCEPT ![k] = v]
    /\ UNCHANGED <<stored, user>>

BStore(p, k) ==
    /\ user[k] = p
    /\ stored' = [stored EXCEPT ![k] = contents[k]]
    /\ UNCHANGED <<contents, user>>

BPut(p, k) ==
    /\ user[k] = p
    /\ user' = [user EXCEPT ![k] = Nobody]
    /\ UNCHANGED <<contents, stored>>

BNext ==
    \E p \in Users, k \in Blocks :
        \/ BGet(p, k) \/ BStore(p, k) \/ BPut(p, k)
        \/ \E v \in Vals : BChange(p, k, v)

BSpec == BInit /\ [][BNext]_bvars
=============================================================================
