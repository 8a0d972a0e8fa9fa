------------------------------ MODULE LogProofs ------------------------------
(***************************************************************************)
(* Proofs about Log for any number of processes, blocks and log entries:   *)
(* a commit is alone and leaves nothing behind, the reservation of         *)
(* begin_op() suffices, nobody sleeps in begin_op() without a reason, and  *)
(* the log with its crashes and recoveries implements AtomicDisk.          *)
(***************************************************************************)
EXTENDS Log, FiniteSetTheorems, TLAPS

\* The processes that begin_op() has counted in outstanding.
Active == {p \in Procs : pc[p] \in {"op", "logging", "panic"}}

OpInv ==
    /\ IsFiniteSet(Active) /\ outstanding = Cardinality(Active)
    /\ \A p \in Procs : pc[p] = "logging" => buf[p] \in Blocks

\* Who commits, and in which stage.
CommitInv ==
    /\ committing => Active = {}
    /\ \A p \in Procs : pc[p] = "commit" => committing
    /\ \A p, q \in Procs : pc[p] = "commit" /\ pc[q] = "commit" => p = q
    /\ booting => /\ ~committing /\ \A p \in Procs : pc[p] = "idle"
                  /\ stage \in {"read_head", "install", "clear"}
    /\ ~booting => (committing <=> stage # "none") /\ stage # "read_head"

Injective(s) == \A i, j \in DOMAIN s : s[i] = s[j] => i = j

\* The lists of block numbers: absorption keeps them free of repetitions, and
\* the header on the disk is empty except between the two writes of it.
ListInv ==
    /\ Injective(lh) /\ Injective(hd)
    /\ Len(hd) <= LOGSIZE
    /\ stage = "write_log" => tail <= LOGSIZE + 1
    /\ stage = "write_head" => Len(lh) <= LOGSIZE
    /\ stage \in {"none", "write_log", "write_head", "done"} => hd = <<>>
    /\ stage \in {"install", "clear"} => hd = lh
    /\ stage \in {"read_head", "done"} => lh = <<>>
    /\ stage = "none" /\ outstanding = 0 => lh = <<>>

\* What the data blocks of the log hold: the transaction, once written and
\* until it is installed.
CopyInv ==
    \A i \in DOMAIN lh :
        /\ \/ stage = "write_log" /\ i < tail
           \/ stage = "write_head"
           \/ stage \in {"install", "clear"} /\ ~booting
           => logblk[i] = Data(lh[i])
        /\ \/ stage = "install" /\ i < tail
           \/ stage = "clear"
           => home[lh[i]] = logblk[i]

\* The pinned buffers are those of the transaction that are not installed yet.
DirtyInv ==
    /\ booting => dirty = {} /\ \A b \in Blocks : Data(b) = home[b]
    /\ stage \in {"none", "write_log", "write_head"} =>
          \A b \in Blocks : b \in dirty <=> Listed(lh, b)
    /\ stage = "install" /\ ~booting =>
          \A b \in Blocks :
              b \in dirty <=> \E i \in DOMAIN lh : i >= tail /\ lh[i] = b
    /\ stage \in {"clear", "done"} => dirty = {}

IInv == /\ TypeOK /\ OpInv /\ CommitInv /\ ListInv
        /\ CopyInv /\ DirtyInv /\ CleanMatchesDisk

-----------------------------------------------------------------------------
\* The first boot of a disk that mkfs has written.
LEMMA InitIInv == Init => IInv
<1> SUFFICES ASSUME Init PROVE IInv
  OBVIOUS
<1>1. Active = {}
  BY DEF Init, Active
<1>2. TypeOK
  <2>1. committing \in BOOLEAN /\ booting \in BOOLEAN
    BY Zenon DEF Init
  <2>2. hd \in Seq(Blocks) /\ lh \in Seq(Blocks) /\ tail \in Nat \ {0}
    BY DEF Init
  <2> QED
    BY <2>1, <2>2, LogAssumption DEF Init, TypeOK
<1>3. OpInv
  BY <1>1, FS_EmptySet DEF Init, OpInv
<1>4. CommitInv /\ ListInv
  BY LogAssumption DEF Init, CommitInv, ListInv, Injective
<1>5. CopyInv /\ DirtyInv /\ CleanMatchesDisk
  BY DEF Init, CopyInv, DirtyInv, CleanMatchesDisk, View, Data
<1> QED
  BY <1>2, <1>3, <1>4, <1>5 DEF IInv

\* A waiter in begin_op() goes to sleep, or is counted and may go on.
LEMMA BeginOpStep ==
  ASSUME IInv, NEW p \in Procs, begin_op(p)
  PROVE  IInv'
<1> USE DEF IInv
<1>0. /\ pc[p] \in {"idle", "woken"} /\ ~booting
      /\ UNCHANGED <<disk, cache, dirty, lh, committing, buf, ctl>>
  BY DEF begin_op
<1> USE DEF disk, ctl
<1>1. CASE MustWait
  <2>1. pc' = [pc EXCEPT ![p] = "asleep"] /\ UNCHANGED <<outstanding, wrote>>
    BY <1>1 DEF begin_op
  <2>2. Active' = Active
    BY <1>0, <2>1 DEF Active, TypeOK
  <2>3. TypeOK'
    BY <1>0, <2>1 DEF TypeOK
  <2>4. OpInv' /\ CommitInv'
    BY <1>0, <2>1, <2>2 DEF OpInv, CommitInv, TypeOK
  <2>5. ListInv' /\ CopyInv' /\ DirtyInv'
    BY <1>0, <2>1 DEF ListInv, CopyInv, DirtyInv, Data, Listed, Injective
  <2>6. CleanMatchesDisk'
    BY <1>0, <2>1 DEF CleanMatchesDisk, View, Data, Holds, TypeOK
  <2> QED
    BY <2>3, <2>4, <2>5, <2>6
<1>2. CASE ~MustWait
  <2>1. /\ outstanding' = outstanding + 1
        /\ pc' = [pc EXCEPT ![p] = "op"]
        /\ wrote' = [wrote EXCEPT ![p] = {}]
    BY <1>2 DEF begin_op
  <2>2. Active' = Active \cup {p} /\ p \notin Active
    BY <1>0, <2>1 DEF Active, TypeOK
  <2>3. TypeOK'
    BY <1>0, <2>1, LogAssumption DEF TypeOK
  <2>4. OpInv'
    <3>1. /\ IsFiniteSet(Active')
          /\ Cardinality(Active') = Cardinality(Active) + 1
      BY <2>2, FS_AddElement DEF OpInv
    <3> QED
      BY <1>0, <2>1, <3>1 DEF OpInv, TypeOK
  <2>5. CommitInv'
    BY <1>0, <1>2, <2>1, <2>2 DEF CommitInv, MustWait, TypeOK
  <2>6. ListInv'
    BY <1>0, <2>1, FS_CardinalityType DEF ListInv, Injective, OpInv, TypeOK
  <2>7. CopyInv' /\ DirtyInv'
    BY <1>0, <2>1 DEF CopyInv, DirtyInv, Data, Listed
  <2>8. CleanMatchesDisk'
    BY <1>0, <2>1 DEF CleanMatchesDisk, View, Data, Holds, TypeOK
  <2> QED
    BY <2>3, <2>4, <2>5, <2>6, <2>7, <2>8
<1> QED
  BY <1>1, <1>2

\* A process changes the data of a buffer it has locked; nothing but the
\* process itself knows of it yet.
LEMMA LogWriteStep ==
  ASSUME IInv, NEW p \in Procs, NEW b \in Blocks, NEW v \in Vals,
         log_write(p, b, v)
  PROVE  IInv'
<1> USE DEF IInv, disk, ctl
<1>1. /\ pc[p] = "op" /\ \A q \in Procs : ~Holds(q, b)
      /\ cache' = [cache EXCEPT ![b] = v]
      /\ buf' = [buf EXCEPT ![p] = b]
      /\ wrote' = [wrote EXCEPT ![p] = @ \cup {b}]
      /\ UNCHANGED <<disk, dirty, lh, outstanding, committing, ctl>>
  BY DEF log_write
<1>2. \E l \in {"logging", "panic"} : pc' = [pc EXCEPT ![p] = l]
  BY DEF log_write
<1>3. Active' = Active /\ p \in Active
  BY <1>1, <1>2 DEF Active, TypeOK
<1>4. ~committing /\ ~booting /\ stage = "none"
  BY <1>1, <1>3 DEF CommitInv
<1>5. TypeOK'
  <2>1. wrote' \in [Procs -> SUBSET Blocks]
    BY <1>1 DEF TypeOK
  <2> QED
    BY <1>1, <1>2, <2>1 DEF TypeOK
<1>6. OpInv' /\ CommitInv'
  BY <1>1, <1>2, <1>3 DEF OpInv, CommitInv, TypeOK
<1>7. ListInv'
  BY <1>1 DEF ListInv, Injective
<1>8. CopyInv' /\ DirtyInv'
  BY <1>1, <1>4 DEF CopyInv, DirtyInv, Listed
<1>9. CleanMatchesDisk'
  <2> SUFFICES ASSUME NEW c \in Blocks, (View[c] # home[c])'
               PROVE  c \in dirty' \/ \E q \in Procs : Holds(q, c)'
    BY DEF CleanMatchesDisk
  <2>1. CASE c = b
    BY <1>1, <1>2, <2>1 DEF Holds, TypeOK
  <2>2. CASE c # b
    <3>1. View[c] # home[c]
      BY <1>1, <2>2 DEF View, Data, TypeOK
    <3>2. c \in dirty \/ \E q \in Procs : Holds(q, c)
      BY <3>1 DEF CleanMatchesDisk
    <3> QED
      BY <1>1, <1>2, <3>2 DEF Holds, TypeOK
  <2> QED
    BY <2>1, <2>2
<1> QED
  BY <1>5, <1>6, <1>7, <1>8, <1>9

\* Absorbing a block or appending it keeps the list free of repetitions.
LEMMA RecordFacts ==
  ASSUME NEW b \in Blocks, lh \in Seq(Blocks), Injective(lh)
  PROVE  /\ Record(b) \in Seq(Blocks) /\ Injective(Record(b))
         /\ \A c \in Blocks : Listed(Record(b), c) <=> Listed(lh, c) \/ c = b
         /\ Len(Record(b)) <= Len(lh) + 1
<1>1. CASE Listed(lh, b)
  BY <1>1 DEF Record, Listed
<1>2. CASE ~Listed(lh, b)
  <2>1. Record(b) = Append(lh, b)
    BY <1>2 DEF Record
  <2>2. /\ Record(b) \in Seq(Blocks) /\ Len(Record(b)) = Len(lh) + 1
        /\ DOMAIN Record(b) = 1 .. Len(lh) + 1
        /\ \A i \in DOMAIN lh : Record(b)[i] = lh[i]
        /\ Record(b)[Len(lh) + 1] = b
        /\ DOMAIN lh = 1 .. Len(lh) /\ Len(lh) \in Nat
    BY <2>1
  <2>3. Injective(Record(b))
    BY <1>2, <2>2 DEF Injective, Listed
  <2>4. \A c \in Blocks : Listed(Record(b), c) <=> Listed(lh, c) \/ c = b
    BY <2>2 DEF Listed
  <2> QED
    BY <2>2, <2>3, <2>4
<1> QED
  BY <1>1, <1>2

\* The block is recorded and its buffer pinned in one critical section.
LEMMA LogAppendStep ==
  ASSUME IInv, NEW p \in Procs, log_append(p)
  PROVE  IInv'
<1> USE DEF IInv, disk, ctl
<1>1. /\ pc[p] = "logging"
      /\ lh' = Record(buf[p])
      /\ dirty' = dirty \cup {buf[p]}
      /\ pc' = [pc EXCEPT ![p] = "op"]
      /\ buf' = [buf EXCEPT ![p] = NoBuf]
      /\ UNCHANGED <<disk, cache, outstanding, committing, wrote, ctl>>
  BY DEF log_append, Pin
<1>2. Active' = Active /\ p \in Active
  BY <1>1 DEF Active, TypeOK
<1>3. ~committing /\ ~booting /\ stage = "none"
  BY <1>1, <1>2 DEF CommitInv
<1>4. buf[p] \in Blocks
  BY <1>1 DEF OpInv
<1>5. /\ lh' \in Seq(Blocks) /\ Injective(lh')
      /\ \A c \in Blocks : Listed(lh', c) <=> Listed(lh, c) \/ c = buf[p]
  BY <1>1, <1>4, RecordFacts DEF TypeOK, ListInv
<1>6. TypeOK'
  BY <1>1, <1>4, <1>5 DEF TypeOK
<1>7. OpInv' /\ CommitInv'
  BY <1>1, <1>2 DEF OpInv, CommitInv, TypeOK
<1>8. ListInv'
  <2>1. outstanding # 0
    BY <1>2, FS_EmptySet DEF OpInv
  <2> QED
    BY <1>1, <1>3, <1>5, <2>1 DEF ListInv
<1>9. CopyInv' /\ DirtyInv'
  BY <1>1, <1>3, <1>4, <1>5 DEF CopyInv, DirtyInv
<1>10. CleanMatchesDisk'
  BY <1>1 DEF CleanMatchesDisk, View, Data, Holds, TypeOK
<1> QED
  BY <1>6, <1>7, <1>8, <1>9, <1>10

\* The last operation starts the commit, another one wakes the waiters.
LEMMA EndOpStep ==
  ASSUME IInv, NEW p \in Procs, end_op(p)
  PROVE  IInv'
<1> USE DEF IInv, disk, ctl
<1>1. /\ pc[p] = "op"
      /\ outstanding' = outstanding - 1
      /\ wrote' = [wrote EXCEPT ![p] = {}]
      /\ UNCHANGED <<disk, cache, dirty, lh, buf, booting>>
  BY DEF end_op
<1>2. p \in Active /\ ~committing /\ ~booting /\ stage = "none"
  BY <1>1 DEF Active, CommitInv
<1>3. /\ IsFiniteSet(Active \ {p})
      /\ Cardinality(Active \ {p}) = outstanding - 1
      /\ outstanding - 1 \in Nat
  <2>1. IsFiniteSet(Active) /\ outstanding = Cardinality(Active)
    BY DEF OpInv
  <2>2. /\ IsFiniteSet(Active \ {p})
        /\ Cardinality(Active \ {p}) = Cardinality(Active) - 1
    BY <1>2, <2>1, FS_RemoveElement
  <2>3. Cardinality(Active \ {p}) \in Nat
    BY <2>2, FS_CardinalityType
  <2> QED
    BY <2>1, <2>2, <2>3
<1>4. \/ /\ outstanding = 1 /\ committing' = TRUE
         /\ pc' = [pc EXCEPT ![p] = "commit"]
         /\ stage' = IF lh = <<>> THEN "done" ELSE "write_log"
         /\ tail' = 1
      \/ /\ outstanding # 1 /\ UNCHANGED <<committing, stage, tail>>
         /\ pc' = wakeup([pc EXCEPT ![p] = "idle"])
  BY <1>2 DEF end_op
<1>5. Active' = Active \ {p}
  BY <1>1, <1>4 DEF Active, TypeOK, wakeup
<1>6. \A q \in Procs : /\ pc'[q] = "logging" <=> pc[q] = "logging"
                       /\ pc'[q] = "panic" <=> pc[q] = "panic"
  BY <1>1, <1>4 DEF TypeOK, wakeup
<1>7. OpInv'
  BY <1>1, <1>3, <1>5, <1>6 DEF OpInv
<1>8. CleanMatchesDisk'
  BY <1>1, <1>6 DEF CleanMatchesDisk, View, Data, Holds
<1>9. CASE outstanding = 1
  <2>1. TypeOK'
    <3>1. committing' \in BOOLEAN
      BY <1>4, <1>9, Zenon
    <3> QED
      BY <1>1, <1>4, <1>9, <3>1, LogAssumption DEF TypeOK
  <2>2. Active' = {}
    BY <1>3, <1>5, <1>9, FS_EmptySet
  <2>3. CommitInv'
    BY <1>1, <1>2, <1>4, <1>9, <2>2 DEF CommitInv, TypeOK
  <2>4. ListInv'
    BY <1>1, <1>2, <1>4, <1>9, LogAssumption DEF ListInv
  <2>5. CopyInv' /\ DirtyInv'
    BY <1>1, <1>2, <1>4, <1>9 DEF CopyInv, DirtyInv, Listed, Data, TypeOK
  <2> QED
    BY <1>7, <1>8, <2>1, <2>3, <2>4, <2>5
<1>10. CASE outstanding # 1
  <2>1. TypeOK'
    BY <1>1, <1>4, <1>10, LogAssumption DEF TypeOK, wakeup
  <2>2. CommitInv'
    <3>1. \A q \in Procs : pc'[q] # "commit"
      BY <1>1, <1>2, <1>4, <1>10 DEF CommitInv, TypeOK, wakeup
    <3> QED
      BY <1>1, <1>2, <1>4, <1>10, <3>1 DEF CommitInv
  <2>3. ListInv'
    BY <1>1, <1>3, <1>4, <1>10 DEF ListInv, TypeOK
  <2>4. CopyInv' /\ DirtyInv'
    BY <1>1, <1>4, <1>10 DEF CopyInv, DirtyInv, Listed, Data
  <2> QED
    BY <1>7, <1>8, <2>1, <2>2, <2>3, <2>4
<1> QED
  BY <1>9, <1>10

\* The committing process returns from end_op().
LEMMA CommitDoneStep ==
  ASSUME IInv, NEW p \in Procs, CommitDone(p)
  PROVE  IInv'
<1> USE DEF IInv, disk, ctl
<1>1. /\ pc[p] = "commit" /\ stage = "done"
      /\ committing' = FALSE
      /\ pc' = wakeup([pc EXCEPT ![p] = "idle"])
      /\ stage' = "none"
      /\ UNCHANGED <<disk, cache, dirty, lh, outstanding, wrote, buf, tail, booting>>
  BY DEF CommitDone
<1>2. committing /\ ~booting /\ Active = {} /\ lh = <<>> /\ dirty = {} /\ hd = <<>>
  BY <1>1 DEF CommitInv, ListInv, DirtyInv
<1>3. Active' = Active
  BY <1>1 DEF Active, TypeOK, wakeup
<1>4. \A q \in Procs : /\ pc'[q] = "logging" <=> pc[q] = "logging"
                       /\ pc'[q] = "panic" <=> pc[q] = "panic"
                       /\ pc'[q] = "commit" => q # p /\ pc[q] = "commit"
  BY <1>1 DEF TypeOK, wakeup
<1>5. TypeOK'
  <2>1. committing' \in BOOLEAN
    BY <1>1, Zenon
  <2> QED
    BY <1>1, <2>1 DEF TypeOK, wakeup
<1>6. OpInv'
  BY <1>1, <1>3, <1>4 DEF OpInv
<1>7. CommitInv'
  BY <1>1, <1>2, <1>3, <1>4 DEF CommitInv
<1>8. ListInv'
  BY <1>1, <1>2 DEF ListInv
<1>9. CopyInv' /\ DirtyInv'
  BY <1>1, <1>2 DEF CopyInv, DirtyInv, Listed
<1>10. CleanMatchesDisk'
  BY <1>1, <1>4 DEF CleanMatchesDisk, View, Data, Holds
<1> QED
  BY <1>5, <1>6, <1>7, <1>8, <1>9, <1>10

\* The copy of the transaction into the log, block by block.
LEMMA WriteLogStep ==
  ASSUME IInv, write_log \/ WriteLogDone
  PROVE  IInv'
<1> USE DEF IInv, disk, ctl, mem, ops
<1>1. CASE write_log
  <2>1. /\ stage = "write_log" /\ tail <= Len(lh) /\ tail \in Indices
        /\ logblk' = [logblk EXCEPT ![tail] = Data(lh[tail])]
        /\ tail' = tail + 1
        /\ UNCHANGED <<home, hd, mem, ops, stage, booting>>
    BY <1>1 DEF write_log
  <2>2. lh[tail] \in Blocks /\ Data(lh[tail]) \in Vals
    BY <2>1 DEF TypeOK, Data
  <2>3. TypeOK'
    BY <2>1, <2>2 DEF TypeOK
  <2>4. OpInv' /\ CommitInv'
    BY <2>1 DEF OpInv, CommitInv, Active
  <2>5. ListInv'
    BY <2>1, LogAssumption DEF ListInv, TypeOK, Indices
  <2>6. CopyInv'
    BY <2>1 DEF CopyInv, TypeOK, Data
  <2>7. DirtyInv' /\ CleanMatchesDisk'
    BY <2>1 DEF DirtyInv, Data, CleanMatchesDisk, View, Holds
  <2> QED
    BY <2>3, <2>4, <2>5, <2>6, <2>7
<1>2. CASE WriteLogDone
  <2>1. /\ stage = "write_log" /\ tail > Len(lh) /\ stage' = "write_head"
        /\ UNCHANGED <<disk, mem, ops, tail, booting>>
    BY <1>2 DEF WriteLogDone
  <2>2. TypeOK' /\ OpInv' /\ CommitInv'
    BY <2>1 DEF TypeOK, OpInv, CommitInv, Active
  <2>3. ListInv'
    BY <2>1, LogAssumption DEF ListInv, TypeOK
  <2>4. CopyInv'
    BY <2>1 DEF CopyInv, TypeOK, Data
  <2>5. DirtyInv' /\ CleanMatchesDisk'
    BY <2>1 DEF DirtyInv, Data, CleanMatchesDisk, View, Holds
  <2> QED
    BY <2>2, <2>3, <2>4, <2>5
<1> QED
  BY <1>1, <1>2

\* The commit point: the header now lists the transaction.
LEMMA WriteHeadStep ==
  ASSUME IInv, write_head
  PROVE  IInv'
<1> USE DEF IInv, disk, ctl, mem, ops
<1>1. /\ stage = "write_head" /\ hd' = lh
      /\ stage' = "install" /\ tail' = 1
      /\ UNCHANGED <<home, logblk, mem, ops, booting>>
  BY DEF write_head
<1>2. committing /\ ~booting
  BY <1>1 DEF CommitInv
<1>3. TypeOK' /\ OpInv'
  BY <1>1 DEF TypeOK, OpInv, Active
<1>4. CommitInv'
  BY <1>1, <1>2 DEF CommitInv, Active
<1>5. ListInv'
  BY <1>1 DEF ListInv
<1>6. CopyInv' /\ DirtyInv'
  BY <1>1, <1>2 DEF CopyInv, DirtyInv, Data, Listed, TypeOK
<1>7. CleanMatchesDisk'
  BY <1>1 DEF CleanMatchesDisk, View, Data, Holds
<1> QED
  BY <1>3, <1>4, <1>5, <1>6, <1>7

\* Recovery starts from the header that the crash has left.
LEMMA ReadHeadStep ==
  ASSUME IInv, read_head
  PROVE  IInv'
<1> USE DEF IInv, disk, ctl, mem, ops
<1>1. /\ stage = "read_head" /\ lh' = hd
      /\ stage' = "install" /\ tail' = 1
      /\ UNCHANGED <<disk, cache, dirty, outstanding, committing, ops, booting>>
  BY DEF read_head
<1>2. booting
  BY <1>1 DEF CommitInv
<1>3. TypeOK' /\ OpInv'
  BY <1>1 DEF TypeOK, OpInv, Active
<1>4. CommitInv'
  BY <1>1, <1>2 DEF CommitInv, Active
<1>5. ListInv'
  BY <1>1 DEF ListInv
<1>6. CopyInv' /\ DirtyInv'
  BY <1>1, <1>2 DEF CopyInv, DirtyInv, Data, TypeOK
<1>7. CleanMatchesDisk'
  BY <1>1 DEF CleanMatchesDisk, View, Data, Holds
<1> QED
  BY <1>3, <1>4, <1>5, <1>6, <1>7

\* One block goes home, in a commit or in recovery; its buffer may then be
\* recycled.
LEMMA InstallStep ==
  ASSUME IInv, install_trans
  PROVE  IInv'
<1> USE DEF IInv, disk, ctl, mem, ops
<1>1. /\ stage = "install" /\ tail <= Len(lh)
      /\ home' = [home EXCEPT ![lh[tail]] = logblk[tail]]
      /\ cache' = [cache EXCEPT ![lh[tail]] = logblk[tail]]
      /\ dirty' = dirty \ {lh[tail]}
      /\ tail' = tail + 1
      /\ UNCHANGED <<logblk, hd, lh, outstanding, committing, ops, stage, booting>>
  BY DEF install_trans
<1>2. /\ tail \in DOMAIN lh /\ tail \in Indices
      /\ lh[tail] \in Blocks /\ logblk[tail] \in Vals
  BY <1>1, LogAssumption DEF TypeOK, ListInv, Indices
<1> PICK h \in Blocks : h = lh[tail]
  BY <1>2
<1>3. /\ \A c \in Blocks : c # h => Data(c)' = Data(c) /\ home'[c] = home[c]
      /\ Data(h)' = logblk[tail] /\ home'[h] = logblk[tail]
  BY <1>1, <1>2, LogAssumption DEF Data, TypeOK
<1>4. \A i \in DOMAIN lh : lh[i] = h => i = tail
  BY <1>2 DEF ListInv, Injective
<1>5. TypeOK'
  BY <1>1, <1>2 DEF TypeOK
<1>6. OpInv' /\ CommitInv'
  BY <1>1 DEF OpInv, CommitInv, Active
<1>7. ListInv'
  BY <1>1 DEF ListInv
<1>8. CopyInv'
  <2> SUFFICES ASSUME NEW i \in DOMAIN lh
               PROVE  /\ ~booting => logblk[i] = Data(lh[i])'
                      /\ i < tail + 1 => home'[lh[i]] = logblk[i]
    BY <1>1 DEF CopyInv
  <2>1. CASE i = tail
    BY <1>1, <1>3, <2>1
  <2>2. CASE i # tail
    <3>1. lh[i] \in Blocks /\ lh[i] # h /\ i \in Nat
      BY <1>4, <2>2 DEF TypeOK
    <3>2. i < tail + 1 => i < tail
      BY <2>2, <3>1 DEF TypeOK
    <3> QED
      BY <1>1, <1>3, <3>1, <3>2 DEF CopyInv
  <2> QED
    BY <2>1, <2>2
<1>9. DirtyInv'
  <2>1. ASSUME booting PROVE dirty' = {} /\ \A c \in Blocks : (Data(c) = home[c])'
    BY <1>1, <1>3, <2>1 DEF DirtyInv
  <2>2. ASSUME ~booting, NEW c \in Blocks
        PROVE  c \in dirty' <=> \E i \in DOMAIN lh : i >= tail + 1 /\ lh[i] = c
    <3>1. c \in dirty <=> \E i \in DOMAIN lh : i >= tail /\ lh[i] = c
      BY <1>1, <2>2 DEF DirtyInv
    <3>2. \A i \in DOMAIN lh : i >= tail + 1 <=> i >= tail /\ i # tail
      BY DEF TypeOK
    <3> QED
      BY <1>1, <1>4, <3>1, <3>2
  <2> QED
    BY <1>1, <2>1, <2>2 DEF DirtyInv
<1>10. CleanMatchesDisk'
  <2> SUFFICES ASSUME NEW c \in Blocks, (View[c] # home[c])'
               PROVE  c \in dirty' \/ \E q \in Procs : Holds(q, c)'
    BY DEF CleanMatchesDisk
  <2>1. c # h /\ View[c] # home[c]
    BY <1>3 DEF View
  <2>2. c \in dirty \/ \E q \in Procs : Holds(q, c)
    BY <1>1, <2>1 DEF CleanMatchesDisk
  <2> QED
    BY <1>1, <2>1, <2>2 DEF Holds
<1> QED
  BY <1>5, <1>6, <1>7, <1>8, <1>9, <1>10

\* The transaction is installed, and then erased from the disk.
LEMMA ClearStep ==
  ASSUME IInv, InstallDone \/ ClearHead
  PROVE  IInv'
<1> USE DEF IInv, disk, ctl, mem, ops
<1>1. CASE InstallDone
  <2>1. /\ stage = "install" /\ tail > Len(lh) /\ stage' = "clear"
        /\ UNCHANGED <<disk, mem, ops, tail, booting>>
    BY <1>1 DEF InstallDone
  <2>2. TypeOK' /\ OpInv' /\ CommitInv'
    BY <2>1 DEF TypeOK, OpInv, CommitInv, Active
  <2>3. ListInv' /\ CopyInv'
    BY <2>1 DEF ListInv, CopyInv, Data, TypeOK
  <2>4. DirtyInv'
    BY <2>1 DEF DirtyInv, Data, TypeOK
  <2>5. CleanMatchesDisk'
    BY <2>1 DEF CleanMatchesDisk, View, Data, Holds
  <2> QED
    BY <2>2, <2>3, <2>4, <2>5
<1>2. CASE ClearHead
  <2>1. /\ stage = "clear" /\ lh' = <<>> /\ hd' = <<>>
        /\ stage' = IF booting THEN "none" ELSE "done"
        /\ booting' = FALSE
        /\ UNCHANGED <<home, logblk, cache, dirty, outstanding, committing, ops, tail>>
    BY <1>2 DEF ClearHead
  <2>2. TypeOK'
    <3>1. booting' \in BOOLEAN
      BY <2>1, Zenon
    <3> QED
      BY <2>1, <3>1 DEF TypeOK
  <2>3. OpInv' /\ CommitInv'
    BY <2>1 DEF OpInv, CommitInv, Active, TypeOK
  <2>4. ListInv' /\ CopyInv'
    BY <2>1, LogAssumption DEF ListInv, CopyInv, Injective
  <2>5. DirtyInv'
    BY <2>1 DEF DirtyInv, Listed
  <2>6. CleanMatchesDisk'
    BY <2>1 DEF CleanMatchesDisk, View, Data, Holds
  <2> QED
    BY <2>2, <2>3, <2>4, <2>5, <2>6
<1> QED
  BY <1>1, <1>2

\* Buffers come and go without a change of what bread() returns.
LEMMA CacheStep ==
  ASSUME IInv, NEW b \in Blocks, bread(b) \/ Recycle(b)
  PROVE  IInv' /\ \A c \in Blocks : Data(c)' = Data(c)
<1> USE DEF IInv, disk, ctl, ops
<1>1. UNCHANGED <<disk, dirty, lh, outstanding, committing, ops, ctl>>
  BY DEF bread, Recycle
<1>2. /\ \E x \in {NoBuf, home[b]} : cache' = [cache EXCEPT ![b] = x]
      /\ \A c \in Blocks : c # b => Data(c)' = Data(c)
      /\ Data(b)' = home[b]
  BY <1>1 DEF bread, Recycle, Data, TypeOK
<1>3. Data(b) = home[b]
  BY DEF bread, Recycle, Data, CleanMatchesDisk, View
<1>4. \A c \in Blocks : Data(c)' = Data(c)
  BY <1>2, <1>3
<1>5. TypeOK'
  BY <1>1, <1>2 DEF TypeOK
<1>6. OpInv' /\ CommitInv' /\ ListInv'
  BY <1>1 DEF OpInv, CommitInv, Active, ListInv
<1>7. CopyInv'
  <2>1. \A i \in DOMAIN lh : Data(lh[i])' = Data(lh[i])
    BY <1>1, <1>4 DEF TypeOK
  <2> QED
    BY <1>1, <2>1 DEF CopyInv
<1>8. DirtyInv'
  BY <1>1, <1>4 DEF DirtyInv, Listed
<1>9. CleanMatchesDisk'
  BY <1>1, <1>4 DEF CleanMatchesDisk, View, Holds
<1> QED
  BY <1>4, <1>5, <1>6, <1>7, <1>8, <1>9

\* The power fails, at any moment.
LEMMA CrashStep ==
  ASSUME IInv, Crash
  PROVE  IInv'
<1> USE DEF IInv, disk, ctl, mem, ops
<1>1. /\ cache' = [b \in Blocks |-> NoBuf] /\ dirty' = {}
      /\ lh' = <<>> /\ outstanding' = 0 /\ committing' = FALSE
      /\ pc' = [p \in Procs |-> "idle"]
      /\ wrote' = [p \in Procs |-> {}]
      /\ buf' = [p \in Procs |-> NoBuf]
      /\ stage' = "read_head" /\ tail' = 1 /\ booting' = TRUE
      /\ UNCHANGED disk
  BY DEF Crash
<1>2. Active' = {}
  BY <1>1 DEF Active
<1>3. TypeOK'
  <2>1. committing' \in BOOLEAN /\ booting' \in BOOLEAN
    BY <1>1, Zenon
  <2>2. lh' \in Seq(Blocks) /\ tail' \in Nat \ {0}
    BY <1>1
  <2> QED
    BY <1>1, <2>1, <2>2, LogAssumption DEF TypeOK
<1>4. OpInv'
  BY <1>1, <1>2, FS_EmptySet DEF OpInv
<1>5. CommitInv' /\ ListInv'
  BY <1>1, LogAssumption DEF CommitInv, ListInv, Injective
<1>6. CopyInv' /\ DirtyInv' /\ CleanMatchesDisk'
  BY <1>1 DEF CopyInv, DirtyInv, CleanMatchesDisk, View, Data
<1> QED
  BY <1>3, <1>4, <1>5, <1>6

\* IInv is inductive.
LEMMA IInvStep == IInv /\ [Next]_vars => IInv'
<1> SUFFICES ASSUME IInv, [Next]_vars PROVE IInv'
  OBVIOUS
<1>1. ASSUME NEW p \in Procs, FSCall(p) PROVE IInv'
  BY <1>1, BeginOpStep, LogAppendStep, EndOpStep, CommitDoneStep, LogWriteStep
  DEF FSCall
<1>2. CASE Commit
  BY <1>2, WriteLogStep, WriteHeadStep, ReadHeadStep, InstallStep, ClearStep
  DEF Commit
<1>3. ASSUME NEW b \in Blocks, bread(b) \/ Recycle(b) PROVE IInv'
  BY <1>3, CacheStep
<1>4. CASE Crash
  BY <1>4, CrashStep
<1>5. CASE UNCHANGED vars
  BY <1>5 DEF vars, disk, mem, ops, ctl, IInv, TypeOK, OpInv, CommitInv, ListInv,
       CopyInv, DirtyInv, CleanMatchesDisk, Active, Data, View,
       Holds
<1> QED
  BY <1>1, <1>2, <1>3, <1>4, <1>5 DEF Next

\* The invariant holds in every reachable state.
LEMMA Invariant == Spec => []IInv
BY InitIInv, IInvStep, PTL DEF Spec

-----------------------------------------------------------------------------
\* "The logging system only commits when there are no FS system calls active",
\* and once a commit is over all of its effects are at their home location and
\* the log is empty, for any sizes of the log and of operations.
THEOREM CommitSoundAlways == Spec => []CommitSound
<1>1. IInv => CommitSound
  <2> SUFFICES ASSUME IInv PROVE CommitAlone /\ QuietIsDurable
    BY DEF IInv, CommitSound
  <2>1. CommitAlone
    BY FS_EmptySet DEF IInv, CommitAlone, CommitInv, OpInv, Active
  <2>2. ASSUME ~booting, outstanding = 0, ~committing
        PROVE  home = View /\ hd = <<>> /\ lh = <<>> /\ dirty = {}
    <3>1. stage = "none" /\ Active = {}
      BY <2>2, FS_EmptySet DEF IInv, CommitInv, OpInv
    <3>2. hd = <<>> /\ lh = <<>>
      BY <2>2, <3>1 DEF IInv, ListInv
    <3>3. dirty = {}
      BY <3>1, <3>2 DEF IInv, DirtyInv, Listed, TypeOK
    <3>4. CleanMatchesDisk /\ \A b \in Blocks, p \in Procs : ~Holds(p, b)
      BY <3>1 DEF IInv, Active, Holds
    <3>5. home = View
      BY <3>3, <3>4 DEF IInv, CleanMatchesDisk, View, TypeOK
    <3> QED
      BY <3>2, <3>3, <3>5
  <2> QED
    BY <2>1, <2>2 DEF QuietIsDurable
<1> QED
  BY <1>1, Invariant, PTL

\* A buffer that may be recycled holds what the disk holds: B_DIRTY and the
\* locks of log_write() protect the others, for any sizes of the log and of
\* operations, and also when log_write() has panicked.
THEOREM CleanMatchesDiskAlways == Spec => []CleanMatchesDisk
<1>1. IInv => CleanMatchesDisk
  BY DEF IInv
<1> QED
  BY <1>1, Invariant, PTL

-----------------------------------------------------------------------------
(* Sleeping in begin_op() *)

\* A longer list does not end the wait.
LEMMA MustWaitMonotone ==
  ASSUME IInv, MustWait, committing' = committing, outstanding' = outstanding,
         Len(lh') \in Nat, Len(lh') >= Len(lh)
  PROVE  MustWait'
<1>1. Len(lh) \in Nat /\ (outstanding + 1) * MAXOPBLOCKS \in Int
  BY LogAssumption DEF IInv, TypeOK
<1> QED
  BY <1>1, LogAssumption DEF MustWait

\* Each step that makes room wakes everybody who sleeps for it.
LEMMA SleeperStep ==
  IInv /\ SleeperHasReason /\ [Next]_vars => SleeperHasReason'
<1> SUFFICES ASSUME IInv, SleeperHasReason, [Next]_vars,
                    NEW s \in Procs, pc'[s] = "asleep"
             PROVE  MustWait' /\ (committing' \/ outstanding' > 0)
  BY DEF SleeperHasReason
<1> USE DEF disk, mem, ops, ctl
<1>1. ASSUME pc[s] = "asleep", UNCHANGED <<lh, outstanding, committing>>
      PROVE  MustWait' /\ (committing' \/ outstanding' > 0)
  BY <1>1 DEF SleeperHasReason, MustWait
<1>2. ASSUME NEW p \in Procs, begin_op(p)
      PROVE  MustWait' /\ (committing' \/ outstanding' > 0)
  <2>1. CASE MustWait
    <3>1. UNCHANGED <<lh, outstanding, committing>> /\ ~booting
      BY <1>2, <2>1 DEF begin_op
    <3>2. MustWait'
      BY <2>1, <3>1 DEF MustWait
    <3>3. ASSUME ~committing, outstanding = 0 PROVE FALSE
      <4>1. lh = <<>>
        BY <3>1, <3>3 DEF IInv, CommitInv, ListInv
      <4>2. Len(lh) + (outstanding + 1) * MAXOPBLOCKS = MAXOPBLOCKS
        BY <3>3, <4>1, LogAssumption
      <4> QED
        BY <2>1, <3>3, <4>2, LogAssumption DEF MustWait
    <3>4. outstanding \in Nat
      BY FS_CardinalityType DEF IInv, OpInv
    <3> QED
      BY <3>1, <3>2, <3>3, <3>4
  <2>2. CASE ~MustWait
    <3>1. pc[s] = "asleep"
      BY <1>2, <2>2 DEF begin_op, IInv, TypeOK
    <3> QED
      BY <2>2, <3>1 DEF SleeperHasReason
  <2> QED
    BY <2>1, <2>2
<1>3. ASSUME NEW p \in Procs, NEW b \in Blocks, NEW v \in Vals, log_write(p, b, v)
      PROVE  MustWait' /\ (committing' \/ outstanding' > 0)
  BY <1>1, <1>3 DEF log_write, IInv, TypeOK
<1>4. ASSUME NEW p \in Procs, log_append(p)
      PROVE  MustWait' /\ (committing' \/ outstanding' > 0)
  <2>1. /\ pc[s] = "asleep" /\ lh' = Record(buf[p])
        /\ UNCHANGED <<outstanding, committing>> /\ buf[p] \in Blocks
    BY <1>4 DEF log_append, IInv, TypeOK, OpInv
  <2>2. MustWait /\ (committing \/ outstanding > 0)
    BY <2>1 DEF SleeperHasReason
  <2>3. Len(lh') \in Nat /\ Len(lh') >= Len(lh)
    BY <2>1 DEF Record, IInv, TypeOK
  <2> QED
    BY <2>1, <2>2, <2>3, MustWaitMonotone
<1>5. ASSUME NEW p \in Procs, end_op(p)
      PROVE  MustWait' /\ (committing' \/ outstanding' > 0)
  <2>1. ~committing
    BY <1>5 DEF end_op, IInv, CommitInv, Active
  <2>2. outstanding = 1
    BY <1>5, <2>1 DEF end_op, wakeup
  <2> QED
    BY <1>5, <2>1, <2>2 DEF end_op, MustWait
<1>6. ASSUME NEW p \in Procs, CommitDone(p) PROVE FALSE
  BY <1>6 DEF CommitDone, wakeup
<1>7. CASE write_log \/ WriteLogDone \/ write_head \/ install_trans \/ InstallDone
  BY <1>1, <1>7 DEF write_log, WriteLogDone, write_head, install_trans, InstallDone
<1>8. CASE read_head
  BY <1>8 DEF read_head, IInv, CommitInv
<1>9. CASE ClearHead
  <2>1. pc[s] = "asleep" /\ stage = "clear" /\ committing' = committing
    BY <1>9 DEF ClearHead
  <2>2. committing'
    BY <2>1 DEF IInv, CommitInv
  <2> QED
    BY <2>2 DEF MustWait
<1>10. ASSUME NEW b \in Blocks, bread(b) \/ Recycle(b)
       PROVE  MustWait' /\ (committing' \/ outstanding' > 0)
  BY <1>1, <1>10 DEF bread, Recycle
<1>11. CASE Crash
  BY <1>11 DEF Crash
<1>12. CASE UNCHANGED vars
  BY <1>1, <1>12 DEF vars
<1> QED
  BY <1>2, <1>3, <1>4, <1>5, <1>6, <1>7, <1>8, <1>9, <1>10, <1>11, <1>12
  DEF Next, FSCall, Commit

\* No lost wakeup in begin_op(): a process asleep there has to wait, and an
\* operation or a commit is under way that will wake it.
THEOREM SleeperHasReasonAlways == Spec => []SleeperHasReason
<1>1. Init => SleeperHasReason
  BY DEF Init, SleeperHasReason
<1> QED
  BY <1>1, Invariant, SleeperStep, PTL DEF Spec

-----------------------------------------------------------------------------
(* The reservation of begin_op() *)

\* The most entries the header ever has, when operations write fewer blocks than
\* begin_op() reserves for them: the last one let in leaves the rest unused.
Room == LOGSIZE - (MAXOPBLOCKS - OpWrites)

\* What the argument needs of the sizes.  With param.h and mkfs.c (LOGSIZE = NLOG
\* = 30, MAXOPBLOCKS = 10) it is OpWrites <= 8; filewrite(), the operation that
\* writes most, writes 7 blocks: four of data, one of the bitmap, the indirect
\* block and the inode's.  The inequalities are strict since log_write() checks
\* for room before it looks whether the block is in the header already.
RoomForAll == OpWrites < MAXOPBLOCKS /\ Room < NLOG - 1

\* The entries that the operation of p may still add to the header.
Claim(p) == OpWrites - Cardinality(wrote[p])
            + IF pc[p] = "logging" /\ ~Listed(lh, buf[p]) THEN 1 ELSE 0

\* One element for each of them, so that their number is a cardinality.
Claims == {x \in Active \X (1 .. OpWrites) : x[2] <= Claim(x[1])}

\* What an operation has written is in the header, except the block it is just
\* about to record.
WroteInv ==
    \A p \in Active :
        /\ IsFiniteSet(wrote[p]) /\ Cardinality(wrote[p]) <= OpWrites
        /\ \A b \in wrote[p] :
              Listed(lh, b) \/ (pc[p] = "logging" /\ buf[p] = b)
        /\ pc[p] = "logging" => buf[p] \in wrote[p]

SpaceInv ==
    /\ NoPanic /\ WroteInv
    /\ Len(lh) <= Room /\ Len(hd) <= Room
    /\ stage = "none" => Len(lh) + Cardinality(Claims) <= Room

\* Room is a natural number, below both limits that log_write() checks.
LEMMA RoomFacts ==
  ASSUME RoomForAll
  PROVE  Room \in Nat /\ Room < LOGSIZE /\ Room < NLOG - 1
BY LogAssumption DEF RoomForAll, Room

\* There are finitely many claims, at most OpWrites for each operation.
ClaimsBounded ==
    /\ IsFiniteSet(Claims) /\ Cardinality(Claims) \in Nat
    /\ Cardinality(Claims) <= outstanding * OpWrites

\* The claims of the operations that are counted in outstanding are bounded.
LEMMA ClaimsFinite == OpInv => ClaimsBounded
<1> SUFFICES ASSUME OpInv PROVE ClaimsBounded
  OBVIOUS
<1>1. /\ IsFiniteSet(1 .. OpWrites) /\ Cardinality(1 .. OpWrites) = OpWrites
  BY FS_Interval, LogAssumption
<1>2. /\ IsFiniteSet(Active \X (1 .. OpWrites))
      /\ Cardinality(Active \X (1 .. OpWrites)) = outstanding * OpWrites
  BY <1>1, FS_Product DEF OpInv
<1>3. Claims \in SUBSET (Active \X (1 .. OpWrites))
  BY DEF Claims
<1>4. /\ IsFiniteSet(Claims)
      /\ Cardinality(Claims) <= Cardinality(Active \X (1 .. OpWrites))
  BY <1>2, <1>3, FS_Subset
<1> QED
  BY <1>2, <1>4, FS_CardinalityType DEF ClaimsBounded

ClaimsTyped == \A p \in Active : Cardinality(wrote[p]) \in Nat /\ Claim(p) \in Int

\* The claim of an operation is a number.
LEMMA ClaimType == WroteInv => ClaimsTyped
<1> SUFFICES ASSUME WroteInv, NEW p \in Active
             PROVE  Cardinality(wrote[p]) \in Nat /\ Claim(p) \in Int
  BY DEF ClaimsTyped
<1>1. Cardinality(wrote[p]) \in Nat
  BY FS_CardinalityType DEF WroteInv
<1> QED
  BY <1>1, LogAssumption DEF Claim

\* A step that adds no entry and raises no claim keeps within what is reserved.
LEMMA ClaimsKept ==
  ASSUME RoomForAll, IInv, IInv', SpaceInv, NoPanic', WroteInv', stage = "none",
         Len(lh') = Len(lh), hd' = hd, Active' \subseteq Active,
         \A p \in Active' : Claim(p)' <= Claim(p)
  PROVE  SpaceInv'
<1>1. Claims' \in SUBSET Claims
  <2> SUFFICES ASSUME NEW q \in Active', NEW k \in 1 .. OpWrites, k <= Claim(q)'
               PROVE  k <= Claim(q)
    BY DEF Claims
  <2>1. Claim(q) \in Int
    BY ClaimType DEF SpaceInv, ClaimsTyped
  <2>2. (WroteInv => ClaimsTyped)'
    BY ClaimType, PTL
  <2>3. Claim(q)' \in Int
    BY <2>2 DEF ClaimsTyped
  <2> QED
    BY <2>1, <2>3
<1>2. Cardinality(Claims') <= Cardinality(Claims) /\ Cardinality(Claims) \in Nat
      /\ Cardinality(Claims') \in Nat
  BY <1>1, ClaimsFinite, FS_Subset, FS_CardinalityType DEF IInv, ClaimsBounded
<1>3. Len(lh) \in Nat
  BY DEF IInv, TypeOK
<1> QED
  BY <1>2, <1>3, RoomFacts DEF SpaceInv

\* Without operations there is nothing to reserve.
LEMMA NoClaims ==
  ASSUME RoomForAll, IInv', Active' = {}, NoPanic',
         Len(lh') <= Room, Len(hd') <= Room
  PROVE  SpaceInv'
<1>1. Claims' = {}
  BY DEF Claims
<1>2. Cardinality(Claims') = 0
  BY <1>1, FS_EmptySet
<1>3. Len(lh') \in Nat
  BY DEF IInv, TypeOK
<1>4. WroteInv'
  BY DEF WroteInv
<1> QED
  BY <1>2, <1>3, <1>4, RoomFacts DEF SpaceInv

\* begin_op() lets an operation in only if the log has room for all the blocks
\* it and the others may log, and for what it will not use of its reservation.
LEMMA BeginOpSpace ==
  ASSUME RoomForAll, IInv, IInv', SpaceInv, NEW p \in Procs, begin_op(p)
  PROVE  SpaceInv'
<1> USE DEF ctl, disk
<1>1. /\ pc[p] \in {"idle", "woken"} /\ ~booting
      /\ UNCHANGED <<lh, hd, stage, buf>>
  BY DEF begin_op
<1>2. CASE MustWait
  <2>1. pc' = [pc EXCEPT ![p] = "asleep"] /\ UNCHANGED wrote
    BY <1>2 DEF begin_op
  <2>2. NoPanic' /\ Active' = Active /\ \A q \in Active : pc'[q] = pc[q]
    BY <1>1, <2>1 DEF Active, IInv, TypeOK, NoPanic, SpaceInv
  <2>3. WroteInv'
    BY <1>1, <2>1, <2>2 DEF WroteInv, SpaceInv
  <2>4. \A q \in Active' : Claim(q)' = Claim(q)
    BY <1>1, <2>1, <2>2 DEF Claim
  <2>5. CASE stage = "none"
    <3>1. \A q \in Active' : Claim(q)' <= Claim(q)
      BY <2>2, <2>4, ClaimType DEF SpaceInv, ClaimsTyped
    <3> QED
      BY <1>1, <2>2, <2>3, <2>5, <3>1, ClaimsKept
  <2>6. CASE stage # "none"
    BY <1>1, <2>2, <2>3, <2>6 DEF SpaceInv
  <2> QED
    BY <2>5, <2>6
<1>3. CASE ~MustWait
  <2>1. /\ outstanding' = outstanding + 1
        /\ pc' = [pc EXCEPT ![p] = "op"]
        /\ wrote' = [wrote EXCEPT ![p] = {}]
    BY <1>3 DEF begin_op
  <2>2. NoPanic'
    BY <2>1 DEF IInv, TypeOK, NoPanic, SpaceInv
  <2>3. WroteInv'
    <3> SUFFICES ASSUME NEW q \in Active'
                 PROVE  /\ IsFiniteSet(wrote'[q]) /\ Cardinality(wrote'[q]) <= OpWrites
                        /\ \A b \in wrote'[q] : \/ Listed(lh, b)'
                                                \/ pc'[q] = "logging" /\ buf'[q] = b
                        /\ pc'[q] = "logging" => buf'[q] \in wrote'[q]
      BY DEF WroteInv
    <3>1. CASE q = p
      BY <2>1, <3>1, FS_EmptySet, LogAssumption DEF IInv, TypeOK
    <3>2. CASE q # p
      <4>1. q \in Active /\ wrote'[q] = wrote[q] /\ pc'[q] = pc[q]
        BY <2>1, <3>2 DEF IInv, TypeOK, Active
      <4> QED
        BY <1>1, <4>1 DEF WroteInv, SpaceInv
    <3> QED
      BY <3>1, <3>2
  <2>4. Len(lh) \in Nat /\ outstanding \in Nat
    BY FS_CardinalityType DEF IInv, TypeOK, OpInv
  <2>5. Len(lh) + outstanding' * MAXOPBLOCKS <= LOGSIZE
    <3>1. (outstanding + 1) * MAXOPBLOCKS \in Int
      BY <2>4, LogAssumption
    <3>2. Len(lh) + (outstanding + 1) * MAXOPBLOCKS <= LOGSIZE
      BY <1>3, <2>4, <3>1, LogAssumption DEF MustWait
    <3> QED
      BY <2>1, <3>2
  <2>6. Cardinality(Claims') \in Nat /\ Cardinality(Claims') <= outstanding' * OpWrites
    <3>1. (OpInv => ClaimsBounded)'
      BY ClaimsFinite, PTL
    <3> QED
      BY <3>1 DEF IInv, ClaimsBounded
  <2>7. Len(lh) + outstanding' * OpWrites <= Room
    <3> DEFINE d == MAXOPBLOCKS - OpWrites
    <3>1. d \in Nat /\ MAXOPBLOCKS = OpWrites + d /\ Room = LOGSIZE - d
      BY LogAssumption DEF RoomForAll, Room
    <3> HIDE DEF d
    <3>2. (outstanding + 1) * (OpWrites + d)
            = outstanding * OpWrites + OpWrites + outstanding * d + d
      BY <2>4, <3>1, LogAssumption
    <3>3. (outstanding + 1) * OpWrites = outstanding * OpWrites + OpWrites
      BY <2>4, LogAssumption
    <3>4. outstanding * d \in Nat /\ outstanding * OpWrites \in Nat
      BY <2>4, <3>1, LogAssumption
    <3> QED
      BY <2>1, <2>4, <2>5, <3>1, <3>2, <3>3, <3>4, LogAssumption
  <2>8. outstanding' * OpWrites \in Nat
    BY <2>1, <2>4, LogAssumption
  <2>9. Len(lh) + Cardinality(Claims') <= Room
    BY <2>4, <2>6, <2>7, <2>8, RoomFacts
  <2> QED
    BY <1>1, <2>2, <2>3, <2>9 DEF SpaceInv
<1> QED
  BY <1>2, <1>3

\* An entry in the header uses up a claim; a block that is there already does not.
LEMMA LogAppendSpace ==
  ASSUME RoomForAll, IInv, IInv', SpaceInv, NEW p \in Procs, log_append(p)
  PROVE  SpaceInv'
<1> USE DEF ctl, disk
<1>1. /\ pc[p] = "logging" /\ lh' = Record(buf[p])
      /\ pc' = [pc EXCEPT ![p] = "op"] /\ buf' = [buf EXCEPT ![p] = NoBuf]
      /\ UNCHANGED <<wrote, stage, hd>>
  BY DEF log_append
<1>2. p \in Active /\ Active' = Active /\ NoPanic' /\ stage = "none"
  BY <1>1 DEF Active, IInv, TypeOK, NoPanic, SpaceInv, CommitInv
<1>3. /\ lh \in Seq(Blocks) /\ lh' \in Seq(Blocks)
      /\ buf[p] \in Blocks /\ buf[p] \in wrote[p] /\ Injective(lh)
  BY <1>1, <1>2 DEF IInv, TypeOK, OpInv, ListInv, SpaceInv, WroteInv
<1>4. /\ \A c \in Blocks : Listed(lh', c) <=> Listed(lh, c) \/ c = buf[p]
      /\ Len(lh') <= Len(lh) + 1 /\ Len(lh) \in Nat /\ Len(lh') \in Nat
  <2>1. \A s \in Seq(Blocks) : Len(s) \in Nat
    OBVIOUS
  <2> QED
    BY <1>1, <1>3, <2>1, RecordFacts
<1>5. \A q \in Active : q # p => pc'[q] = pc[q] /\ buf'[q] = buf[q]
  BY <1>1 DEF IInv, TypeOK, Active
<1>6. pc'[p] = "op"
  BY <1>1 DEF IInv, TypeOK
<1>7. \A q \in Active : \A b \in wrote[q] : b \in Blocks
  BY DEF IInv, TypeOK, Active
<1>8. WroteInv'
  <2> SUFFICES ASSUME NEW q \in Active
               PROVE  /\ IsFiniteSet(wrote[q]) /\ Cardinality(wrote[q]) <= OpWrites
                      /\ \A b \in wrote[q] : \/ Listed(lh', b)
                                             \/ pc'[q] = "logging" /\ buf'[q] = b
                      /\ pc'[q] = "logging" => buf'[q] \in wrote[q]
    BY <1>1, <1>2 DEF WroteInv
  <2>1. WroteInv
    BY DEF SpaceInv
  <2>2. CASE q = p
    BY <1>1, <1>4, <1>6, <1>7, <2>1, <2>2 DEF WroteInv
  <2>3. CASE q # p
    BY <1>4, <1>5, <1>7, <2>1, <2>3 DEF WroteInv
  <2> QED
    BY <2>2, <2>3
<1>9. \A q \in Active : Claim(q) \in Int /\ Cardinality(wrote[q]) \in Nat
  BY ClaimType DEF SpaceInv, ClaimsTyped
<1>10. \A q \in Active : q # p => Claim(q)' <= Claim(q)
  <2> SUFFICES ASSUME NEW q \in Active, q # p PROVE Claim(q)' <= Claim(q)
    OBVIOUS
  <2>1. pc[q] = "logging" => buf[q] \in Blocks
    BY DEF IInv, OpInv, Active
  <2> QED
    BY <1>1, <1>4, <1>5, <1>9, <2>1, LogAssumption DEF Claim
<1>11. CASE Listed(lh, buf[p])
  <2>1. Claim(p)' = Claim(p)
    BY <1>1, <1>6, <1>9, <1>11, LogAssumption DEF Claim
  <2>2. Len(lh') = Len(lh)
    BY <1>1, <1>11 DEF Record
  <2>3. \A q \in Active' : Claim(q)' <= Claim(q)
    BY <1>2, <1>9, <1>10, <2>1
  <2> QED
    BY <1>1, <1>2, <1>8, <2>2, <2>3, ClaimsKept
<1>12. CASE ~Listed(lh, buf[p])
  <2>1. Cardinality(wrote[p]) >= 1
    BY <1>2, <1>3, <1>9, FS_EmptySet DEF SpaceInv, WroteInv
  <2>2. Cardinality(wrote[p]) <= OpWrites
    BY <1>2 DEF SpaceInv, WroteInv
  <2>3. /\ Claim(p) = OpWrites - Cardinality(wrote[p]) + 1
        /\ Claim(p)' = OpWrites - Cardinality(wrote[p])
    BY <1>1, <1>2, <1>6, <1>9, <1>12, LogAssumption DEF Claim
  <2>4. Claim(p) \in 1 .. OpWrites /\ Claim(p)' = Claim(p) - 1
    BY <1>2, <1>9, <2>1, <2>2, <2>3, LogAssumption
  <2> DEFINE t == <<p, Claim(p)>>
  <2>5. t \in Claims
    BY <1>2, <2>4 DEF Claims
  <2>6. Claims' \in SUBSET (Claims \ {t})
    <3> SUFFICES ASSUME NEW q \in Active, NEW k \in 1 .. OpWrites, k <= Claim(q)'
                 PROVE  k <= Claim(q) /\ <<q, k>> # t
      BY <1>2 DEF Claims
    <3>1. CASE q = p
      BY <1>9, <2>4, <3>1
    <3>2. CASE q # p
      <4>1. (WroteInv => ClaimsTyped)'
        BY ClaimType, PTL
      <4>2. Claim(q)' \in Int /\ Claim(q) \in Int /\ Claim(q)' <= Claim(q)
        BY <1>2, <1>8, <1>9, <1>10, <3>2, <4>1 DEF ClaimsTyped
      <4> QED
        BY <3>2, <4>2
    <3> QED
      BY <3>1, <3>2
  <2>7. /\ IsFiniteSet(Claims \ {t}) /\ Cardinality(Claims) \in Nat
        /\ Cardinality(Claims \ {t}) = Cardinality(Claims) - 1
    BY <2>5, ClaimsFinite, FS_RemoveElement DEF IInv, ClaimsBounded
  <2>8. /\ Cardinality(Claims') \in Nat
        /\ Cardinality(Claims') <= Cardinality(Claims) - 1
    BY <2>6, <2>7, FS_Subset, FS_CardinalityType
  <2>9. Len(lh) + Cardinality(Claims) <= Room
    BY <1>2 DEF SpaceInv
  <2>10. Len(lh') + Cardinality(Claims') <= Room
    BY <1>4, <2>7, <2>8, <2>9, RoomFacts
  <2>11. Len(lh') <= Room
    BY <1>4, <2>8, <2>10, RoomFacts
  <2> QED
    BY <1>1, <1>2, <1>8, <2>10, <2>11 DEF SpaceInv
<1> QED
  BY <1>11, <1>12

\* log_write() moves a claim to the call under way, and none when the operation
\* has written the block before; its checks find room in both cases.
LEMMA LogWriteSpace ==
  ASSUME RoomForAll, IInv, IInv', SpaceInv, NEW p \in Procs,
         NEW b \in Blocks, NEW v \in Vals, log_write(p, b, v)
  PROVE  SpaceInv'
<1> USE DEF ctl, disk
<1>1. /\ pc[p] = "op" /\ Cardinality(wrote[p] \cup {b}) <= OpWrites
      /\ pc' = [pc EXCEPT ![p] =
                  IF Len(lh) >= LOGSIZE \/ Len(lh) >= NLOG - 1 \/ outstanding < 1
                  THEN "panic" ELSE "logging"]
      /\ buf' = [buf EXCEPT ![p] = b]
      /\ wrote' = [wrote EXCEPT ![p] = @ \cup {b}]
      /\ UNCHANGED <<lh, hd, stage>>
  BY DEF log_write
<1>2. p \in Active /\ stage = "none"
  BY <1>1 DEF Active, IInv, CommitInv
<1>3. outstanding >= 1
  BY <1>2, FS_EmptySet, FS_CardinalityType DEF IInv, OpInv
<1>4. pc' = [pc EXCEPT ![p] = "logging"]
  <2>1. Len(lh) \in Nat /\ Len(lh) <= Room /\ outstanding \in Int
    BY DEF IInv, TypeOK, SpaceInv
  <2>2. ~(Len(lh) >= LOGSIZE \/ Len(lh) >= NLOG - 1 \/ outstanding < 1)
    BY <1>3, <2>1, RoomFacts, LogAssumption
  <2> QED
    BY <1>1, <2>2
<1>5. Active' = Active /\ NoPanic'
  BY <1>1, <1>4 DEF Active, IInv, TypeOK, NoPanic, SpaceInv
<1>6. \A q \in Active : q # p => /\ pc'[q] = pc[q] /\ buf'[q] = buf[q]
                                 /\ wrote'[q] = wrote[q]
  BY <1>1, <1>4 DEF IInv, TypeOK, Active
<1>7. pc'[p] = "logging" /\ buf'[p] = b /\ wrote'[p] = wrote[p] \cup {b}
  BY <1>1, <1>4 DEF IInv, TypeOK
<1>8. WroteInv
  BY DEF SpaceInv
<1>9. /\ IsFiniteSet(wrote[p]) /\ IsFiniteSet(wrote[p] \cup {b})
      /\ Cardinality(wrote[p]) \in Nat
      /\ Cardinality(wrote[p] \cup {b}) =
           Cardinality(wrote[p]) + IF b \in wrote[p] THEN 0 ELSE 1
  <2>1. IsFiniteSet(wrote[p])
    BY <1>2, <1>8 DEF WroteInv
  <2>2. b \in wrote[p] => wrote[p] \cup {b} = wrote[p]
    OBVIOUS
  <2>3. Cardinality(wrote[p]) \in Nat
    BY <2>1, FS_CardinalityType
  <2>4. CASE b \in wrote[p]
    BY <2>1, <2>2, <2>3, <2>4
  <2>5. CASE b \notin wrote[p]
    <3>1. /\ IsFiniteSet(wrote[p] \cup {b})
          /\ Cardinality(wrote[p] \cup {b}) = Cardinality(wrote[p]) + 1
      BY <2>1, <2>5, FS_AddElement
    <3> QED
      BY <2>1, <2>3, <2>5, <3>1
  <2> QED
    BY <2>4, <2>5
<1>10. \A c \in wrote[p] : Listed(lh, c)
  BY <1>1, <1>2, <1>8 DEF WroteInv
<1>11. WroteInv'
  <2> SUFFICES ASSUME NEW q \in Active
               PROVE  /\ IsFiniteSet(wrote'[q]) /\ Cardinality(wrote'[q]) <= OpWrites
                      /\ \A c \in wrote'[q] : \/ Listed(lh, c)
                                              \/ pc'[q] = "logging" /\ buf'[q] = c
                      /\ pc'[q] = "logging" => buf'[q] \in wrote'[q]
    BY <1>1, <1>5 DEF WroteInv
  <2>1. CASE q = p
    BY <1>1, <1>7, <1>9, <1>10, <2>1
  <2>2. CASE q # p
    BY <1>6, <1>8, <2>2 DEF WroteInv
  <2> QED
    BY <2>1, <2>2
<1>12. \A q \in Active : Claim(q) \in Int
  BY <1>8, ClaimType DEF ClaimsTyped
<1>13. \A q \in Active' : Claim(q)' <= Claim(q)
  <2> SUFFICES ASSUME NEW q \in Active PROVE Claim(q)' <= Claim(q)
    BY <1>5
  <2>1. CASE q = p
    <3>1. Claim(p) = OpWrites - Cardinality(wrote[p])
      BY <1>1, <1>9, LogAssumption DEF Claim
    <3>2. Claim(p)' = OpWrites - Cardinality(wrote[p] \cup {b})
                      + IF ~Listed(lh, b) THEN 1 ELSE 0
      BY <1>1, <1>7 DEF Claim
    <3>3. b \in wrote[p] => Listed(lh, b)
      BY <1>10
    <3> QED
      BY <1>9, <2>1, <3>1, <3>2, <3>3, LogAssumption
  <2>2. CASE q # p
    <3>1. Claim(q)' = Claim(q)
      BY <1>1, <1>6, <2>2 DEF Claim
    <3> QED
      BY <1>12, <3>1
  <2> QED
    BY <2>1, <2>2
<1> QED
  BY <1>1, <1>2, <1>5, <1>11, <1>13, ClaimsKept

\* The other steps reserve nothing.
LEMMA SpaceStep ==
  ASSUME RoomForAll
  PROVE  IInv /\ IInv' /\ SpaceInv /\ [Next]_vars => SpaceInv'
<1> SUFFICES ASSUME IInv, IInv', SpaceInv, [Next]_vars PROVE SpaceInv'
  OBVIOUS
<1> USE DEF disk, mem, ops, ctl
<1>1. ASSUME UNCHANGED <<lh, pc, wrote, buf>>, Len(hd') <= Room,
             (stage = stage' /\ hd' = hd) \/ stage' # "none"
      PROVE  SpaceInv'
  <2>1. Active' = Active /\ NoPanic' /\ WroteInv'
    BY <1>1 DEF Active, NoPanic, WroteInv, SpaceInv
  <2>2. CASE stage' # "none"
    BY <1>1, <2>1, <2>2 DEF SpaceInv
  <2>3. CASE stage' = "none"
    <3>1. \A q \in Active' : Claim(q)' = Claim(q)
      BY <1>1, <2>1 DEF Claim
    <3>2. \A q \in Active' : Claim(q)' <= Claim(q)
      BY <2>1, <3>1, ClaimType DEF SpaceInv, ClaimsTyped
    <3> QED
      BY <1>1, <2>1, <2>3, <3>2, ClaimsKept
  <2> QED
    BY <2>2, <2>3
<1>2. ASSUME NEW p \in Procs, end_op(p) PROVE SpaceInv'
  <2>1. pc[p] = "op" /\ stage = "none" /\ ~committing
    BY <1>2 DEF end_op, IInv, CommitInv, Active
  <2>2. /\ wrote' = [wrote EXCEPT ![p] = {}] /\ lh' = lh /\ hd' = hd /\ buf' = buf
        /\ \/ pc' = [pc EXCEPT ![p] = "commit"]
           \/ pc' = wakeup([pc EXCEPT ![p] = "idle"])
    BY <1>2, <2>1 DEF end_op
  <2>3. Active' \subseteq Active /\ NoPanic' /\ \A q \in Active' : q # p
    BY <2>1, <2>2 DEF Active, NoPanic, SpaceInv, IInv, TypeOK, wakeup
  <2>4. \A q \in Active' : wrote'[q] = wrote[q] /\ pc'[q] = pc[q]
    BY <2>1, <2>2, <2>3 DEF Active, IInv, TypeOK, wakeup
  <2>5. WroteInv'
    BY <2>2, <2>3, <2>4 DEF WroteInv, SpaceInv
  <2>6. \A q \in Active' : Claim(q)' = Claim(q)
    BY <2>2, <2>4 DEF Claim
  <2>7. \A q \in Active' : Claim(q)' <= Claim(q)
    BY <2>3, <2>6, ClaimType DEF SpaceInv, ClaimsTyped
  <2> QED
    BY <2>1, <2>2, <2>3, <2>5, <2>7, ClaimsKept
<1>3. ASSUME NEW p \in Procs, CommitDone(p) PROVE SpaceInv'
  <2>1. Active' = {} /\ NoPanic' /\ lh' = lh /\ hd' = hd
    BY <1>3 DEF CommitDone, IInv, CommitInv, Active, NoPanic, SpaceInv, TypeOK, wakeup
  <2> QED
    BY <2>1, NoClaims DEF SpaceInv
<1>4. CASE write_log \/ WriteLogDone \/ write_head \/ install_trans \/ InstallDone
  <2>1. Len(hd') <= Room
    BY <1>4 DEF write_log, WriteLogDone, write_head, install_trans, InstallDone, SpaceInv
  <2> QED
    BY <1>1, <1>4, <2>1
    DEF write_log, WriteLogDone, write_head, install_trans, InstallDone
<1>5. CASE read_head \/ ClearHead
  <2>1. Active' = {} /\ NoPanic'
    BY <1>5 DEF read_head, ClearHead, IInv, CommitInv, Active, NoPanic, SpaceInv
  <2>2. Len(lh') <= Room /\ Len(hd') <= Room
    BY <1>5, RoomFacts DEF read_head, ClearHead, SpaceInv
  <2> QED
    BY <2>1, <2>2, NoClaims
<1>6. ASSUME NEW b \in Blocks, bread(b) \/ Recycle(b) PROVE SpaceInv'
  BY <1>1, <1>6 DEF bread, Recycle, SpaceInv
<1>7. CASE Crash
  <2>1. Active' = {} /\ NoPanic' /\ Len(lh') <= Room /\ hd' = hd
    BY <1>7, RoomFacts DEF Crash, Active, NoPanic
  <2> QED
    BY <2>1, NoClaims DEF SpaceInv
<1>8. CASE UNCHANGED vars
  BY <1>1, <1>8 DEF vars, SpaceInv
<1> QED
  BY <1>2, <1>3, <1>4, <1>5, <1>6, <1>7, <1>8,
     BeginOpSpace, LogAppendSpace, LogWriteSpace
  DEF Next, FSCall, Commit

\* With operations that write little enough, the space is never exceeded.
LEMMA SpaceInvariant == ASSUME RoomForAll PROVE Spec => []SpaceInv
<1>1. Init => SpaceInv
  <2> SUFFICES ASSUME Init PROVE SpaceInv
    OBVIOUS
  <2>1. Claims = {} /\ NoPanic /\ lh = <<>> /\ hd = <<>> /\ Active = {}
    BY DEF Init, Claims, Active, NoPanic
  <2>2. WroteInv
    BY <2>1 DEF WroteInv
  <2> QED
    BY <2>1, <2>2, FS_EmptySet, RoomFacts DEF SpaceInv
<1> QED
  BY <1>1, Invariant, SpaceStep, PTL DEF Spec

\* Neither log_write() nor end_op() panics, and the header's array and the log on
\* the disk are never overrun, although log_write() checks for room before it
\* takes log.lock: provided that every operation writes so few blocks that the
\* last one let in leaves a block of the on-disk log over (RoomForAll: at most 8
\* with the sizes of param.h and mkfs.c, not the MAXOPBLOCKS = 10 param.h allows).
THEOREM SpaceSufficesAlways == ASSUME RoomForAll PROVE Spec => []SpaceSuffices
<1>1. IInv /\ SpaceInv => SpaceSuffices
  BY RoomFacts, LogAssumption DEF SpaceInv, SpaceSuffices, LogFits, IInv, TypeOK
<1> QED
  BY <1>1, Invariant, SpaceInvariant, PTL

-----------------------------------------------------------------------------
(* The log implements AtomicDisk *)

\* What recovery makes of a block: its copy in the log, or its home location.
LEMMA RecoveredFacts ==
  ASSUME Injective(hd)
  PROVE  /\ \A i \in DOMAIN hd : hd[i] \in Blocks => Recovered[hd[i]] = logblk[i]
         /\ \A b \in Blocks : ~Listed(hd, b) => Recovered[b] = home[b]
<1>1. ASSUME NEW i \in DOMAIN hd, hd[i] \in Blocks
      PROVE  Recovered[hd[i]] = logblk[i]
  <2>1. Listed(hd, hd[i])
    BY DEF Listed
  <2>2. (CHOOSE j \in DOMAIN hd : hd[j] = hd[i]) = i
    BY DEF Injective
  <2> QED
    BY <1>1, <2>1, <2>2 DEF Recovered
<1>2. ASSUME NEW b \in Blocks, ~Listed(hd, b) PROVE Recovered[b] = home[b]
  BY <1>2 DEF Recovered
<1> QED
  BY <1>1, <1>2

\* A crash before the commit point loses the transaction, one after it does not.
LEMMA RecoveredIsHome ==
  ASSUME IInv, hd = <<>> \/ stage = "clear"
  PROVE  Recovered = home
<1> SUFFICES ASSUME NEW b \in Blocks PROVE Recovered[b] = home[b]
  BY DEF Recovered, IInv, TypeOK
<1>1. CASE Listed(hd, b)
  <2>1. stage = "clear" /\ hd = lh
    BY <1>1 DEF Listed, IInv, ListInv
  <2>2. PICK i \in DOMAIN hd : hd[i] = b
    BY <1>1 DEF Listed
  <2>3. Recovered[b] = logblk[i]
    BY <2>2, RecoveredFacts DEF IInv, ListInv
  <2> QED
    BY <2>1, <2>2, <2>3 DEF IInv, CopyInv
<1>2. CASE ~Listed(hd, b)
  BY <1>2, RecoveredFacts DEF IInv, ListInv
<1> QED
  BY <1>1, <1>2

\* What a bread() returns, or will return after recovery: the abstract variable
\* volatile.  (The other two are Recovered and Active.)
Volatile == IF booting THEN Recovered ELSE View

\* write_head() is the commit point: what recovery would produce becomes, in one
\* step, what the operations that have ended see.
LEMMA CommitPoint ==
  ASSUME IInv, IInv', write_head
  PROVE  Recovered' = View
<1> USE DEF mem, ops
<1>1. /\ stage = "write_head" /\ hd' = lh /\ UNCHANGED <<home, logblk, mem, ops>>
  BY DEF write_head
<1>2. CleanMatchesDisk /\ \A p \in Procs, b \in Blocks : ~Holds(p, b)
  BY <1>1 DEF IInv, CommitInv, Active, Holds
<1> SUFFICES ASSUME NEW b \in Blocks PROVE Recovered'[b] = View[b]
  BY DEF Recovered, View
<1>3. CASE Listed(lh, b)
  <2>1. PICK i \in DOMAIN lh : lh[i] = b
    BY <1>3 DEF Listed
  <2>2. Recovered'[b] = logblk[i]
    <3>1. Injective(lh) /\ Listed(lh, b)
      BY <1>3 DEF IInv, ListInv
    <3>2. (CHOOSE j \in DOMAIN lh : lh[j] = b) = i
      BY <2>1, <3>1 DEF Injective
    <3> QED
      BY <1>1, <3>1, <3>2 DEF Recovered
  <2>3. logblk[i] = Data(b)
    BY <1>1, <2>1 DEF IInv, CopyInv
  <2> QED
    BY <2>2, <2>3 DEF View
<1>4. CASE ~Listed(lh, b)
  <2>1. Recovered'[b] = home[b]
    BY <1>1, <1>4 DEF Recovered
  <2>2. b \notin dirty
    BY <1>1, <1>4 DEF IInv, DirtyInv
  <2> QED
    BY <1>2, <2>1, <2>2 DEF CleanMatchesDisk
<1> QED
  BY <1>3, <1>4

\* Installing a block changes neither what recovery would produce nor what a
\* bread() returns.
LEMMA InstallInvisible ==
  ASSUME IInv, IInv', install_trans
  PROVE  Volatile' = Volatile /\ Recovered' = Recovered
<1> USE DEF ops
<1>1. /\ stage = "install" /\ tail <= Len(lh)
      /\ home' = [home EXCEPT ![lh[tail]] = logblk[tail]]
      /\ cache' = [cache EXCEPT ![lh[tail]] = logblk[tail]]
      /\ UNCHANGED <<logblk, hd, lh, booting>>
  BY DEF install_trans
<1>2. tail \in DOMAIN lh /\ lh[tail] \in Blocks /\ hd = lh /\ logblk[tail] \in Vals
  BY <1>1, LogAssumption DEF IInv, TypeOK, ListInv, Indices
<1>3. Listed(hd, lh[tail])
  BY <1>2 DEF Listed
<1>4. Recovered' = Recovered
  BY <1>1, <1>2, <1>3 DEF Recovered, IInv, TypeOK, Listed
<1>5. ~booting => View' = View
  <2> SUFFICES ASSUME ~booting, NEW b \in Blocks PROVE View'[b] = View[b]
    BY DEF View
  <2>1. CASE b = lh[tail]
    <3>1. Data(b) = logblk[tail]
      BY <1>1, <1>2, <2>1 DEF IInv, CopyInv
    <3> QED
      BY <1>1, <1>2, <2>1, <3>1, LogAssumption DEF View, Data, IInv, TypeOK
  <2>2. CASE b # lh[tail]
    BY <1>1, <1>2, <2>2 DEF View, Data, IInv, TypeOK
  <2> QED
    BY <2>1, <2>2
<1> QED
  BY <1>1, <1>4, <1>5 DEF Volatile

\* Every step of the log is a step of the atomic disk, or none.
LEMMA SimulationStep ==
  IInv /\ IInv' /\ [Next]_vars => [AD!ANext]_(AD!avars)
<1> SUFFICES ASSUME IInv, IInv', [Next]_vars
             PROVE  AD!ANext \/ UNCHANGED <<Volatile, Recovered, Active>>
  BY DEF AD!avars, Volatile, Active
<1> USE DEF disk, mem, ops, ctl
<1>1. ASSUME NEW p \in Procs, begin_op(p)
      PROVE  AD!ANext \/ UNCHANGED <<Volatile, Recovered, Active>>
  <2>1. UNCHANGED <<Volatile, Recovered>>
    BY <1>1 DEF begin_op, Volatile, Recovered, View, Data
  <2>2. Active' \in {Active, Active \cup {p}}
    BY <1>1 DEF begin_op, Active, IInv, TypeOK
  <2>3. Active' = Active \cup {p} => AD!ABegin(p)
    BY <2>1 DEF AD!ABegin, Volatile, Active
  <2> QED
    BY <2>1, <2>2, <2>3 DEF AD!ANext
<1>2. ASSUME NEW p \in Procs, NEW b \in Blocks, NEW v \in Vals, log_write(p, b, v)
      PROVE  AD!ANext
  <2>1. p \in Active /\ ~booting /\ ~booting'
    BY <1>2 DEF log_write, Active, IInv, CommitInv
  <2>2. View' = [View EXCEPT ![b] = v]
    BY <1>2, LogAssumption DEF log_write, View, Data, IInv, TypeOK
  <2>3. Recovered' = Recovered
    BY <1>2 DEF log_write, Recovered
  <2>4. Active' = Active
    BY <1>2 DEF log_write, Active, IInv, TypeOK
  <2>5. AD!AWrite(p, b, v)
    BY <2>1, <2>2, <2>3, <2>4 DEF AD!AWrite, Active
  <2> QED
    BY <2>5 DEF AD!ANext
<1>3. ASSUME NEW p \in Procs, log_append(p)
      PROVE  UNCHANGED <<Volatile, Recovered, Active>>
  BY <1>3 DEF log_append, Volatile, Recovered, View, Data, Active, IInv, TypeOK
<1>4. ASSUME NEW p \in Procs, end_op(p)
      PROVE  AD!ANext
  <2>1. UNCHANGED <<Volatile, Recovered>>
    BY <1>4 DEF end_op, Volatile, Recovered, View, Data
  <2>2. ~committing
    BY <1>4 DEF end_op, IInv, CommitInv, Active
  <2>3. Active' = Active \ {p}
    BY <1>4, <2>2 DEF end_op, Active, IInv, TypeOK, wakeup
  <2>4. AD!AEnd(p)
    BY <2>1, <2>3 DEF AD!AEnd, Volatile, Active
  <2> QED
    BY <2>4 DEF AD!ANext
<1>5. ASSUME NEW p \in Procs, CommitDone(p)
      PROVE  UNCHANGED <<Volatile, Recovered, Active>>
  <2>1. UNCHANGED <<Volatile, Recovered>>
    BY <1>5 DEF CommitDone, Volatile, Recovered, View, Data
  <2>2. Active' = Active
    BY <1>5 DEF CommitDone, Active, IInv, TypeOK, wakeup
  <2> QED
    BY <2>1, <2>2
<1>6. CASE write_log
  <2>1. Recovered' = home' /\ Recovered = home
    <3>1. hd = <<>> /\ hd' = <<>>
      BY <1>6 DEF write_log, IInv, ListInv
    <3>2. (IInv /\ (hd = <<>> \/ stage = "clear") => Recovered = home)'
      BY RecoveredIsHome, PTL
    <3> QED
      BY <3>1, <3>2, RecoveredIsHome
  <2>2. UNCHANGED <<home, View, booting, Active>>
    BY <1>6 DEF write_log, View, Data, Active
  <2> QED
    BY <2>1, <2>2 DEF Volatile
<1>7. CASE WriteLogDone \/ InstallDone \/ read_head
  <2>1. UNCHANGED <<home, logblk, hd, cache, pc, booting>>
    BY <1>7 DEF WriteLogDone, InstallDone, read_head
  <2> QED
    BY <2>1 DEF Volatile, Recovered, View, Data, Active
<1>8. CASE write_head
  <2>1. Recovered' = View /\ Active' = Active
    BY <1>8, CommitPoint DEF write_head, Active
  <2>2. View' = View /\ ~booting /\ ~booting' /\ Active = {}
    BY <1>8 DEF write_head, View, Data, IInv, CommitInv
  <2>3. AD!ACommit
    BY <2>1, <2>2 DEF AD!ACommit, Active
  <2> QED
    BY <2>3 DEF AD!ANext
<1>9. CASE install_trans
  <2>1. Active' = Active
    BY <1>9 DEF install_trans, Active
  <2> QED
    BY <1>9, <2>1, InstallInvisible
<1>10. CASE ClearHead
  <2>1. Recovered' = home' /\ Recovered = home
    <3>1. stage = "clear" /\ hd' = <<>>
      BY <1>10 DEF ClearHead
    <3>2. (IInv /\ (hd = <<>> \/ stage = "clear") => Recovered = home)'
      BY RecoveredIsHome, PTL
    <3> QED
      BY <3>1, <3>2, RecoveredIsHome
  <2>2. UNCHANGED <<home, View, Active>> /\ ~booting'
    BY <1>10 DEF ClearHead, View, Data, Active
  <2>3. booting => View = home
    BY DEF IInv, DirtyInv, View, TypeOK
  <2> QED
    BY <2>1, <2>2, <2>3 DEF Volatile
<1>11. ASSUME NEW b \in Blocks, bread(b) \/ Recycle(b)
       PROVE  AD!ANext \/ UNCHANGED <<Volatile, Recovered, Active>>
  <2>1. UNCHANGED <<Recovered, Active, booting, home>>
    <3>1. UNCHANGED <<home, logblk, hd, pc, booting>>
      BY <1>11 DEF bread, Recycle
    <3> QED
      BY <3>1 DEF Recovered, Active
  <2>2. View' = View
    BY <1>11, CacheStep DEF View
  <2> QED
    BY <2>1, <2>2 DEF Volatile
<1>12. CASE Crash
  <2>1. Recovered' = Recovered /\ booting' /\ Active' = {}
    BY <1>12 DEF Crash, Recovered, Active
  <2>2. AD!ACrash
    BY <2>1 DEF AD!ACrash, Active
  <2> QED
    BY <2>2 DEF AD!ANext
<1>13. CASE UNCHANGED vars
  BY <1>13 DEF vars, Volatile, Recovered, View, Data, Active
<1> QED
  BY <1>1, <1>2, <1>3, <1>4, <1>5, <1>6, <1>7, <1>8, <1>9, <1>10, <1>11, <1>12, <1>13
  DEF Next, FSCall, Commit

\* Operations are atomic with respect to crashes: the log, with a crash possible
\* between any two disk writes and recovery itself interrupted any number of
\* times, implements AtomicDisk, for any sizes of the log and of operations.
THEOREM LogImplementsAtomicDisk == Spec => AtomicDiskSpec
<1>1. Init => AD!AInit
  <2> SUFFICES ASSUME Init PROVE AD!AInit
    OBVIOUS
  <2>1. Recovered = home
    BY InitIInv, RecoveredIsHome DEF Init
  <2>2. Active = {}
    BY DEF Init, Active
  <2> QED
    BY <2>1, <2>2 DEF Init, AD!AInit, Active
<1> QED
  BY <1>1, Invariant, SimulationStep, PTL DEF Spec, AtomicDiskSpec, AD!ASpec
=============================================================================
