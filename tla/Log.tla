-------------------------------- MODULE Log ---------------------------------
(***************************************************************************)
(* The write-ahead log of the file system (xv6/log.c): begin_op, log_write *)
(* and end_op of concurrent FS system calls, the commit by the last of     *)
(* them, a crash at any moment and the recovery at the next boot.          *)
(*                                                                         *)
(* A disk write (bwrite) of one block is atomic; memory is lost in a       *)
(* crash.  The buffer cache is seen as the data of each block, the set of  *)
(* B_DIRTY buffers, and the fact that a clean buffer nobody holds may be   *)
(* recycled (bio.c) and read again from the disk.                          *)
(***************************************************************************)
EXTENDS Integers, Sequences, FiniteSets

CONSTANTS
    Blocks,         \* block numbers outside the log
    Vals,           \* contents of a block
    NoBuf,          \* no buffer: of a block in the cache, or held by a process
    Procs,          \* processes making FS system calls
    MAXOPBLOCKS,    \* space begin_op() reserves for an operation
    LOGSIZE,        \* length of logheader.block
    NLOG,           \* log.size: header and data blocks of the on-disk log
    OpWrites        \* blocks an operation writes at most; it may log one often

ASSUME LogAssumption ==
    /\ MAXOPBLOCKS \in Nat \ {0}
    /\ LOGSIZE \in Nat /\ MAXOPBLOCKS <= LOGSIZE
    /\ NLOG \in Nat
    /\ OpWrites \in Nat
    /\ Blocks # {} /\ Vals # {} /\ NoBuf \notin Vals \cup Blocks

VARIABLES
    home,           \* disk: the blocks at their home location
    logblk,         \* disk: the data blocks of the log
    hd,             \* disk: the log header, the block numbers it lists
    cache, dirty,   \* buffer cache
    lh,             \* log.lh
    outstanding, committing,
    pc,             \* where a process is
    wrote,          \* the blocks its operation has written
    buf,            \* the block whose buffer it has locked for log_write()
    stage,          \* progress of commit() or recover_from_log()
    tail,           \* local tail of write_log() and install_trans()
    booting         \* recover_from_log() has not finished

disk == <<home, logblk, hd>>
mem == <<cache, dirty, lh, outstanding, committing>>
ops == <<pc, wrote, buf>>
ctl == <<stage, tail, booting>>
vars == <<disk, mem, ops, ctl>>

Indices == 1 .. LOGSIZE

TypeOK ==
    /\ home \in [Blocks -> Vals]
    /\ logblk \in [Indices -> Vals]
    /\ hd \in Seq(Blocks)
    /\ cache \in [Blocks -> Vals \cup {NoBuf}]
    /\ dirty \subseteq Blocks
    /\ lh \in Seq(Blocks)
    /\ outstanding \in Int
    /\ committing \in BOOLEAN
    /\ pc \in [Procs -> {"idle", "asleep", "woken", "op", "logging", "commit",
                         "panic"}]
    /\ wrote \in [Procs -> SUBSET Blocks]
    /\ buf \in [Procs -> Blocks \cup {NoBuf}]
    /\ stage \in {"none", "read_head", "write_log", "write_head", "install",
                  "clear", "done"}
    /\ tail \in Nat \ {0}
    /\ booting \in BOOLEAN

Listed(s, b) == \E i \in DOMAIN s : s[i] = b

\* The first boot of a disk that mkfs has written.
Init ==
    /\ home \in [Blocks -> Vals]
    /\ logblk \in {[i \in Indices |-> v] : v \in Vals}
    /\ hd = <<>>
    /\ cache = [b \in Blocks |-> NoBuf] /\ dirty = {}
    /\ lh = <<>>
    /\ outstanding = 0 /\ committing = FALSE
    /\ pc = [p \in Procs |-> "idle"]
    /\ wrote = [p \in Procs |-> {}]
    /\ buf = [p \in Procs |-> NoBuf]
    /\ stage = "read_head" /\ tail = 1 /\ booting = TRUE

-----------------------------------------------------------------------------
(* begin_op(), log_write(), end_op() *)

\* The data bread() returns for a block.
Data(b) == IF cache[b] = NoBuf THEN home[b] ELSE cache[b]
View == [b \in Blocks |-> Data(b)]

\* p has the buffer of b locked: in log_write(), or for ever if that panicked.
Holds(p, b) == pc[p] \in {"logging", "panic"} /\ buf[p] = b

\* wakeup(&log)
wakeup(f) == [p \in Procs |-> IF f[p] = "asleep" THEN "woken" ELSE f[p]]

MustWaitNoCommit == Len(lh) + (outstanding + 1) * MAXOPBLOCKS > LOGSIZE
MustWait ==
    committing \/ Len(lh) + (outstanding + 1) * MAXOPBLOCKS > LOGSIZE

begin_op(p) ==
    /\ pc[p] \in {"idle", "woken"} /\ ~booting
    /\ IF MustWait
       THEN /\ pc' = [pc EXCEPT ![p] = "asleep"]
            /\ UNCHANGED <<outstanding, wrote>>
       ELSE /\ outstanding' = outstanding + 1
            /\ pc' = [pc EXCEPT ![p] = "op"]
            /\ wrote' = [wrote EXCEPT ![p] = {}]
    /\ UNCHANGED <<disk, cache, dirty, lh, committing, buf, ctl>>

\* The caller has locked and modified the buffer of b; log_write() makes its
\* two checks before it takes log.lock.
log_write(p, b, v) ==
    /\ pc[p] = "op" /\ Cardinality(wrote[p] \cup {b}) <= OpWrites
    /\ \A q \in Procs : ~Holds(q, b)
    /\ cache' = [cache EXCEPT ![b] = v]
    /\ pc' = [pc EXCEPT ![p] =
                IF Len(lh) >= LOGSIZE \/ Len(lh) >= NLOG - 1 \/ outstanding < 1
                THEN "panic" ELSE "logging"]
    /\ buf' = [buf EXCEPT ![p] = b]
    /\ wrote' = [wrote EXCEPT ![p] = @ \cup {b}]
    /\ UNCHANGED <<disk, dirty, lh, outstanding, committing, ctl>>

\* Under log.lock: absorb the block or append it, and pin the buffer.
PinNot(b) == dirty
Pin(b) == dirty \cup {b}
Record(b) == IF Listed(lh, b) THEN lh ELSE Append(lh, b)

log_append(p) ==
    /\ pc[p] = "logging"
    /\ lh' = Record(buf[p])
    /\ dirty' = Pin(buf[p])
    /\ pc' = [pc EXCEPT ![p] = "op"]
    /\ buf' = [buf EXCEPT ![p] = NoBuf]         \* the caller's brelse()
    /\ UNCHANGED <<disk, cache, outstanding, committing, wrote, ctl>>

\* The last operation out commits; the others wake whoever waits for space.
end_op(p) ==
    /\ pc[p] = "op"
    /\ outstanding' = outstanding - 1
    /\ wrote' = [wrote EXCEPT ![p] = {}]
    /\ \/ /\ committing                         \* panic("log.committing")
          /\ pc' = [pc EXCEPT ![p] = "panic"]
          /\ UNCHANGED <<committing, stage, tail>>
       \/ /\ ~committing /\ outstanding = 1
          /\ committing' = TRUE
          /\ pc' = [pc EXCEPT ![p] = "commit"]
          /\ stage' = IF lh = <<>> THEN "done" ELSE "write_log"
          /\ tail' = 1
       \/ /\ ~committing /\ outstanding # 1
          /\ pc' = wakeup([pc EXCEPT ![p] = "idle"])
          /\ UNCHANGED <<committing, stage, tail>>
    /\ UNCHANGED <<disk, cache, dirty, lh, buf, booting>>

-----------------------------------------------------------------------------
(* commit() and recover_from_log() *)

\* One turn of the loop of write_log().  More than LOGSIZE entries would have
\* overrun lh.block before this point: LogFits says that it does not happen.
WriteLogStuck ==
    /\ stage = "write_log" /\ tail <= Len(lh) /\ tail \in Indices
    /\ logblk' = [logblk EXCEPT ![tail] = Data(lh[tail])]
    /\ UNCHANGED <<home, hd, mem, ops, ctl>>
write_log ==
    /\ stage = "write_log" /\ tail <= Len(lh) /\ tail \in Indices
    /\ logblk' = [logblk EXCEPT ![tail] = Data(lh[tail])]
    /\ tail' = tail + 1
    /\ UNCHANGED <<home, hd, mem, ops, stage, booting>>

WriteLogDone ==
    /\ stage = "write_log" /\ tail > Len(lh)
    /\ stage' = "write_head"
    /\ UNCHANGED <<disk, mem, ops, tail, booting>>

\* "This is the true point at which the current transaction commits."
WriteHeadSkipInstall ==
    /\ stage = "write_head"
    /\ hd' = lh
    /\ stage' = "clear" /\ tail' = 1
    /\ UNCHANGED <<home, logblk, mem, ops, booting>>
write_head ==
    /\ stage = "write_head"
    /\ hd' = lh
    /\ stage' = "install" /\ tail' = 1
    /\ UNCHANGED <<home, logblk, mem, ops, booting>>

\* One turn of the loop of install_trans(); iderw() clears B_DIRTY.
install_trans ==
    /\ stage = "install" /\ tail <= Len(lh)
    /\ home' = [home EXCEPT ![lh[tail]] = logblk[tail]]
    /\ cache' = [cache EXCEPT ![lh[tail]] = logblk[tail]]
    /\ dirty' = dirty \ {lh[tail]}
    /\ tail' = tail + 1
    /\ UNCHANGED <<logblk, hd, lh, outstanding, committing, ops, stage, booting>>

InstallDone ==
    /\ stage = "install" /\ tail > Len(lh)
    /\ stage' = "clear"
    /\ UNCHANGED <<disk, mem, ops, tail, booting>>

\* log.lh.n = 0 and write_head(); the end of recovery, or back to end_op().
ClearHead ==
    /\ stage = "clear"
    /\ lh' = <<>> /\ hd' = <<>>
    /\ stage' = IF booting THEN "none" ELSE "done"
    /\ booting' = FALSE
    /\ UNCHANGED <<home, logblk, cache, dirty, outstanding, committing, ops, tail>>

CommitDoneSilently(p) ==
    /\ pc[p] = "commit" /\ stage = "done"
    /\ committing' = FALSE
    /\ pc' = [pc EXCEPT ![p] = "idle"]
    /\ stage' = "none"
    /\ UNCHANGED <<disk, cache, dirty, lh, outstanding, wrote, buf, tail, booting>>
CommitDone(p) ==
    /\ pc[p] = "commit" /\ stage = "done"
    /\ committing' = FALSE
    /\ pc' = wakeup([pc EXCEPT ![p] = "idle"])
    /\ stage' = "none"
    /\ UNCHANGED <<disk, cache, dirty, lh, outstanding, wrote, buf, tail, booting>>

read_head ==
    /\ stage = "read_head"
    /\ lh' = hd
    /\ stage' = "install" /\ tail' = 1
    /\ UNCHANGED <<disk, cache, dirty, outstanding, committing, ops, booting>>

-----------------------------------------------------------------------------
(* The buffer cache and the power supply *)

\* A read of a block brings it into the cache.
bread(b) ==
    /\ ~booting /\ cache[b] = NoBuf
    /\ cache' = [cache EXCEPT ![b] = home[b]]
    /\ UNCHANGED <<disk, dirty, lh, outstanding, committing, ops, ctl>>

\* bget() recycles a buffer that is not B_DIRTY and not in use.
Recycle(b) ==
    /\ cache[b] # NoBuf
    /\ b \notin dirty
    /\ \A q \in Procs : ~Holds(q, b)
    /\ cache' = [cache EXCEPT ![b] = NoBuf]
    /\ UNCHANGED <<disk, dirty, lh, outstanding, committing, ops, ctl>>

\* Memory is lost and the next boot starts recovery.
Crash ==
    /\ cache' = [b \in Blocks |-> NoBuf] /\ dirty' = {}
    /\ lh' = <<>> /\ outstanding' = 0 /\ committing' = FALSE
    /\ pc' = [p \in Procs |-> "idle"]
    /\ wrote' = [p \in Procs |-> {}]
    /\ buf' = [p \in Procs |-> NoBuf]
    /\ stage' = "read_head" /\ tail' = 1 /\ booting' = TRUE
    /\ UNCHANGED disk

-----------------------------------------------------------------------------
Commit ==
    \/ write_log \/ WriteLogDone \/ write_head
    \/ read_head \/ install_trans \/ InstallDone \/ ClearHead

FSCall(p) ==
    \/ begin_op(p) \/ log_append(p) \/ end_op(p) \/ CommitDone(p)
    \/ \E b \in Blocks, v \in Vals : log_write(p, b, v)

Next ==
    \/ \E p \in Procs : FSCall(p)
    \/ Commit
    \/ \E b \in Blocks : bread(b) \/ Recycle(b)
    \/ Crash

Spec == Init /\ [][Next]_vars

-----------------------------------------------------------------------------
(* Properties *)

\* What recovery makes of the disk as it is now: the listed blocks come from
\* the log, the others from home.
Recovered ==
    [b \in Blocks |-> IF Listed(hd, b)
                      THEN logblk[CHOOSE i \in DOMAIN hd : hd[i] = b]
                      ELSE home[b]]

\* The log implements AtomicDisk: the durable view is what recovery would
\* produce, and it changes only when write_head() commits a transaction in
\* which every operation has ended, whatever crash, recovery or recycling of
\* buffers happens in between.
AD == INSTANCE AtomicDisk WITH
        volatile <- IF booting THEN Recovered ELSE View,
        durable <- Recovered,
        active <- {p \in Procs : pc[p] \in {"op", "logging", "panic"}}

AtomicDiskSpec == AD!ASpec

\* Neither log_write() nor end_op() panics.
NoPanic == \A p \in Procs : pc[p] # "panic"

\* The transaction fits in the header's array and in the on-disk log, although
\* log_write() checks for room before it takes log.lock.
LogFits == Len(lh) <= LOGSIZE /\ Len(lh) <= NLOG - 1

\* log.c says "The logging system only commits when there are no FS system
\* calls active": while a commit copies the cache, nobody is in an operation.
CommitAlone ==
    committing => /\ outstanding = 0
                  /\ \A p \in Procs : pc[p] \notin {"op", "logging"}

\* A buffer that may be recycled holds what the disk holds: B_DIRTY protects
\* every block whose home copy is behind, until install_trans() writes it.
CleanMatchesDisk ==
    \A b \in Blocks :
        View[b] # home[b] => b \in dirty \/ \E p \in Procs : Holds(p, b)

\* When the last end_op() has returned, every operation so far is on the disk
\* at its home location and the log is empty.
QuietIsDurable ==
    ~booting /\ outstanding = 0 /\ ~committing =>
        home = View /\ hd = <<>> /\ lh = <<>> /\ dirty = {}

\* No lost wakeup: a process asleep in begin_op() has to wait, and somebody is
\* there who will wake it: an operation that will end or a commit.
SleeperHasReason ==
    (\E p \in Procs : pc[p] = "asleep") =>
        MustWait /\ (committing \/ outstanding > 0)

(***************************************************************************)
(* Fairness: an FS system call that runs logs a finite number of times and *)
(* goes on to end_op(); commit and recovery go on; who has been woken gets *)
(* log.lock some time, but not at a time when there is room in the log.    *)
(* Nobody has to begin an operation.                                       *)
(***************************************************************************)
Fairness ==
    /\ WF_vars(Commit)
    /\ \A p \in Procs :
        /\ WF_vars(log_append(p)) /\ SF_vars(end_op(p)) /\ WF_vars(CommitDone(p))
        /\ WF_vars(pc[p] = "woken" /\ begin_op(p))

FairSpec == Spec /\ Fairness

\* begin_op() lets p in.
Enters(p) == begin_op(p) /\ pc'[p] = "op"

\* As long as somebody waits in begin_op(), some process gets in again and
\* again.  A particular waiter may find no room every time it is woken, since
\* the lock and the wakeup of all waiters keep no order; but then others go on.
WaitersProgress ==
    \/ []<>(\A p \in Procs : pc[p] \notin {"asleep", "woken"})
    \/ []<><<\E p \in Procs : Enters(p)>>_vars

\* A commit ends.
CommitEnds == committing ~> ~committing

\* A commit is alone, and complete when it is over.
CommitSound == TypeOK /\ CommitAlone /\ QuietIsDurable

\* The space begin_op() reserves, MAXOPBLOCKS "max # of blocks any FS op
\* writes" out of LOGSIZE "max data blocks in on-disk log" (param.h), is enough
\* for what is logged under it.
SpaceSuffices == NoPanic /\ LogFits
=============================================================================
