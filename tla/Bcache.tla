------------------------------- MODULE Bcache -------------------------------
(***************************************************************************)
(* The buffer cache (xv6/bio.c) with its sleep locks (sleeplock.c) on top  *)
(* of the interrupt-driven disk driver (ide.c): processes read, change,    *)
(* pin, write and release blocks; the disk works on one request at a time  *)
(* and interrupts when it is done.                                         *)
(*                                                                         *)
(* bcache.lock, the spin lock inside a sleep lock, and idelock each make a *)
(* step; the fields of a buffer that only its holder touches are changed   *)
(* between them.                                                           *)
(*                                                                         *)
(* A user is one use of a buffer, from bread() to brelse().  A process     *)
(* that has two buffers at once (write_log() and install_trans() in log.c, *)
(* bmap() and itrunc() in fs.c) is two users; the model does not tie the   *)
(* one to the other, and so allows more interleavings than the code.       *)
(***************************************************************************)
EXTENDS Integers, Sequences, FiniteSets

CONSTANTS
    NBUF, Blocks, Vals,
    Users,          \* uses of buffers at a time, one or two of each process
    Nobody,         \* no user, and no block
    MaxPinned,      \* bound: buffers that log_write() has pinned (the log's
                    \* reservation)
    ReadErrors      \* outcomes of idewait(1) after a read: {FALSE}, or with TRUE

Bufs == 1 .. NBUF

ASSUME BcacheAssumption ==
    /\ NBUF \in Nat \ {0}
    /\ Blocks # {} /\ Vals # {}
    /\ Nobody \notin Users \cup Blocks
    /\ MaxPinned \in Nat
    /\ ReadErrors \subseteq BOOLEAN /\ ReadErrors # {}

VARIABLES
    blockno, refcnt, valid, dirty, data,    \* struct buf
    holder,         \* of b->lock
    lru,            \* the list of bcache, most recently used first
    idequeue,       \* the requests, the active one first
    active,         \* the buffer the disk works on, 0 if it is idle
    intr,           \* the disk has finished and its interrupt is pending
    disk,
    pc, b,          \* position of a user and its buffer
    want            \* the block it asked for

cache == <<blockno, refcnt, lru>>
flags == <<valid, dirty, data>>
ide == <<idequeue, active, intr, disk>>
proc == <<pc, b, want>>
vars == <<cache, flags, holder, ide, proc>>

PCs == {"idle", "lock", "locksleep", "locked", "io", "iowoken", "hold",
        "release", "panic"}

TypeOK ==
    /\ blockno \in [Bufs -> Blocks \cup {Nobody}]
    /\ refcnt \in [Bufs -> Nat]
    /\ valid \in [Bufs -> BOOLEAN] /\ dirty \in [Bufs -> BOOLEAN]
    /\ data \in [Bufs -> Vals]
    /\ holder \in [Bufs -> Users \cup {Nobody}]
    /\ lru \in [Bufs -> Bufs]
    /\ idequeue \in Seq(Bufs)
    /\ active \in Bufs \cup {0}
    /\ intr \in BOOLEAN
    /\ disk \in [Blocks -> Vals]
    /\ pc \in [Users -> PCs]
    /\ b \in [Users -> Bufs \cup {0}]
    /\ want \in [Users -> Blocks \cup {Nobody}]

\* binit() puts each buffer in front of the ones before it.
binit == lru = [i \in Bufs |-> NBUF + 1 - i]

Init ==
    /\ binit
    /\ blockno = [x \in Bufs |-> Nobody] /\ refcnt = [x \in Bufs |-> 0]
    /\ valid = [x \in Bufs |-> FALSE] /\ dirty = [x \in Bufs |-> FALSE]
    /\ data \in {[x \in Bufs |-> v] : v \in Vals}
    /\ holder = [x \in Bufs |-> Nobody]
    /\ idequeue = <<>> /\ active = 0 /\ intr = FALSE
    /\ disk \in [Blocks -> Vals]
    /\ pc = [p \in Users |-> "idle"]
    /\ b = [p \in Users |-> 0] /\ want = [p \in Users |-> Nobody]

Goto(p, l) == pc' = [pc EXCEPT ![p] = l]

-----------------------------------------------------------------------------
(* bget(): under bcache.lock *)

FoundValid(k) == {x \in Bufs : blockno[x] = k /\ valid[x]}
Found(k) == {x \in Bufs : blockno[x] = k}

FreeUnlessUsed == {x \in Bufs : refcnt[x] = 0}
Free == {x \in Bufs : refcnt[x] = 0 /\ ~dirty[x]}

\* The list is searched from the least recently used end.
LeastRecent(x, S) ==
    \E i \in Bufs : lru[i] = x /\ x \in S /\ \A j \in Bufs : j > i => lru[j] \notin S

BgetCached(p, k) ==
    /\ pc[p] = "idle"
    /\ \E x \in Found(k) :
        /\ refcnt' = [refcnt EXCEPT ![x] = @ + 1]
        /\ b' = [b EXCEPT ![p] = x]
    /\ want' = [want EXCEPT ![p] = k]
    /\ Goto(p, "lock")
    /\ UNCHANGED <<blockno, lru, flags, holder, ide>>

\* A free buffer is given to the block, or panic("bget: no buffers").
BgetRecycle(p, k) ==
    /\ pc[p] = "idle" /\ Found(k) = {}
    /\ IF Free = {}
       THEN Goto(p, "panic") /\ UNCHANGED <<blockno, refcnt, valid, dirty, b, want>>
       ELSE /\ \E x \in Bufs :
                /\ LeastRecent(x, Free)
                /\ blockno' = [blockno EXCEPT ![x] = k]
                /\ valid' = [valid EXCEPT ![x] = FALSE]
                /\ dirty' = [dirty EXCEPT ![x] = FALSE]
                /\ refcnt' = [refcnt EXCEPT ![x] = 1]
                /\ b' = [b EXCEPT ![p] = x]
            /\ want' = [want EXCEPT ![p] = k]
            /\ Goto(p, "lock")
    /\ UNCHANGED <<lru, data, holder, ide>>

-----------------------------------------------------------------------------
(* Sleep locks *)

acquiresleep(p) ==
    /\ pc[p] = "lock"
    /\ IF holder[b[p]] # Nobody
       THEN Goto(p, "locksleep") /\ UNCHANGED holder
       ELSE /\ holder' = [holder EXCEPT ![b[p]] = p]
            /\ Goto(p, "locked")
    /\ UNCHANGED <<cache, flags, ide, b, want>>

\* wakeup(lk) for the processes that wait for the lock of x.
WakeWaiters(f, x) ==
    [q \in Users |-> IF f[q] = "locksleep" /\ b[q] = x THEN "lock" ELSE f[q]]

\* The first half of brelse(): releasesleep().
releasesleep(p) ==
    /\ pc[p] = "hold"
    /\ holder' = [holder EXCEPT ![b[p]] = Nobody]
    /\ pc' = WakeWaiters([pc EXCEPT ![p] = "release"], b[p])
    /\ UNCHANGED <<cache, flags, ide, b, want>>

\* x to the front of the list.
ToFront(x) ==
    LET i == CHOOSE j \in Bufs : lru[j] = x
    IN  [j \in Bufs |-> IF j = 1 THEN x ELSE IF j <= i THEN lru[j - 1] ELSE lru[j]]

\* The second half of brelse(), under bcache.lock.
brelse(p) ==
    /\ pc[p] = "release"
    /\ refcnt' = [refcnt EXCEPT ![b[p]] = @ - 1]
    /\ lru' = IF refcnt[b[p]] = 1 THEN ToFront(b[p]) ELSE lru
    /\ Goto(p, "idle")
    /\ b' = [b EXCEPT ![p] = 0] /\ want' = [want EXCEPT ![p] = Nobody]
    /\ UNCHANGED <<blockno, flags, holder, ide>>

-----------------------------------------------------------------------------
(* The driver *)

\* iderw() under idelock: append x, start the disk if nothing else is there.
\* Its callers hold the lock of x and have something to do, so that its panics
\* are not reached.
StartAlways(x) == active' = x
StartIfFirst(x) == active' = IF idequeue = <<>> THEN x ELSE active

iderw(p, x) ==
    /\ idequeue' = Append(idequeue, x)
    /\ StartIfFirst(x)
    /\ Goto(p, "io")
    /\ UNCHANGED <<intr, disk>>

\* bread() with the buffer locked.
bread(p) ==
    /\ pc[p] = "locked"
    /\ IF valid[b[p]] THEN Goto(p, "hold") /\ UNCHANGED ide
                      ELSE iderw(p, b[p])
    /\ UNCHANGED <<cache, flags, holder, b, want>>

\* The loop of iderw() after a wakeup.
IderwReturn(p) ==
    /\ pc[p] = "iowoken"
    /\ Goto(p, IF valid[b[p]] /\ ~dirty[b[p]] THEN "hold" ELSE "io")
    /\ UNCHANGED <<cache, flags, holder, ide, b, want>>

\* The holder changes the data and pins the buffer for the log.
log_write(p, v) ==
    /\ pc[p] = "hold"
    /\ dirty[b[p]] \/ Cardinality({x \in Bufs : dirty[x]}) < MaxPinned
    /\ data' = [data EXCEPT ![b[p]] = v]
    /\ dirty' = [dirty EXCEPT ![b[p]] = TRUE]
    /\ UNCHANGED <<cache, valid, holder, ide, proc>>

\* The holder changes the data and writes it to the disk.
bwrite(p, v) ==
    /\ pc[p] = "hold"
    /\ data' = [data EXCEPT ![b[p]] = v]
    /\ dirty' = [dirty EXCEPT ![b[p]] = TRUE]
    /\ iderw(p, b[p])
    /\ UNCHANGED <<cache, valid, holder, b, want>>

\* The disk carries out the active command and raises its interrupt.
DiskDone ==
    /\ active # 0 /\ ~intr
    /\ intr' = TRUE
    /\ disk' = IF dirty[active]
               THEN [disk EXCEPT ![blockno[active]] = data[active]] ELSE disk
    /\ UNCHANGED <<cache, flags, holder, idequeue, active, proc>>

DequeueNot(q) == q
Dequeue(q) == Tail(q)
NextRequest(q) == IF q = <<>> THEN 0 ELSE Head(q)

ideintr ==
    /\ intr /\ intr' = FALSE
    /\ LET x == Head(idequeue)
       IN  /\ \E err \in ReadErrors :
                data' = IF dirty[x] \/ err THEN data
                        ELSE [data EXCEPT ![x] = disk[blockno[x]]]
           /\ valid' = [valid EXCEPT ![x] = TRUE]
           /\ dirty' = [dirty EXCEPT ![x] = FALSE]
           /\ pc' = [q \in Users |-> IF pc[q] = "io" /\ b[q] = x THEN "iowoken"
                                                               ELSE pc[q]]
    /\ idequeue' = Dequeue(idequeue)
    /\ active' = NextRequest(idequeue')
    /\ UNCHANGED <<cache, holder, disk, b, want>>

-----------------------------------------------------------------------------
Step(p) ==
    \/ acquiresleep(p) \/ bread(p) \/ IderwReturn(p)
    \/ releasesleep(p) \/ brelse(p)

Device == DiskDone \/ ideintr

Next ==
    \/ \E p \in Users :
        \/ Step(p)
        \/ \E k \in Blocks : BgetCached(p, k) \/ BgetRecycle(p, k)
        \/ \E v \in Vals : log_write(p, v) \/ bwrite(p, v)
    \/ Device

Spec == Init /\ [][Next]_vars

-----------------------------------------------------------------------------
(* Properties *)

\* p has the block: bread() has returned, or is about to with valid data, and
\* brelse() has not been called.
Uses(p, k) ==
    /\ want[p] = k
    /\ pc[p] = "hold" \/ (pc[p] \in {"io", "iowoken"} /\ valid[b[p]])

\* The contents of a block: a valid buffer hides what the disk holds.
Contents ==
    [k \in Blocks |-> IF FoundValid(k) = {} THEN disk[k]
                      ELSE data[CHOOSE x \in FoundValid(k) : TRUE]]

\* The cache implements BlockStore: sharing, recycling, pinning and the disk
\* queue are invisible to the processes that use blocks.
BS == INSTANCE BlockStore WITH
        contents <- Contents,
        stored <- disk,
        user <- [k \in Blocks |-> IF \E p \in Users : Uses(p, k)
                                 THEN CHOOSE p \in Users : Uses(p, k)
                                 ELSE Nobody]

BlockStoreSpec == BS!BSpec

\* Two buffers never cache the same block, although bget() gives up
\* bcache.lock before the buffer is locked or read.
OneBufferPerBlock ==
    \A x, y \in Bufs : blockno[x] = blockno[y] /\ blockno[x] # Nobody => x = y

\* "Only one process at a time can use a buffer" (bio.c), and it is still the
\* buffer of the block the process asked for: neither waiting for the lock nor
\* for the disk lets it be recycled.
HeldIsWanted ==
    \A p \in Users :
        /\ pc[p] \notin {"idle", "panic"} =>
             blockno[b[p]] = want[p] /\ refcnt[b[p]] > 0
        /\ pc[p] \in {"locked", "io", "iowoken", "hold"} => holder[b[p]] = p

\* "idequeue points to the buf now being read/written to the disk" (ide.c): an
\* interrupt always finds its request at the head, and no buffer is queued
\* twice.
QueueHeadActive ==
    /\ active = NextRequest(idequeue)
    /\ intr => active # 0
    /\ \A i, j \in DOMAIN idequeue : idequeue[i] = idequeue[j] => i = j

\* No lost wakeup: a process asleep for a sleep lock finds it taken, and one
\* asleep in iderw() has its request in the queue.
SleeperHasReason ==
    \A p \in Users :
        /\ pc[p] = "locksleep" => holder[b[p]] # Nobody
        /\ pc[p] = "io" => \E i \in DOMAIN idequeue : idequeue[i] = b[p]

\* A block has one buffer, and a process that wants it keeps it from being
\* recycled.
CacheSound == TypeOK /\ OneBufferPerBlock /\ HeldIsWanted

\* The queue of the disk driver agrees with the disk and with those who sleep.
RequestsSound == QueueHeadActive /\ SleeperHasReason

(***************************************************************************)
(* Fairness: the disk finishes a command and its interrupt is taken; a     *)
(* process that has been woken in iderw() runs.  Nobody has to ask for or  *)
(* to give back a buffer.                                                  *)
(***************************************************************************)
FairSpec ==
    /\ Spec
    /\ WF_vars(DiskDone) /\ WF_vars(ideintr)
    /\ \A p \in Users : WF_vars(IderwReturn(p))

\* Every request is carried out: who sleeps in iderw() gets its buffer back,
\* however many requests are queued before and after it.
IoCompletes == \A p \in Users : pc[p] = "io" ~> pc[p] = "hold"
=============================================================================
