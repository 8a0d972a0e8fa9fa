-------------------------------- MODULE Pipe --------------------------------
(***************************************************************************)
(* A pipe (xv6/pipe.c) used by several readers and writers, each holding   *)
(* its own reference to one end: the ring buffer with its wrapping         *)
(* counters, the sleeps when it is full or empty, kill() arriving at any   *)
(* moment, and the close of either end.                                    *)
(*                                                                         *)
(* The pipe is created by pipealloc; nread and nwrite are uints, so their  *)
(* range NMod (2^32 in the code) is a multiple of PIPESIZE and larger.     *)
(***************************************************************************)
EXTENDS Integers, FiniteSets

CONSTANTS
    Readers, Writers,   \* processes holding the read or the write end
    Vals,               \* bytes
    PIPESIZE, NMod,
    MaxLen,             \* bound: the largest n passed to read and write
    Killable,           \* processes that somebody may kill
    Closers             \* processes that may close their end

Procs == Readers \cup Writers
Nobody == "nobody"

ASSUME PipeAssumption ==
    /\ Readers \cap Writers = {} /\ Readers # {} /\ Writers # {}
    /\ Nobody \notin Readers \cup Writers
    /\ Vals # {}
    /\ PIPESIZE \in Nat \ {0}
    /\ NMod \in Nat /\ NMod > PIPESIZE /\ NMod % PIPESIZE = 0
    /\ MaxLen \in Nat \ {0}
    /\ Killable \subseteq Procs /\ Closers \subseteq Procs

VARIABLES
    data, nread, nwrite, readopen, writeopen,   \* struct pipe
    freed,          \* the page of the struct has been given to kfree()
    lock,           \* holder of p->lock
    fds,            \* processes whose end is still open
    killed,
    pc, i, n,       \* position and locals of a call
    addr            \* the byte handed to a reader last

pipe == <<data, nread, nwrite, readopen, writeopen, freed>>
call == <<pc, i, n>>
vars == <<pipe, lock, fds, killed, call, addr>>

Slots == 0 .. PIPESIZE - 1
Counter == 0 .. NMod - 1

TypeOK ==
    /\ data \in [Slots -> Vals]
    /\ nread \in Counter /\ nwrite \in Counter
    /\ readopen \in BOOLEAN /\ writeopen \in BOOLEAN /\ freed \in BOOLEAN
    /\ lock \in Procs \cup {Nobody}
    /\ fds \subseteq Procs
    /\ killed \in [Procs -> BOOLEAN]
    /\ pc \in [Procs -> {"idle", "loop", "copy", "tosleep", "asleep", "woken",
                      "closing"}]
    /\ i \in [Procs -> 0 .. MaxLen] /\ n \in [Procs -> 0 .. MaxLen]
    /\ addr \in Vals

\* pipealloc() has run and the two ends have been passed on by fork().
pipealloc ==
    /\ data \in [Slots -> Vals]
    /\ nread = 0 /\ nwrite = 0
    /\ readopen = TRUE /\ writeopen = TRUE /\ freed = FALSE

Init ==
    /\ pipealloc
    /\ lock = Nobody
    /\ fds = Procs
    /\ killed = [p \in Procs |-> FALSE]
    /\ pc = [p \in Procs |-> "idle"]
    /\ i = [p \in Procs |-> 0] /\ n = [p \in Procs |-> 0]
    /\ addr \in Vals

\* uint increment: the counters wrap.
Inc(x) == (x + 1) % NMod

Empty == nread = nwrite
FullTooLate == nwrite = (nread + PIPESIZE + 1) % NMod
Full == nwrite = (nread + PIPESIZE) % NMod      \* DOC: pipewrite-full

\* wakeup() on the channel that the processes of S sleep on: readers sleep on
\* &p->nread, writers on &p->nwrite.
wakeup(f, S) ==
    [p \in Procs |-> IF p \in S /\ f[p] = "asleep" THEN "woken" ELSE f[p]]

\* A call returns and its locals go.
Returned(p) == [pc EXCEPT ![p] = "idle"]
ResetLocals(p) == i' = [i EXCEPT ![p] = 0] /\ n' = [n EXCEPT ![p] = 0]

-----------------------------------------------------------------------------
\* A process calls read() or write() for k bytes; a killed one exits instead.
Call(p, k) ==
    /\ pc[p] = "idle" /\ p \in fds /\ ~killed[p]
    /\ lock = Nobody
    /\ lock' = p
    /\ n' = [n EXCEPT ![p] = k]
    /\ i' = [i EXCEPT ![p] = 0]
    /\ pc' = [pc EXCEPT ![p] = "loop"]
    /\ UNCHANGED <<pipe, fds, killed, addr>>

Enter(p) == \E k \in 0 .. MaxLen : Call(p, k)

\* sleep(): p->lock is released once ptable.lock is held.
sleep(p) ==
    /\ pc[p] = "tosleep"
    /\ pc' = [pc EXCEPT ![p] = "asleep"]
    /\ lock' = Nobody
    /\ UNCHANGED <<pipe, fds, killed, i, n, addr>>

\* Awake again, the process takes p->lock and tests its condition once more.
SleepReturn(p) ==
    /\ pc[p] = "woken"
    /\ lock = Nobody
    /\ lock' = p
    /\ pc' = [pc EXCEPT ![p] = "loop"]
    /\ UNCHANGED <<pipe, fds, killed, i, n, addr>>

-----------------------------------------------------------------------------
(* pipewrite() *)

\* The ring is full: give up if nobody reads or the writer was killed, else
\* wake the readers and sleep.
WriteFullQuietly(p) ==
    /\ p \in Writers /\ pc[p] = "loop" /\ i[p] < n[p] /\ Full
    /\ IF ~readopen \/ killed[p]
       THEN pc' = Returned(p) /\ lock' = Nobody /\ ResetLocals(p)
       ELSE /\ pc' = [pc EXCEPT ![p] = "tosleep"]
            /\ UNCHANGED <<lock, i, n>>
    /\ UNCHANGED <<pipe, fds, killed, addr>>
WriteFull(p) ==
    /\ p \in Writers /\ pc[p] = "loop" /\ i[p] < n[p] /\ Full
    /\ IF ~readopen \/ killed[p]
       THEN pc' = Returned(p) /\ lock' = Nobody /\ ResetLocals(p)
       ELSE /\ pc' = wakeup([pc EXCEPT ![p] = "tosleep"], Readers)
            /\ UNCHANGED <<lock, i, n>>
    /\ UNCHANGED <<pipe, fds, killed, addr>>

WriteByte(p) ==
    /\ p \in Writers /\ pc[p] = "loop" /\ i[p] < n[p] /\ ~Full
    /\ \E v \in Vals : data' = [data EXCEPT ![nwrite % PIPESIZE] = v]
    /\ nwrite' = Inc(nwrite)
    /\ i' = [i EXCEPT ![p] = i[p] + 1]
    /\ UNCHANGED <<nread, readopen, writeopen, freed, lock, fds, killed, pc, n,
                   addr>>

WriteDone(p) ==
    /\ p \in Writers /\ pc[p] = "loop" /\ i[p] = n[p]
    /\ pc' = wakeup(Returned(p), Readers)
    /\ lock' = Nobody
    /\ ResetLocals(p)
    /\ UNCHANGED <<pipe, fds, killed, addr>>

-----------------------------------------------------------------------------
(* piperead() *)

ReadEmpty(p) ==
    /\ p \in Readers /\ pc[p] = "loop" /\ Empty /\ writeopen
    /\ IF killed[p]
       THEN pc' = Returned(p) /\ lock' = Nobody /\ ResetLocals(p)
       ELSE pc' = [pc EXCEPT ![p] = "tosleep"] /\ UNCHANGED <<lock, i, n>>
    /\ UNCHANGED <<pipe, fds, killed, addr>>

ReadStart(p) ==
    /\ p \in Readers /\ pc[p] = "loop" /\ ~(Empty /\ writeopen)
    /\ pc' = [pc EXCEPT ![p] = "copy"]
    /\ UNCHANGED <<pipe, lock, fds, killed, i, n, addr>>

ReadByte(p) ==
    /\ pc[p] = "copy" /\ i[p] < n[p] /\ ~Empty
    /\ addr' = data[nread % PIPESIZE]
    /\ nread' = Inc(nread)
    /\ i' = [i EXCEPT ![p] = i[p] + 1]
    /\ UNCHANGED <<data, nwrite, readopen, writeopen, freed, lock, fds, killed,
                   pc, n>>

ReadDoneQuietly(p) ==
    /\ pc[p] = "copy"
    /\ i[p] = n[p] \/ Empty
    /\ pc' = Returned(p)
    /\ lock' = Nobody
    /\ ResetLocals(p)
    /\ UNCHANGED <<pipe, fds, killed, addr>>
ReadDone(p) ==
    /\ pc[p] = "copy"
    /\ i[p] = n[p] \/ Empty
    /\ pc' = wakeup(Returned(p), Writers)
    /\ lock' = Nobody
    /\ ResetLocals(p)
    /\ UNCHANGED <<pipe, fds, killed, addr>>

-----------------------------------------------------------------------------
\* The end of the pipe that a process holds.
End(p) == IF p \in Writers THEN Writers ELSE Readers

\* fileclose() of one reference; the last one of an end goes on to pipeclose()
\* once it has released ftable.lock.
fileclose(p) ==
    /\ p \in Closers /\ pc[p] = "idle" /\ p \in fds
    /\ fds' = fds \ {p}
    /\ pc' = IF fds' \cap End(p) = {} THEN [pc EXCEPT ![p] = "closing"] ELSE pc
    /\ UNCHANGED <<pipe, lock, killed, i, n, addr>>

\* The pipe is freed with its second end.
EitherClosed(r, w) == ~r \/ ~w
BothClosed(r, w) == ~r /\ ~w

\* pipeclose() wakes those who wait for the end that goes away.
WakeOwnEnd(p) == wakeup(Returned(p), End(p))
WakeOtherEnd(p) == wakeup(Returned(p), Procs \ End(p))

pipeclose(p) ==
    /\ pc[p] = "closing" /\ lock = Nobody
    /\ writeopen' = (writeopen /\ p \notin Writers)
    /\ readopen' = (readopen /\ p \notin Readers)
    /\ pc' = WakeOtherEnd(p)
    /\ freed' = BothClosed(readopen', writeopen')
    /\ UNCHANGED <<data, nread, nwrite, lock, fds, killed, i, n, addr>>

\* kill() from elsewhere: it wakes the process if it is asleep.
kill(p) ==
    /\ p \in Killable /\ ~killed[p]
    /\ killed' = [killed EXCEPT ![p] = TRUE]
    /\ pc' = wakeup(pc, {p})
    /\ UNCHANGED <<pipe, lock, fds, i, n, addr>>

Step(p) ==
    \/ sleep(p) \/ SleepReturn(p)
    \/ WriteFull(p) \/ WriteByte(p) \/ WriteDone(p)
    \/ ReadEmpty(p) \/ ReadStart(p) \/ ReadByte(p) \/ ReadDone(p)
    \/ pipeclose(p)

Next == \E p \in Procs : Enter(p) \/ Step(p) \/ fileclose(p) \/ kill(p)

Spec == Init /\ [][Next]_vars

-----------------------------------------------------------------------------
(* Properties *)

Count == (nwrite - nread) % NMod

\* The bytes in the ring, oldest first.
Contents == [k \in 1 .. Count |-> data[(nread + k - 1) % PIPESIZE]]

\* The ring with its wrapping counters is a bounded FIFO channel: every byte
\* read is the oldest one written and not yet read.
FIFO == INSTANCE Fifo WITH queue <- Contents, got <- addr, Size <- PIPESIZE

FifoSpec == FIFO!FSpec

\* With p->lock free, a reader asleep finds the pipe empty and a writer that
\* may still write ("pipe-empty", pipe.c:106).
ReaderHasReason ==
    lock = Nobody =>
        \A p \in Readers : pc[p] = "asleep" => Empty /\ writeopen

\* No lost wakeup, as far as the code avoids it: a writer asleep finds the ring
\* full and the read end open; a reader asleep finds the write end open and
\* nothing to read, unless a writer was killed (which returns from pipewrite()
\* without waking those who could read what it had written).
SleeperHasReason ==
    /\ ReaderHasReason \/ \E w \in Writers : killed[w]
    /\ lock = Nobody =>
         \A p \in Procs : pc[p] = "asleep" =>
            IF p \in Readers THEN writeopen ELSE Full /\ readopen

\* The struct outlives every use of it and does not leak: a process that holds
\* an end or is inside a call, asleep or not, never has a freed pipe, and the
\* pipe is freed once the last close has run.
Lifetime ==
    freed <=> /\ fds = {}
              /\ \A p \in Procs : pc[p] = "idle"

(***************************************************************************)
(* Fairness: a call makes progress whenever it can take a step, and obtains *)
(* p->lock if it is free again and again.  ReadersRead is an assumption on  *)
(* the programs: the readers keep calling read() for at least one byte.     *)
(***************************************************************************)
Fairness == \A p \in Procs : SF_vars(Step(p))

FairSpec == Spec /\ Fairness

ReadersRead ==
    \A p \in Readers : SF_vars(\E k \in 1 .. MaxLen : Call(p, k))

DrainedSpec == FairSpec /\ ReadersRead

\* The writers never all stall: when each of them is inside write(), and the
\* readers keep reading and neither close nor are killed, one of them returns.
\* (One writer alone may starve: the other can refill the ring every time.)
WriteEnds ==
    (\A p \in Writers : pc[p] # "idle") ~> (\E p \in Writers : pc[p] = "idle")

\* End of file: once the last writer has closed, every read returns.
EofReachesReaders ==
    \A p \in Readers : ~writeopen /\ pc[p] # "idle" ~> pc[p] = "idle"

\* The struct is well formed and lives exactly as long as somebody needs it.
PipeSound == TypeOK /\ Lifetime
=============================================================================
