----------------------------- MODULE PipeProofs -----------------------------
(***************************************************************************)
(* Proofs about Pipe for any number of readers and writers and any size:   *)
(* the struct lives as long as somebody needs it, nobody sleeps without a  *)
(* reason, and the ring with its wrapping counters is a bounded FIFO.      *)
(***************************************************************************)
EXTENDS Pipe, Sequences, WrapLemmas

\* Between acquire(&p->lock) and release(&p->lock).
Held == {"loop", "copy", "tosleep"}

LockInv == \A p \in Procs : pc[p] \in Held <=> lock = p

CallInv ==
    \A p \in Procs :
        /\ i[p] <= n[p]
        /\ pc[p] = "copy" => p \in Readers
        /\ pc[p] \notin {"idle", "closing"} => p \in fds

\* Somebody holds the end S, or is on the way to pipeclose() for it.
Live(S) == fds \cap S # {} \/ \E p \in S : pc[p] = "closing"

EndInv ==
    /\ readopen <=> Live(Readers)
    /\ writeopen <=> Live(Writers)
    /\ freed <=> ~readopen /\ ~writeopen
    /\ \A p \in Procs : pc[p] = "closing" =>
         fds \cap End(p) = {} /\ \A q \in End(p) : pc[q] = "closing" => q = p

Waiting == {"tosleep", "asleep"}

\* A sleeper's condition holds, unless the one who has made it false still
\* holds p->lock and will wake the sleeper before it lets go.
SleepInv ==
    \A p \in Procs : pc[p] \in Waiting =>
        IF p \in Readers
        THEN /\ writeopen
             /\ \/ Empty
                \/ lock \in Writers /\ pc[lock] = "loop"
                \/ \E w \in Writers : killed[w]
        ELSE /\ readopen
             /\ Full \/ (lock \in Readers /\ pc[lock] = "copy")

IInv == TypeOK /\ LockInv /\ CallInv /\ EndInv /\ SleepInv

-----------------------------------------------------------------------------
\* Who is a process, and which end it holds.
LEMMA EndFacts ==
  /\ Nobody \notin Procs /\ Readers \subseteq Procs /\ Writers \subseteq Procs
  /\ \A p \in Procs : /\ End(p) \in {Readers, Writers} /\ p \in End(p)
                      /\ p \in Writers <=> End(p) = Writers
                      /\ p \in Readers <=> End(p) = Readers
                      /\ p \in Readers <=> p \notin Writers
BY PipeAssumption DEF Procs, End

\* Inc() and the index of a byte stay in their ranges.
LEMMA Ranges ==
  ASSUME NEW x \in Counter
  PROVE  Inc(x) \in Counter /\ x % PIPESIZE \in Slots
BY PipeAssumption, Successor, RemainderRange DEF Counter, Slots, Inc

\* pipealloc() has run.
LEMMA InitIInv == Init => IInv
<1> SUFFICES ASSUME Init PROVE IInv
  OBVIOUS
<1>1. TypeOK
  <2>1. readopen \in BOOLEAN /\ writeopen \in BOOLEAN /\ freed \in BOOLEAN
    BY Zenon DEF Init, pipealloc
  <2>2. nread \in Counter /\ nwrite \in Counter
    BY PipeAssumption DEF Init, pipealloc, Counter
  <2>3. i \in [Procs -> 0 .. MaxLen] /\ n \in [Procs -> 0 .. MaxLen]
    BY PipeAssumption DEF Init
  <2> QED
    BY <2>1, <2>2, <2>3 DEF Init, pipealloc, TypeOK
<1>2. LockInv /\ CallInv /\ SleepInv
  BY PipeAssumption, EndFacts DEF Init, LockInv, CallInv, SleepInv, Held, Waiting
<1>3. EndInv
  BY PipeAssumption DEF Init, pipealloc, EndInv, Live, Procs
<1> QED
  BY <1>1, <1>2, <1>3 DEF IInv

\* A call takes p->lock, at its start or after a sleep.
LEMMA EnterStep ==
  ASSUME IInv, NEW p \in Procs, Enter(p) \/ SleepReturn(p)
  PROVE  IInv'
<1> USE DEF IInv, pipe
<1>1. /\ lock = Nobody /\ lock' = p /\ p \in fds /\ pc' = [pc EXCEPT ![p] = "loop"]
      /\ pc[p] \notin Held /\ pc[p] # "closing"
      /\ UNCHANGED <<pipe, fds, killed, addr>>
  BY DEF Enter, Call, SleepReturn, CallInv, Held
<1>2. /\ i' \in [Procs -> 0 .. MaxLen] /\ n' \in [Procs -> 0 .. MaxLen]
      /\ \A q \in Procs : i'[q] <= n'[q]
  <2>1. CASE Enter(p)
    <3>1. PICK k \in 0 .. MaxLen : i' = [i EXCEPT ![p] = 0] /\ n' = [n EXCEPT ![p] = k]
      BY <2>1 DEF Enter, Call
    <3> QED
      BY <3>1, PipeAssumption DEF CallInv, TypeOK
  <2>2. CASE SleepReturn(p)
    BY <2>2 DEF SleepReturn, CallInv, TypeOK
  <2> QED
    BY <2>1, <2>2
<1>3. TypeOK'
  BY <1>1, <1>2 DEF TypeOK
<1>4. LockInv'
  BY <1>1, EndFacts DEF LockInv, TypeOK, Held
<1>5. CallInv'
  BY <1>1, <1>2 DEF CallInv, TypeOK
<1>6. EndInv'
  <2>1. Live(Readers)' = Live(Readers) /\ Live(Writers)' = Live(Writers)
    BY <1>1, EndFacts DEF Live, TypeOK
  <2> QED
    BY <1>1, <2>1, EndFacts DEF EndInv, TypeOK, End
<1>7. SleepInv'
  BY <1>1, EndFacts DEF SleepInv, Waiting, Empty, Full, TypeOK
<1> QED
  BY <1>3, <1>4, <1>5, <1>6, <1>7

\* sleep() lets go of p->lock.
LEMMA SleepStep ==
  ASSUME IInv, NEW p \in Procs, sleep(p)
  PROVE  IInv'
<1> USE DEF IInv, pipe
<1>1. /\ pc[p] = "tosleep" /\ lock' = Nobody /\ pc' = [pc EXCEPT ![p] = "asleep"]
      /\ lock = p /\ UNCHANGED <<pipe, fds, killed, i, n, addr>>
  BY DEF sleep, LockInv, Held
<1>2. TypeOK'
  BY <1>1 DEF TypeOK
<1>3. LockInv' /\ CallInv'
  BY <1>1, EndFacts DEF LockInv, CallInv, TypeOK, Held
<1>4. EndInv'
  <2>1. Live(Readers)' = Live(Readers) /\ Live(Writers)' = Live(Writers)
    BY <1>1, EndFacts DEF Live, TypeOK
  <2> QED
    BY <1>1, <2>1, EndFacts DEF EndInv, TypeOK, End
<1>5. SleepInv'
  BY <1>1, EndFacts DEF SleepInv, Waiting, Empty, Full, TypeOK
<1> QED
  BY <1>2, <1>3, <1>4, <1>5

\* The holder of p->lock goes on to another place of its call, keeping the lock.
LEMMA AdvanceStep ==
  ASSUME IInv, NEW p \in Procs, ReadStart(p)
  PROVE  IInv'
<1> USE DEF IInv, pipe
<1>1. /\ pc[p] = "loop" /\ lock = p /\ p \in Readers /\ pc' = [pc EXCEPT ![p] = "copy"]
      /\ UNCHANGED <<pipe, lock, fds, killed, i, n, addr>>
  BY DEF ReadStart, LockInv, Held
<1>2. TypeOK'
  BY <1>1 DEF TypeOK
<1>3. LockInv' /\ CallInv'
  BY <1>1 DEF LockInv, CallInv, TypeOK, Held
<1>4. EndInv'
  <2>1. Live(Readers)' = Live(Readers) /\ Live(Writers)' = Live(Writers)
    BY <1>1, EndFacts DEF Live, TypeOK
  <2> QED
    BY <1>1, <2>1, EndFacts DEF EndInv, TypeOK, End
<1>5. SleepInv'
  BY <1>1, EndFacts DEF SleepInv, Waiting, Empty, Full, TypeOK
<1> QED
  BY <1>2, <1>3, <1>4, <1>5

\* A call returns, having woken the sleepers of the end S (or nobody): those it
\* does not wake still have their reason.
LEMMA ReturnStep ==
  ASSUME IInv, NEW p \in Procs, NEW S \in {{}, Readers, Writers},
         lock = p, lock' = Nobody, ResetLocals(p),
         pc' = wakeup(Returned(p), S), UNCHANGED <<pipe, fds, killed, addr>>,
         S # Readers => \A q \in Readers : pc[q] = "asleep" =>
                           Empty \/ \E w \in Writers : killed[w],
         S # Writers => \A q \in Writers : pc[q] = "asleep" => Full
  PROVE  IInv'
<1> USE DEF IInv, pipe
<1>1. \A q \in Procs : pc'[q] = IF q = p THEN "idle"
                                ELSE IF q \in S /\ pc[q] = "asleep" THEN "woken" ELSE pc[q]
  BY DEF wakeup, Returned, TypeOK
<1>2. pc[p] \in Held
  BY DEF LockInv
<1>3. TypeOK'
  <2>1. pc' \in [Procs -> {"idle", "loop", "copy", "tosleep", "asleep", "woken", "closing"}]
    BY <1>1 DEF wakeup, TypeOK
  <2>2. i' \in [Procs -> 0 .. MaxLen] /\ n' \in [Procs -> 0 .. MaxLen]
    BY PipeAssumption DEF TypeOK, ResetLocals
  <2> QED
    BY <2>1, <2>2 DEF TypeOK
<1>4. LockInv'
  BY <1>1, EndFacts DEF LockInv, Held
<1>5. CallInv'
  <2>1. \A q \in Procs : i'[q] <= n'[q]
    BY DEF CallInv, TypeOK, ResetLocals
  <2> QED
    BY <1>1, <2>1 DEF CallInv
<1>6. EndInv'
  <2>1. \A q \in Procs : pc'[q] = "closing" <=> pc[q] = "closing"
    BY <1>1, <1>2 DEF Held
  <2>2. Live(Readers)' = Live(Readers) /\ Live(Writers)' = Live(Writers)
    BY <2>1, EndFacts DEF Live
  <2> QED
    BY <2>1, <2>2, EndFacts DEF EndInv, End
<1>7. SleepInv'
  <2> SUFFICES ASSUME NEW q \in Procs, pc'[q] \in Waiting
               PROVE  IF q \in Readers
                      THEN writeopen /\ (Empty \/ \E w \in Writers : killed[w])
                      ELSE readopen /\ Full
    BY DEF SleepInv, Empty, Full
  <2>1. q # p /\ pc[q] = "asleep" /\ q \notin S
    BY <1>1 DEF Waiting, LockInv, Held
  <2>2. q \in Readers \/ q \in Writers
    BY DEF Procs
  <2> QED
    BY <2>1, <2>2 DEF SleepInv, Waiting
<1> QED
  BY <1>3, <1>4, <1>5, <1>6, <1>7

\* A call decides to sleep, having woken the sleepers of the end S (or nobody).
LEMMA ToSleepStep ==
  ASSUME IInv, NEW p \in Procs, NEW S \in {{}, Readers}, pc[p] = "loop",
         S = {} => p \in Readers,
         pc' = wakeup([pc EXCEPT ![p] = "tosleep"], S),
         UNCHANGED <<pipe, lock, fds, killed, i, n, addr>>,
         IF p \in Readers THEN Empty /\ writeopen ELSE Full /\ readopen
  PROVE  IInv'
<1> USE DEF IInv, pipe
<1>1. \A q \in Procs : pc'[q] = IF q = p THEN "tosleep"
                                ELSE IF q \in S /\ pc[q] = "asleep" THEN "woken" ELSE pc[q]
  BY DEF wakeup, TypeOK
<1>2. lock = p
  BY DEF LockInv, Held
<1>3. TypeOK'
  <2>1. pc' \in [Procs -> {"idle", "loop", "copy", "tosleep", "asleep", "woken", "closing"}]
    BY <1>1 DEF wakeup, TypeOK
  <2> QED
    BY <2>1 DEF TypeOK
<1>4. LockInv' /\ CallInv'
  BY <1>1, <1>2 DEF LockInv, CallInv, Held
<1>5. EndInv'
  <2>1. \A q \in Procs : pc'[q] = "closing" <=> pc[q] = "closing"
    BY <1>1
  <2>2. Live(Readers)' = Live(Readers) /\ Live(Writers)' = Live(Writers)
    BY <2>1, EndFacts DEF Live
  <2> QED
    BY <2>1, <2>2, EndFacts DEF EndInv, End
<1>6. SleepInv'
  <2> SUFFICES ASSUME NEW q \in Procs, pc'[q] \in Waiting, q # p
               PROVE  IF q \in Readers
                      THEN writeopen /\ (Empty \/ \E w \in Writers : killed[w])
                      ELSE readopen /\ Full
    BY EndFacts DEF SleepInv, Empty, Full
  <2>1. pc[q] = "asleep" /\ q \notin S
    BY <1>1, <1>2 DEF Waiting, LockInv, Held
  <2>2. q \in Readers => p \in Readers
    BY <2>1
  <2> QED
    BY <1>2, <2>1, <2>2, EndFacts DEF SleepInv, Waiting
<1> QED
  BY <1>3, <1>4, <1>5, <1>6

\* The paths of pipewrite() and piperead() that end or suspend a call.
LEMMA EndOfCallStep ==
  ASSUME IInv, NEW p \in Procs,
         WriteFull(p) \/ WriteDone(p) \/ ReadEmpty(p) \/ ReadDone(p)
  PROVE  IInv'
<1> USE DEF IInv
<1>1. lock = p
  BY DEF WriteFull, WriteDone, ReadEmpty, ReadDone, LockInv, Held
<1>2. \A f \in [Procs -> {"idle", "loop", "copy", "tosleep", "asleep", "woken", "closing"}] :
         wakeup(f, {}) = f
  BY DEF wakeup
<1>3. /\ Returned(p) = wakeup(Returned(p), {})
      /\ [pc EXCEPT ![p] = "tosleep"] = wakeup([pc EXCEPT ![p] = "tosleep"], {})
  <2>1. /\ Returned(p) \in [Procs -> {"idle", "loop", "copy", "tosleep", "asleep",
                                      "woken", "closing"}]
        /\ [pc EXCEPT ![p] = "tosleep"] \in
              [Procs -> {"idle", "loop", "copy", "tosleep", "asleep", "woken", "closing"}]
    BY DEF TypeOK, Returned
  <2> QED
    BY <1>2, <2>1
<1>4. \A q \in Readers : pc[q] = "asleep" => readopen /\ writeopen
  BY EndFacts DEF CallInv, EndInv, Live, SleepInv, Waiting
\* Sleepers whose reason the holder of the lock cannot have taken away.
<1>5. p \in Writers => \A q \in Writers : pc[q] = "asleep" => Full
  BY <1>1, EndFacts DEF SleepInv, Waiting
<1>6. p \in Readers => \A q \in Readers : pc[q] = "asleep" =>
                          Empty \/ \E w \in Writers : killed[w]
  BY <1>1, EndFacts DEF SleepInv, Waiting
<1>7. CASE WriteFull(p)
  <2>1. p \in Writers /\ pc[p] = "loop" /\ Full /\ UNCHANGED <<pipe, fds, killed, addr>>
    BY <1>7 DEF WriteFull
  <2>2. CASE ~readopen \/ killed[p]
    <3>1. pc' = Returned(p) /\ lock' = Nobody /\ ResetLocals(p)
      BY <1>7, <2>2 DEF WriteFull
    <3>2. \A q \in Readers : pc[q] = "asleep" => Empty \/ \E w \in Writers : killed[w]
      BY <1>4, <2>1, <2>2
    <3> QED
      BY <1>1, <1>3, <1>5, <2>1, <3>1, <3>2, ReturnStep
  <2>3. CASE ~(~readopen \/ killed[p])
    <3>1. pc' = wakeup([pc EXCEPT ![p] = "tosleep"], Readers) /\ UNCHANGED <<lock, i, n>>
      BY <1>7, <2>3 DEF WriteFull
    <3> QED
      BY <2>1, <2>3, <3>1, ToSleepStep, EndFacts, PipeAssumption
  <2> QED
    BY <2>2, <2>3
<1>8. CASE WriteDone(p)
  BY <1>1, <1>5, <1>8, ReturnStep DEF WriteDone
<1>9. CASE ReadEmpty(p)
  <2>1. /\ p \in Readers /\ pc[p] = "loop" /\ Empty /\ writeopen
        /\ UNCHANGED <<pipe, fds, killed, addr>>
    BY <1>9 DEF ReadEmpty
  <2>2. CASE killed[p]
    <3>1. pc' = Returned(p) /\ lock' = Nobody /\ ResetLocals(p)
      BY <1>9, <2>2 DEF ReadEmpty
    <3>2. \A q \in Writers : pc[q] = "asleep" => Full
      BY <1>1, <2>1, EndFacts DEF SleepInv, Waiting
    <3> QED
      BY <1>1, <1>3, <1>6, <2>1, <3>1, <3>2, ReturnStep
  <2>3. CASE ~killed[p]
    <3>1. pc' = [pc EXCEPT ![p] = "tosleep"] /\ UNCHANGED <<lock, i, n>>
      BY <1>9, <2>3 DEF ReadEmpty
    <3> QED
      BY <1>3, <2>1, <3>1, ToSleepStep
  <2> QED
    BY <2>2, <2>3
<1>10. CASE ReadDone(p)
  <2>1. p \in Readers
    BY <1>10 DEF ReadDone, CallInv
  <2> QED
    BY <1>1, <1>6, <1>10, <2>1, ReturnStep DEF ReadDone
<1> QED
  BY <1>7, <1>8, <1>9, <1>10

\* A byte goes into the ring or out of it.
LEMMA ByteStep ==
  ASSUME IInv, NEW p \in Procs, WriteByte(p) \/ ReadByte(p)
  PROVE  IInv'
<1> USE DEF IInv
<1>1. /\ pc[p] \in {"loop", "copy"} /\ lock = p /\ i[p] < n[p]
      /\ i' = [i EXCEPT ![p] = i[p] + 1]
      /\ UNCHANGED <<readopen, writeopen, freed, lock, fds, killed, pc, n>>
  BY DEF WriteByte, ReadByte, LockInv, Held
<1>2. TypeOK'
  <2>1. i' \in [Procs -> 0 .. MaxLen]
    BY <1>1, PipeAssumption DEF TypeOK
  <2>2. nread' \in Counter /\ nwrite' \in Counter
    BY Ranges DEF WriteByte, ReadByte, TypeOK
  <2>3. data' \in [Slots -> Vals] /\ addr' \in Vals
    BY Ranges DEF WriteByte, ReadByte, TypeOK
  <2> QED
    BY <1>1, <2>1, <2>2, <2>3 DEF TypeOK
<1>3. LockInv' /\ CallInv'
  BY <1>1, PipeAssumption DEF LockInv, CallInv, TypeOK
<1>4. EndInv'
  BY <1>1 DEF EndInv, Live, End
<1>5. SleepInv'
  <2> SUFFICES ASSUME NEW q \in Procs, pc[q] \in Waiting
               PROVE  IF q \in Readers
                      THEN writeopen /\ ((lock \in Writers /\ pc[lock] = "loop")
                                         \/ \E w \in Writers : killed[w])
                      ELSE readopen /\ lock \in Readers /\ pc[lock] = "copy"
    BY <1>1 DEF SleepInv
  <2>1. CASE WriteByte(p)
    BY <1>1, <2>1, EndFacts DEF WriteByte, SleepInv
  <2>2. CASE ReadByte(p)
    BY <1>1, <2>2, EndFacts DEF ReadByte, SleepInv, CallInv
  <2> QED
    BY <2>1, <2>2
<1> QED
  BY <1>2, <1>3, <1>4, <1>5

\* One reference to an end goes; the last one of the end moves on to pipeclose().
LEMMA FilecloseStep ==
  ASSUME IInv, NEW p \in Procs, fileclose(p)
  PROVE  IInv'
<1> USE DEF IInv, pipe
<1>1. /\ pc[p] = "idle" /\ p \in fds /\ fds' = fds \ {p}
      /\ pc' = IF fds' \cap End(p) = {} THEN [pc EXCEPT ![p] = "closing"] ELSE pc
      /\ UNCHANGED <<pipe, lock, killed, i, n, addr>>
  BY DEF fileclose
<1>2. \A q \in Procs : q # p => pc'[q] = pc[q]
  BY <1>1 DEF TypeOK
<1>3. pc'[p] = IF (fds \ {p}) \cap End(p) = {} THEN "closing" ELSE "idle"
  BY <1>1 DEF TypeOK
<1>4. TypeOK'
  BY <1>1 DEF TypeOK
<1>5. LockInv'
  BY <1>1, <1>2, <1>3 DEF LockInv, Held
<1>6. CallInv'
  BY <1>1, <1>2, <1>3 DEF CallInv
<1>7. EndInv'
  <2>1. ASSUME NEW S \in {Readers, Writers} PROVE Live(S)' <=> Live(S)
    <3>1. CASE S = End(p)
      BY <1>1, <1>2, <1>3, <3>1, EndFacts DEF Live
    <3>2. CASE S # End(p)
      <4>1. S \subseteq Procs /\ p \notin S
        BY <3>2, EndFacts
      <4> QED
        BY <1>1, <1>2, <4>1 DEF Live
    <3> QED
      BY <3>1, <3>2
  <2>2. ASSUME NEW q \in Procs, pc'[q] = "closing"
        PROVE  fds' \cap End(q) = {} /\ \A o \in End(q) : pc'[o] = "closing" => o = q
    <3>1. End(q) \subseteq Procs /\ End(p) \subseteq Procs
      BY EndFacts
    <3>2. CASE q = p
      <4>1. (fds \ {p}) \cap End(p) = {} /\ p \in End(p)
        BY <1>3, <2>2, <3>2, EndFacts
      <4>2. ASSUME NEW o \in End(p), o # p, pc'[o] = "closing" PROVE FALSE
        <5>1. o \in Procs /\ pc[o] = "closing" /\ End(o) = End(p)
          BY <1>2, <3>1, <4>2, EndFacts
        <5> QED
          BY <1>1, <4>1, <5>1 DEF EndInv
      <4> QED
        BY <1>1, <3>2, <4>1, <4>2
    <3>3. CASE q # p
      <4>1. pc[q] = "closing"
        BY <1>2, <2>2, <3>3
      <4>2. fds \cap End(q) = {} /\ \A o \in End(q) : pc[o] = "closing" => o = q
        BY <4>1 DEF EndInv
      <4> QED
        BY <1>1, <1>2, <3>1, <4>2
    <3> QED
      BY <3>2, <3>3
  <2> QED
    BY <1>1, <2>1, <2>2 DEF EndInv, End
<1>8. SleepInv'
  <2>1. ASSUME NEW q \in Procs, pc'[q] \in Waiting PROVE pc[q] \in Waiting
    BY <1>2, <1>3, <2>1 DEF Waiting
  <2>2. lock \in Procs /\ pc[lock] \in {"loop", "copy"} => pc'[lock] = pc[lock]
    BY <1>1, <1>2
  <2>3. Empty' = Empty /\ Full' = Full
    BY <1>1 DEF Empty, Full
  <2> QED
    BY <1>1, <2>1, <2>2, <2>3, EndFacts DEF SleepInv
<1> QED
  BY <1>4, <1>5, <1>6, <1>7, <1>8

\* pipeclose() shuts an end, wakes the other one and may free the struct.
LEMMA PipecloseStep ==
  ASSUME IInv, NEW p \in Procs, pipeclose(p)
  PROVE  IInv'
<1> USE DEF IInv
<1>1. /\ pc[p] = "closing" /\ lock = Nobody
      /\ writeopen' = (writeopen /\ p \notin Writers)
      /\ readopen' = (readopen /\ p \notin Readers)
      /\ freed' = (~readopen' /\ ~writeopen')
      /\ UNCHANGED <<data, nread, nwrite, lock, fds, killed, i, n, addr>>
  BY DEF pipeclose, BothClosed
<1>2. \A q \in Procs : pc'[q] = IF q = p THEN "idle"
                               ELSE IF q \notin End(p) /\ pc[q] = "asleep" THEN "woken"
                               ELSE pc[q]
  BY DEF pipeclose, WakeOtherEnd, wakeup, Returned, TypeOK
<1>3. TypeOK'
  <2>1. writeopen' \in BOOLEAN /\ readopen' \in BOOLEAN /\ freed' \in BOOLEAN
    BY <1>1, Zenon
  <2>2. pc' \in [Procs -> {"idle", "loop", "copy", "tosleep", "asleep", "woken", "closing"}]
    BY <1>2 DEF pipeclose, WakeOtherEnd, wakeup, TypeOK
  <2> QED
    BY <1>1, <2>1, <2>2 DEF TypeOK
<1>4. LockInv' /\ CallInv'
  BY <1>1, <1>2 DEF LockInv, CallInv, Held
<1>5. EndInv'
  <2>1. \A q \in Procs : pc'[q] = "closing" <=> pc[q] = "closing" /\ q # p
    BY <1>2
  <2>2. ~Live(End(p))'
    BY <1>1, <2>1, EndFacts DEF EndInv, Live
  <2>3. \A S \in {Readers, Writers} : S # End(p) => (Live(S)' <=> Live(S))
    BY <1>1, <2>1, EndFacts DEF Live
  <2>4. /\ readopen' <=> Live(Readers)'
        /\ writeopen' <=> Live(Writers)'
    BY <1>1, <2>2, <2>3, EndFacts DEF EndInv
  <2>5. ASSUME NEW q \in Procs, pc'[q] = "closing"
        PROVE  fds' \cap End(q) = {} /\ \A o \in End(q) : pc'[o] = "closing" => o = q
    BY <1>1, <2>1, <2>5, EndFacts DEF EndInv
  <2> QED
    BY <1>1, <2>4, <2>5 DEF EndInv, End
<1>6. SleepInv'
  <2> SUFFICES ASSUME NEW q \in Procs, pc'[q] \in Waiting
               PROVE  IF q \in Readers
                      THEN writeopen' /\ (Empty \/ \E w \in Writers : killed[w])
                      ELSE readopen' /\ Full
    BY <1>1 DEF SleepInv, Empty, Full
  <2>1. q # p /\ pc[q] = "asleep" /\ q \in End(p)
    BY <1>1, <1>2, EndFacts DEF Waiting, LockInv, Held
  <2>2. (q \in Readers => p \notin Writers) /\ (q \notin Readers => p \notin Readers)
    BY <2>1, EndFacts
  <2> QED
    BY <1>1, <2>1, <2>2, EndFacts DEF SleepInv, Waiting
<1> QED
  BY <1>3, <1>4, <1>5, <1>6

\* kill() marks a process and wakes it.
LEMMA KillStep ==
  ASSUME IInv, NEW p \in Procs, kill(p)
  PROVE  IInv'
<1> USE DEF IInv, pipe
<1>1. /\ killed' = [killed EXCEPT ![p] = TRUE]
      /\ UNCHANGED <<pipe, lock, fds, i, n, addr>>
  BY DEF kill
<1>2. \A q \in Procs : pc'[q] = IF q = p /\ pc[q] = "asleep" THEN "woken" ELSE pc[q]
  BY DEF kill, wakeup
<1>3. TypeOK'
  <2>1. pc' \in [Procs -> {"idle", "loop", "copy", "tosleep", "asleep", "woken", "closing"}]
    BY <1>2 DEF kill, wakeup, TypeOK
  <2> QED
    BY <1>1, <2>1 DEF TypeOK
<1>4. LockInv' /\ CallInv'
  BY <1>1, <1>2 DEF LockInv, CallInv, Held
<1>5. EndInv'
  <2>1. \A q \in Procs : pc'[q] = "closing" <=> pc[q] = "closing"
    BY <1>2
  <2>2. Live(Readers)' = Live(Readers) /\ Live(Writers)' = Live(Writers)
    BY <1>1, <2>1, EndFacts DEF Live
  <2> QED
    BY <1>1, <2>1, <2>2, EndFacts DEF EndInv, End
<1>6. SleepInv'
  <2>1. \A q \in Procs : killed[q] => killed'[q]
    BY <1>1 DEF TypeOK
  <2>2. \A q \in Procs : pc'[q] \in Waiting => pc[q] \in Waiting
    BY <1>2 DEF Waiting
  <2>3. \A q \in Procs : pc[q] \in {"loop", "copy"} => pc'[q] = pc[q]
    BY <1>2
  <2>4. Empty' = Empty /\ Full' = Full
    BY <1>1 DEF Empty, Full
  <2> QED
    BY <1>1, <2>1, <2>2, <2>3, <2>4, EndFacts DEF SleepInv
<1> QED
  BY <1>3, <1>4, <1>5, <1>6

\* IInv is inductive.
LEMMA IInvStep == IInv /\ [Next]_vars => IInv'
<1> SUFFICES ASSUME IInv, [Next]_vars PROVE IInv'
  OBVIOUS
<1>1. ASSUME NEW p \in Procs, Enter(p) \/ Step(p) \/ fileclose(p) \/ kill(p)
      PROVE  IInv'
  BY <1>1, EnterStep, SleepStep, AdvanceStep, EndOfCallStep, ByteStep, PipecloseStep,
     FilecloseStep, KillStep DEF Step
<1>2. CASE UNCHANGED vars
  <2> USE <1>2 DEF vars, pipe, call
  <2>1. TypeOK' /\ LockInv' /\ CallInv'
    BY DEF IInv, TypeOK, LockInv, CallInv
  <2>2. EndInv' /\ SleepInv'
    BY DEF IInv, EndInv, SleepInv, Live, End, Empty, Full
  <2> QED
    BY <2>1, <2>2 DEF IInv
<1> QED
  BY <1>1, <1>2 DEF Next

\* The invariant holds in every reachable state.
LEMMA Invariant == Spec => []IInv
BY InitIInv, IInvStep, PTL DEF Spec

-----------------------------------------------------------------------------
\* kfree() of the pipe's page comes exactly when both ends are closed and no
\* call is left inside, asleep or not: no use after free and no leak, whatever
\* the order of closes, kills and calls.
THEOREM PipeSoundAlways == Spec => []PipeSound
<1>1. IInv => PipeSound
  <2> SUFFICES ASSUME IInv PROVE Lifetime
    BY DEF IInv, PipeSound
  <2>1. freed <=> ~Live(Readers) /\ ~Live(Writers)
    BY DEF IInv, EndInv
  <2>2. fds = (fds \cap Readers) \cup (fds \cap Writers)
    BY DEF IInv, TypeOK, Procs
  <2>3. (~Live(Readers) /\ ~Live(Writers)) <=>
           (fds = {} /\ \A p \in Procs : pc[p] # "closing")
    BY <2>2 DEF Live, Procs
  <2>4. fds = {} => \A p \in Procs : pc[p] \in {"idle", "closing"}
    BY DEF IInv, CallInv
  <2> QED
    BY <2>1, <2>3, <2>4 DEF Lifetime
<1> QED
  BY <1>1, Invariant, PTL

\* No lost wakeup: whoever sleeps while p->lock is free finds its condition to
\* hold, except a reader after a writer was killed in pipewrite().
THEOREM SleeperHasReasonAlways == Spec => []SleeperHasReason
<1>1. IInv => SleeperHasReason
  <2> SUFFICES ASSUME IInv PROVE SleeperHasReason
    OBVIOUS
  <2>1. ReaderHasReason \/ \E w \in Writers : killed[w]
    BY EndFacts DEF IInv, SleepInv, ReaderHasReason, Waiting
  <2>2. lock = Nobody =>
          \A p \in Procs : pc[p] = "asleep" =>
             IF p \in Readers THEN writeopen ELSE Full /\ readopen
    BY EndFacts DEF IInv, SleepInv, Waiting
  <2> QED
    BY <2>1, <2>2 DEF SleeperHasReason
<1> QED
  BY <1>1, Invariant, PTL

-----------------------------------------------------------------------------
(* The ring is a FIFO *)

\* The counters never drift apart by more than the ring holds.
RingInv == Count <= PIPESIZE

\* What Count, Full and Empty say of the counters, wrapped or not.
LEMMA CountIs ==
  ASSUME TypeOK
  PROVE  /\ Count = IF nwrite >= nread THEN nwrite - nread ELSE nwrite - nread + NMod
         /\ Count \in Counter
         /\ Full <=> Count = PIPESIZE
         /\ Empty <=> Count = 0
<1>1. /\ nread \in 0 .. NMod - 1 /\ nwrite \in 0 .. NMod - 1 /\ NMod \in Nat \ {0}
      /\ PIPESIZE \in 0 .. NMod - 1
  BY PipeAssumption DEF TypeOK, Counter
<1>2. Count = IF nwrite >= nread THEN nwrite - nread ELSE nwrite - nread + NMod
  BY <1>1, Distance DEF Count
<1>3. Count \in Counter
  BY <1>1, <1>2 DEF Counter
<1>4. (nread + PIPESIZE) % NMod =
         IF nread + PIPESIZE < NMod THEN nread + PIPESIZE ELSE nread + PIPESIZE - NMod
  BY <1>1, WrapOnce
<1>5. Full <=> Count = PIPESIZE
  BY <1>1, <1>2, <1>4 DEF Full
<1>6. Empty <=> Count = 0
  BY <1>1, <1>2 DEF Empty
<1> QED
  BY <1>2, <1>3, <1>5, <1>6

\* The same as an implication, to be used of the next state.
LEMMA CountDistance ==
  TypeOK => Count = IF nwrite >= nread THEN nwrite - nread ELSE nwrite - nread + NMod
BY CountIs

\* One more byte, or one fewer.
LEMMA CountStep ==
  ASSUME TypeOK, TypeOK', RingInv, NEW p \in Procs
  PROVE  /\ WriteByte(p) => Count < PIPESIZE /\ Count' = Count + 1
         /\ ReadByte(p) => Count > 0 /\ Count' = Count - 1
<1>1. /\ nread \in 0 .. NMod - 1 /\ nwrite \in 0 .. NMod - 1 /\ NMod \in Nat \ {0}
      /\ PIPESIZE \in 0 .. NMod - 1 /\ Count \in 0 .. NMod - 1
  BY CountIs, PipeAssumption DEF TypeOK, Counter
<1>2. (TypeOK => Count = IF nwrite >= nread THEN nwrite - nread
                         ELSE nwrite - nread + NMod)'
  BY CountDistance, PTL
<1>3. CASE WriteByte(p)
  <2>1. nread' = nread /\ nwrite' = IF nwrite = NMod - 1 THEN 0 ELSE nwrite + 1
    BY <1>1, <1>3, Successor DEF WriteByte, Inc
  <2>2. Count < PIPESIZE
    BY <1>1, <1>3, CountIs DEF WriteByte, RingInv
  <2> QED
    BY <1>1, <1>2, <1>3, <2>1, <2>2, CountIs DEF WriteByte, ReadByte, Held
<1>4. CASE ReadByte(p)
  <2>1. nwrite' = nwrite /\ nread' = IF nread = NMod - 1 THEN 0 ELSE nread + 1
    BY <1>1, <1>4, Successor DEF ReadByte, Inc
  <2>2. Count > 0
    BY <1>1, <1>4, CountIs DEF ReadByte
  <2> QED
    BY <1>1, <1>2, <1>4, <2>1, <2>2, CountIs DEF WriteByte, ReadByte
<1> QED
  BY <1>3, <1>4

\* The byte k places after the oldest one, once a byte has been read.
LEMMA IndexAfterRead ==
  ASSUME TypeOK, NEW k \in Nat
  PROVE  (Inc(nread) + k) % PIPESIZE = (nread + k + 1) % PIPESIZE
<1>1. nread \in 0 .. NMod - 1 /\ NMod \in Nat \ {0} /\ PIPESIZE \in Nat \ {0}
  BY PipeAssumption DEF TypeOK, Counter
<1>2. Inc(nread) = IF nread = NMod - 1 THEN 0 ELSE nread + 1
  BY <1>1, Successor DEF Inc
<1>3. CASE nread = NMod - 1
  <2>1. (k + NMod) % PIPESIZE = k % PIPESIZE
    BY <1>1, WrapKeepsIndex, PipeAssumption
  <2>2. Inc(nread) + k = k /\ nread + k + 1 = k + NMod
    BY <1>1, <1>2, <1>3
  <2> QED
    BY <2>1, <2>2
<1>4. CASE nread # NMod - 1
  <2>1. Inc(nread) + k = nread + k + 1
    BY <1>1, <1>2, <1>4
  <2> QED
    BY <2>1
<1> QED
  BY <1>3, <1>4

\* The slot that pipewrite() fills is the one behind the last byte, and none
\* that holds one.
LEMMA IndexOfWrite ==
  ASSUME TypeOK, Count < PIPESIZE
  PROVE  /\ nwrite % PIPESIZE = (nread + Count) % PIPESIZE
         /\ \A k \in 1 .. Count : (nread + k - 1) % PIPESIZE # nwrite % PIPESIZE
<1>1. /\ nread \in 0 .. NMod - 1 /\ nwrite \in 0 .. NMod - 1 /\ NMod \in Nat \ {0}
      /\ PIPESIZE \in Nat \ {0} /\ Count \in Nat
      /\ Count = IF nwrite >= nread THEN nwrite - nread ELSE nwrite - nread + NMod
  BY CountIs, PipeAssumption DEF TypeOK, Counter
<1>2. nwrite % PIPESIZE = (nread + Count) % PIPESIZE
  <2>1. CASE nwrite >= nread
    <3>1. nread + Count = nwrite
      BY <1>1, <2>1
    <3> QED
      BY <3>1
  <2>2. CASE nwrite < nread
    <3>1. nread + Count = nwrite + NMod
      BY <1>1, <2>2
    <3>2. (nwrite + NMod) % PIPESIZE = nwrite % PIPESIZE
      <4>1. nwrite \in Nat /\ NMod \in Nat /\ NMod % PIPESIZE = 0
        BY <1>1, PipeAssumption
      <4> QED
        BY <1>1, <4>1, WrapKeepsIndex
    <3> QED
      BY <3>1, <3>2
  <2> QED
    BY <1>1, <2>1, <2>2
<1>3. ASSUME NEW k \in 1 .. Count
      PROVE  (nread + k - 1) % PIPESIZE # (nread + Count) % PIPESIZE
  <2> DEFINE x == nread + k - 1
             j == Count - k + 1
  <2>1. x \in Nat /\ j \in 1 .. PIPESIZE - 1 /\ x + j = nread + Count
    BY <1>1, <1>3
  <2> HIDE DEF x, j
  <2>2. (x + j) % PIPESIZE # x % PIPESIZE
    BY <1>1, <2>1, AheadDiffers
  <2> QED
    BY <2>1, <2>2 DEF x
<1> QED
  BY <1>2, <1>3

\* The bytes of the ring are a sequence of Count bytes.
LEMMA ContentsIs ==
  ASSUME TypeOK
  PROVE  /\ Contents \in Seq(Vals) /\ Len(Contents) = Count
         /\ \A k \in 1 .. Count : /\ Contents[k] = data[(nread + k - 1) % PIPESIZE]
                                  /\ (nread + k - 1) % PIPESIZE \in Slots
<1>1. nread \in Nat /\ PIPESIZE \in Nat \ {0} /\ Count \in Nat
  BY CountIs, PipeAssumption DEF TypeOK, Counter
<1>2. ASSUME NEW k \in 1 .. Count PROVE (nread + k - 1) % PIPESIZE \in Slots
  <2>1. nread + k - 1 \in Int
    BY <1>1
  <2> QED
    BY <1>1, <2>1, RemainderRange DEF Slots
<1>3. \A k \in 1 .. Count : data[(nread + k - 1) % PIPESIZE] \in Vals
  BY <1>2 DEF TypeOK
<1> QED
  BY <1>1, <1>2, <1>3 DEF Contents

\* The same as an implication, and then in the next state.
LEMMA ContentsAre ==
  TypeOK =>
     /\ Contents \in Seq(Vals) /\ Len(Contents) = Count /\ Count \in Nat
     /\ \A k \in 1 .. Count : Contents[k] = data[(nread + k - 1) % PIPESIZE]
BY ContentsIs, CountIs DEF Counter

\* The sequence of bytes after a step.
LEMMA ContentsNext ==
  ASSUME TypeOK'
  PROVE  /\ Contents' \in Seq(Vals) /\ Len(Contents') = Count' /\ Count' \in Nat
         /\ \A k \in 1 .. Count' : Contents'[k] = data'[(nread' + k - 1) % PIPESIZE]
<1>1. (TypeOK =>
         /\ Contents \in Seq(Vals) /\ Len(Contents) = Count /\ Count \in Nat
         /\ \A k \in 1 .. Count : Contents[k] = data[(nread + k - 1) % PIPESIZE])'
  BY ContentsAre, PTL
<1> QED
  BY <1>1

\* Every step of the pipe puts a byte at the end of the queue, takes the first
\* one, or leaves the queue and the reader's byte alone.
LEMMA FifoStep ==
  IInv /\ IInv' /\ RingInv /\ [Next]_vars => RingInv' /\ [FIFO!FNext]_<<Contents, addr>>
<1> SUFFICES ASSUME IInv, IInv', RingInv, [Next]_vars
             PROVE  RingInv' /\ (FIFO!FNext \/ UNCHANGED <<Contents, addr>>)
  OBVIOUS
<1>0. TypeOK /\ TypeOK' /\ Count \in Nat /\ PIPESIZE \in Nat \ {0} /\ nread \in Nat
  BY CountIs, PipeAssumption DEF IInv, Counter, TypeOK
<1>1. ASSUME UNCHANGED <<data, nread, nwrite, addr>>
      PROVE  RingInv' /\ UNCHANGED <<Contents, addr>>
  BY <1>1 DEF RingInv, Contents, Count
<1>2. ASSUME NEW p \in Procs, WriteByte(p)
      PROVE  RingInv' /\ FIFO!FNext
  <2>1. Count < PIPESIZE /\ Count' = Count + 1
    BY <1>0, <1>2, CountStep
  <2>2. PICK v \in Vals : data' = [data EXCEPT ![nwrite % PIPESIZE] = v]
    BY <1>2 DEF WriteByte
  <2>3. nread' = nread /\ addr' = addr /\ nwrite % PIPESIZE \in Slots
    BY <1>2, <1>0, Ranges DEF WriteByte, TypeOK
  <2>4. ASSUME NEW k \in 1 .. Count PROVE Contents'[k] = Contents[k]
    <3>1. /\ Contents[k] = data[(nread + k - 1) % PIPESIZE]
          /\ (nread + k - 1) % PIPESIZE \in Slots
          /\ (nread + k - 1) % PIPESIZE # nwrite % PIPESIZE
      BY <1>0, <2>1, ContentsIs, IndexOfWrite
    <3>2. Contents'[k] = data'[(nread + k - 1) % PIPESIZE]
      BY <1>0, <2>1, <2>3, ContentsNext
    <3> QED
      BY <1>0, <2>2, <3>1, <3>2 DEF TypeOK
  <2>5. Contents'[Count + 1] = v
    <3>1. nread + (Count + 1) - 1 = nread + Count /\ Count + 1 \in 1 .. Count'
      BY <1>0, <2>1
    <3>2. Contents'[Count + 1] = data'[(nread + Count) % PIPESIZE]
      BY <1>0, <2>3, <3>1, ContentsNext
    <3>3. (nread + Count) % PIPESIZE = nwrite % PIPESIZE
      BY <1>0, <2>1, IndexOfWrite
    <3> QED
      BY <1>0, <2>2, <2>3, <3>2, <3>3 DEF TypeOK
  <2>6. Contents' = Append(Contents, v)
    <3>1. Contents \in Seq(Vals) /\ Len(Contents) = Count
      BY <1>0, ContentsIs
    <3>2. Contents' \in Seq(Vals) /\ Len(Contents') = Count + 1
      BY <1>0, <2>1, ContentsNext
    <3> HIDE DEF Contents, Count
    <3>3. Append(Contents, v) \in Seq(Vals) /\ Len(Append(Contents, v)) = Count + 1
      BY <3>1
    <3>4. \A k \in 1 .. Count + 1 : Append(Contents, v)[k] = Contents'[k]
      BY <1>0, <2>4, <2>5, <3>1
    <3> QED
      BY <1>0, <3>2, <3>3, <3>4
  <2>7. FIFO!Put(v)
    BY <1>0, <2>1, <2>3, <2>6, ContentsIs DEF FIFO!Put
  <2> QED
    BY <1>0, <2>1, <2>7 DEF FIFO!FNext, RingInv
<1>3. ASSUME NEW p \in Procs, ReadByte(p)
      PROVE  RingInv' /\ FIFO!FNext
  <2>1. Count > 0 /\ Count' = Count - 1
    BY <1>0, <1>3, CountStep
  <2>2. data' = data /\ nread' = Inc(nread) /\ addr' = data[nread % PIPESIZE]
    BY <1>3 DEF ReadByte
  <2>3. addr' = Contents[1]
    <3>1. nread + 1 - 1 = nread /\ 1 \in 1 .. Count
      BY <1>0, <2>1
    <3> QED
      BY <1>0, <2>2, <3>1, ContentsIs
  <2>4. ASSUME NEW k \in 1 .. Count - 1 PROVE Contents'[k] = Contents[k + 1]
    <3>1. k - 1 \in Nat /\ k + 1 \in 1 .. Count /\ k \in 1 .. Count'
      BY <1>0, <2>1
    <3>2. Contents'[k] = data[(Inc(nread) + k - 1) % PIPESIZE]
      BY <1>0, <2>2, <3>1, ContentsNext
    <3>3. Contents[k + 1] = data[(nread + (k + 1) - 1) % PIPESIZE]
      BY <1>0, <3>1, ContentsIs
    <3>4. (Inc(nread) + (k - 1)) % PIPESIZE = (nread + (k - 1) + 1) % PIPESIZE
      BY <1>0, <3>1, IndexAfterRead
    <3>5. Inc(nread) \in Int
      BY <1>0, Ranges DEF TypeOK, Counter
    <3>6. Inc(nread) + (k - 1) = Inc(nread) + k - 1 /\ nread + (k - 1) + 1 = nread + (k + 1) - 1
      BY <1>0, <3>5
    <3> QED
      BY <3>2, <3>3, <3>4, <3>6
  <2>5. Contents' = Tail(Contents) /\ Contents # <<>> /\ Head(Contents) = Contents[1]
    <3>1. Contents \in Seq(Vals) /\ Len(Contents) = Count
      BY <1>0, ContentsIs
    <3>2. Contents' \in Seq(Vals) /\ Len(Contents') = Count - 1
      BY <1>0, <2>1, ContentsNext
    <3> HIDE DEF Contents, Count
    <3>3. Contents # <<>> /\ Head(Contents) = Contents[1]
      BY <1>0, <2>1, <3>1
    <3>4. Tail(Contents) \in Seq(Vals) /\ Len(Tail(Contents)) = Count - 1
      BY <1>0, <2>1, <3>1, <3>3
    <3>5. \A k \in 1 .. Count - 1 : Tail(Contents)[k] = Contents'[k]
      BY <1>0, <2>4, <3>1, <3>3
    <3> QED
      BY <1>0, <3>2, <3>3, <3>4, <3>5
  <2>6. FIFO!Get
    BY <2>3, <2>5 DEF FIFO!Get
  <2> QED
    BY <1>0, <2>1, <2>6 DEF FIFO!FNext, RingInv
<1>4. ASSUME NEW p \in Procs, Enter(p) \/ sleep(p) \/ SleepReturn(p) \/ WriteFull(p)
                              \/ WriteDone(p)
      PROVE  UNCHANGED <<data, nread, nwrite, addr>>
  BY <1>4 DEF Enter, Call, sleep, SleepReturn, WriteFull, WriteDone, pipe
<1>5. ASSUME NEW p \in Procs, ReadEmpty(p) \/ ReadStart(p) \/ ReadDone(p)
                              \/ pipeclose(p) \/ fileclose(p) \/ kill(p)
      PROVE  UNCHANGED <<data, nread, nwrite, addr>>
  BY <1>5 DEF ReadEmpty, ReadStart, ReadDone, pipeclose, fileclose, kill, pipe
<1>6. CASE UNCHANGED vars
  BY <1>1, <1>6 DEF vars, pipe
<1> QED
  BY <1>1, <1>2, <1>3, <1>4, <1>5, <1>6 DEF Next, Step

\* The ring with its wrapping counters implements a bounded FIFO channel, for
\* any size of the ring and any multiple of it at which the counters wrap.
THEOREM PipeImplementsFifo == Spec => FifoSpec
<1>1. Init => RingInv /\ FIFO!FInit
  <2> SUFFICES ASSUME Init PROVE RingInv /\ Contents = <<>> /\ addr \in Vals
    BY DEF FIFO!FInit
  <2>1. TypeOK
    BY InitIInv DEF IInv
  <2>2. Count = 0
    BY <2>1, CountIs DEF Init, pipealloc, Empty
  <2> QED
    BY <2>1, <2>2, ContentsIs, PipeAssumption DEF RingInv, Init
<1> QED
  BY <1>1, Invariant, FifoStep, PTL DEF Spec, FifoSpec, FIFO!FSpec
=============================================================================
