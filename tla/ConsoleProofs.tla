---------------------------- MODULE ConsoleProofs ----------------------------
(***************************************************************************)
(* Proofs about Console for any number of processes, any size of the ring  *)
(* and any range of its indices: the ring keeps its bounds across wrapping *)
(* and editing, no reader misses input, a ^D ends exactly one read, and    *)
(* the ring implements the line discipline Tty.                            *)
(***************************************************************************)
EXTENDS Console, WrapLemmas

\* Between acquire(&cons.lock) and release(&cons.lock).
LockInv ==
    /\ \A p \in Procs : pc[p] \in {"loop", "tosleep"} <=> lock = p
    /\ intr = "loop" <=> lock = Intr

\* The inode is locked between fileread() or filewrite() and the device.
InodeInv == \A p \in Procs : pc[p] = "locked" <=> ilk = p

\* A newline is committed with its line, so that none can be erased.
LineInv == \A k \in 1 .. Minus(e, w) : At(Plus(w, k - 1)) # Newline

IInv ==
    TypeOK /\ LockInv /\ InodeInv /\ SleeperHasReason /\ RingBounds /\ LineInv

-----------------------------------------------------------------------------
(* Arithmetic of the indices *)

\* The sizes, and that Index is an interval.
LEMMA Sizes ==
  /\ IMod \in Nat \ {0} /\ INPUT_BUF \in Nat \ {0} /\ INPUT_BUF < IMod
  /\ IMod % INPUT_BUF = 0 /\ Index = 0 .. IMod - 1 /\ 1 \in Index /\ INPUT_BUF \in Index
BY ConsoleAssumption DEF Index

\* The sizes that read() is called with are numbers.
LEMMA LensNat == \A k \in Lens \cup {0} : k \in Nat
BY ConsoleAssumption

\* Sums and differences of indices wrap at most once.
LEMMA PlusMinus ==
  ASSUME NEW x \in Index, NEW k \in Index
  PROVE  /\ Plus(x, k) = IF x + k < IMod THEN x + k ELSE x + k - IMod
         /\ Minus(x, k) = IF x >= k THEN x - k ELSE x - k + IMod
         /\ Plus(x, k) \in Index /\ Minus(x, k) \in Index
<1>1. Plus(x, k) = IF x + k < IMod THEN x + k ELSE x + k - IMod
  BY Sizes, WrapOnce DEF Plus
<1>2. Minus(x, k) = IF x >= k THEN x - k ELSE x - k + IMod
  BY Sizes, Distance DEF Minus
<1> QED
  BY <1>1, <1>2, Sizes

\* One key more, some keys fewer, one character read: how distances change.
LEMMA DistanceSteps ==
  ASSUME NEW x \in Index, NEW y \in Index
  PROVE  /\ Minus(y, x) = 0 <=> x = y
         /\ Minus(y, x) < INPUT_BUF => Minus(Plus(y, 1), x) = Minus(y, x) + 1
         /\ y # x => Minus(y, Plus(x, 1)) = Minus(y, x) - 1
         /\ y # x => Minus(Minus(y, 1), x) = Minus(y, x) - 1
         /\ Minus(y, x) < INPUT_BUF =>
               (Plus(y, 1) = Plus(x, INPUT_BUF) <=> Minus(y, x) + 1 = INPUT_BUF)
<1> DEFINE d == Minus(y, x)
           up == Plus(y, 1)
           un == Plus(x, 1)
           dn == Minus(y, 1)
           far == Plus(x, INPUT_BUF)
<1>0. /\ x \in 0 .. IMod - 1 /\ y \in 0 .. IMod - 1 /\ INPUT_BUF \in 0 .. IMod - 1
      /\ 1 \in Index /\ INPUT_BUF \in Index /\ IMod \in Nat /\ INPUT_BUF \in Nat
  BY Sizes
<1>1. d = IF y >= x THEN y - x ELSE y - x + IMod
  BY PlusMinus
<1>2. up = (IF y + 1 < IMod THEN y + 1 ELSE y + 1 - IMod) /\ up \in Index
  BY <1>0, PlusMinus
<1>3. un = (IF x + 1 < IMod THEN x + 1 ELSE x + 1 - IMod) /\ un \in Index
  BY <1>0, PlusMinus
<1>4. dn = (IF y >= 1 THEN y - 1 ELSE y - 1 + IMod) /\ dn \in Index
  BY <1>0, PlusMinus
<1>5. far = IF x + INPUT_BUF < IMod THEN x + INPUT_BUF ELSE x + INPUT_BUF - IMod
  BY <1>0, PlusMinus
<1> HIDE DEF d, up, un, dn, far
<1>6. Minus(up, x) = IF up >= x THEN up - x ELSE up - x + IMod
  BY <1>2, PlusMinus
<1>7. Minus(y, un) = IF y >= un THEN y - un ELSE y - un + IMod
  BY <1>3, PlusMinus
<1>8. Minus(dn, x) = IF dn >= x THEN dn - x ELSE dn - x + IMod
  BY <1>4, PlusMinus
<1>9. d = 0 <=> x = y
  BY <1>0, <1>1
<1>10. d < INPUT_BUF => Minus(up, x) = d + 1
  BY <1>0, <1>1, <1>2, <1>6
<1>11. y # x => Minus(y, un) = d - 1
  BY <1>0, <1>1, <1>3, <1>7
<1>12. y # x => Minus(dn, x) = d - 1
  BY <1>0, <1>1, <1>4, <1>8
<1>13. d < INPUT_BUF => (up = far <=> d + 1 = INPUT_BUF)
  BY <1>0, <1>1, <1>2, <1>5
<1> QED
  BY <1>9, <1>10, <1>11, <1>12, <1>13 DEF d, up, un, dn, far

\* The distance from r to e is the one to w and then the one to e.
LEMMA DistancesAdd ==
  ASSUME NEW x \in Index, NEW y \in Index, NEW z \in Index, Minus(y, x) <= Minus(z, x)
  PROVE  Minus(z, y) = Minus(z, x) - Minus(y, x)
<1>0. x \in 0 .. IMod - 1 /\ y \in 0 .. IMod - 1 /\ z \in 0 .. IMod - 1 /\ IMod \in Nat
  BY Sizes
<1>1. Minus(y, x) = IF y >= x THEN y - x ELSE y - x + IMod
  BY PlusMinus
<1>2. Minus(z, x) = IF z >= x THEN z - x ELSE z - x + IMod
  BY PlusMinus
<1>3. Minus(z, y) = IF z >= y THEN z - y ELSE z - y + IMod
  BY PlusMinus
<1> QED
  BY <1>0, <1>1, <1>2, <1>3

\* The slot of a position does not depend on whether the index has wrapped.
LEMMA SlotOf ==
  ASSUME NEW x \in Index, NEW k \in Index
  PROVE  /\ Plus(x, k) % INPUT_BUF = (x + k) % INPUT_BUF
         /\ Plus(x, k) % INPUT_BUF \in Slots
<1> DEFINE s == Plus(x, k)
<1>1. s = (IF x + k < IMod THEN x + k ELSE x + k - IMod) /\ s \in Index
  BY PlusMinus
<1> HIDE DEF s
<1>2. /\ s \in Nat /\ x \in Nat /\ k \in Nat
      /\ IMod \in Nat /\ INPUT_BUF \in Nat \ {0} /\ IMod % INPUT_BUF = 0
  BY <1>1, Sizes
<1>3. s % INPUT_BUF \in Slots
  BY <1>2, RemainderRange DEF Slots
<1>4. (s + IMod) % INPUT_BUF = s % INPUT_BUF
  BY <1>2, WrapKeepsIndex
<1>5. s = x + k \/ s + IMod = x + k
  BY <1>1, <1>2
<1> QED
  BY <1>3, <1>4, <1>5 DEF s

\* Where e is, seen from x, and that the slots from x on are not its slot.
LEMMA SlotAhead ==
  ASSUME NEW x \in Index, NEW y \in Index, Minus(y, x) < INPUT_BUF
  PROVE  /\ Plus(x, Minus(y, x)) = y
         /\ \A k \in 0 .. Minus(y, x) - 1 : Plus(x, k) % INPUT_BUF # y % INPUT_BUF
<1>1. Minus(y, x) \in Index /\ Minus(y, x) \in Nat
  BY PlusMinus, Sizes
<1>2. Plus(x, Minus(y, x)) = y
  <2> DEFINE d == Minus(y, x)
  <2>1. d = (IF y >= x THEN y - x ELSE y - x + IMod) /\ d \in Index
    BY PlusMinus
  <2> HIDE DEF d
  <2>2. Plus(x, d) = IF x + d < IMod THEN x + d ELSE x + d - IMod
    BY <2>1, PlusMinus
  <2>3. x \in 0 .. IMod - 1 /\ y \in 0 .. IMod - 1 /\ IMod \in Nat
    BY Sizes
  <2> QED
    BY <2>1, <2>2, <2>3 DEF d
<1>3. ASSUME NEW k \in 0 .. Minus(y, x) - 1
      PROVE  Plus(x, k) % INPUT_BUF # y % INPUT_BUF
  <2> DEFINE a == x + k
             j == Minus(y, x) - k
  <2>1. a \in Nat /\ j \in 1 .. INPUT_BUF - 1 /\ a + j = x + Minus(y, x) /\ k \in Index
    BY <1>1, <1>3, Sizes
  <2>2. Plus(x, k) % INPUT_BUF = a % INPUT_BUF
    BY <2>1, SlotOf
  <2>3. y % INPUT_BUF = (x + Minus(y, x)) % INPUT_BUF
    BY <1>1, <1>2, SlotOf
  <2> HIDE DEF a, j
  <2>4. (a + j) % INPUT_BUF # a % INPUT_BUF
    BY <2>1, AheadDiffers, Sizes
  <2> QED
    BY <2>1, <2>2, <2>3, <2>4
<1> QED
  BY <1>2, <1>3

-----------------------------------------------------------------------------
\* The ring is empty and nobody is reading.
LEMMA InitIInv == Init => IInv
<1> SUFFICES ASSUME Init PROVE IInv
  OBVIOUS
<1>1. r = 0 /\ w = 0 /\ e = 0 /\ 0 \in Index
  BY Sizes DEF Init
<1>2. TypeOK
  <2>1. buf \in [Slots -> Chars]
    BY DEF Init, Chars
  <2>2. doprocdump \in BOOLEAN
    BY Zenon DEF Init
  <2> QED
    BY <1>1, <2>1, <2>2 DEF Init, TypeOK
<1>3. LockInv /\ InodeInv /\ SleeperHasReason
  BY ConsoleAssumption DEF Init, LockInv, InodeInv, SleeperHasReason, Nobody, Intr
<1>4. Minus(0, 0) = 0
  BY <1>1, DistanceSteps
<1>5. RingBounds /\ LineInv
  BY <1>1, <1>4, Sizes DEF RingBounds, LineInv
<1> QED
  BY <1>2, <1>3, <1>5 DEF IInv

\* Steps that leave the ring alone: its part of the invariant stays.
LEMMA RingUntouched ==
  ASSUME IInv, UNCHANGED input
  PROVE  RingBounds' /\ LineInv'
BY DEF IInv, input, RingBounds, LineInv, Minus, Plus, At

\* consoleintr() takes and releases cons.lock.
LEMMA HandlerStep ==
  ASSUME IInv, consoleintr \/ IntrDone \/ procdump
  PROVE  IInv'
<1> USE DEF IInv, input, call
<1>1. UNCHANGED <<input, ilk, killed, call>>
  BY DEF consoleintr, IntrDone, procdump
<1>2. TypeOK'
  <2>1. doprocdump' \in BOOLEAN
    <3>1. CASE consoleintr \/ procdump
      BY <3>1, Zenon DEF consoleintr, procdump
    <3>2. CASE IntrDone
      BY <3>2 DEF IntrDone, TypeOK
    <3> QED
      BY <3>1, <3>2
  <2>2. intr' \in {"idle", "loop", "procdump"} /\ lock' \in Procs \cup {Nobody, Intr}
    BY DEF consoleintr, IntrDone, procdump, TypeOK
  <2> QED
    BY <1>1, <2>1, <2>2 DEF TypeOK
<1>3. LockInv'
  BY <1>1, ConsoleAssumption DEF consoleintr, IntrDone, procdump, LockInv, Nobody, Intr
<1>4. InodeInv' /\ SleeperHasReason'
  BY <1>1 DEF InodeInv, SleeperHasReason
<1> QED
  BY <1>1, <1>2, <1>3, <1>4, RingUntouched

\* The steps of a read or a write around the loop over the ring.
LEMMA CallStep ==
  ASSUME IInv, NEW p \in Procs,
         \/ fileread(p) \/ filewrite(p) \/ ilock(p) \/ acquire(p) \/ iunlock(p)
         \/ consolewrite(p) \/ ReadEnds(p) \/ Wait(p) \/ sleep(p) \/ kill(p)
  PROVE  IInv'
<1> USE DEF IInv, input, handler
<1>1. UNCHANGED <<input, handler>>
  BY DEF fileread, filewrite, Enter, ilock, acquire, iunlock, consolewrite, ReadEnds,
     Wait, sleep, kill
<1>2. \A q \in Procs : q # p => pc'[q] = pc[q]
  BY DEF fileread, filewrite, Enter, ilock, acquire, iunlock, consolewrite, ReadEnds,
     Wait, sleep, kill, Leave, TypeOK
<1>3. CASE fileread(p) \/ filewrite(p)
  <2>1. PICK k \in Lens \cup {0} : Enter(p, k)
    BY <1>3 DEF fileread, filewrite
  <2>2. k \in Nat
    BY ConsoleAssumption
  <2>3. TypeOK'
    BY <2>1, <2>2 DEF Enter, TypeOK
  <2>4. pc'[p] = "locked" /\ pc[p] = "idle" /\ ilk = Nobody /\ ilk' = p /\ lock' = lock
    BY <2>1 DEF Enter, TypeOK
  <2>5. LockInv' /\ InodeInv' /\ SleeperHasReason'
    BY <1>1, <1>2, <2>4, ConsoleAssumption
    DEF LockInv, InodeInv, SleeperHasReason, Nobody, Intr
  <2> QED
    BY <1>1, <2>3, <2>5, RingUntouched
<1>4. CASE ilock(p)
  <2>1. TypeOK'
    <3>1. /\ n' \in [Procs -> Nat] /\ target' \in [Procs -> Lens \cup {0}]
          /\ \A q \in Procs : n'[q] <= target'[q]
      BY <1>4 DEF ilock, TypeOK
    <3> QED
      BY <1>4, <3>1 DEF ilock, TypeOK
  <2>2. pc'[p] = "idle" /\ pc[p] = "relock" /\ ilk' = ilk /\ lock' = lock
    BY <1>4 DEF ilock, TypeOK
  <2>3. LockInv' /\ InodeInv' /\ SleeperHasReason'
    BY <1>1, <1>2, <2>2 DEF LockInv, InodeInv, SleeperHasReason
  <2> QED
    BY <1>1, <2>1, <2>3, RingUntouched
<1>5. CASE acquire(p) \/ iunlock(p) \/ Wait(p) \/ sleep(p)
  <2>1. TypeOK'
    BY <1>5 DEF acquire, iunlock, Wait, sleep, TypeOK
  <2>2. LockInv'
    BY <1>1, <1>2, <1>5, ConsoleAssumption
    DEF acquire, iunlock, Wait, Reading, sleep, LockInv, TypeOK, Nobody, Intr
  <2>3. InodeInv'
    BY <1>1, <1>2, <1>5, ConsoleAssumption
    DEF acquire, iunlock, Wait, Reading, sleep, InodeInv, TypeOK, Nobody
  <2>4. SleeperHasReason'
    BY <1>1, <1>2, <1>5 DEF acquire, iunlock, Wait, sleep, SleeperHasReason, TypeOK
  <2> QED
    BY <1>1, <2>1, <2>2, <2>3, <2>4, RingUntouched
<1>6. CASE consolewrite(p) \/ ReadEnds(p)
  <2>1. /\ pc[p] = "loop" /\ pc' = [pc EXCEPT ![p] = "relock"] /\ lock' = Nobody
        /\ UNCHANGED <<ilk, killed, n, target>>
    BY <1>6 DEF consolewrite, ReadEnds, Reading, Leave
  <2>2. TypeOK'
    BY <1>1, <2>1 DEF TypeOK
  <2>3. LockInv' /\ InodeInv' /\ SleeperHasReason'
    BY <1>1, <2>1, ConsoleAssumption
    DEF LockInv, InodeInv, SleeperHasReason, TypeOK, Nobody, Intr
  <2> QED
    BY <1>1, <2>2, <2>3, RingUntouched
<1>7. CASE kill(p)
  <2>1. /\ pc'[p] = IF pc[p] = "asleep" THEN "acquire" ELSE pc[p]
        /\ UNCHANGED <<lock, ilk, n, target>>
    BY <1>7 DEF kill, TypeOK
  <2>2. TypeOK'
    BY <1>1, <1>7 DEF kill, TypeOK
  <2>3. LockInv' /\ InodeInv' /\ SleeperHasReason'
    BY <1>1, <1>2, <2>1 DEF LockInv, InodeInv, SleeperHasReason
  <2> QED
    BY <1>1, <2>2, <2>3, RingUntouched
<1> QED
  BY <1>3, <1>4, <1>5, <1>6, <1>7

\* The distances that matter, as numbers.
LEMMA RingFacts ==
  ASSUME IInv
  PROVE  /\ r \in Index /\ w \in Index /\ e \in Index
         /\ Minus(w, r) \in Nat /\ Minus(e, r) \in Nat /\ Minus(e, w) \in Nat
         /\ Minus(e, w) \in Index /\ Minus(w, r) \in Index
         /\ Minus(e, w) = Minus(e, r) - Minus(w, r)
         /\ Minus(e, r) <= INPUT_BUF
         /\ Minus(e, r) = INPUT_BUF => w = e
<1>1. r \in Index /\ w \in Index /\ e \in Index
  BY DEF IInv, TypeOK
<1>2. Minus(w, r) \in Index /\ Minus(e, r) \in Index /\ Minus(e, w) \in Index
  BY <1>1, PlusMinus
<1>3. Minus(e, w) = Minus(e, r) - Minus(w, r)
  BY <1>1, DistancesAdd DEF IInv, RingBounds
<1>4. Minus(w, r) \in Nat /\ Minus(e, r) \in Nat /\ Minus(e, w) \in Nat
  BY <1>2, Sizes
<1> QED
  BY <1>1, <1>2, <1>3, <1>4, Sizes DEF IInv, RingBounds

\* One character leaves the ring, or the ^D is put back.
LEMMA ReadStep ==
  ASSUME IInv, NEW p \in Procs, consoleread(p)
  PROVE  IInv'
<1> USE DEF IInv, handler
<1>1. /\ pc[p] = "loop" /\ target[p] > 0 /\ n[p] > 0 /\ r # w /\ r' \in {r, Plus(r, 1)}
      /\ n' \in {n, [n EXCEPT ![p] = @ - 1]}
      /\ \/ UNCHANGED <<lock, pc>>
         \/ lock' = Nobody /\ pc' = [pc EXCEPT ![p] = "relock"]
      /\ UNCHANGED <<buf, w, e, ilk, killed, target, handler>>
  BY DEF consoleread, Reading, TakeEof, TakeChar, Leave
<1>2. TypeOK'
  <2>1. r' \in Index
    <3>1. r \in Index /\ 1 \in Index
      BY Sizes DEF TypeOK
    <3> QED
      BY <1>1, <3>1, PlusMinus
  <2>2. n' \in [Procs -> Nat] /\ \A q \in Procs : n'[q] <= target[q]
    <3>1. n[p] - 1 \in Nat /\ n[p] - 1 <= target[p]
      <4>1. n[p] \in Nat /\ target[p] \in Lens \cup {0} /\ n[p] <= target[p]
        BY DEF TypeOK
      <4>2. target[p] \in Nat
        BY <4>1, LensNat
      <4> QED
        BY <1>1, <4>1, <4>2
    <3> QED
      BY <1>1, <3>1 DEF TypeOK
  <2>3. pc' \in [Procs -> {"idle", "locked", "acquire", "loop", "tosleep", "asleep",
                           "relock"}]
    BY <1>1 DEF TypeOK
  <2> QED
    BY <1>1, <2>1, <2>2, <2>3 DEF TypeOK
<1>3. LockInv' /\ InodeInv'
  BY <1>1, ConsoleAssumption DEF LockInv, InodeInv, TypeOK, Nobody, Intr
<1>4. SleeperHasReason'
  BY <1>1 DEF SleeperHasReason, TypeOK
<1>5. RingBounds'
  <2>1. CASE r' = r
    BY <1>1, <2>1 DEF RingBounds, Minus
  <2>2. CASE r' = Plus(r, 1)
    <3>1. Minus(w, r) # 0 /\ e # r
      BY <1>1, RingFacts, DistanceSteps, Sizes
    <3>2. Minus(w, r') = Minus(w, r) - 1 /\ Minus(e, r') = Minus(e, r) - 1
      BY <1>1, <2>2, <3>1, RingFacts, DistanceSteps
    <3>3. Minus(w, r)' = Minus(w, r') /\ Minus(e, r)' = Minus(e, r')
      BY <1>1 DEF Minus
    <3> QED
      BY <1>1, <3>1, <3>2, <3>3, RingFacts, Sizes DEF RingBounds
  <2> QED
    BY <1>1, <2>1, <2>2
<1>6. LineInv'
  BY <1>1 DEF LineInv, Minus, Plus, At
<1> QED
  BY <1>2, <1>3, <1>4, <1>5, <1>6

\* ^U goes back exactly to w: no newline stops it before.
LEMMA KilledIs ==
  ASSUME IInv
  PROVE  Killed = Minus(e, w) /\ Minus(e, Killed) = w
<1> DEFINE D == Minus(e, w)
           Stop(k) == Minus(e, k) = w \/ At(Minus(e, k + 1)) = Newline
<1>1. D \in Nat /\ D \in 0 .. INPUT_BUF /\ e \in Index /\ w \in Index /\ D \in Index
  BY RingFacts, Sizes DEF IInv, RingBounds
<1>2. \A k \in 0 .. D : k \in Index /\ Minus(e, k) = Plus(w, D - k)
  <2> SUFFICES ASSUME NEW k \in 0 .. D PROVE k \in Index /\ Minus(e, k) = Plus(w, D - k)
    OBVIOUS
  <2>1. k \in Index /\ D - k \in Index
    BY <1>1, Sizes
  <2>2. D = IF e >= w THEN e - w ELSE e - w + IMod
    BY <1>1, PlusMinus
  <2>3. Minus(e, k) = IF e >= k THEN e - k ELSE e - k + IMod
    BY <1>1, <2>1, PlusMinus
  <2>4. Plus(w, D - k) = IF w + (D - k) < IMod THEN w + (D - k) ELSE w + (D - k) - IMod
    BY <1>1, <2>1, PlusMinus
  <2>5. e \in 0 .. IMod - 1 /\ w \in 0 .. IMod - 1 /\ IMod \in Nat
    BY <1>1, Sizes
  <2> HIDE DEF D
  <2> QED
    BY <1>1, <2>1, <2>2, <2>3, <2>4, <2>5
<1>3. Minus(e, D) = w
  <2>1. Minus(e, D) = Plus(w, D - D)
    BY <1>1, <1>2
  <2>2. D - D = 0 /\ 0 \in Index
    BY <1>1, Sizes
  <2>3. Plus(w, 0) = w
    BY <1>1, <2>2, PlusMinus, Sizes
  <2> QED
    BY <2>1, <2>2, <2>3
<1>4. ASSUME NEW k \in 0 .. D - 1 PROVE ~Stop(k)
  <2>1. k \in 0 .. D /\ k + 1 \in 0 .. D /\ D - (k + 1) = (D - k) - 1 /\ D - k \in 1 .. D
    BY <1>1
  <2>2. Minus(e, k) = Plus(w, D - k) /\ Minus(e, k + 1) = Plus(w, (D - k) - 1)
    BY <1>2, <2>1
  <2>3. At(Minus(e, k + 1)) # Newline
    BY <2>1, <2>2 DEF IInv, LineInv
  <2>4. D - k \in Index /\ D - k > 0
    BY <1>1, <2>1, Sizes
  <2>5. Plus(w, D - k) # w
    <3> DEFINE m == D - k
    <3> HIDE DEF m, D
    <3>1. m \in Index /\ m > 0
      BY <2>4 DEF m
    <3>2. Plus(w, m) = IF w + m < IMod THEN w + m ELSE w + m - IMod
      BY <1>1, <3>1, PlusMinus
    <3>3. w \in 0 .. IMod - 1 /\ m \in 0 .. IMod - 1 /\ IMod \in Nat
      BY <1>1, <3>1, Sizes
    <3> QED
      BY <3>1, <3>2, <3>3 DEF m
  <2> QED
    BY <2>2, <2>3, <2>5
<1>5. Stop(D)
  BY <1>3
<1> HIDE DEF D, Stop
<1>6. ASSUME NEW k \in 0 .. INPUT_BUF, Stop(k), \A j \in 0 .. k - 1 : ~Stop(j)
      PROVE  k = D
  <2>1. ~(D \in 0 .. k - 1) /\ ~(k \in 0 .. D - 1)
    BY <1>4, <1>5, <1>6
  <2> QED
    BY <1>1, <2>1, Sizes
<1>7. Killed = CHOOSE k \in 0 .. INPUT_BUF : Stop(k) /\ \A j \in 0 .. k - 1 : ~Stop(j)
  BY DEF Killed, Stop
<1>8. Killed = D
  BY <1>1, <1>4, <1>5, <1>6, <1>7
<1> QED
  BY <1>3, <1>8 DEF D

\* A key is stored, perhaps committing the line and waking the readers.
LEMMA StoreStep ==
  ASSUME IInv, intr = "loop", NEW c \in Chars, Room, Store(c),
         UNCHANGED <<lock, ilk, killed, n, target, intr>>, doprocdump' \in BOOLEAN
  PROVE  IInv'
<1> USE DEF IInv
<1>0. /\ e \in Index /\ w \in Index /\ r \in Index
      /\ Minus(e, r) < INPUT_BUF /\ Minus(e, r) \in Nat
      /\ Minus(w, r) \in Nat /\ Minus(w, r) <= Minus(e, r) /\ Minus(e, w) \in Nat
      /\ Minus(e, w) = Minus(e, r) - Minus(w, r)
  BY RingFacts DEF Room, RingBounds
<1>1. /\ buf' = [buf EXCEPT ![e % INPUT_BUF] = c] /\ e' = Plus(e, 1) /\ r' = r
      /\ \/ Commits(c) /\ w' = e' /\ pc' = wakeup(pc)
         \/ ~Commits(c) /\ w' = w /\ pc' = pc
  BY DEF Store
<1>2. /\ Minus(e', r) = Minus(e, r) + 1 /\ e' \in Index
      /\ ~Commits(c) => c # Newline /\ Minus(e, r) + 1 # INPUT_BUF
  BY <1>0, <1>1, DistanceSteps, PlusMinus, Sizes DEF Commits
<1>3. e % INPUT_BUF \in Slots
  BY <1>0, RemainderRange, Sizes DEF Slots
<1>4. TypeOK'
  <2>1. pc' \in [Procs -> {"idle", "locked", "acquire", "loop", "tosleep", "asleep",
                           "relock"}]
    BY <1>1 DEF wakeup, TypeOK
  <2> QED
    BY <1>1, <1>2, <1>3, <2>1 DEF TypeOK
<1>5. LockInv' /\ InodeInv'
  BY <1>1 DEF wakeup, LockInv, InodeInv
<1>6. SleeperHasReason'
  <2>1. \A p \in Procs : pc[p] # "tosleep"
    BY ConsoleAssumption DEF LockInv, Intr
  <2> QED
    BY <1>1, <2>1 DEF wakeup, SleeperHasReason
<1>7. RingBounds'
  <2>1. Minus(w, r)' = Minus(w', r) /\ Minus(e, r)' = Minus(e, r) + 1
    BY <1>1, <1>2 DEF Minus
  <2> QED
    BY <1>0, <1>1, <1>2, <2>1, Sizes DEF RingBounds
<1>8. LineInv'
  <2>1. CASE w' = e'
    <3>1. Minus(e, w)' = 0
      <4>1. Minus(e', e') = 0
        BY <1>2, DistanceSteps
      <4> QED
        BY <2>1, <4>1 DEF Minus
    <3> QED
      BY <3>1, Sizes DEF LineInv
  <2>2. CASE ~Commits(c) /\ w' = w
    <3>1. Minus(e, w)' = Minus(e, w) + 1
      <4>1. Minus(Plus(e, 1), w) = Minus(e, w) + 1
        BY <1>0, DistanceSteps, Sizes
      <4> QED
        BY <1>1, <2>2, <4>1 DEF Minus
    <3>0. Minus(e, w) < INPUT_BUF
      BY <1>0, Sizes
    <3>2. Plus(w, Minus(e, w)) = e
      BY <1>0, <3>0, SlotAhead
    <3>3. ASSUME NEW k \in 1 .. Minus(e, w) + 1
          PROVE  buf'[Plus(w, k - 1) % INPUT_BUF] # Newline
      <4>1. CASE k = Minus(e, w) + 1
        <5>1. k - 1 = Minus(e, w)
          BY <1>0, <4>1
        <5> QED
          BY <1>1, <1>2, <1>3, <2>2, <3>2, <5>1 DEF TypeOK
      <4>2. CASE k # Minus(e, w) + 1
        <5>1. k \in 1 .. Minus(e, w) /\ k - 1 \in 0 .. Minus(e, w) - 1
          BY <1>0, <4>2
        <5>2. Plus(w, k - 1) % INPUT_BUF # e % INPUT_BUF
          BY <1>0, <3>0, <5>1, SlotAhead
        <5>3. buf[Plus(w, k - 1) % INPUT_BUF] # Newline
          BY <5>1 DEF LineInv, At
        <5>4. k - 1 \in Index
          BY <1>0, <5>1, Sizes
        <5>5. Plus(w, k - 1) % INPUT_BUF \in Slots
          BY <1>0, <5>4, SlotOf
        <5> QED
          BY <1>1, <5>2, <5>3, <5>5 DEF TypeOK
      <4> QED
        BY <4>1, <4>2
    <3> QED
      BY <2>2, <3>1, <3>3 DEF LineInv, At, Plus
  <2> QED
    BY <1>1, <2>1, <2>2
<1> QED
  BY <1>4, <1>5, <1>6, <1>7, <1>8

\* An editing key moves e back, to w at the furthest.
LEMMA EraseStep ==
  ASSUME IInv, intr = "loop", e' \in Index,
         \/ e' = w
         \/ e # w /\ e' = Minus(e, 1),
         UNCHANGED <<buf, r, w, pc, lock, ilk, killed, n, target, intr>>,
         doprocdump' \in BOOLEAN
  PROVE  IInv'
<1> USE DEF IInv
<1>0. /\ e \in Index /\ w \in Index /\ r \in Index
      /\ Minus(e, r) <= INPUT_BUF /\ Minus(e, r) \in Nat
      /\ Minus(w, r) \in Nat /\ Minus(w, r) <= Minus(e, r) /\ Minus(e, w) \in Nat
      /\ Minus(e, w) = Minus(e, r) - Minus(w, r)
  BY RingFacts DEF RingBounds
<1>1. TypeOK' /\ LockInv' /\ InodeInv' /\ SleeperHasReason'
  BY DEF TypeOK, LockInv, InodeInv, SleeperHasReason
<1>2. Minus(w, r)' = Minus(w, r) /\ Minus(e, r)' = Minus(e', r) /\ Minus(e, w)' = Minus(e', w)
  BY DEF Minus
<1>3. CASE e' = w
  <2>1. Minus(e', r) = Minus(w, r) /\ Minus(e', w) = 0
    BY <1>0, <1>3, DistanceSteps
  <2>2. RingBounds'
    BY <1>0, <1>2, <1>3, <2>1, Sizes DEF RingBounds
  <2>3. LineInv'
    BY <1>2, <2>1, Sizes DEF LineInv
  <2> QED
    BY <1>1, <2>2, <2>3
<1>4. CASE e # w /\ e' = Minus(e, 1)
  <2>1. Minus(e, w) # 0 /\ Minus(e', w) = Minus(e, w) - 1
    BY <1>0, <1>4, DistanceSteps
  <2>2. e # r
    BY <1>0, <2>1, DistanceSteps
  <2>3. Minus(e', r) = Minus(e, r) - 1
    BY <1>0, <1>4, <2>2, DistanceSteps
  <2>4. RingBounds'
    BY <1>0, <1>2, <2>1, <2>3, Sizes DEF RingBounds
  <2>5. \A k \in 1 .. Minus(e, w) - 1 : At(Plus(w, k - 1)) # Newline
    BY <1>0 DEF LineInv
  <2>6. LineInv'
    BY <1>2, <2>1, <2>5 DEF LineInv, At, Plus
  <2> QED
    BY <1>1, <2>4, <2>6
<1> QED
  BY <1>3, <1>4

\* One turn of the loop of consoleintr().
LEMMA KeyStep ==
  ASSUME IInv, NEW ch \in Keys, Key(ch)
  PROVE  IInv'
<1> USE DEF input
<1>1. intr = "loop" /\ UNCHANGED <<lock, ilk, killed, n, target, intr>>
  BY DEF Key
<1>2. doprocdump' \in BOOLEAN
  BY Zenon DEF Key
<1>3. ASSUME UNCHANGED <<input, pc>> PROVE IInv'
  <2>1. TypeOK' /\ LockInv' /\ InodeInv' /\ SleeperHasReason'
    BY <1>1, <1>2, <1>3 DEF IInv, TypeOK, LockInv, InodeInv, SleeperHasReason
  <2> QED
    BY <1>3, <2>1, RingUntouched DEF IInv
<1>4. CASE Erase(ch)
  <2>1. UNCHANGED <<buf, r, w, pc>>
    BY <1>4 DEF Erase
  <2>2. CASE ch = "^U" /\ e' = Minus(e, Killed)
    BY <1>1, <1>2, <2>1, <2>2, KilledIs, RingFacts, EraseStep
  <2>3. CASE e # w /\ e' = Minus(e, 1)
    <3>1. e' \in Index
      BY <2>3, RingFacts, PlusMinus, Sizes
    <3> QED
      BY <1>1, <1>2, <2>1, <2>3, <3>1, EraseStep
  <2>4. CASE e = w /\ e' = e
    BY <1>3, <2>1, <2>4
  <2> QED
    BY <1>4, <2>2, <2>3, <2>4 DEF Erase, Erasable
<1>5. CASE ch \in Chars \cup {"cr"} /\ Room /\ Store(IF ch = "cr" THEN Newline ELSE ch)
  BY <1>1, <1>2, <1>5, StoreStep DEF Chars
<1> QED
  BY <1>3, <1>4, <1>5 DEF Key

\* IInv is inductive.
LEMMA IInvStep == IInv /\ [Next]_vars => IInv'
<1> SUFFICES ASSUME IInv, [Next]_vars PROVE IInv'
  OBVIOUS
<1>1. CASE consoleintr \/ IntrDone \/ procdump
  BY <1>1, HandlerStep
<1>2. ASSUME NEW ch \in Keys, Key(ch) PROVE IInv'
  BY <1>2, KeyStep
<1>3. ASSUME NEW p \in Procs, fileread(p) \/ filewrite(p) \/ ilock(p) \/ acquire(p)
                              \/ Step(p) \/ kill(p)
      PROVE  IInv'
  BY <1>3, CallStep, ReadStep DEF Step
<1>4. CASE UNCHANGED vars
  <2> USE <1>4 DEF vars, input, call, handler
  <2>1. TypeOK' /\ LockInv' /\ InodeInv' /\ SleeperHasReason'
    BY DEF IInv, TypeOK, LockInv, InodeInv, SleeperHasReason
  <2> QED
    BY <2>1, RingUntouched DEF IInv
<1> QED
  BY <1>1, <1>2, <1>3, <1>4 DEF Next

\* The invariant holds in every reachable state.
LEMMA Invariant == Spec => []IInv
BY InitIInv, IInvStep, PTL DEF Spec

-----------------------------------------------------------------------------
\* The ring keeps its bounds, however its indices have wrapped and whatever keys
\* edited the line, and it is never full of uncommitted characters.
THEOREM RingSoundAlways == Spec => []RingSound
<1>1. IInv => RingSound
  BY DEF IInv, RingSound
<1> QED
  BY <1>1, Invariant, PTL

\* No reader sleeps beside committed input, and one who waits for input or for
\* cons.lock does not hold the console's inode.
THEOREM WaitSoundAlways == Spec => []WaitSound
<1>1. IInv => WaitSound
  <2> SUFFICES ASSUME IInv PROVE InodeHolderRuns
    BY DEF IInv, WaitSound
  <2>1. ilk # Nobody => ilk \in Procs
    BY DEF IInv, TypeOK
  <2> QED
    BY <2>1 DEF IInv, InodeInv, InodeHolderRuns
<1> QED
  BY <1>1, Invariant, PTL

\* A ^D leaves the ring only with a read that returns no bytes, and a read that
\* returns none, unless its process is killed, has used up a ^D.
THEOREM EofIsZeroBytesAlways == Spec => EofIsZeroBytes
<1> DEFINE EofStep ==
       /\ r' # r /\ At(r) = Eof
            => \E p \in Procs : ReadReturns(p) /\ n'[p] = target[p]
       /\ \A p \in Procs :
            ReadReturns(p) /\ n'[p] = target[p] /\ ~killed[p]
                => At(r) = Eof /\ r' = Plus(r, 1)
<1>1. IInv /\ [Next]_vars => [EofStep]_vars
  <2> SUFFICES ASSUME IInv, Next PROVE EofStep
    OBVIOUS
  <2> USE DEF IInv, input, handler, call
  <2>1. CASE \/ consoleintr \/ IntrDone \/ procdump
             \/ \E ch \in Keys : Key(ch)
    <3>1. r' = r
      BY <2>1 DEF consoleintr, IntrDone, procdump, Key, Erase, Store
    <3>2. \A p \in Procs : pc'[p] = pc[p] \/ pc[p] = "asleep"
      BY <2>1 DEF consoleintr, IntrDone, procdump, Key, Erase, Store, wakeup
    <3> QED
      BY <3>1, <3>2 DEF ReadReturns, Reading
  <2>2. ASSUME NEW q \in Procs, \/ fileread(q) \/ filewrite(q) \/ ilock(q) \/ acquire(q)
                                \/ iunlock(q) \/ consolewrite(q) \/ Wait(q) \/ sleep(q)
                                \/ kill(q)
        PROVE  EofStep
    <3>1. r' = r
      BY <2>2 DEF fileread, filewrite, Enter, ilock, acquire, iunlock, consolewrite, Wait,
         sleep, kill
    <3>2. \A p \in Procs : ~ReadReturns(p)
      BY <2>2 DEF fileread, filewrite, Enter, ilock, acquire, iunlock, consolewrite, Wait,
         sleep, kill, Leave, ReadReturns, Reading, TypeOK
    <3> QED
      BY <3>1, <3>2
  <2>3. ASSUME NEW q \in Procs, ReadEnds(q) PROVE EofStep
    <3>1. r' = r /\ n' = n
      BY <2>3 DEF ReadEnds
    <3>2. ASSUME NEW p \in Procs, ReadReturns(p), n'[p] = target[p], ~killed[p]
          PROVE  FALSE
      <4>1. p = q
        BY <2>3, <3>2 DEF ReadEnds, Leave, ReadReturns, Reading, TypeOK
      <4> QED
        BY <2>3, <3>1, <3>2, <4>1 DEF ReadEnds, ReadReturns, Reading
    <3> QED
      BY <3>1, <3>2
  <2>4. ASSUME NEW q \in Procs, consoleread(q) PROVE EofStep
    <3>1. n[q] \in Nat /\ target[q] \in Lens \cup {0} /\ n[q] <= target[q]
      BY DEF TypeOK
    <3>2. target[q] \in Nat
      BY <3>1, LensNat
    <3>3. Reading(q) /\ n[q] > 0
      BY <2>4 DEF consoleread
    <3>4. CASE At(r) = Eof
      <4>1. /\ r' = (IF n[q] < target[q] THEN r ELSE Plus(r, 1)) /\ n' = n
            /\ pc' = [pc EXCEPT ![q] = "relock"]
        BY <2>4, <3>4 DEF consoleread, TakeEof, Leave
      <4>2. ReadReturns(q)
        BY <3>3, <4>1 DEF ReadReturns, TypeOK
      <4>3. \A p \in Procs : ReadReturns(p) => p = q
        BY <4>1 DEF ReadReturns, Reading, TypeOK
      <4> QED
        BY <3>1, <3>2, <3>4, <4>1, <4>2, <4>3
    <3>5. CASE At(r) # Eof
      <4>1. /\ n' = [n EXCEPT ![q] = @ - 1]
            /\ pc' \in {pc, [pc EXCEPT ![q] = "relock"]}
        BY <2>4, <3>5 DEF consoleread, TakeChar, Leave
      <4>2. \A p \in Procs : ReadReturns(p) => p = q
        BY <4>1 DEF ReadReturns, Reading, TypeOK
      <4>3. n'[q] = n[q] - 1
        BY <4>1 DEF TypeOK
      <4>4. n'[q] # target[q]
        BY <3>1, <3>2, <4>3
      <4> QED
        BY <3>5, <4>2, <4>4
    <3> QED
      BY <3>4, <3>5
  <2> QED
    BY <2>1, <2>2, <2>3, <2>4 DEF Next, Step
<1> QED
  BY <1>1, Invariant, PTL DEF Spec, EofIsZeroBytes

-----------------------------------------------------------------------------
(* The ring implements the line discipline *)

\* The characters of the ring f between two indices.
SegOf(f, a, b) == [k \in 1 .. Minus(b, a) |-> f[Plus(a, k - 1) % INPUT_BUF]]

\* Two advances are one.
LEMMA PlusPlus ==
  ASSUME NEW x \in Index, NEW j \in Index, NEW k \in Index, j + k \in Index
  PROVE  Plus(Plus(x, j), k) = Plus(x, j + k)
<1> DEFINE y == Plus(x, j)
<1>1. y = (IF x + j < IMod THEN x + j ELSE x + j - IMod) /\ y \in Index
  BY PlusMinus
<1> HIDE DEF y
<1>2. Plus(y, k) = IF y + k < IMod THEN y + k ELSE y + k - IMod
  BY <1>1, PlusMinus
<1>3. Plus(x, j + k) = IF x + (j + k) < IMod THEN x + (j + k) ELSE x + (j + k) - IMod
  BY PlusMinus
<1>4. /\ x \in 0 .. IMod - 1 /\ y \in 0 .. IMod - 1 /\ j \in 0 .. IMod - 1
      /\ k \in 0 .. IMod - 1 /\ j + k \in 0 .. IMod - 1 /\ IMod \in Nat
  BY <1>1, Sizes
<1>5. Plus(y, k) = Plus(x, j + k)
  <2>1. CASE x + j < IMod
    BY <1>1, <1>2, <1>3, <1>4, <2>1
  <2>2. CASE x + j >= IMod
    BY <1>1, <1>2, <1>3, <1>4, <2>2
  <2> QED
    BY <1>4, <2>1, <2>2
<1> QED
  BY <1>5 DEF y

\* A segment is a sequence of characters.
LEMMA SegOfIs ==
  ASSUME NEW f \in [Slots -> Chars], NEW a \in Index, NEW b \in Index
  PROVE  /\ SegOf(f, a, b) \in Seq(Chars) /\ Len(SegOf(f, a, b)) = Minus(b, a)
         /\ Minus(b, a) \in Nat
         /\ \A k \in 1 .. Minus(b, a) :
               SegOf(f, a, b)[k] = f[Plus(a, k - 1) % INPUT_BUF]
<1>0. Minus(b, a) \in Index
  BY PlusMinus
<1>1. Minus(b, a) \in Nat /\ Minus(b, a) \in Index
  BY <1>0, Sizes
<1>2. ASSUME NEW k \in 1 .. Minus(b, a) PROVE f[Plus(a, k - 1) % INPUT_BUF] \in Chars
  <2>1. k - 1 \in Index
    BY <1>1, Sizes
  <2> QED
    BY <2>1, SlotOf
<1> QED
  BY <1>1, <1>2 DEF SegOf

\* Sequences of the same length with the same elements are equal.
LEMMA SameSeq ==
  ASSUME NEW s \in Seq(Chars), NEW t \in Seq(Chars), Len(s) = Len(t),
         \A k \in 1 .. Len(s) : s[k] = t[k]
  PROVE  s = t
OBVIOUS

\* Storing c at e does not change a segment that ends at e or before it.
LEMMA StoreKeeps ==
  ASSUME NEW f \in [Slots -> Chars], NEW c \in Chars, NEW x \in Index, NEW y \in Index,
         Minus(y, x) < INPUT_BUF, NEW k \in 0 .. Minus(y, x)
  PROVE  [f EXCEPT ![y % INPUT_BUF] = c][Plus(x, k) % INPUT_BUF] =
            IF k = Minus(y, x) THEN c ELSE f[Plus(x, k) % INPUT_BUF]
<1>0. Minus(y, x) \in Index
  BY PlusMinus
<1>1. Minus(y, x) \in Nat /\ k \in Index
  BY <1>0, Sizes
<1>2. Plus(x, k) % INPUT_BUF \in Slots
  BY <1>1, SlotOf
<1>3. CASE k = Minus(y, x)
  BY <1>2, <1>3, SlotAhead
<1>4. CASE k # Minus(y, x)
  <2>1. k \in 0 .. Minus(y, x) - 1
    BY <1>1, <1>4
  <2>2. Plus(x, k) % INPUT_BUF # y % INPUT_BUF
    BY <2>1, SlotAhead
  <2> QED
    BY <1>2, <1>4, <2>2
<1> QED
  BY <1>3, <1>4

\* A key that is stored is typed.
LEMMA StoreTypes ==
  ASSUME IInv, IInv', NEW c \in Chars, Room, Store(c)
  PROVE  T!Typed(c)
<1>0. /\ e \in Index /\ w \in Index /\ r \in Index /\ buf \in [Slots -> Chars]
      /\ e' \in Index /\ w' \in Index /\ buf' \in [Slots -> Chars]
      /\ Minus(e, r) < INPUT_BUF /\ Minus(e, r) \in Nat
      /\ Minus(w, r) \in Nat /\ Minus(w, r) <= Minus(e, r) /\ Minus(e, w) \in Nat
      /\ Minus(e, w) = Minus(e, r) - Minus(w, r)
  BY RingFacts DEF Room, RingBounds, IInv, TypeOK
<1>1. /\ buf' = [buf EXCEPT ![e % INPUT_BUF] = c] /\ e' = Plus(e, 1) /\ r' = r
      /\ \/ Commits(c) /\ w' = e'
         \/ ~Commits(c) /\ w' = w
  BY DEF Store
<1>2. /\ Minus(e', r) = Minus(e, r) + 1
      /\ Commits(c) <=> c \in {Newline, Eof} \/ Minus(e, r) + 1 = INPUT_BUF
  BY <1>0, <1>1, DistanceSteps DEF Commits
<1>3. Minus(e, w) < INPUT_BUF /\ Minus(w, r) < INPUT_BUF /\ INPUT_BUF \in Nat
  BY <1>0, Sizes
<1> DEFINE line == SegOf(buf, w, e)
           ready == SegOf(buf, r, w)
<1>4. /\ Seg(w, e) = line /\ Seg(r, w) = ready
      /\ Seg(w, e)' = SegOf(buf', w', e') /\ Seg(r, w)' = SegOf(buf', r, w')
  BY <1>1 DEF Seg, SegOf, At, Minus, Plus
<1>5. /\ line \in Seq(Chars) /\ Len(line) = Minus(e, w)
      /\ \A k \in 1 .. Minus(e, w) : line[k] = buf[Plus(w, k - 1) % INPUT_BUF]
  BY <1>0, SegOfIs
<1>6. /\ ready \in Seq(Chars) /\ Len(ready) = Minus(w, r)
      /\ \A k \in 1 .. Minus(w, r) : ready[k] = buf[Plus(r, k - 1) % INPUT_BUF]
  BY <1>0, SegOfIs
<1> HIDE DEF line, ready
<1>7. Len(line) + Len(ready) = Minus(e, r)
  BY <1>0, <1>5, <1>6
<1>8. Append(line, c) \in Seq(Chars) /\ Len(Append(line, c)) = Minus(e, w) + 1
  BY <1>5
<1>9. CASE Commits(c) /\ w' = e'
  <2>1. SegOf(buf', e', e') = <<>>
    <3>1. Minus(e', e') = 0
      BY <1>0, DistanceSteps
    <3> QED
      BY <1>0, <3>1, SegOfIs
  <2> DEFINE s == SegOf(buf', r, e')
             t == ready \o Append(line, c)
  <2>2. /\ s \in Seq(Chars) /\ Len(s) = Minus(e, r) + 1
        /\ \A k \in 1 .. Minus(e, r) + 1 : s[k] = buf'[Plus(r, k - 1) % INPUT_BUF]
    <3>1. /\ s \in Seq(Chars) /\ Len(s) = Minus(e', r)
          /\ \A k \in 1 .. Minus(e', r) : s[k] = buf'[Plus(r, k - 1) % INPUT_BUF]
      BY <1>0, SegOfIs
    <3> HIDE DEF s
    <3> QED
      BY <1>2, <3>1
  <2>3. t \in Seq(Chars) /\ Len(t) = Minus(e, r) + 1
    <3>1. t \in Seq(Chars) /\ Len(t) = Len(ready) + Len(Append(line, c))
      BY <1>6, <1>8
    <3> QED
      BY <1>0, <1>6, <1>8, <3>1
  <2> HIDE DEF s
  <2>4. ASSUME NEW k \in 1 .. Minus(e, r) + 1 PROVE s[k] = t[k]
    <3>1. k \in Int /\ k - 1 \in 0 .. Minus(e, r)
      BY <1>0
    <3>2. s[k] = IF k - 1 = Minus(e, r) THEN c ELSE buf[Plus(r, k - 1) % INPUT_BUF]
      BY <1>0, <1>1, <2>2, <3>1, StoreKeeps
    <3>3. CASE k <= Minus(w, r)
      <4>1. t[k] = ready[k] /\ k \in 1 .. Minus(w, r) /\ k - 1 # Minus(e, r)
        BY <1>0, <1>6, <1>8, <3>1, <3>3
      <4> QED
        BY <1>6, <3>2, <4>1
    <3>4. CASE k > Minus(w, r)
      <4> DEFINE j == k - Minus(w, r)
      <4>1. j \in 1 .. Minus(e, w) + 1 /\ t[k] = Append(line, c)[j]
        <5> DEFINE x == Append(line, c)
        <5>1. x \in Seq(Chars) /\ Len(x) = Minus(e, w) + 1
          BY <1>8
        <5>2. t = ready \o x
          OBVIOUS
        <5> HIDE DEF x, t
        <5>3. /\ j \in 1 .. Minus(e, w) + 1 /\ k - Len(ready) = j /\ k > Len(ready)
              /\ k \in 1 .. Len(ready) + Len(x)
          BY <1>0, <1>6, <3>1, <3>4, <5>1
        <5>4. (ready \o x)[k] = x[k - Len(ready)]
          BY <1>6, <5>1, <5>3
        <5> QED
          BY <5>2, <5>3, <5>4 DEF x
      <4>2. CASE j = Minus(e, w) + 1
        <5>1. k - 1 = Minus(e, r)
          BY <1>0, <3>1, <4>2
        <5>2. t[k] = c
          BY <1>5, <4>1, <4>2
        <5> QED
          BY <3>2, <5>1, <5>2
      <4>3. CASE j # Minus(e, w) + 1
        <5>1. j \in 1 .. Minus(e, w) /\ k - 1 # Minus(e, r)
          BY <1>0, <3>1, <4>1, <4>3
        <5>2. t[k] = buf[Plus(w, j - 1) % INPUT_BUF]
          BY <1>5, <4>1, <5>1
        <5>3. /\ Minus(w, r) \in Index /\ j - 1 \in Index
              /\ Minus(w, r) + (j - 1) \in Index /\ Minus(w, r) + (j - 1) = k - 1
          <6>1. /\ Minus(w, r) \in 0 .. INPUT_BUF - 1 /\ k - 1 \in 0 .. INPUT_BUF - 1
                /\ Minus(e, w) < INPUT_BUF
            BY <1>0, <1>3, <3>1
          <6>2. 0 .. INPUT_BUF - 1 \subseteq Index
            BY Sizes
          <6>3. j - 1 \in 0 .. INPUT_BUF - 1 /\ Minus(w, r) + (j - 1) = k - 1
            <7> DEFINE m == Minus(w, r)
            <7>1. /\ m \in Int /\ k \in Int /\ j = k - m /\ j \in 1 .. Minus(e, w)
                  /\ Minus(e, w) \in Nat /\ Minus(e, w) < INPUT_BUF /\ INPUT_BUF \in Nat
              BY <1>0, <1>3, <3>1, <5>1
            <7> HIDE DEF m, j
            <7>2. j - 1 \in 0 .. INPUT_BUF - 1 /\ m + (j - 1) = k - 1
              BY <7>1
            <7> QED
              BY <7>2 DEF m
          <6> QED
            BY <6>1, <6>2, <6>3
        <5>4. Plus(r, Minus(w, r)) = w
          BY <1>0, <1>3, SlotAhead
        <5>5. Plus(w, j - 1) = Plus(r, k - 1)
          BY <1>0, <5>3, <5>4, PlusPlus
        <5> QED
          BY <3>2, <5>1, <5>2, <5>5
      <4> QED
        BY <4>2, <4>3
    <3>5. Minus(w, r) \in Nat
      BY <1>0
    <3> HIDE DEF t
    <3> QED
      BY <3>1, <3>3, <3>4, <3>5
  <2>5. s = t
    <3> HIDE DEF t
    <3> QED
      BY <2>2, <2>3, <2>4, SameSeq
  <2>6. Seg(w, e)' = <<>> /\ Seg(r, w)' = ready \o Append(line, c)
    BY <1>4, <1>9, <2>1, <2>5 DEF s
  <2> QED
    BY <1>0, <1>2, <1>4, <1>7, <1>9, <2>6 DEF T!Typed
<1>10. CASE ~Commits(c) /\ w' = w
  <2>1. Minus(e', w) = Minus(e, w) + 1
    BY <1>0, <1>1, <1>3, DistanceSteps
  <2> DEFINE s == SegOf(buf', w, e')
             t == SegOf(buf', r, w)
  <2>2. /\ s \in Seq(Chars) /\ Len(s) = Minus(e, w) + 1
        /\ \A k \in 1 .. Minus(e, w) + 1 : s[k] = buf'[Plus(w, k - 1) % INPUT_BUF]
    <3>1. /\ s \in Seq(Chars) /\ Len(s) = Minus(e', w)
          /\ \A k \in 1 .. Minus(e', w) : s[k] = buf'[Plus(w, k - 1) % INPUT_BUF]
      BY <1>0, SegOfIs
    <3> HIDE DEF s
    <3> QED
      BY <2>1, <3>1
  <2>3. /\ t \in Seq(Chars) /\ Len(t) = Minus(w, r)
        /\ \A k \in 1 .. Minus(w, r) : t[k] = buf'[Plus(r, k - 1) % INPUT_BUF]
    BY <1>0, SegOfIs
  <2> HIDE DEF s, t
  <2>4. ASSUME NEW k \in 1 .. Minus(e, w) + 1 PROVE s[k] = Append(line, c)[k]
    <3>1. k - 1 \in 0 .. Minus(e, w)
      BY <1>0
    <3>2. s[k] = IF k - 1 = Minus(e, w) THEN c ELSE buf[Plus(w, k - 1) % INPUT_BUF]
      BY <1>0, <1>1, <1>3, <2>2, <3>1, StoreKeeps
    <3> QED
      BY <1>0, <1>5, <3>1, <3>2
  <2>5. s = Append(line, c)
    BY <1>8, <2>2, <2>4, SameSeq
  <2>6. ASSUME NEW k \in 1 .. Minus(w, r) PROVE t[k] = ready[k]
    <3>1. k - 1 \in 0 .. Minus(e, r) /\ k - 1 # Minus(e, r)
      BY <1>0
    <3> QED
      BY <1>0, <1>1, <1>6, <2>3, <3>1, StoreKeeps
  <2>7. t = ready
    BY <1>6, <2>3, <2>6, SameSeq
  <2>8. Seg(w, e)' = Append(line, c) /\ Seg(r, w)' = ready
    BY <1>4, <1>10, <2>5, <2>7 DEF s, t
  <2> QED
    BY <1>0, <1>2, <1>4, <1>7, <1>10, <2>8 DEF T!Typed
<1> QED
  BY <1>1, <1>9, <1>10

\* ^H takes the last character of the line.
LEMMA EraseErases ==
  ASSUME IInv, e # w, e' = Minus(e, 1), UNCHANGED <<buf, r, w>>
  PROVE  T!Erase
<1>0. /\ e \in Index /\ w \in Index /\ r \in Index /\ buf \in [Slots -> Chars]
      /\ e' \in Index /\ Minus(e, w) \in Nat
  BY RingFacts, PlusMinus, Sizes DEF IInv, TypeOK
<1>1. Minus(e, w) # 0 /\ Minus(e', w) = Minus(e, w) - 1
  BY <1>0, DistanceSteps
<1> DEFINE line == SegOf(buf, w, e)
           s == SegOf(buf, w, e')
<1>2. /\ Seg(w, e) = line /\ Seg(w, e)' = s /\ Seg(r, w)' = Seg(r, w)
  BY DEF Seg, SegOf, At, Minus, Plus
<1>3. /\ line \in Seq(Chars) /\ Len(line) = Minus(e, w)
      /\ \A k \in 1 .. Minus(e, w) : line[k] = buf[Plus(w, k - 1) % INPUT_BUF]
  BY <1>0, SegOfIs
<1>4. /\ s \in Seq(Chars) /\ Len(s) = Minus(e', w)
      /\ \A k \in 1 .. Minus(e', w) : s[k] = buf[Plus(w, k - 1) % INPUT_BUF]
  BY <1>0, SegOfIs
<1> HIDE DEF line, s
<1>5. line # <<>> /\ Minus(e, w) - 1 \in 0 .. Len(line)
  BY <1>0, <1>1, <1>3
<1>6. SubSeq(line, 1, Len(line) - 1) \in Seq(Chars)
      /\ Len(SubSeq(line, 1, Len(line) - 1)) = Minus(e, w) - 1
      /\ \A k \in 1 .. Minus(e, w) - 1 : SubSeq(line, 1, Len(line) - 1)[k] = line[k]
  BY <1>0, <1>1, <1>3, <1>5
<1>7. s = SubSeq(line, 1, Len(line) - 1)
  <2>1. \A k \in 1 .. Len(s) : s[k] = SubSeq(line, 1, Len(line) - 1)[k]
    BY <1>0, <1>1, <1>3, <1>4, <1>6
  <2> QED
    BY <1>1, <1>4, <1>6, <2>1, SameSeq
<1> QED
  BY <1>2, <1>5, <1>7 DEF T!Erase, T!Front

\* ^U empties the line.
LEMMA KillKills ==
  ASSUME IInv, e' = w, UNCHANGED <<buf, r, w>>
  PROVE  T!KillLine
<1>1. w \in Index /\ buf \in [Slots -> Chars]
  BY DEF IInv, TypeOK
<1>2. Minus(w, w) = 0
  BY <1>1, DistanceSteps
<1>3. SegOf(buf, w, w) = <<>>
  BY <1>1, <1>2, SegOfIs
<1>4. Seg(w, e)' = SegOf(buf, w, w) /\ Seg(r, w)' = Seg(r, w)
  BY DEF Seg, SegOf, At, Minus, Plus
<1> QED
  BY <1>3, <1>4 DEF T!KillLine

\* consoleread() takes the oldest committed character.
LEMMA ReadTakes ==
  ASSUME IInv, r # w, r' = Plus(r, 1), UNCHANGED <<buf, w, e>>
  PROVE  T!Take
<1>0. /\ e \in Index /\ w \in Index /\ r \in Index /\ buf \in [Slots -> Chars]
      /\ r' \in Index /\ Minus(w, r) \in Nat /\ Minus(w, r) \in Index
  BY RingFacts, PlusMinus, Sizes DEF IInv, TypeOK
<1>1. Minus(w, r) # 0 /\ Minus(w, r') = Minus(w, r) - 1
  BY <1>0, DistanceSteps
<1> DEFINE ready == SegOf(buf, r, w)
           s == SegOf(buf, r', w)
<1>2. /\ Seg(r, w) = ready /\ Seg(r, w)' = s /\ Seg(w, e)' = Seg(w, e)
  BY DEF Seg, SegOf, At, Minus, Plus
<1>3. /\ ready \in Seq(Chars) /\ Len(ready) = Minus(w, r)
      /\ \A k \in 1 .. Minus(w, r) : ready[k] = buf[Plus(r, k - 1) % INPUT_BUF]
  BY <1>0, SegOfIs
<1>4. /\ s \in Seq(Chars) /\ Len(s) = Minus(w, r')
      /\ \A k \in 1 .. Minus(w, r') : s[k] = buf[Plus(r', k - 1) % INPUT_BUF]
  BY <1>0, SegOfIs
<1> HIDE DEF ready, s
<1>5. ready # <<>>
  BY <1>0, <1>1, <1>3
<1>6. Tail(ready) \in Seq(Chars) /\ Len(Tail(ready)) = Minus(w, r) - 1
      /\ \A k \in 1 .. Minus(w, r) - 1 : Tail(ready)[k] = ready[k + 1]
  BY <1>0, <1>1, <1>3, <1>5
<1>7. ASSUME NEW k \in 1 .. Minus(w, r) - 1 PROVE s[k] = Tail(ready)[k]
  <2>1. /\ k - 1 \in Index /\ 1 \in Index /\ 1 + (k - 1) \in Index
        /\ 1 + (k - 1) = (k + 1) - 1 /\ k + 1 \in 1 .. Minus(w, r)
        /\ k \in 1 .. Minus(w, r')
    BY <1>0, <1>1, Sizes
  <2>2. Plus(Plus(r, 1), k - 1) = Plus(r, (k + 1) - 1)
    BY <1>0, <2>1, PlusPlus
  <2> QED
    BY <1>3, <1>4, <1>6, <2>1, <2>2
<1>8. s = Tail(ready)
  BY <1>1, <1>4, <1>6, <1>7, SameSeq
<1> QED
  BY <1>2, <1>5, <1>8 DEF T!Take

\* Every step of the console is a step of the line discipline, or none.
LEMMA TtyStep == IInv /\ IInv' /\ [Next]_vars => [T!TtyNext]_(T!ttyVars)
<1> SUFFICES ASSUME IInv, IInv', [Next]_vars
             PROVE  T!TtyNext \/ UNCHANGED <<Seg(w, e), Seg(r, w)>>
  BY DEF T!ttyVars
<1> USE DEF input, handler, call
<1>1. ASSUME UNCHANGED input PROVE UNCHANGED <<Seg(w, e), Seg(r, w)>>
  BY <1>1 DEF Seg, At, Minus, Plus
<1>2. ASSUME NEW ch \in Keys, Key(ch)
      PROVE  T!TtyNext \/ UNCHANGED <<Seg(w, e), Seg(r, w)>>
  <2>1. CASE UNCHANGED input
    BY <1>1, <2>1
  <2>2. CASE Erase(ch)
    <3>1. UNCHANGED <<buf, r, w>>
      BY <2>2 DEF Erase
    <3>2. CASE ch = "^U" /\ e' = Minus(e, Killed)
      BY <3>1, <3>2, KilledIs, KillKills DEF T!TtyNext
    <3>3. CASE e # w /\ e' = Minus(e, 1)
      BY <3>1, <3>3, EraseErases DEF T!TtyNext
    <3>4. CASE e = w /\ e' = e
      BY <1>1, <3>1, <3>4
    <3> QED
      BY <2>2, <3>2, <3>3, <3>4 DEF Erase, Erasable
  <2>3. ASSUME NEW c \in Chars, Room, Store(c) PROVE T!TtyNext
    BY <2>3, StoreTypes DEF T!TtyNext
  <2> QED
    BY <1>2, <2>1, <2>2, <2>3 DEF Key, Chars
<1>3. ASSUME NEW p \in Procs, consoleread(p)
      PROVE  T!TtyNext \/ UNCHANGED <<Seg(w, e), Seg(r, w)>>
  <2>1. r # w /\ r' \in {r, Plus(r, 1)} /\ UNCHANGED <<buf, w, e>>
    BY <1>3 DEF consoleread, TakeEof, TakeChar
  <2> QED
    BY <1>1, <2>1, ReadTakes DEF T!TtyNext
<1>4. CASE consoleintr \/ IntrDone \/ procdump \/ UNCHANGED vars
  BY <1>1, <1>4 DEF consoleintr, IntrDone, procdump, vars
<1>5. ASSUME NEW p \in Procs,
             \/ fileread(p) \/ filewrite(p) \/ ilock(p) \/ acquire(p) \/ iunlock(p)
             \/ consolewrite(p) \/ ReadEnds(p) \/ Wait(p) \/ sleep(p) \/ kill(p)
      PROVE  UNCHANGED input
  BY <1>5 DEF fileread, filewrite, Enter, ilock, acquire, iunlock, consolewrite, ReadEnds,
     Wait, sleep, kill
<1> QED
  BY <1>1, <1>2, <1>3, <1>4, <1>5 DEF Next, Step

\* The ring implements the line discipline: what was committed is read once and
\* in order, and editing never reaches it, for every size of the ring and every
\* range of its indices.
THEOREM ConsoleImplementsTty == Spec => ImplementsTty
<1>1. Init => T!TtyInit
  <2> SUFFICES ASSUME Init PROVE Seg(w, e) = <<>> /\ Seg(r, w) = <<>>
    BY DEF T!TtyInit
  <2>1. r = 0 /\ w = 0 /\ e = 0 /\ 0 \in Index /\ buf \in [Slots -> Chars]
    BY InitIInv, Sizes DEF Init, IInv, TypeOK
  <2>2. Minus(0, 0) = 0
    BY <2>1, DistanceSteps
  <2>3. SegOf(buf, 0, 0) = <<>>
    BY <2>1, <2>2, SegOfIs
  <2> QED
    BY <2>1, <2>3 DEF Seg, SegOf, At
<1> QED
  BY <1>1, Invariant, TtyStep, PTL DEF Spec, ImplementsTty, T!TtySpec
=============================================================================
