---------------------------- MODULE BcacheProofs ----------------------------
(***************************************************************************)
(* Proofs about Bcache for any number of buffers, blocks and users: a      *)
(* block has one buffer, which stays that block's while anybody wants it;  *)
(* the disk queue agrees with the disk and with those who wait for it; and *)
(* the cache implements BlockStore.                                        *)
(***************************************************************************)
EXTENDS Bcache, FiniteSetTheorems, TLAPS

\* The users that a reference count counts.
Refs(x) == {p \in Users : b[p] = x}

RefInv ==
    \A x \in Bufs : IsFiniteSet(Refs(x)) /\ refcnt[x] = Cardinality(Refs(x))

Holding == {"locked", "io", "iowoken", "hold"}

\* A process between bget() and brelse() has a buffer of the block it wants.
PlaceInv ==
    \A p \in Users :
        IF pc[p] \in {"idle", "panic"} THEN b[p] = 0
        ELSE /\ b[p] \in Bufs /\ want[p] \in Blocks
             /\ blockno[b[p]] = want[p]

LockInv ==
    \A p \in Users :
        /\ pc[p] \in Holding => holder[b[p]] = p
        /\ pc[p] = "locksleep" => holder[b[p]] # Nobody
        /\ \A x \in Bufs : holder[x] = p => pc[p] \in Holding /\ b[p] = x

\* B_VALID and B_DIRTY of the buffer that a process holds.
FlagInv ==
    /\ \A x \in Bufs : dirty[x] => valid[x]
    /\ \A p \in Users :
        /\ pc[p] \in {"hold", "iowoken"} => valid[b[p]]
        /\ pc[p] = "iowoken" => ~dirty[b[p]]
        /\ pc[p] = "io" => dirty[b[p]] \/ ~valid[b[p]]

Queued(x) == \E i \in DOMAIN idequeue : idequeue[i] = x

\* The queue holds the buffers of those who wait in iderw(), once each.
QueueInv ==
    /\ QueueHeadActive
    /\ \A p \in Users : pc[p] = "io" => Queued(b[p])
    /\ \A x \in Bufs : Queued(x) => \E p \in Users : pc[p] = "io" /\ b[p] = x

IInv == /\ TypeOK /\ RefInv /\ PlaceInv /\ LockInv /\ FlagInv
        /\ OneBufferPerBlock /\ QueueInv

\* Without read errors, a clean valid buffer holds what the disk holds, and so
\* does the one that the disk has just written.
DataInv ==
    \A x \in Bufs :
        /\ valid[x] => blockno[x] \in Blocks
        /\ valid[x] /\ (~dirty[x] \/ (intr /\ active = x)) =>
             data[x] = disk[blockno[x]]

-----------------------------------------------------------------------------
\* binit() has run and nobody has asked for a block.
LEMMA InitIInv == Init => IInv
<1> SUFFICES ASSUME Init PROVE IInv
  OBVIOUS
<1>1. TypeOK
  <2>1. intr \in BOOLEAN
    BY Zenon DEF Init
  <2>2. idequeue \in Seq(Bufs) /\ active \in Bufs \cup {0}
    BY DEF Init
  <2>3. lru \in [Bufs -> Bufs]
    BY BcacheAssumption DEF Init, binit, Bufs
  <2>4. valid \in [Bufs -> BOOLEAN] /\ dirty \in [Bufs -> BOOLEAN]
    BY DEF Init
  <2>5. data \in [Bufs -> Vals]
    BY DEF Init
  <2> QED
    BY <2>1, <2>2, <2>3, <2>4, <2>5 DEF Init, TypeOK, PCs
<1>2. RefInv
  <2>1. \A x \in Bufs : Refs(x) = {}
    BY BcacheAssumption DEF Init, Refs, Bufs
  <2> QED
    BY <2>1, FS_EmptySet DEF Init, RefInv
<1>3. PlaceInv
  BY DEF Init, PlaceInv
<1>4. LockInv /\ FlagInv
  BY BcacheAssumption DEF Init, LockInv, FlagInv, Holding
<1>5. OneBufferPerBlock /\ QueueInv
  BY DEF Init, OneBufferPerBlock, QueueInv, QueueHeadActive, NextRequest, Queued
<1> QED
  BY <1>1, <1>2, <1>3, <1>4, <1>5 DEF IInv

\* bget() adds a user to one buffer and to no other.
LEMMA RefsEnter ==
  ASSUME RefInv, b \in [Users -> Bufs \cup {0}], NEW p \in Users, b[p] = 0,
         NEW x \in Bufs, b' = [b EXCEPT ![p] = x]
  PROVE  \A y \in Bufs :
            /\ IsFiniteSet(Refs(y)')
            /\ Cardinality(Refs(y)') = IF y = x THEN refcnt[y] + 1 ELSE refcnt[y]
<1> SUFFICES ASSUME NEW y \in Bufs
             PROVE  /\ IsFiniteSet(Refs(y)')
                    /\ Cardinality(Refs(y)') = IF y = x THEN refcnt[y] + 1 ELSE refcnt[y]
  OBVIOUS
<1>1. IsFiniteSet(Refs(y)) /\ refcnt[y] = Cardinality(Refs(y))
  BY DEF RefInv
<1>2. CASE y = x
  <2>1. Refs(y)' = Refs(y) \cup {p} /\ p \notin Refs(y)
    BY <1>2, BcacheAssumption DEF Refs, Bufs
  <2> QED
    BY <1>1, <1>2, <2>1, FS_AddElement
<1>3. CASE y # x
  <2>1. Refs(y)' = Refs(y)
    BY <1>3, BcacheAssumption DEF Refs, Bufs
  <2> QED
    BY <1>1, <1>3, <2>1
<1> QED
  BY <1>2, <1>3

\* brelse() takes a user from one buffer and from no other.
LEMMA RefsLeave ==
  ASSUME RefInv, b \in [Users -> Bufs \cup {0}], NEW p \in Users, b[p] \in Bufs,
         b' = [b EXCEPT ![p] = 0]
  PROVE  /\ \A y \in Bufs :
              /\ IsFiniteSet(Refs(y)')
              /\ Cardinality(Refs(y)') = IF y = b[p] THEN refcnt[y] - 1 ELSE refcnt[y]
         /\ refcnt[b[p]] - 1 \in Nat
<1>1. ASSUME NEW y \in Bufs
      PROVE  /\ IsFiniteSet(Refs(y)')
             /\ Cardinality(Refs(y)') = IF y = b[p] THEN refcnt[y] - 1 ELSE refcnt[y]
             /\ Cardinality(Refs(y)') \in Nat
  <2>1. IsFiniteSet(Refs(y)) /\ refcnt[y] = Cardinality(Refs(y))
    BY DEF RefInv
  <2>2. CASE y = b[p]
    <3>1. Refs(y)' = Refs(y) \ {p} /\ p \in Refs(y)
      BY <2>2, BcacheAssumption DEF Refs, Bufs
    <3> QED
      BY <2>1, <2>2, <3>1, FS_RemoveElement, FS_CardinalityType
  <2>3. CASE y # b[p]
    <3>1. Refs(y)' = Refs(y)
      BY <2>3, BcacheAssumption DEF Refs, Bufs
    <3> QED
      BY <2>1, <2>3, <3>1, FS_CardinalityType
  <2> QED
    BY <2>2, <2>3
<1> QED
  BY <1>1

\* A buffer that somebody has is counted.
LEMMA UsedIsCounted ==
  ASSUME RefInv, NEW p \in Users, b[p] \in Bufs
  PROVE  refcnt[b[p]] # 0 /\ refcnt[b[p]] \in Nat
<1>1. p \in Refs(b[p])
  BY DEF Refs
<1> QED
  BY <1>1, FS_EmptySet, FS_CardinalityType DEF RefInv

\* bget() finds the block in the cache.
LEMMA BgetCachedStep ==
  ASSUME IInv, NEW p \in Users, NEW k \in Blocks, BgetCached(p, k)
  PROVE  IInv'
<1> USE DEF IInv, flags, ide
<1>1. PICK x \in Bufs :
          /\ blockno[x] = k
          /\ refcnt' = [refcnt EXCEPT ![x] = @ + 1]
          /\ b' = [b EXCEPT ![p] = x]
  BY DEF BgetCached, Found
<1>2. /\ pc[p] = "idle" /\ want' = [want EXCEPT ![p] = k]
      /\ pc' = [pc EXCEPT ![p] = "lock"]
      /\ UNCHANGED <<blockno, lru, flags, holder, ide>>
  BY DEF BgetCached, Goto
<1>3. b[p] = 0
  BY <1>2 DEF PlaceInv
<1>4. TypeOK'
  BY <1>1, <1>2 DEF TypeOK, PCs
<1>5. RefInv'
  BY <1>1, <1>3, RefsEnter DEF RefInv, TypeOK
<1>6. PlaceInv'
  BY <1>1, <1>2 DEF PlaceInv, TypeOK
<1>7. LockInv'
  BY <1>1, <1>2, BcacheAssumption DEF LockInv, TypeOK, Holding
<1>8. FlagInv'
  BY <1>1, <1>2 DEF FlagInv, TypeOK
<1>9. OneBufferPerBlock'
  BY <1>2 DEF OneBufferPerBlock
<1>10. QueueInv'
  BY <1>1, <1>2 DEF QueueInv, QueueHeadActive, NextRequest, Queued, TypeOK
<1> QED
  BY <1>4, <1>5, <1>6, <1>7, <1>8, <1>9, <1>10

\* bget() gives a free buffer to the block, or panics.
LEMMA BgetRecycleStep ==
  ASSUME IInv, NEW p \in Users, NEW k \in Blocks, BgetRecycle(p, k)
  PROVE  IInv'
<1> USE DEF IInv, ide
<1>1. /\ pc[p] = "idle" /\ Found(k) = {} /\ b[p] = 0
      /\ UNCHANGED <<lru, data, holder, ide>>
  BY DEF BgetRecycle, PlaceInv
<1>2. CASE Free = {}
  <2>1. /\ pc' = [pc EXCEPT ![p] = "panic"]
        /\ UNCHANGED <<blockno, refcnt, valid, dirty, b, want>>
    BY <1>2 DEF BgetRecycle, Goto
  <2>2. TypeOK' /\ RefInv'
    BY <1>1, <2>1 DEF TypeOK, PCs, RefInv, Refs
  <2>3. PlaceInv' /\ OneBufferPerBlock'
    BY <1>1, <2>1 DEF PlaceInv, OneBufferPerBlock, TypeOK
  <2>4. LockInv' /\ FlagInv'
    BY <1>1, <2>1, BcacheAssumption DEF LockInv, FlagInv, TypeOK, Holding
  <2>5. QueueInv'
    BY <1>1, <2>1 DEF QueueInv, QueueHeadActive, NextRequest, Queued, TypeOK
  <2> QED
    BY <2>2, <2>3, <2>4, <2>5
<1>3. CASE Free # {}
  <2>1. PICK x \in Bufs :
            /\ LeastRecent(x, Free)
            /\ blockno' = [blockno EXCEPT ![x] = k]
            /\ valid' = [valid EXCEPT ![x] = FALSE]
            /\ dirty' = [dirty EXCEPT ![x] = FALSE]
            /\ refcnt' = [refcnt EXCEPT ![x] = 1]
            /\ b' = [b EXCEPT ![p] = x]
    BY <1>3 DEF BgetRecycle
  <2>2. want' = [want EXCEPT ![p] = k] /\ pc' = [pc EXCEPT ![p] = "lock"]
    BY <1>3 DEF BgetRecycle, Goto
  <2>3. refcnt[x] = 0
    BY <2>1 DEF LeastRecent, Free
  <2>4. \A q \in Users : b[q] # x
    BY <2>3, UsedIsCounted
  <2>5. TypeOK'
    BY <1>1, <2>1, <2>2 DEF TypeOK, PCs
  <2>6. RefInv'
    <3>1. \A y \in Bufs : refcnt'[y] = IF y = x THEN refcnt[y] + 1 ELSE refcnt[y]
      BY <2>1, <2>3 DEF TypeOK
    <3> QED
      BY <1>1, <2>1, <3>1, RefsEnter DEF RefInv, TypeOK
  <2>7. PlaceInv'
    BY <1>1, <2>1, <2>2, <2>4 DEF PlaceInv, TypeOK
  <2>8. LockInv'
    BY <1>1, <2>1, <2>2, BcacheAssumption DEF LockInv, TypeOK, Holding
  <2>9. FlagInv'
    <3>1. \A y \in Bufs : dirty'[y] => valid'[y]
      BY <2>1 DEF FlagInv, TypeOK
    <3>2. ASSUME NEW q \in Users, q # p
          PROVE  /\ pc'[q] = pc[q] /\ b'[q] = b[q]
                 /\ b[q] \in Bufs => valid'[b[q]] = valid[b[q]] /\ dirty'[b[q]] = dirty[b[q]]
      BY <2>1, <2>2, <2>4, <3>2 DEF TypeOK
    <3>3. pc'[p] = "lock"
      BY <2>2 DEF TypeOK
    <3> QED
      BY <3>1, <3>2, <3>3 DEF FlagInv, PlaceInv
  <2>10. OneBufferPerBlock'
    BY <1>1, <2>1 DEF OneBufferPerBlock, Found, TypeOK
  <2>11. QueueInv'
    BY <1>1, <2>1, <2>2 DEF QueueInv, QueueHeadActive, NextRequest, Queued, TypeOK
  <2> QED
    BY <2>5, <2>6, <2>7, <2>8, <2>9, <2>10, <2>11
<1> QED
  BY <1>2, <1>3

\* The sleep lock of the buffer is taken, or waited for.
LEMMA AcquireStep ==
  ASSUME IInv, NEW p \in Users, acquiresleep(p)
  PROVE  IInv'
<1> USE DEF IInv, cache, flags, ide
<1>1. pc[p] = "lock" /\ UNCHANGED <<cache, flags, ide, b, want>>
  BY DEF acquiresleep
<1>2. b[p] \in Bufs
  BY <1>1 DEF PlaceInv
<1>3. \/ /\ holder[b[p]] # Nobody /\ holder' = holder
         /\ pc' = [pc EXCEPT ![p] = "locksleep"]
      \/ /\ holder[b[p]] = Nobody /\ holder' = [holder EXCEPT ![b[p]] = p]
         /\ pc' = [pc EXCEPT ![p] = "locked"]
  BY DEF acquiresleep, Goto
<1>4. TypeOK' /\ RefInv'
  <2>1. pc' \in [Users -> PCs] /\ holder' \in [Bufs -> Users \cup {Nobody}]
    <3>1. pc' \in [Users -> PCs]
      BY <1>3 DEF TypeOK, PCs
    <3>2. holder' \in [Bufs -> Users \cup {Nobody}]
      BY <1>2, <1>3 DEF TypeOK
    <3> QED
      BY <3>1, <3>2
  <2>2. RefInv'
    BY <1>1 DEF RefInv, Refs
  <2> QED
    BY <1>1, <2>1, <2>2 DEF TypeOK
<1>5. PlaceInv' /\ OneBufferPerBlock'
  BY <1>1, <1>3 DEF PlaceInv, OneBufferPerBlock, TypeOK
<1>6. LockInv'
  <2>1. CASE holder' = holder
    BY <1>1, <1>2, <1>3, <2>1, BcacheAssumption DEF LockInv, TypeOK, Holding
  <2>2. CASE holder' # holder
    <3>1. /\ holder[b[p]] = Nobody /\ holder' = [holder EXCEPT ![b[p]] = p]
          /\ pc' = [pc EXCEPT ![p] = "locked"] /\ b' = b
      BY <1>1, <1>3, <2>2
    <3>2. \A x \in Bufs : holder[x] # p
      BY <1>1 DEF LockInv, Holding
    <3>3. \A x \in Bufs : holder'[x] = IF x = b[p] THEN p ELSE holder[x]
      BY <1>2, <3>1 DEF TypeOK
    <3>4. \A q \in Users : q # Nobody /\ pc'[q] = IF q = p THEN "locked" ELSE pc[q]
      BY <3>1, BcacheAssumption DEF TypeOK
    <3>5. ASSUME NEW q \in Users, q # p
          PROVE  /\ pc'[q] \in Holding => holder'[b[q]] = q
                 /\ pc'[q] = "locksleep" => holder'[b[q]] # Nobody
                 /\ \A x \in Bufs : holder'[x] = q => pc'[q] \in Holding /\ b[q] = x
      <4>1. pc[q] \in Holding \cup {"locksleep"} => b[q] \in Bufs
        BY DEF PlaceInv, Holding
      <4> QED
        BY <1>2, <3>1, <3>3, <3>4, <3>5, <4>1 DEF LockInv
    <3>6. /\ pc'[p] = "locked" /\ holder'[b[p]] = p
          /\ \A x \in Bufs : holder'[x] = p => b[p] = x
      BY <1>2, <3>2, <3>3, <3>4
    <3> QED
      BY <3>1, <3>5, <3>6 DEF LockInv, Holding
  <2> QED
    BY <2>1, <2>2
<1>7. FlagInv'
  BY <1>1, <1>3 DEF FlagInv, TypeOK
<1>8. QueueInv'
  BY <1>1, <1>3 DEF QueueInv, QueueHeadActive, NextRequest, Queued, TypeOK
<1> QED
  BY <1>4, <1>5, <1>6, <1>7, <1>8

\* releasesleep() hands the lock to nobody in particular and wakes all waiters.
LEMMA ReleaseStep ==
  ASSUME IInv, NEW p \in Users, releasesleep(p)
  PROVE  IInv'
<1> USE DEF IInv, cache, flags, ide
<1>1. /\ pc[p] = "hold" /\ UNCHANGED <<cache, flags, ide, b, want>>
      /\ holder' = [holder EXCEPT ![b[p]] = Nobody]
      /\ pc' = WakeWaiters([pc EXCEPT ![p] = "release"], b[p])
  BY DEF releasesleep
<1>2. b[p] \in Bufs /\ holder[b[p]] = p
  BY <1>1 DEF PlaceInv, LockInv, Holding
<1>3. /\ pc'[p] = "release"
      /\ \A q \in Users :
            q # p => pc'[q] = IF pc[q] = "locksleep" /\ b[q] = b[p] THEN "lock" ELSE pc[q]
  BY <1>1 DEF WakeWaiters, TypeOK
<1>4. TypeOK'
  BY <1>1, <1>2 DEF TypeOK, PCs, WakeWaiters
<1>5. RefInv' /\ OneBufferPerBlock'
  BY <1>1 DEF RefInv, Refs, OneBufferPerBlock
<1>6. PlaceInv'
  BY <1>1, <1>3 DEF PlaceInv, TypeOK
<1>7. LockInv'
  <2>1. \A x \in Bufs : holder'[x] = IF x = b[p] THEN Nobody ELSE holder[x]
    BY <1>1, <1>2 DEF TypeOK
  <2>2. ASSUME NEW q \in Users
        PROVE  /\ pc'[q] \in Holding <=> q # p /\ pc[q] \in Holding
               /\ pc'[q] = "locksleep" => pc[q] = "locksleep" /\ b[q] # b[p]
               /\ q # Nobody
    BY <1>3, BcacheAssumption DEF Holding
  <2>3. ASSUME NEW q \in Users
        PROVE  /\ pc'[q] \in Holding => holder'[b[q]] = q
               /\ pc'[q] = "locksleep" => holder'[b[q]] # Nobody
               /\ \A x \in Bufs : holder'[x] = q => pc'[q] \in Holding /\ b[q] = x
    <3>1. pc[q] \in Holding \cup {"locksleep"} => b[q] \in Bufs
      BY DEF PlaceInv, Holding
    <3> QED
      BY <1>2, <2>1, <2>2, <3>1 DEF LockInv
  <2> QED
    BY <1>1, <2>3 DEF LockInv
<1>8. FlagInv'
  BY <1>1, <1>3 DEF FlagInv, TypeOK
<1>9. QueueInv'
  <2>1. \A q \in Users : pc'[q] = "io" <=> pc[q] = "io"
    BY <1>1, <1>3
  <2> QED
    BY <1>1, <2>1 DEF QueueInv, QueueHeadActive, NextRequest, Queued
<1> QED
  BY <1>4, <1>5, <1>6, <1>7, <1>8, <1>9

\* brelse() gives up the reference and moves the buffer to the front.
LEMMA BrelseStep ==
  ASSUME IInv, NEW p \in Users, brelse(p)
  PROVE  IInv'
<1> USE DEF IInv, flags, ide
<1>1. /\ pc[p] = "release" /\ pc' = [pc EXCEPT ![p] = "idle"]
      /\ refcnt' = [refcnt EXCEPT ![b[p]] = @ - 1]
      /\ lru' = IF refcnt[b[p]] = 1 THEN ToFront(b[p]) ELSE lru
      /\ b' = [b EXCEPT ![p] = 0] /\ want' = [want EXCEPT ![p] = Nobody]
      /\ UNCHANGED <<blockno, flags, holder, ide>>
  BY DEF brelse, Goto
<1>2. b[p] \in Bufs
  BY <1>1 DEF PlaceInv
<1>3. ToFront(b[p]) \in [Bufs -> Bufs]
  <2> DEFINE i == CHOOSE j \in Bufs : lru[j] = b[p]
  <2>3. lru \in [Bufs -> Bufs]
    BY DEF TypeOK
  <2>4. \A j \in Bufs : j # 1 => j - 1 \in Bufs
    BY BcacheAssumption DEF Bufs
  <2>1. \A j \in Bufs : j # 1 => lru[j - 1] \in Bufs /\ lru[j] \in Bufs
    BY <2>3, <2>4
  <2> HIDE DEF i
  <2>2. \A j \in Bufs :
          (IF j = 1 THEN b[p] ELSE IF j <= i THEN lru[j - 1] ELSE lru[j]) \in Bufs
    BY <1>2, <2>1
  <2> QED
    BY <2>2 DEF ToFront, i
<1>4. RefInv' /\ refcnt' \in [Bufs -> Nat]
  <2>1. refcnt[b[p]] - 1 \in Nat
    BY <1>1, <1>2, RefsLeave DEF TypeOK
  <2>2. RefInv'
    BY <1>1, <1>2, RefsLeave DEF RefInv, TypeOK
  <2> QED
    BY <1>1, <2>1, <2>2 DEF TypeOK
<1>5. TypeOK'
  BY <1>1, <1>3, <1>4 DEF TypeOK, PCs
<1>6. PlaceInv' /\ OneBufferPerBlock'
  BY <1>1 DEF PlaceInv, OneBufferPerBlock, TypeOK
<1>7. LockInv'
  BY <1>1, BcacheAssumption DEF LockInv, TypeOK, Holding
<1>8. FlagInv'
  BY <1>1 DEF FlagInv, TypeOK
<1>9. QueueInv'
  BY <1>1 DEF QueueInv, QueueHeadActive, NextRequest, Queued, TypeOK
<1> QED
  BY <1>4, <1>5, <1>6, <1>7, <1>8, <1>9

\* A request at the end of the queue: its buffer was not in it.
LEMMA IderwStep ==
  ASSUME IInv, NEW p \in Users, NEW x \in Bufs, pc[p] \in {"locked", "hold"}, b[p] = x,
         iderw(p, x), UNCHANGED <<cache, valid, holder, b, want>>
  PROVE  /\ idequeue' \in Seq(Bufs) /\ active' \in Bufs \cup {0} /\ intr' \in BOOLEAN
         /\ disk' = disk /\ pc' = [pc EXCEPT ![p] = "io"]
         /\ PlaceInv' /\ LockInv' /\ QueueInv'
<1> USE DEF IInv, cache
<1>1. /\ idequeue' = Append(idequeue, x)
      /\ active' = IF idequeue = <<>> THEN x ELSE active
      /\ pc' = [pc EXCEPT ![p] = "io"] /\ UNCHANGED <<intr, disk>>
  BY DEF iderw, StartIfFirst, Goto
<1>2. /\ idequeue' \in Seq(Bufs) /\ active' \in Bufs \cup {0} /\ intr' \in BOOLEAN
  BY <1>1 DEF TypeOK
<1>3. PlaceInv'
  BY <1>1 DEF PlaceInv, TypeOK
<1>4. LockInv'
  BY <1>1, BcacheAssumption DEF LockInv, TypeOK, Holding
<1>5. ~Queued(x)
  <2>1. ASSUME NEW q \in Users, pc[q] = "io", b[q] = x PROVE FALSE
    BY <2>1 DEF LockInv, Holding
  <2> QED
    BY <2>1 DEF QueueInv
<1>6. /\ Len(idequeue) \in Nat /\ DOMAIN idequeue = 1 .. Len(idequeue)
      /\ DOMAIN idequeue' = 1 .. Len(idequeue) + 1
      /\ \A i \in DOMAIN idequeue : idequeue'[i] = idequeue[i]
      /\ idequeue'[Len(idequeue) + 1] = x
  BY <1>1 DEF TypeOK
<1>7. QueueHeadActive'
  <2>1. active' = NextRequest(idequeue)'
    <3>1. CASE idequeue = <<>>
      <4>1. Head(idequeue') = x /\ idequeue' # <<>>
        BY <1>1, <3>1
      <4> QED
        BY <1>1, <3>1, <4>1 DEF NextRequest
    <3>2. CASE idequeue # <<>>
      <4>1. Head(idequeue') = Head(idequeue) /\ idequeue' # <<>>
        BY <1>1, <3>2 DEF TypeOK
      <4> QED
        BY <1>1, <3>2, <4>1 DEF NextRequest, QueueInv, QueueHeadActive
    <3> QED
      BY <3>1, <3>2
  <2>2. intr' => active' # 0
    BY <1>1, BcacheAssumption DEF QueueInv, QueueHeadActive, Bufs
  <2>3. \A i, j \in DOMAIN idequeue' : idequeue'[i] = idequeue'[j] => i = j
    BY <1>5, <1>6 DEF QueueInv, QueueHeadActive, Queued
  <2> QED
    BY <2>1, <2>2, <2>3 DEF QueueHeadActive
<1>8. \A y \in Bufs : Queued(y)' <=> Queued(y) \/ y = x
  BY <1>6 DEF Queued
<1>9. QueueInv'
  BY <1>1, <1>7, <1>8 DEF QueueInv, PlaceInv, TypeOK
<1> QED
  BY <1>1, <1>2, <1>3, <1>4, <1>9

\* bread() finds the data in the buffer or asks the disk for it.
LEMMA BreadStep ==
  ASSUME IInv, NEW p \in Users, bread(p)
  PROVE  IInv'
<1> USE DEF IInv, cache, flags, ide
<1>1. pc[p] = "locked" /\ UNCHANGED <<cache, flags, holder, b, want>>
  BY DEF bread
<1>2. b[p] \in Bufs
  BY <1>1 DEF PlaceInv
<1>3. RefInv' /\ OneBufferPerBlock'
  BY <1>1 DEF RefInv, Refs, OneBufferPerBlock
<1>4. CASE valid[b[p]]
  <2>1. pc' = [pc EXCEPT ![p] = "hold"] /\ UNCHANGED ide
    BY <1>4 DEF bread, Goto
  <2>2. TypeOK'
    BY <1>1, <2>1 DEF TypeOK, PCs
  <2>3. PlaceInv' /\ FlagInv'
    BY <1>1, <1>4, <2>1 DEF PlaceInv, FlagInv, TypeOK
  <2>4. LockInv'
    BY <1>1, <2>1 DEF LockInv, TypeOK, Holding
  <2>5. QueueInv'
    BY <1>1, <2>1 DEF QueueInv, QueueHeadActive, NextRequest, Queued, TypeOK
  <2> QED
    BY <1>3, <2>2, <2>3, <2>4, <2>5
<1>5. CASE ~valid[b[p]]
  <2>1. iderw(p, b[p])
    BY <1>5 DEF bread
  <2>2. /\ idequeue' \in Seq(Bufs) /\ active' \in Bufs \cup {0} /\ intr' \in BOOLEAN
        /\ disk' = disk /\ pc' = [pc EXCEPT ![p] = "io"]
        /\ PlaceInv' /\ LockInv' /\ QueueInv'
    BY <1>1, <1>2, <2>1, IderwStep
  <2>3. TypeOK'
    BY <1>1, <2>2 DEF TypeOK, PCs
  <2>4. FlagInv'
    BY <1>1, <1>5, <2>2 DEF FlagInv, TypeOK
  <2> QED
    BY <1>3, <2>2, <2>3, <2>4
<1> QED
  BY <1>4, <1>5

\* The holder changes its buffer, and pins it or sends it to the disk.
LEMMA ChangeStep ==
  ASSUME IInv, NEW p \in Users, NEW v \in Vals, log_write(p, v) \/ bwrite(p, v)
  PROVE  IInv'
<1> USE DEF IInv, cache, ide, proc
<1>1. /\ pc[p] = "hold" /\ data' = [data EXCEPT ![b[p]] = v]
      /\ dirty' = [dirty EXCEPT ![b[p]] = TRUE]
      /\ UNCHANGED <<cache, valid, holder, b, want>>
  BY DEF log_write, bwrite
<1>2. b[p] \in Bufs /\ valid[b[p]] /\ holder[b[p]] = p
  BY <1>1 DEF PlaceInv, FlagInv, LockInv, Holding
<1>3. RefInv' /\ OneBufferPerBlock'
  BY <1>1 DEF RefInv, Refs, OneBufferPerBlock
<1>4. \A q \in Users : pc[q] \in Holding /\ q # p => b[q] # b[p] /\ b[q] \in Bufs
  BY <1>2 DEF LockInv, PlaceInv, Holding
<1>5. \A x \in Bufs : dirty'[x] = (dirty[x] \/ x = b[p])
  BY <1>1 DEF TypeOK
<1>6. data' \in [Bufs -> Vals] /\ dirty' \in [Bufs -> BOOLEAN]
  BY <1>1 DEF TypeOK
<1>7. CASE log_write(p, v)
  <2>1. UNCHANGED <<ide, proc>>
    BY <1>7 DEF log_write
  <2>2. TypeOK' /\ PlaceInv'
    BY <1>1, <1>6, <2>1 DEF TypeOK, PlaceInv
  <2>3. LockInv' /\ QueueInv'
    BY <1>1, <2>1 DEF LockInv, QueueInv, QueueHeadActive, NextRequest, Queued
  <2>4. FlagInv'
    BY <1>1, <1>2, <1>4, <1>5, <2>1 DEF FlagInv, Holding
  <2> QED
    BY <1>3, <2>2, <2>3, <2>4
<1>8. CASE bwrite(p, v)
  <2>1. iderw(p, b[p])
    BY <1>8 DEF bwrite
  <2>2. /\ idequeue' \in Seq(Bufs) /\ active' \in Bufs \cup {0} /\ intr' \in BOOLEAN
        /\ disk' = disk /\ pc' = [pc EXCEPT ![p] = "io"]
        /\ PlaceInv' /\ LockInv' /\ QueueInv'
    BY <1>1, <1>2, <2>1, IderwStep
  <2>3. TypeOK'
    BY <1>1, <1>6, <2>2 DEF TypeOK, PCs
  <2>4. FlagInv'
    BY <1>1, <1>2, <1>4, <1>5, <2>2 DEF FlagInv, Holding, TypeOK
  <2> QED
    BY <1>3, <2>2, <2>3, <2>4
<1> QED
  BY <1>7, <1>8

\* Woken by the interrupt of its own request, iderw() returns.
LEMMA IderwReturnStep ==
  ASSUME IInv, NEW p \in Users, IderwReturn(p)
  PROVE  IInv' /\ pc' = [pc EXCEPT ![p] = "hold"]
<1> USE DEF IInv, cache, flags, ide
<1>1. pc[p] = "iowoken" /\ UNCHANGED <<cache, flags, holder, ide, b, want>>
  BY DEF IderwReturn
<1>2. valid[b[p]] /\ ~dirty[b[p]]
  BY <1>1 DEF FlagInv
<1>3. pc' = [pc EXCEPT ![p] = "hold"]
  BY <1>2 DEF IderwReturn, Goto
<1>4. TypeOK' /\ RefInv' /\ OneBufferPerBlock'
  BY <1>1, <1>3 DEF TypeOK, PCs, RefInv, Refs, OneBufferPerBlock
<1>5. PlaceInv' /\ FlagInv'
  BY <1>1, <1>2, <1>3 DEF PlaceInv, FlagInv, TypeOK
<1>6. LockInv'
  BY <1>1, <1>3 DEF LockInv, TypeOK, Holding
<1>7. QueueInv'
  BY <1>1, <1>3 DEF QueueInv, QueueHeadActive, NextRequest, Queued, TypeOK
<1> QED
  BY <1>3, <1>4, <1>5, <1>6, <1>7

\* The request at the head of the queue and the process that waits for it.
LEMMA ActiveFacts ==
  ASSUME IInv, active # 0
  PROVE  /\ idequeue # <<>> /\ active = Head(idequeue) /\ active \in Bufs
         /\ \E p \in Users : /\ pc[p] = "io" /\ b[p] = active /\ holder[active] = p
                            /\ want[p] \in Blocks /\ blockno[active] = want[p]
<1>1. idequeue # <<>> /\ active = Head(idequeue)
  BY DEF IInv, QueueInv, QueueHeadActive, NextRequest
<1>2. 1 \in DOMAIN idequeue /\ idequeue[1] = active /\ active \in Bufs
  BY <1>1 DEF IInv, TypeOK
<1>3. Queued(active)
  BY <1>2 DEF Queued
<1>4. PICK p \in Users : pc[p] = "io" /\ b[p] = active
  BY <1>2, <1>3 DEF IInv, QueueInv
<1> QED
  BY <1>1, <1>2, <1>4 DEF IInv, PlaceInv, LockInv, Holding

\* The disk has carried out the active command.
LEMMA DiskDoneStep ==
  ASSUME IInv, DiskDone
  PROVE  IInv'
<1> USE DEF IInv, cache, flags, proc
<1>1. /\ active # 0 /\ intr' = TRUE
      /\ disk' = IF dirty[active]
                 THEN [disk EXCEPT ![blockno[active]] = data[active]] ELSE disk
      /\ UNCHANGED <<cache, flags, holder, idequeue, active, proc>>
  BY DEF DiskDone
<1>2. TypeOK'
  <2>1. intr' \in BOOLEAN
    BY <1>1, Zenon
  <2>2. disk' \in [Blocks -> Vals]
    BY <1>1, ActiveFacts DEF TypeOK
  <2> QED
    BY <1>1, <2>1, <2>2 DEF TypeOK
<1>3. RefInv' /\ OneBufferPerBlock' /\ PlaceInv'
  BY <1>1 DEF RefInv, Refs, OneBufferPerBlock, PlaceInv
<1>4. LockInv' /\ FlagInv'
  BY <1>1 DEF LockInv, FlagInv
<1>5. QueueInv'
  BY <1>1 DEF QueueInv, QueueHeadActive, NextRequest, Queued
<1> QED
  BY <1>2, <1>3, <1>4, <1>5

\* The interrupt finds its request at the head of the queue, wakes the process
\* that waits for it and starts the next one.
LEMMA IdeintrStep ==
  ASSUME IInv, ideintr
  PROVE  IInv'
<1> USE DEF IInv, cache
<1>1. PICK x \in Bufs : x = Head(idequeue) /\ x = active /\ idequeue # <<>>
  BY ActiveFacts DEF ideintr, QueueInv, QueueHeadActive
<1>2. /\ intr /\ intr' = FALSE
      /\ \E err \in ReadErrors :
            data' = IF dirty[x] \/ err THEN data
                    ELSE [data EXCEPT ![x] = disk[blockno[x]]]
      /\ valid' = [valid EXCEPT ![x] = TRUE]
      /\ dirty' = [dirty EXCEPT ![x] = FALSE]
      /\ pc' = [q \in Users |-> IF pc[q] = "io" /\ b[q] = x THEN "iowoken" ELSE pc[q]]
      /\ idequeue' = Tail(idequeue) /\ active' = NextRequest(Tail(idequeue))
      /\ UNCHANGED <<cache, holder, disk, b, want>>
  BY <1>1 DEF ideintr, Dequeue
<1>3. PICK p \in Users : /\ pc[p] = "io" /\ b[p] = x /\ holder[x] = p
                         /\ blockno[x] \in Blocks
  BY <1>1, ActiveFacts, BcacheAssumption DEF Bufs
<1>4. \A q \in Users : pc[q] \in Holding /\ b[q] = x => q = p
  BY <1>3 DEF LockInv, Holding
<1>5. \A q \in Users : pc'[q] = IF q = p THEN "iowoken" ELSE pc[q]
  BY <1>2, <1>3, <1>4 DEF Holding
<1>6. /\ Len(idequeue) \in Nat \ {0} /\ DOMAIN idequeue = 1 .. Len(idequeue)
      /\ Tail(idequeue) \in Seq(Bufs)
      /\ DOMAIN Tail(idequeue) = 1 .. Len(idequeue) - 1
      /\ \A i \in DOMAIN Tail(idequeue) : Tail(idequeue)[i] = idequeue[i + 1]
      /\ idequeue[1] = x
  BY <1>1 DEF TypeOK
<1>7. \A i, j \in DOMAIN idequeue : idequeue[i] = idequeue[j] => i = j
  BY DEF QueueInv, QueueHeadActive
<1>8. NextRequest(Tail(idequeue)) \in Bufs \cup {0}
  BY <1>6 DEF NextRequest
<1>9. TypeOK'
  <2>1. intr' \in BOOLEAN
    BY <1>2, Zenon
  <2>2. data' \in [Bufs -> Vals]
    BY <1>2, <1>3 DEF TypeOK
  <2>3. pc' \in [Users -> PCs]
    BY <1>2 DEF TypeOK, PCs
  <2> QED
    BY <1>2, <1>6, <1>8, <2>1, <2>2, <2>3 DEF TypeOK
<1>10. RefInv' /\ OneBufferPerBlock'
  BY <1>2 DEF RefInv, Refs, OneBufferPerBlock
<1>11. PlaceInv'
  BY <1>2, <1>3, <1>5 DEF PlaceInv
<1>12. LockInv'
  BY <1>2, <1>3, <1>5 DEF LockInv, Holding
<1>13. FlagInv'
  <2>1. \A y \in Bufs : /\ valid'[y] = (valid[y] \/ y = x)
                       /\ dirty'[y] = (dirty[y] /\ y # x)
    BY <1>2 DEF TypeOK
  <2>2. ASSUME NEW q \in Users, q # p
        PROVE  /\ pc'[q] \in {"hold", "iowoken"} => valid'[b[q]]
               /\ pc'[q] = "iowoken" => ~dirty'[b[q]]
               /\ pc'[q] = "io" => dirty'[b[q]] \/ ~valid'[b[q]]
    <3>1. pc[q] \in Holding => b[q] \in Bufs /\ b[q] # x
      BY <1>4, <2>2 DEF PlaceInv, Holding
    <3> QED
      BY <1>5, <2>1, <2>2, <3>1 DEF FlagInv, Holding
  <2>3. pc'[p] = "iowoken" /\ valid'[b[p]] /\ ~dirty'[b[p]]
    BY <1>3, <1>5, <2>1
  <2> QED
    BY <1>2, <2>1, <2>2, <2>3 DEF FlagInv
<1>14. QueueHeadActive'
  <2>1. \A i, j \in DOMAIN Tail(idequeue) :
          Tail(idequeue)[i] = Tail(idequeue)[j] => i = j
    <3>1. ASSUME NEW i \in DOMAIN Tail(idequeue), NEW j \in DOMAIN Tail(idequeue),
                 Tail(idequeue)[i] = Tail(idequeue)[j]
          PROVE  i = j
      <4>1. i + 1 \in DOMAIN idequeue /\ j + 1 \in DOMAIN idequeue
        BY <1>6
      <4>2. i + 1 = j + 1
        BY <1>6, <1>7, <3>1, <4>1
      <4> QED
        BY <1>6, <4>2
    <3> QED
      BY <3>1
  <2> QED
    BY <1>2, <2>1 DEF QueueHeadActive
<1>15. \A y \in Bufs : Queued(y)' <=> Queued(y) /\ y # x
  <2>1. ASSUME NEW y \in Bufs, Queued(y)' PROVE Queued(y) /\ y # x
    <3>1. PICK i \in DOMAIN Tail(idequeue) : Tail(idequeue)[i] = y
      BY <1>2, <2>1 DEF Queued
    <3>2. i + 1 \in DOMAIN idequeue /\ idequeue[i + 1] = y /\ i + 1 # 1
      BY <1>6, <3>1
    <3>3. 1 \in DOMAIN idequeue
      BY <1>6
    <3> QED
      BY <1>6, <1>7, <3>2, <3>3 DEF Queued
  <2>2. ASSUME NEW y \in Bufs, Queued(y), y # x PROVE Queued(y)'
    <3>1. PICK i \in DOMAIN idequeue : idequeue[i] = y
      BY <2>2 DEF Queued
    <3>2. i - 1 \in DOMAIN Tail(idequeue) /\ (i - 1) + 1 = i
      BY <1>6, <2>2, <3>1
    <3>3. Tail(idequeue)[i - 1] = y
      BY <1>6, <3>1, <3>2
    <3> QED
      BY <1>2, <3>2, <3>3 DEF Queued
  <2> QED
    BY <2>1, <2>2
<1>16. QueueInv'
  <2>1. ASSUME NEW q \in Users, pc'[q] = "io" PROVE Queued(b[q])'
    <3>1. q # p /\ pc[q] = "io" /\ b[q] \in Bufs /\ b[q] # x
      BY <1>4, <1>5, <2>1 DEF PlaceInv, Holding
    <3>2. Queued(b[q])
      BY <3>1 DEF QueueInv
    <3> QED
      BY <1>2, <1>15, <3>1, <3>2 DEF Queued
  <2>2. ASSUME NEW y \in Bufs, Queued(y)'
        PROVE  \E q \in Users : pc'[q] = "io" /\ b[q] = y
    BY <1>3, <1>5, <1>15, <2>2 DEF QueueInv
  <2> QED
    BY <1>2, <1>14, <2>1, <2>2 DEF QueueInv
<1> QED
  BY <1>9, <1>10, <1>11, <1>12, <1>13, <1>16

\* IInv is inductive.
LEMMA IInvStep == IInv /\ [Next]_vars => IInv'
<1> SUFFICES ASSUME IInv, [Next]_vars PROVE IInv'
  OBVIOUS
<1>1. ASSUME NEW p \in Users, Step(p) PROVE IInv'
  BY <1>1, AcquireStep, BreadStep, IderwReturnStep, ReleaseStep, BrelseStep DEF Step
<1>2. ASSUME NEW p \in Users, NEW k \in Blocks, BgetCached(p, k) \/ BgetRecycle(p, k)
      PROVE  IInv'
  BY <1>2, BgetCachedStep, BgetRecycleStep
<1>3. ASSUME NEW p \in Users, NEW v \in Vals, log_write(p, v) \/ bwrite(p, v)
      PROVE  IInv'
  BY <1>3, ChangeStep
<1>4. CASE Device
  BY <1>4, DiskDoneStep, IdeintrStep DEF Device
<1>5. CASE UNCHANGED vars
  <2> USE <1>5 DEF vars, cache, flags, ide, proc
  <2>1. TypeOK' /\ PlaceInv' /\ OneBufferPerBlock'
    BY DEF IInv, TypeOK, PlaceInv, OneBufferPerBlock
  <2>3. RefInv'
    BY DEF IInv, RefInv, Refs
  <2>2. LockInv' /\ FlagInv' /\ QueueInv'
    BY DEF IInv, LockInv, FlagInv, QueueInv, QueueHeadActive, NextRequest, Queued
  <2> QED
    BY <2>1, <2>2, <2>3 DEF IInv
<1> QED
  BY <1>1, <1>2, <1>3, <1>4, <1>5 DEF Next

\* The invariant holds in every reachable state.
LEMMA Invariant == Spec => []IInv
BY InitIInv, IInvStep, PTL DEF Spec

-----------------------------------------------------------------------------
\* Two buffers never cache the same block, and the buffer that a process has
\* looked up, waits for or holds stays the buffer of the block it asked for:
\* bget() gives up bcache.lock between each of its steps.
THEOREM CacheSoundAlways == Spec => []CacheSound
<1>1. IInv => CacheSound
  <2> SUFFICES ASSUME IInv PROVE HeldIsWanted
    BY DEF IInv, CacheSound
  <2>1. ASSUME NEW p \in Users, pc[p] \notin {"idle", "panic"}
        PROVE  blockno[b[p]] = want[p] /\ refcnt[b[p]] > 0
    <3>1. b[p] \in Bufs /\ blockno[b[p]] = want[p]
      BY <2>1 DEF IInv, PlaceInv
    <3> QED
      BY <3>1, UsedIsCounted DEF IInv
  <2> QED
    BY <2>1 DEF IInv, LockInv, HeldIsWanted, Holding
<1> QED
  BY <1>1, Invariant, PTL

\* An interrupt of the disk always finds its request at the head of idequeue, no
\* buffer is queued twice, and nobody sleeps for a free lock or for a request
\* that is not in the queue.
THEOREM RequestsSoundAlways == Spec => []RequestsSound
<1>1. IInv => RequestsSound
  BY DEF IInv, RequestsSound, QueueInv, SleeperHasReason, LockInv, Queued
<1> QED
  BY <1>1, Invariant, PTL

-----------------------------------------------------------------------------
(* The cache implements BlockStore *)

\* The process that has a block.
Owner == [k \in Blocks |-> IF \E p \in Users : Uses(p, k)
                           THEN CHOOSE p \in Users : Uses(p, k)
                           ELSE Nobody]

\* Two processes that hold a buffer of the same block are one.
LEMMA OneHolder ==
  ASSUME IInv, NEW p \in Users, NEW q \in Users,
         pc[p] \in Holding, pc[q] \in Holding, want[p] = want[q]
  PROVE  p = q
<1>1. /\ b[p] \in Bufs /\ blockno[b[p]] = want[p] /\ want[p] \in Blocks
      /\ b[q] \in Bufs /\ blockno[b[q]] = want[q] /\ want[q] \in Blocks
  BY DEF IInv, PlaceInv, Holding
<1>2. b[p] = b[q]
  BY <1>1, BcacheAssumption DEF IInv, OneBufferPerBlock
<1> QED
  BY <1>2 DEF IInv, LockInv

\* A block has at most one user, and Owner names it.
LEMMA OwnerIs ==
  IInv => \A k \in Blocks :
            /\ \A p \in Users : Uses(p, k) => Owner[k] = p
            /\ (\A p \in Users : ~Uses(p, k)) => Owner[k] = Nobody
<1> SUFFICES ASSUME IInv, NEW k \in Blocks
             PROVE  /\ \A p \in Users : Uses(p, k) => Owner[k] = p
                    /\ (\A p \in Users : ~Uses(p, k)) => Owner[k] = Nobody
  OBVIOUS
<1>1. ASSUME NEW p \in Users, NEW q \in Users, Uses(p, k), Uses(q, k) PROVE p = q
  BY <1>1, OneHolder DEF Uses, Holding
<1> HIDE DEF Uses
<1> QED
  BY <1>1 DEF Owner

\* The same in the next state.
LEMMA OwnerNext ==
  ASSUME IInv'
  PROVE  \A k \in Blocks :
            /\ \A p \in Users : Uses(p, k)' => Owner'[k] = p
            /\ (\A p \in Users : ~Uses(p, k)') => Owner'[k] = Nobody
<1>1. (IInv => \A k \in Blocks :
            /\ \A p \in Users : Uses(p, k) => Owner[k] = p
            /\ (\A p \in Users : ~Uses(p, k)) => Owner[k] = Nobody)'
  BY OwnerIs, PTL
<1> QED
  BY <1>1

\* Who has a block does not change when nobody starts or stops using one.
LEMMA OwnerSame ==
  ASSUME IInv, IInv', \A p \in Users, k \in Blocks : Uses(p, k)' <=> Uses(p, k)
  PROVE  Owner' = Owner
<1>1. ASSUME NEW k \in Blocks PROVE Owner'[k] = Owner[k]
  <2> HIDE DEF Owner, Uses
  <2> QED
    BY OwnerIs, OwnerNext
<1> QED
  BY <1>1 DEF Owner

\* The contents of a block are those of its valid buffer, or else of the disk.
LEMMA ContentsIs ==
  IInv => \A k \in Blocks :
            /\ \A x \in Bufs : blockno[x] = k /\ valid[x] => Contents[k] = data[x]
            /\ (\A x \in Bufs : ~(blockno[x] = k /\ valid[x])) => Contents[k] = disk[k]
<1> SUFFICES ASSUME IInv, NEW k \in Blocks
             PROVE  /\ \A x \in Bufs : blockno[x] = k /\ valid[x] => Contents[k] = data[x]
                    /\ (\A x \in Bufs : ~(blockno[x] = k /\ valid[x])) =>
                          Contents[k] = disk[k]
  OBVIOUS
<1>1. \A x, y \in FoundValid(k) : x = y
  BY BcacheAssumption DEF FoundValid, IInv, OneBufferPerBlock
<1>2. ASSUME NEW x \in Bufs, blockno[x] = k, valid[x] PROVE Contents[k] = data[x]
  <2>1. x \in FoundValid(k)
    BY <1>2 DEF FoundValid
  <2>2. (CHOOSE y \in FoundValid(k) : TRUE) = x
    BY <1>1, <2>1
  <2> QED
    BY <2>1, <2>2 DEF Contents
<1>3. ASSUME \A x \in Bufs : ~(blockno[x] = k /\ valid[x]) PROVE Contents[k] = disk[k]
  BY <1>3 DEF Contents, FoundValid
<1> QED
  BY <1>2, <1>3

\* The same in the next state.
LEMMA ContentsNext ==
  ASSUME IInv'
  PROVE  \A k \in Blocks :
            /\ \A x \in Bufs : blockno'[x] = k /\ valid'[x] => Contents'[k] = data'[x]
            /\ (\A x \in Bufs : ~(blockno'[x] = k /\ valid'[x])) =>
                  Contents'[k] = disk'[k]
<1>1. (IInv => \A k \in Blocks :
            /\ \A x \in Bufs : blockno[x] = k /\ valid[x] => Contents[k] = data[x]
            /\ (\A x \in Bufs : ~(blockno[x] = k /\ valid[x])) => Contents[k] = disk[k])'
  BY ContentsIs, PTL
<1> QED
  BY <1>1

\* A block keeps its contents if its buffers and its place on the disk do.
LEMMA ContentsKept ==
  ASSUME IInv, IInv', NEW j \in Blocks, blockno' = blockno, disk'[j] = disk[j],
         \A y \in Bufs : blockno[y] = j => data'[y] = data[y] /\ valid'[y] = valid[y]
  PROVE  Contents'[j] = Contents[j]
<1>1. CASE \E y \in Bufs : blockno[y] = j /\ valid[y]
  <2>1. PICK y \in Bufs : blockno[y] = j /\ valid[y]
    BY <1>1
  <2>2. Contents[j] = data[y]
    BY <2>1, ContentsIs
  <2>3. blockno'[y] = j /\ valid'[y] /\ data'[y] = data[y]
    BY <2>1
  <2>4. Contents'[j] = data'[y]
    BY <2>3, ContentsNext
  <2> QED
    BY <2>2, <2>3, <2>4
<1>2. CASE \A y \in Bufs : ~(blockno[y] = j /\ valid[y])
  <2>1. Contents[j] = disk[j]
    BY <1>2, ContentsIs
  <2>2. \A y \in Bufs : ~(blockno'[y] = j /\ valid'[y])
    BY <1>2
  <2>3. Contents'[j] = disk'[j]
    BY <2>2, ContentsNext
  <2> QED
    BY <2>1, <2>3
<1> QED
  BY <1>1, <1>2

\* The buffer that the disk works on belongs to a process that waits in iderw().
LEMMA ActiveWaiter ==
  ASSUME IInv, active # 0
  PROVE  /\ active \in Bufs /\ active = Head(idequeue)
         /\ \E p \in Users : pc[p] = "io" /\ b[p] = active
<1>1. idequeue # <<>> /\ active = Head(idequeue) /\ idequeue \in Seq(Bufs)
  BY DEF IInv, TypeOK, QueueInv, QueueHeadActive, NextRequest
<1>2. 1 \in DOMAIN idequeue /\ idequeue[1] = active /\ active \in Bufs
  BY <1>1
<1>3. Queued(active)
  BY <1>2 DEF Queued
<1> QED
  BY <1>1, <1>2, <1>3 DEF IInv, QueueInv

\* A buffer that its holder has in its hands is not the one the disk works on.
LEMMA HeldNotActive ==
  ASSUME IInv, NEW p \in Users, pc[p] = "hold"
  PROVE  b[p] \in Bufs /\ b[p] # active
<1>1. b[p] \in Bufs
  BY DEF IInv, PlaceInv
<1>2. ASSUME b[p] = active PROVE FALSE
  <2>1. PICK q \in Users : pc[q] = "io" /\ b[q] = active
    BY <1>1, <1>2, ActiveWaiter, BcacheAssumption DEF Bufs
  <2>2. holder[b[p]] = p /\ holder[b[q]] = q
    BY <2>1 DEF IInv, LockInv, Holding
  <2> QED
    BY <1>2, <2>1, <2>2
<1> QED
  BY <1>1, <1>2

\* Without read errors, the disk and the clean buffers stay equal.
LEMMA DataStep ==
  ASSUME ReadErrors = {FALSE}
  PROVE  IInv /\ DataInv /\ [Next]_vars => DataInv'
<1> SUFFICES ASSUME IInv, DataInv, [Next]_vars PROVE DataInv'
  OBVIOUS
<1> USE DEF cache, flags, ide, proc
<1>1. ASSUME UNCHANGED <<blockno, valid, dirty, data, disk, intr, active>>
      PROVE  DataInv'
  BY <1>1 DEF DataInv
<1>2. ASSUME NEW p \in Users, NEW k \in Blocks, BgetCached(p, k) PROVE DataInv'
  BY <1>1, <1>2 DEF BgetCached
<1>3. ASSUME NEW p \in Users, NEW k \in Blocks, BgetRecycle(p, k) PROVE DataInv'
  <2>1. CASE Free = {}
    BY <1>1, <1>3, <2>1 DEF BgetRecycle
  <2>2. CASE Free # {}
    <3>1. PICK x \in Bufs :
             /\ blockno' = [blockno EXCEPT ![x] = k]
             /\ valid' = [valid EXCEPT ![x] = FALSE]
             /\ dirty' = [dirty EXCEPT ![x] = FALSE]
      BY <1>3, <2>2 DEF BgetRecycle
    <3>2. UNCHANGED <<data, disk, intr, active>>
      BY <1>3 DEF BgetRecycle
    <3> QED
      BY <3>1, <3>2 DEF DataInv, IInv, TypeOK
  <2> QED
    BY <2>1, <2>2
<1>4. ASSUME NEW p \in Users,
             acquiresleep(p) \/ IderwReturn(p) \/ releasesleep(p) \/ brelse(p)
      PROVE  DataInv'
  BY <1>1, <1>4 DEF acquiresleep, IderwReturn, releasesleep, brelse
<1>5. active = 0 => ~intr
  BY DEF IInv, QueueInv, QueueHeadActive
<1>6. active = 0 <=> idequeue = <<>>
  <2>1. idequeue \in Seq(Bufs) /\ active = IF idequeue = <<>> THEN 0 ELSE Head(idequeue)
    BY DEF IInv, TypeOK, QueueInv, QueueHeadActive, NextRequest
  <2>2. idequeue # <<>> => Head(idequeue) \in Bufs
    BY <2>1
  <2> QED
    BY <2>1, <2>2, BcacheAssumption DEF Bufs
<1>7. ASSUME NEW p \in Users, bread(p) PROVE DataInv'
  <2>1. UNCHANGED <<blockno, valid, dirty, data, disk, intr>>
    BY <1>7 DEF bread, iderw
  <2>2. active' = active \/ (active = 0 /\ ~intr)
    BY <1>5, <1>6, <1>7 DEF bread, iderw, StartIfFirst
  <2> QED
    BY <2>1, <2>2 DEF DataInv
<1>8. ASSUME NEW p \in Users, NEW v \in Vals, log_write(p, v) \/ bwrite(p, v)
      PROVE  DataInv'
  <2>1. /\ pc[p] = "hold" /\ dirty' = [dirty EXCEPT ![b[p]] = TRUE]
        /\ data' = [data EXCEPT ![b[p]] = v]
        /\ UNCHANGED <<blockno, valid, disk, intr>>
    BY <1>8 DEF log_write, bwrite, iderw
  <2>2. active' = active \/ (active = 0 /\ ~intr)
    BY <1>5, <1>6, <1>8 DEF log_write, bwrite, iderw, StartIfFirst
  <2>3. b[p] \in Bufs /\ b[p] # active
    BY <2>1, HeldNotActive
  <2>4. ASSUME NEW x \in Bufs
        PROVE  /\ valid'[x] => blockno'[x] \in Blocks
               /\ valid'[x] /\ (~dirty'[x] \/ (intr' /\ active' = x)) =>
                     data'[x] = disk'[blockno'[x]]
    <3>1. CASE x = b[p]
      BY <2>1, <2>2, <2>3, <3>1 DEF DataInv, IInv, TypeOK
    <3>2. CASE x # b[p]
      BY <2>1, <2>2, <2>3, <3>2 DEF DataInv, IInv, TypeOK
    <3> QED
      BY <3>1, <3>2
  <2> QED
    BY <2>4 DEF DataInv
<1>9. CASE DiskDone
  <2>1. /\ active # 0 /\ intr' = TRUE
        /\ disk' = IF dirty[active] THEN [disk EXCEPT ![blockno[active]] = data[active]]
                                    ELSE disk
        /\ UNCHANGED <<blockno, valid, dirty, data, active>>
    BY <1>9 DEF DiskDone
  <2>2. active \in Bufs
    BY <2>1, ActiveWaiter
  <2>3. ASSUME NEW x \in Bufs, valid[x], ~dirty[x] \/ active = x
        PROVE  data[x] = disk'[blockno[x]]
    <3>1. blockno[x] \in Blocks
      BY <2>3 DEF DataInv
    <3>2. CASE dirty[active] /\ x = active
      BY <2>1, <3>1, <3>2 DEF IInv, TypeOK
    <3>3. CASE dirty[active] /\ x # active
      <4>1. blockno[x] # blockno[active] /\ data[x] = disk[blockno[x]]
        BY <2>2, <2>3, <3>1, <3>3, BcacheAssumption
        DEF DataInv, IInv, OneBufferPerBlock
      <4> QED
        BY <2>1, <3>1, <4>1 DEF IInv, TypeOK
    <3>4. CASE ~dirty[active]
      BY <2>1, <2>3, <3>4 DEF DataInv
    <3> QED
      BY <3>2, <3>3, <3>4
  <2> QED
    BY <2>1, <2>3 DEF DataInv
<1>10. CASE ideintr
  <2> DEFINE h == Head(idequeue)
  <2>1. /\ intr /\ intr' = FALSE
        /\ data' = IF dirty[h] THEN data ELSE [data EXCEPT ![h] = disk[blockno[h]]]
        /\ valid' = [valid EXCEPT ![h] = TRUE] /\ dirty' = [dirty EXCEPT ![h] = FALSE]
        /\ UNCHANGED <<blockno, disk>>
    BY <1>10 DEF ideintr
  <2>2. h \in Bufs /\ h = active /\ \E p \in Users : pc[p] = "io" /\ b[p] = active
    BY <1>5, <2>1, ActiveWaiter
  <2>3. blockno[h] \in Blocks
    BY <2>2 DEF IInv, PlaceInv
  <2>4. dirty[h] => valid[h]
    BY <2>2 DEF IInv, FlagInv
  <2> HIDE DEF h
  <2>5. ASSUME NEW x \in Bufs, valid'[x], ~dirty'[x]
        PROVE  blockno[x] \in Blocks /\ data'[x] = disk[blockno[x]]
    <3>1. CASE x = h
      <4>1. CASE dirty[h]
        BY <2>1, <2>2, <2>3, <2>4, <3>1, <4>1 DEF DataInv
      <4>2. CASE ~dirty[h]
        BY <2>1, <2>2, <2>3, <3>1, <4>2 DEF IInv, TypeOK
      <4> QED
        BY <4>1, <4>2
    <3>2. CASE x # h
      <4>1. valid[x] /\ ~dirty[x] /\ data'[x] = data[x]
        BY <2>1, <2>5, <3>2 DEF IInv, TypeOK
      <4> QED
        BY <4>1 DEF DataInv
    <3> QED
      BY <3>1, <3>2
  <2>6. \A x \in Bufs : valid'[x] /\ dirty'[x] => valid[x]
    BY <2>1 DEF IInv, TypeOK
  <2> QED
    BY <2>1, <2>5, <2>6 DEF DataInv
<1>11. CASE UNCHANGED vars
  BY <1>1, <1>11 DEF vars
<1> QED
  BY <1>2, <1>3, <1>4, <1>7, <1>8, <1>9, <1>10, <1>11 DEF Next, Step, Device

\* Every step of the cache is a step of the block store, or none.
LEMMA StoreStep ==
  ASSUME ReadErrors = {FALSE}
  PROVE  IInv /\ IInv' /\ DataInv /\ DataInv' /\ [Next]_vars => [BS!BNext]_(BS!bvars)
<1> SUFFICES ASSUME IInv, IInv', DataInv, DataInv', [Next]_vars
             PROVE  BS!BNext \/ UNCHANGED <<Contents, disk, Owner>>
  BY DEF BS!bvars, Owner
<1> USE DEF cache, flags, ide, proc
<1>1. ASSUME UNCHANGED <<blockno, valid, data, disk>> PROVE Contents' = Contents
  BY <1>1 DEF Contents, FoundValid
<1>2. ASSUME NEW p \in Users, NEW k \in Blocks, BgetCached(p, k)
      PROVE  UNCHANGED <<Contents, disk, Owner>>
  <2>1. \A q \in Users, j \in Blocks : Uses(q, j)' <=> Uses(q, j)
    BY <1>2 DEF BgetCached, Goto, Uses, IInv, TypeOK
  <2> QED
    BY <1>1, <1>2, <2>1, OwnerSame DEF BgetCached
<1>3. ASSUME NEW p \in Users, NEW k \in Blocks, BgetRecycle(p, k)
      PROVE  UNCHANGED <<Contents, disk, Owner>>
  <2>1. CASE Free = {}
    <3>1. \A q \in Users, j \in Blocks : Uses(q, j)' <=> Uses(q, j)
      BY <1>3, <2>1 DEF BgetRecycle, Goto, Uses, IInv, TypeOK
    <3> QED
      BY <1>1, <1>3, <2>1, <3>1, OwnerSame DEF BgetRecycle
  <2>2. CASE Free # {}
    <3>1. PICK x \in Bufs :
             /\ x \in Free
             /\ blockno' = [blockno EXCEPT ![x] = k]
             /\ valid' = [valid EXCEPT ![x] = FALSE]
             /\ b' = [b EXCEPT ![p] = x]
      BY <1>3, <2>2 DEF BgetRecycle, LeastRecent
    <3>2. /\ UNCHANGED <<data, disk>> /\ want' = [want EXCEPT ![p] = k]
          /\ pc[p] = "idle" /\ pc' = [pc EXCEPT ![p] = "lock"] /\ Found(k) = {}
      BY <1>3, <2>2 DEF BgetRecycle, Goto
    <3>3. refcnt[x] = 0 /\ ~dirty[x]
      BY <3>1 DEF Free
    <3>4. \A q \in Users : pc[q] \in Holding => b[q] \in Bufs /\ b[q] # x
      BY <3>3, UsedIsCounted DEF IInv, PlaceInv, Holding
    <3>5. \A q \in Users, j \in Blocks : Uses(q, j)' <=> Uses(q, j)
      BY <3>1, <3>2, <3>4 DEF Uses, Holding, IInv, TypeOK
    <3>6. ASSUME NEW j \in Blocks PROVE Contents'[j] = Contents[j]
      <4>1. CASE \E y \in Bufs : y # x /\ blockno[y] = j /\ valid[y]
        <5>1. PICK y \in Bufs : y # x /\ blockno[y] = j /\ valid[y]
          BY <4>1
        <5>2. blockno'[y] = j /\ valid'[y] /\ data'[y] = data[y]
          BY <3>1, <3>2, <5>1 DEF IInv, TypeOK
        <5> QED
          BY <5>1, <5>2, ContentsIs, ContentsNext
      <4>2. CASE \A y \in Bufs : y # x => ~(blockno[y] = j /\ valid[y])
        <5>1. \A y \in Bufs : ~(blockno'[y] = j /\ valid'[y])
          BY <3>1, <4>2 DEF IInv, TypeOK
        <5>2. Contents'[j] = disk[j]
          BY <3>2, <5>1, ContentsNext
        <5>3. CASE blockno[x] = j /\ valid[x]
          BY <3>3, <5>2, <5>3, ContentsIs DEF DataInv
        <5>4. CASE ~(blockno[x] = j /\ valid[x])
          <6>1. \A y \in Bufs : ~(blockno[y] = j /\ valid[y])
            BY <4>2, <5>4
          <6> QED
            BY <5>2, <6>1, ContentsIs
        <5> QED
          BY <5>3, <5>4
      <4> QED
        BY <4>1, <4>2
    <3>7. Contents' = Contents
      BY <3>6 DEF Contents
    <3> QED
      BY <3>2, <3>5, <3>7, OwnerSame
  <2> QED
    BY <2>1, <2>2
<1>4. ASSUME NEW p \in Users, acquiresleep(p) \/ IderwReturn(p) \/ brelse(p)
      PROVE  UNCHANGED <<Contents, disk, Owner>>
  <2>1. UNCHANGED <<blockno, valid, data, disk>>
    BY <1>4 DEF acquiresleep, IderwReturn, brelse
  <2>2. \A q \in Users, j \in Blocks : Uses(q, j)' <=> Uses(q, j)
    <3>1. CASE acquiresleep(p)
      BY <3>1 DEF acquiresleep, Goto, Uses, IInv, TypeOK
    <3>2. CASE IderwReturn(p)
      BY <3>2 DEF IderwReturn, Goto, Uses, IInv, TypeOK, FlagInv
    <3>3. CASE brelse(p)
      BY <3>3 DEF brelse, Goto, Uses, IInv, TypeOK
    <3> QED
      BY <1>4, <3>1, <3>2, <3>3
  <2> QED
    BY <1>1, <2>1, <2>2, OwnerSame
\* Somebody begins to use the block it wants.
<1>5. ASSUME NEW p \in Users, pc[p] \in Holding, ~Uses(p, want[p]),
             \A q \in Users, j \in Blocks :
                Uses(q, j)' <=> (Uses(q, j) \/ (q = p /\ j = want[p])),
             UNCHANGED <<Contents, disk>>
      PROVE  BS!BNext
  <2>1. want[p] \in Blocks
    BY <1>5 DEF IInv, PlaceInv, Holding
  <2>2. \A q \in Users : ~Uses(q, want[p])
    BY <1>5, OneHolder DEF Uses, Holding
  <2>3. \A k \in Blocks :
            /\ \A q \in Users : Uses(q, k)' => Owner'[k] = q
            /\ (\A q \in Users : ~Uses(q, k)') => Owner'[k] = Nobody
    BY OwnerNext
  <2>4. Owner[want[p]] = Nobody
    BY <2>1, <2>2, OwnerIs
  <2>5. ASSUME NEW j \in Blocks
        PROVE  Owner'[j] = IF j = want[p] THEN p ELSE Owner[j]
    <3> HIDE DEF Uses, Owner
    <3> QED
      BY <1>5, <2>3, OwnerIs
  <2>6. Owner' = [Owner EXCEPT ![want[p]] = p]
    BY <2>5 DEF Owner
  <2>7. BS!BGet(p, want[p])
    BY <1>5, <2>1, <2>4, <2>6 DEF BS!BGet, Owner
  <2> QED
    BY <2>1, <2>7 DEF BS!BNext
<1>6. ASSUME NEW p \in Users, bread(p)
      PROVE  BS!BNext \/ UNCHANGED <<Contents, disk, Owner>>
  <2>1. /\ pc[p] = "locked" /\ UNCHANGED <<blockno, valid, data, disk, b, want>>
        /\ pc' = [pc EXCEPT ![p] = IF valid[b[p]] THEN "hold" ELSE "io"]
    BY <1>6 DEF bread, iderw, Goto
  <2>2. CASE valid[b[p]]
    <3>1. \A q \in Users, j \in Blocks :
             Uses(q, j)' <=> (Uses(q, j) \/ (q = p /\ j = want[p]))
      BY <2>1, <2>2 DEF Uses, IInv, TypeOK
    <3> QED
      BY <1>1, <1>5, <2>1, <3>1 DEF Uses, Holding
  <2>3. CASE ~valid[b[p]]
    <3>1. \A q \in Users, j \in Blocks : Uses(q, j)' <=> Uses(q, j)
      BY <2>1, <2>3 DEF Uses, IInv, TypeOK
    <3> QED
      BY <1>1, <2>1, <3>1, OwnerSame
  <2> QED
    BY <2>2, <2>3
<1>7. ASSUME NEW p \in Users, releasesleep(p) PROVE BS!BNext
  <2>1. /\ pc[p] = "hold" /\ UNCHANGED <<blockno, valid, data, disk, b, want>>
        /\ \A q \in Users : pc'[q] = IF q = p THEN "release"
                                     ELSE IF pc[q] = "locksleep" /\ b[q] = b[p]
                                     THEN "lock" ELSE pc[q]
    BY <1>7 DEF releasesleep, WakeWaiters, IInv, TypeOK
  <2>2. want[p] \in Blocks /\ Uses(p, want[p])
    BY <2>1 DEF IInv, PlaceInv, Uses
  <2>3. \A q \in Users, j \in Blocks : Uses(q, j)' <=> (Uses(q, j) /\ q # p)
    BY <2>1 DEF Uses
  <2>4. \A k \in Blocks :
            /\ \A q \in Users : Uses(q, k)' => Owner'[k] = q
            /\ (\A q \in Users : ~Uses(q, k)') => Owner'[k] = Nobody
    BY OwnerNext
  <2>5. \A j \in Blocks : Uses(p, j) => j = want[p]
    BY DEF Uses
  <2>6. ASSUME NEW j \in Blocks
        PROVE  Owner'[j] = IF j = want[p] THEN Nobody ELSE Owner[j]
    <3> HIDE DEF Uses, Owner
    <3>1. \A q \in Users : Uses(q, want[p]) => q = p
      BY <2>2, OwnerIs
    <3> QED
      BY <2>2, <2>3, <2>4, <2>5, <3>1, OwnerIs
  <2>7. Owner' = [Owner EXCEPT ![want[p]] = Nobody] /\ Owner[want[p]] = p
    BY <2>2, <2>6, OwnerIs DEF Owner
  <2>8. BS!BPut(p, want[p])
    BY <1>1, <2>1, <2>7 DEF BS!BPut, Owner
  <2> QED
    BY <2>2, <2>8 DEF BS!BNext
<1>8. ASSUME NEW p \in Users, NEW v \in Vals, log_write(p, v) \/ bwrite(p, v)
      PROVE  BS!BNext
  <2>1. /\ pc[p] = "hold" /\ data' = [data EXCEPT ![b[p]] = v]
        /\ UNCHANGED <<blockno, valid, disk, b, want>>
        /\ pc' \in {pc, [pc EXCEPT ![p] = "io"]}
    BY <1>8 DEF log_write, bwrite, iderw, Goto
  <2>2. /\ b[p] \in Bufs /\ valid[b[p]] /\ blockno[b[p]] = want[p]
        /\ want[p] \in Blocks /\ Uses(p, want[p])
    BY <2>1 DEF IInv, PlaceInv, FlagInv, Uses
  <2>3. \A q \in Users, j \in Blocks : Uses(q, j)' <=> Uses(q, j)
    BY <2>1, <2>2 DEF Uses, IInv, TypeOK
  <2>4. Owner' = Owner /\ Owner[want[p]] = p
    BY <2>2, <2>3, OwnerSame, OwnerIs
  <2>5. ASSUME NEW j \in Blocks
        PROVE  Contents'[j] = IF j = want[p] THEN v ELSE Contents[j]
    <3>1. CASE j = want[p]
      <4>1. blockno'[b[p]] = j /\ valid'[b[p]] /\ data'[b[p]] = v
        BY <2>1, <2>2, <3>1 DEF IInv, TypeOK
      <4> QED
        BY <2>2, <3>1, <4>1, ContentsNext
    <3>2. CASE j # want[p]
      <4>1. \A y \in Bufs : blockno[y] = j => data'[y] = data[y]
        BY <2>1, <2>2, <3>2 DEF IInv, TypeOK
      <4> QED
        BY <2>1, <3>2, <4>1, ContentsIs, ContentsNext
    <3> QED
      BY <3>1, <3>2
  <2>6. Contents' = [Contents EXCEPT ![want[p]] = v]
    BY <2>5 DEF Contents
  <2>7. BS!BChange(p, want[p], v)
    BY <2>1, <2>4, <2>6 DEF BS!BChange, Owner
  <2> QED
    BY <2>2, <2>7 DEF BS!BNext
<1>9. CASE DiskDone
  <2>1. /\ active # 0
        /\ disk' = IF dirty[active] THEN [disk EXCEPT ![blockno[active]] = data[active]]
                                    ELSE disk
        /\ UNCHANGED <<blockno, valid, data, b, want, pc>>
    BY <1>9 DEF DiskDone
  <2>2. Owner' = Owner
    <3>1. \A q \in Users, j \in Blocks : Uses(q, j)' <=> Uses(q, j)
      BY <2>1 DEF Uses
    <3> QED
      BY <3>1, OwnerSame
  <2>3. CASE ~dirty[active]
    BY <1>1, <2>1, <2>2, <2>3
  <2>4. CASE dirty[active]
    <3>1. PICK p \in Users : pc[p] = "io" /\ b[p] = active
      BY <2>1, ActiveWaiter
    <3>2. /\ active \in Bufs /\ blockno[active] = want[p] /\ want[p] \in Blocks
          /\ valid[active] /\ Uses(p, want[p])
      BY <2>1, <2>4, <3>1, ActiveWaiter DEF IInv, PlaceInv, FlagInv, Uses
    <3>3. Contents[want[p]] = data[active] /\ Owner[want[p]] = p
      BY <3>2, ContentsIs, OwnerIs
    <3>4. ASSUME NEW j \in Blocks PROVE Contents'[j] = Contents[j]
      <4>1. CASE j = want[p]
        BY <2>1, <3>2, <3>3, <4>1, ContentsNext
      <4>2. CASE j # want[p]
        <5>1. disk'[j] = disk[j]
          BY <2>1, <2>4, <3>2, <4>2 DEF IInv, TypeOK
        <5> QED
          BY <2>1, <5>1, ContentsKept
      <4> QED
        BY <4>1, <4>2
    <3>5. Contents' = Contents
      BY <3>4 DEF Contents
    <3>6. BS!BStore(p, want[p])
      BY <2>1, <2>2, <2>4, <3>2, <3>3, <3>5 DEF BS!BStore, Owner
    <3> QED
      BY <3>2, <3>6 DEF BS!BNext
  <2> QED
    BY <2>3, <2>4
<1>10. CASE ideintr
  <2> DEFINE h == Head(idequeue)
  <2>1. /\ intr
        /\ data' = IF dirty[h] THEN data ELSE [data EXCEPT ![h] = disk[blockno[h]]]
        /\ valid' = [valid EXCEPT ![h] = TRUE]
        /\ UNCHANGED <<blockno, disk, b, want>>
        /\ \A q \in Users : pc'[q] = IF pc[q] = "io" /\ b[q] = h THEN "iowoken" ELSE pc[q]
    BY <1>10 DEF ideintr
  <2>2. active # 0
    BY <2>1 DEF IInv, QueueInv, QueueHeadActive
  <2>3. PICK p \in Users : pc[p] = "io" /\ b[p] = h
    BY <2>2, ActiveWaiter
  <2>4. h \in Bufs /\ blockno[h] = want[p] /\ want[p] \in Blocks
    BY <2>2, <2>3, ActiveWaiter DEF IInv, PlaceInv
  <2>5. (dirty[h] => valid[h]) /\ (dirty[h] \/ ~valid[h])
    BY <2>3, <2>4 DEF IInv, FlagInv
  <2> HIDE DEF h
  <2>6. CASE dirty[h]
    <3>1. valid' = valid /\ data' = data
      BY <2>1, <2>5, <2>6 DEF IInv, TypeOK
    <3>2. \A q \in Users, j \in Blocks : Uses(q, j)' <=> Uses(q, j)
      BY <2>1, <3>1 DEF Uses
    <3> QED
      BY <1>1, <2>1, <3>1, <3>2, OwnerSame
  <2>7. CASE ~dirty[h]
    <3>1. ~valid[h] /\ data' = [data EXCEPT ![h] = disk[blockno[h]]]
      BY <2>1, <2>5, <2>7
    <3>2. ASSUME NEW j \in Blocks PROVE Contents'[j] = Contents[j]
      <4>1. CASE j = want[p]
        <5>1. blockno'[h] = j /\ valid'[h] /\ data'[h] = disk[j]
          BY <2>1, <2>4, <3>1, <4>1 DEF IInv, TypeOK
        <5>2. \A y \in Bufs : ~(blockno[y] = j /\ valid[y])
          BY <2>4, <3>1, <4>1, BcacheAssumption DEF IInv, OneBufferPerBlock
        <5> QED
          BY <2>4, <5>1, <5>2, ContentsIs, ContentsNext
      <4>2. CASE j # want[p]
        <5>1. \A y \in Bufs : blockno[y] = j => data'[y] = data[y] /\ valid'[y] = valid[y]
          BY <2>1, <2>4, <3>1, <4>2 DEF IInv, TypeOK
        <5> QED
          BY <2>1, <5>1, ContentsKept
      <4> QED
        BY <4>1, <4>2
    <3>3. Contents' = Contents
      BY <3>2 DEF Contents
    <3>4. ~Uses(p, want[p]) /\ pc[p] \in Holding
      BY <2>3, <3>1 DEF Uses, Holding
    <3>5. ASSUME NEW q \in Users, NEW j \in Blocks
          PROVE  Uses(q, j)' <=> (Uses(q, j) \/ (q = p /\ j = want[p]))
      <4>1. CASE q = p
        BY <2>1, <2>3, <2>4, <4>1 DEF Uses, IInv, TypeOK
      <4>2. CASE q # p
        <5>1. pc[q] \in Holding => b[q] # h /\ b[q] \in Bufs
          BY <2>3, <2>4, <4>2 DEF IInv, LockInv, PlaceInv, Holding
        <5>2. pc[q] \in Holding => valid'[b[q]] = valid[b[q]] /\ pc'[q] = pc[q]
          BY <2>1, <5>1 DEF IInv, TypeOK
        <5>3. pc[q] \notin Holding => pc'[q] = pc[q]
          BY <2>1 DEF Holding
        <5> QED
          BY <2>1, <4>2, <5>2, <5>3 DEF Uses, Holding
      <4> QED
        BY <4>1, <4>2
    <3> QED
      BY <1>5, <2>1, <3>3, <3>4, <3>5
  <2> QED
    BY <2>6, <2>7
<1>11. CASE UNCHANGED vars
  <2>1. \A q \in Users, j \in Blocks : Uses(q, j)' <=> Uses(q, j)
    BY <1>11 DEF vars, Uses
  <2> QED
    BY <1>1, <1>11, <2>1, OwnerSame DEF vars
<1> QED
  BY <1>2, <1>3, <1>4, <1>6, <1>7, <1>8, <1>9, <1>10, <1>11 DEF Next, Step, Device

\* The cache, with its sharing, recycling, pinning and disk queue, implements
\* BlockStore for any number of buffers and processes, as long as the disk
\* reports no read errors (ideintr() marks a buffer valid even then).
THEOREM CacheImplementsBlockStore ==
  ASSUME ReadErrors = {FALSE} PROVE Spec => BlockStoreSpec
<1>1. Init => DataInv
  BY DEF Init, DataInv
<1>2. Init => BS!BInit
  <2> SUFFICES ASSUME Init PROVE BS!BInit
    OBVIOUS
  <2>1. IInv
    BY InitIInv
  <2>2. \A k \in Blocks : Contents[k] = disk[k]
    BY <2>1, ContentsIs DEF Init
  <2>3. Contents = disk
    BY <2>2 DEF Contents, Init
  <2>4. \A p \in Users, k \in Blocks : ~Uses(p, k)
    BY DEF Init, Uses
  <2>5. Owner = [k \in Blocks |-> Nobody]
    BY <2>4 DEF Owner
  <2> QED
    BY <2>3, <2>5 DEF BS!BInit, Init, Owner
<1> QED
  BY <1>1, <1>2, Invariant, DataStep, StoreStep, PTL DEF Spec, BlockStoreSpec, BS!BSpec
=============================================================================
