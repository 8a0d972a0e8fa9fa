----------------------------- MODULE WrapLemmas -----------------------------
(***************************************************************************)
(* Arithmetic of the kernel's ring buffers and page addresses: unsigned    *)
(* counters that wrap at M, used as indices modulo a size P that divides M *)
(* (the pipe and the console input keep their positions this way), and the *)
(* least-number principle for sets of naturals, which the searches for a   *)
(* free inode and a free block rest on.                                    *)
(***************************************************************************)
EXTENDS Integers, FiniteSetTheorems, TLAPS

\* A quotient and a remainder in range determine the remainder.
LEMMA RemainderIs ==
  ASSUME NEW P \in Nat \ {0}, NEW q \in Int, NEW r \in 0 .. P - 1
  PROVE  (P * q + r) % P = r
OBVIOUS

\* The difference of two counters is the distance from one to the other.
LEMMA Distance ==
  ASSUME NEW M \in Nat \ {0}, NEW x \in 0 .. M - 1, NEW y \in 0 .. M - 1
  PROVE  (y - x) % M = IF y >= x THEN y - x ELSE y - x + M
OBVIOUS

\* The sum of two counters wraps at most once.
LEMMA WrapOnce ==
  ASSUME NEW M \in Nat \ {0}, NEW x \in 0 .. M - 1, NEW y \in 0 .. M - 1
  PROVE  (x + y) % M = IF x + y < M THEN x + y ELSE x + y - M
OBVIOUS

\* Incrementing the largest counter gives zero.
LEMMA Successor ==
  ASSUME NEW M \in Nat \ {0}, NEW x \in 0 .. M - 1
  PROVE  (x + 1) % M = IF x = M - 1 THEN 0 ELSE x + 1
OBVIOUS

\* A remainder is an index of the ring.
LEMMA RemainderRange ==
  ASSUME NEW P \in Nat \ {0}, NEW x \in Int
  PROVE  x % P \in 0 .. P - 1
OBVIOUS

\* A counter that wraps does not lose its place in the ring.
LEMMA WrapKeepsIndex ==
  ASSUME NEW P \in Nat \ {0}, NEW x \in Nat, NEW M \in Nat, M % P = 0
  PROVE  (x + M) % P = x % P
<1> DEFINE q == x \div P
           r == x % P
           m == M \div P
<1>1. x = P * q + r /\ r \in 0 .. P - 1 /\ q \in Int
  OBVIOUS
<1>2. M = P * m /\ m \in Int
  OBVIOUS
<1>3. r = x % P
  OBVIOUS
<1> HIDE DEF q, r, m
<1>4. x + M = P * (q + m) + r /\ q + m \in Int
  BY <1>1, <1>2
<1>5. (P * (q + m) + r) % P = r
  BY <1>1, <1>4, RemainderIs
<1> QED
  BY <1>3, <1>4, <1>5

\* Fewer than P places ahead is another place of the ring.
LEMMA AheadDiffers ==
  ASSUME NEW P \in Nat \ {0}, NEW x \in Nat, NEW j \in 1 .. P - 1
  PROVE  (x + j) % P # x % P
<1> DEFINE q == x \div P
           r == x % P
<1>1. x = P * q + r /\ r \in 0 .. P - 1 /\ q \in Int
  OBVIOUS
<1>2. r = x % P
  OBVIOUS
<1> HIDE DEF q, r
<1>3. CASE r + j < P
  <2>1. (P * q + (r + j)) % P = r + j
    BY <1>1, <1>3, RemainderIs
  <2> QED
    BY <1>1, <1>2, <2>1
<1>4. CASE r + j >= P
  <2> DEFINE e == r + j - P
  <2>0. e \in 0 .. P - 1 /\ q + 1 \in Int
    BY <1>1, <1>4
  <2> HIDE DEF e
  <2>1. (P * (q + 1) + e) % P = e
    BY <2>0, RemainderIs
  <2>2. x + j = P * (q + 1) + e
    BY <1>1 DEF e
  <2>3. (x + j) % P = e
    BY <2>1, <2>2
  <2> QED
    BY <1>1, <1>2, <2>3 DEF e
<1> QED
  BY <1>1, <1>3, <1>4

-----------------------------------------------------------------------------
\* A nonempty set of naturals has a least element: the intervals below its
\* elements are finite sets, and these are well-founded under strict inclusion.
LEMMA LeastNatural ==
  ASSUME NEW T \in SUBSET Nat, T # {}
  PROVE  \E x \in T : \A y \in T : x <= y
<1> DEFINE Below(x) == 0 .. x - 1
           F == {Below(x) : x \in T}
           R == StrictSubsetOrdering(Nat)
<1>1. F \subseteq FiniteSubsetsOf(Nat) /\ F # {}
  <2>1. ASSUME NEW x \in T PROVE Below(x) \in FiniteSubsetsOf(Nat)
    <3>1. IsFiniteSet(0 .. x - 1)
      BY FS_Interval
    <3>2. 0 .. x - 1 \subseteq Nat
      OBVIOUS
    <3> QED
      BY <3>1, <3>2 DEF FiniteSubsetsOf
  <2> HIDE DEF Below
  <2> QED
    BY <2>1
<1>2. \E X \in F : \A Y \in F : <<Y, X>> \notin R
  <2> HIDE DEF F, R
  <2>1. IsWellFoundedOn(R, FiniteSubsetsOf(Nat))
    BY FS_StrictSubsetOrderingWellFounded DEF R
  <2> QED
    BY <1>1, <2>1, WFMin
<1>3. ASSUME NEW x \in Nat, NEW y \in Nat, y < x PROVE <<Below(y), Below(x)>> \in R
  <2>1. Below(y) \subseteq Below(x) /\ y \in Below(x) /\ y \notin Below(y)
    BY <1>3
  <2>2. Below(y) \subseteq Nat /\ Below(x) \subseteq Nat
    OBVIOUS
  <2> QED
    BY <2>1, <2>2 DEF StrictSubsetOrdering
<1>4. PICK x \in T : \A y \in T : <<Below(y), Below(x)>> \notin R
  <2> HIDE DEF Below, R
  <2> QED
    BY <1>2
<1>5. ASSUME NEW y \in T PROVE x <= y
  <2> HIDE DEF Below, R
  <2>1. ~(y < x)
    BY <1>3, <1>4
  <2> QED
    BY <2>1
<1> QED
  BY <1>5
=============================================================================
