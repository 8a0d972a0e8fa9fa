------------------------------ MODULE VmProofs ------------------------------
(***************************************************************************)
(* Proofs about Vm for every number of processes, frames and pages: what   *)
(* page tables hold at every step of fork(), exec() and sbrk(), that the   *)
(* one leak of copyuvm() is the only way to lose a frame, and that no      *)
(* frame is freed twice.                                                   *)
(***************************************************************************)
EXTENDS Vm, WrapLemmas

\* The pages a space maps, and those that start below address x.
MappedIn(s) == {k \in Pages : Page(k) \in s}
Below(x) == {k \in Pages : k * PGSIZE < x}

\* A space of size x: no page above x, and, once page 0 is there, all below.
Covers(s, x) ==
    /\ MappedIn(s) \subseteq Below(x)
    /\ 0 \in MappedIn(s) => MappedIn(s) = Below(x)

\* Which system call a process is in, and where.
JobInv ==
    \A p \in Slots :
        /\ state[p] # "live" => pc[p] = "user"
        /\ pc[p] = "user" <=> job[p] = "none"
        /\ pc[p] = "setupkvm" => job[p] \in {"fork", "exec"} /\ a[p] = 0
        /\ pc[p] = "copyuvm" => job[p] = "fork"
        /\ pc[p] = "allocuvm" => job[p] \in {"sbrk", "exec", "stack"}
        /\ mem[p] <=> pc[p] = "mappages"
        /\ job[p] \in {"none", "sbrk"} => new[p] = {}
        /\ pc[p] = "user" => a[p] = 0

\* What a slot owns in each state; the child of fork() has one parent.
SlotInv ==
    /\ \A p \in Slots : kstack[p] <=> state[p] # "UNUSED"
    /\ \A p \in Slots : state[p] \in {"UNUSED", "EMBRYO"} => pgdir[p] = {}
    /\ state[initproc] = "live"
    /\ \A p \in Slots : job[p] = "fork" =>
           /\ state[child[p]] = "EMBRYO"
           /\ \A q \in Slots : q # p /\ job[q] = "fork" => child[q] # child[p]

\* The loop variable: page aligned, at most one page beyond the limit.
AddrInv ==
    \A p \in Slots :
        /\ state[p] = "live" => sz[p] > 0
        /\ a[p] % PGSIZE = 0
        /\ pc[p] \in {"copyuvm", "allocuvm", "mappages"} =>
               a[p] < Limit(p) + PGSIZE
        /\ pc[p] = "mappages" => a[p] < Limit(p)
        /\ job[p] \in {"sbrk", "exec", "stack"} => to[p] \in 1 .. KERNBASE - 1
        /\ job[p] = "sbrk" => /\ from[p] = sz[p] /\ from[p] < to[p]
                              /\ PGROUNDUP(from[p]) <= a[p]

\* The pages of the space in use and of the one being built.
PagesInv ==
    \A p \in Slots :
        /\ state[p] = "live" =>
               Covers(pgdir[p], IF job[p] = "sbrk" THEN a[p] ELSE sz[p])
        /\ job[p] \in {"fork", "exec", "stack"} =>
               MappedIn(new[p]) = Below(a[p])

IInv == TypeOK /\ JobInv /\ SlotInv /\ AddrInv /\ PagesInv

-----------------------------------------------------------------------------
(* Addresses *)

\* Pages have a positive size, and every page starts below KERNBASE.
LEMMA Sizes ==
    /\ PGSIZE \in Nat \ {0} /\ KERNBASE \in Nat /\ AddrMod \in Nat
    /\ KERNBASE > PGSIZE /\ 2 * KERNBASE <= AddrMod
    /\ initproc \in Slots /\ Pages \subseteq Nat /\ 0 \in Pages
<1>1. initproc \in Slots
  BY VmAssumption DEF initproc, Slots
<1>2. KERNBASE \div PGSIZE \in Nat \ {0}
  BY VmAssumption
<1>3. Pages \subseteq Nat /\ 0 \in Pages
  BY <1>2 DEF Pages
<1> QED
  BY VmAssumption, <1>1, <1>3

\* The start of a page, as a multiple of the page size.
LEMMA Aligned ==
    ASSUME NEW x \in Nat, x % PGSIZE = 0
    PROVE  x \div PGSIZE \in Nat /\ (x \div PGSIZE) * PGSIZE = x
BY Sizes

\* Multiples of the page size are ordered as their factors.
LEMMA Multiples ==
    ASSUME NEW i \in Int, NEW j \in Int
    PROVE  /\ i * PGSIZE < j * PGSIZE <=> i < j
           /\ i * PGSIZE \in Int /\ (i + 1) * PGSIZE = i * PGSIZE + PGSIZE
<1> USE Sizes
<1>1. i < j => i * PGSIZE < j * PGSIZE
  <2> SUFFICES ASSUME i < j PROVE i * PGSIZE < j * PGSIZE
    OBVIOUS
  <2>1. (j - i) * PGSIZE > 0
    OBVIOUS
  <2>2. (j - i) * PGSIZE = j * PGSIZE - i * PGSIZE
    OBVIOUS
  <2> QED
    BY <2>1, <2>2
<1>2. j < i => j * PGSIZE < i * PGSIZE
  <2> SUFFICES ASSUME j < i PROVE j * PGSIZE < i * PGSIZE
    OBVIOUS
  <2>1. (i - j) * PGSIZE > 0
    OBVIOUS
  <2>2. (i - j) * PGSIZE = i * PGSIZE - j * PGSIZE
    OBVIOUS
  <2> QED
    BY <2>1, <2>2
<1>3. i * PGSIZE \in Int /\ j * PGSIZE \in Int
  OBVIOUS
<1>4. (i + 1) * PGSIZE = i * PGSIZE + PGSIZE
  OBVIOUS
<1>5. i = j \/ i < j \/ j < i
  OBVIOUS
<1> QED
  BY <1>1, <1>2, <1>3, <1>4, <1>5

\* A multiple of the page size is aligned.
LEMMA MultipleAligned ==
    ASSUME NEW i \in Int PROVE (i * PGSIZE) % PGSIZE = 0
<1>1. 0 \in 0 .. PGSIZE - 1 /\ PGSIZE \in Nat \ {0}
  BY Sizes
<1>2. (PGSIZE * i + 0) % PGSIZE = 0
  BY <1>1, RemainderIs
<1>3. PGSIZE * i + 0 = i * PGSIZE
  BY Sizes
<1> QED
  BY <1>2, <1>3

\* PGROUNDUP() gives the next page boundary.
LEMMA RoundUp ==
    ASSUME NEW x \in Nat
    PROVE  /\ PGROUNDUP(x) \in Nat /\ PGROUNDUP(x) % PGSIZE = 0
           /\ x <= PGROUNDUP(x) /\ PGROUNDUP(x) < x + PGSIZE
<1> DEFINE q == (x + PGSIZE - 1) \div PGSIZE
           r == (x + PGSIZE - 1) % PGSIZE
<1>1. /\ q \in Nat /\ r \in 0 .. PGSIZE - 1
      /\ x + PGSIZE - 1 = q * PGSIZE + r
  BY Sizes
<1>2. (q * PGSIZE) % PGSIZE = 0
  BY <1>1, MultipleAligned
<1>3. q * PGSIZE \in Int
  BY <1>1, Sizes
<1>4. PGROUNDUP(x) = q * PGSIZE
  BY DEF PGROUNDUP
<1> HIDE DEF q, r
<1> QED
  BY <1>1, <1>2, <1>3, <1>4, Sizes

\* The page that starts at an aligned address below KERNBASE.
LEMMA PageAt ==
    ASSUME NEW x \in Nat, x % PGSIZE = 0, x < KERNBASE
    PROVE  /\ x \div PGSIZE \in Pages /\ (x \div PGSIZE) * PGSIZE = x
           /\ x + PGSIZE <= KERNBASE /\ (x + PGSIZE) % PGSIZE = 0
           /\ x >= PGSIZE => x \div PGSIZE # 0
<1> DEFINE i == x \div PGSIZE
           n == KERNBASE \div PGSIZE
<1>1. i \in Nat /\ i * PGSIZE = x
  BY Aligned
<1>2. n \in Nat /\ n * PGSIZE = KERNBASE
  BY VmAssumption, Aligned
<1>4. Pages = 0 .. n - 1
  BY DEF Pages
<1> HIDE DEF i, n
<1>3. (x + PGSIZE) % PGSIZE = 0
  <2>1. ((i + 1) * PGSIZE) % PGSIZE = 0 /\ (i + 1) * PGSIZE = x + PGSIZE
    BY <1>1, MultipleAligned, Multiples
  <2> QED
    BY <2>1
<1>5. i < n
  BY <1>1, <1>2, Multiples
<1>6. (i + 1) * PGSIZE = x + PGSIZE
  BY <1>1, Multiples
<1>7. ~(n < i + 1)
  BY <1>1, <1>2, <1>5
<1>8. ~(n * PGSIZE < (i + 1) * PGSIZE)
  BY <1>1, <1>2, <1>7, Multiples
<1>9. x + PGSIZE <= KERNBASE
  BY <1>2, <1>6, <1>8, Sizes
<1>10. x >= PGSIZE => i # 0
  BY <1>1, Sizes
<1>11. i \in Pages
  BY <1>1, <1>2, <1>4, <1>5
<1> QED
  BY <1>1, <1>3, <1>9, <1>10, <1>11 DEF i

\* No page starts below 0.
LEMMA BelowZero == Below(0) = {}
<1>1. ASSUME NEW k \in Pages PROVE ~(k * PGSIZE < 0)
  <2>1. k \in Nat /\ PGSIZE \in Nat
    BY Sizes
  <2> QED
    BY <2>1
<1> QED
  BY <1>1 DEF Below

\* Between a limit and the next page boundary no page starts.
LEMMA SamePages ==
    ASSUME NEW x \in Nat, NEW y \in Nat, x % PGSIZE = 0,
           y <= x, x < y + PGSIZE
    PROVE  Below(x) = Below(y)
<1> DEFINE i == x \div PGSIZE
<1>1. i \in Nat /\ i * PGSIZE = x
  BY Aligned
<1> HIDE DEF i
<1>2. ASSUME NEW k \in Pages PROVE k * PGSIZE < x <=> k * PGSIZE < y
  <2>1. k \in Int /\ k * PGSIZE \in Int /\ (k + 1) * PGSIZE = k * PGSIZE + PGSIZE
    BY Sizes, Multiples
  <2>2. ASSUME k * PGSIZE < x PROVE k * PGSIZE < y
    <3>1. ~(i < k + 1)
      BY <1>1, <2>1, <2>2, Multiples
    <3>2. ~(i * PGSIZE < (k + 1) * PGSIZE)
      BY <3>1, <1>1, <2>1, Multiples
    <3> QED
      BY <3>2, <1>1, <2>1, Sizes
  <2> QED
    BY <2>1, <2>2
<1> QED
  BY <1>2 DEF Below

\* One page further.
LEMMA NextPage ==
    ASSUME NEW x \in Nat, x % PGSIZE = 0, x < KERNBASE
    PROVE  /\ Below(x + PGSIZE) = Below(x) \cup {x \div PGSIZE}
           /\ x \div PGSIZE \notin Below(x)
<1> DEFINE i == x \div PGSIZE
<1>1. i \in Pages /\ i * PGSIZE = x /\ i \in Nat
  BY PageAt, Sizes
<1>2. i = x \div PGSIZE
  OBVIOUS
<1> HIDE DEF i
<1>3. ASSUME NEW k \in Pages
      PROVE  k * PGSIZE < x + PGSIZE <=> k * PGSIZE < x \/ k = i
  <2>1. k \in Int /\ k * PGSIZE < x <=> k < i
    BY <1>1, Sizes, Multiples
  <2>2. k * PGSIZE < x + PGSIZE <=> k < i + 1
    BY <1>1, Sizes, Multiples
  <2> QED
    BY <1>1, <2>1, <2>2, Sizes
<1>4. ~(i * PGSIZE < x)
  BY <1>1
<1> QED
  BY <1>1, <1>2, <1>3, <1>4 DEF Below

-----------------------------------------------------------------------------
(* Address spaces *)

\* Every part a system call adds to a space is a part.
LEMMA PartsHave ==
    /\ {Dir} \cup Kernel \subseteq Parts
    /\ \A k \in Pages : Page(k) \in Parts /\ Table(TableOf(k)) \in Parts
BY DEF Parts, Tables

\* The directory and the tables are not pages, and pages differ.
LEMMA Kinds ==
    /\ \A k : Page(k) \notin {Dir} \cup Kernel
    /\ \A k, t : Page(k) # Table(t)
    /\ \A k, j : Page(k) = Page(j) => k = j
    /\ \A t : Table(t) \notin {Dir} \cup Kernel
    /\ Dir \notin Kernel
<1>1. "page" # "dir" /\ "page" # "ktable" /\ "page" # "table" /\ "dir" # "ktable"
      /\ "table" # "dir" /\ "table" # "ktable"
  OBVIOUS
<1> QED
  BY <1>1 DEF Page, Dir, Kernel, Table

\* Without page entries nothing is mapped.
LEMMA NoPages ==
    ASSUME NEW s, s \subseteq {Dir} \cup Kernel
    PROVE  MappedIn(s) = {}
BY Kinds DEF MappedIn

\* mappages() of one page maps that page and no other.
LEMMA MapOne ==
    ASSUME NEW s, NEW k \in Pages, NEW t
    PROVE  MappedIn(s \cup {Page(k), Table(t)}) = MappedIn(s) \cup {k}
BY Kinds DEF MappedIn

\* deallocuvm() keeps what is below the new size.
LEMMA Dealloc ==
    ASSUME NEW s, NEW x, NEW oldsz \in Nat, NEW newsz \in Nat, Covers(s, x),
           Below(x) \subseteq Below(oldsz), Below(newsz) \subseteq Below(x)
    PROVE  /\ Covers(s \ Visited(oldsz, newsz), newsz)
           /\ newsz = 0 => MappedIn(s \ Visited(oldsz, newsz)) = {}
<1> DEFINE xs == Visited(oldsz, newsz)
           r == PGROUNDUP(newsz)
<1>1. Below(r) = Below(newsz) /\ r \in Nat
  BY RoundUp, SamePages
<1>2. \A k \in Pages : Page(k) \in xs <=> k * PGSIZE >= r /\ k * PGSIZE < oldsz
  BY Kinds DEF Visited
<1> HIDE DEF xs, r
<1>3. \A k \in Pages : k * PGSIZE \in Int
  BY Sizes
<1>4. \A k \in Pages : k \in Below(oldsz) => (Page(k) \notin xs <=> k \in Below(r))
  BY <1>1, <1>2, <1>3 DEF Below
<1>5. MappedIn(s \ xs) = MappedIn(s) \cap Below(newsz)
  BY <1>1, <1>4 DEF Covers, MappedIn, Below
<1>6. newsz = 0 => MappedIn(s \ xs) = {}
  BY <1>5, BelowZero
<1>7. Covers(s \ xs, newsz)
  BY <1>5 DEF Covers
<1> QED
  BY <1>6, <1>7 DEF xs

\* Smaller addresses have fewer pages below them.
LEMMA BelowMono ==
    ASSUME NEW x \in Nat, NEW y \in Nat, x <= y
    PROVE  Below(x) \subseteq Below(y)
<1>1. \A k \in Pages : k * PGSIZE \in Int
  BY Sizes
<1> QED
  BY <1>1 DEF Below

\* There are finitely many slots and parts, so frames can be counted.
LEMMA FiniteParts ==
    /\ IsFiniteSet(Slots) /\ IsFiniteSet(Parts)
    /\ \A s \in SUBSET Parts : IsFiniteSet(s) /\ Cardinality(s) \in Nat
<1>1. IsFiniteSet(Slots) /\ IsFiniteSet(1 .. KTables) /\ IsFiniteSet(Pages)
  BY VmAssumption, FS_Interval DEF Slots, Pages
<1>2. IsFiniteSet(Kernel)
  <2> DEFINE f == [k \in 1 .. KTables |-> <<"ktable", k>>]
  <2>1. Kernel = {f[k] : k \in 1 .. KTables}
    BY DEF Kernel
  <2>2. f \in Surjection(1 .. KTables, Kernel)
    BY <2>1 DEF Surjection
  <2> QED
    BY <1>1, <2>2, FS_Surjection
<1>3. IsFiniteSet({Page(k) : k \in Pages})
  <2> DEFINE S == {Page(k) : k \in Pages}
             f == [k \in Pages |-> Page(k)]
  <2>1. f \in Surjection(Pages, S)
    BY DEF Surjection
  <2> QED
    BY <1>1, <2>1, FS_Surjection
<1>4. IsFiniteSet({Table(t) : t \in Tables})
  <2> DEFINE S == {Table(t) : t \in Tables}
             f == [k \in Pages |-> Table(TableOf(k))]
  <2>1. f \in Surjection(Pages, S)
    BY DEF Surjection, Tables
  <2> QED
    BY <1>1, <2>1, FS_Surjection
<1>5. IsFiniteSet({Dir})
  BY FS_Singleton
<1>6. IsFiniteSet(Parts)
  BY <1>2, <1>3, <1>4, <1>5, FS_Union DEF Parts
<1>7. ASSUME NEW s \in SUBSET Parts
      PROVE  IsFiniteSet(s) /\ Cardinality(s) \in Nat
  <2>1. IsFiniteSet(s)
    BY <1>6, <1>7, FS_Subset
  <2> QED
    BY <2>1, FS_CardinalityType
<1> QED
  BY <1>1, <1>6, <1>7

-----------------------------------------------------------------------------
(* The inductive invariant *)

\* The one process that userinit() makes has page 0 and a size of one page.
LEMMA IInvInit == Init => IInv
<1> SUFFICES ASSUME Init PROVE IInv
  OBVIOUS
<1> USE Sizes DEF Init
<1>1. InitSpace \subseteq Parts
  <2>1. TableOf(0) = 0
    BY VmAssumption DEF TableOf
  <2> QED
    BY <2>1, PartsHave DEF InitSpace
<1>2. TypeOK
  <2>1. NFrames - KTables - 4 \in Nat
    BY VmAssumption
  <2>2. PGSIZE \in 0 .. KERNBASE - 1 /\ 0 \in 0 .. KERNBASE - 1
        /\ 0 \in 0 .. KERNBASE /\ 0 \in 0 .. AddrMod - 1
    OBVIOUS
  <2>3. kstack \in [Slots -> BOOLEAN] /\ mem \in [Slots -> BOOLEAN]
        /\ panic \in BOOLEAN
    BY Zenon
  <2> QED
    BY <1>1, <2>1, <2>2, <2>3 DEF TypeOK
<1>3. JobInv /\ SlotInv
  BY DEF JobInv, SlotInv, initproc
<1>4. AddrInv
  BY DEF AddrInv
<1>5. MappedIn(InitSpace) = {0} /\ Below(PGSIZE) = {0}
  <2>1. MappedIn(InitSpace) = {0}
    BY Kinds DEF MappedIn, InitSpace
  <2>2. \A k \in Pages : k * PGSIZE < PGSIZE <=> k = 0
    BY Multiples
  <2> QED
    BY <2>1, <2>2 DEF Below
<1>6. PagesInv
  BY <1>5 DEF PagesInv, Covers
<1> QED
  BY <1>2, <1>3, <1>4, <1>6 DEF IInv

\* What Return() leaves of the locals of p, and that it touches no others.
LEMMA ReturnFacts ==
    ASSUME TypeOK, NEW p \in Slots, Return(p)
    PROVE  /\ pc'[p] = "user" /\ job'[p] = "none" /\ new'[p] = {}
           /\ child'[p] = p /\ from'[p] = 0 /\ to'[p] = 0 /\ a'[p] = 0
           /\ mem'[p] = FALSE
           /\ \A q \in Slots \ {p} :
                /\ pc'[q] = pc[q] /\ job'[q] = job[q] /\ new'[q] = new[q]
                /\ child'[q] = child[q] /\ from'[q] = from[q] /\ to'[q] = to[q]
                /\ a'[q] = a[q] /\ mem'[q] = mem[q]
<1>1. /\ pc'[p] = "user" /\ job'[p] = "none" /\ new'[p] = {}
      /\ \A q \in Slots \ {p} :
           pc'[q] = pc[q] /\ job'[q] = job[q] /\ new'[q] = new[q]
  BY DEF Return, Call, TypeOK
<1>2. /\ child'[p] = p /\ from'[p] = 0 /\ to'[p] = 0
      /\ \A q \in Slots \ {p} :
           child'[q] = child[q] /\ from'[q] = from[q] /\ to'[q] = to[q]
  BY DEF Return, Call, TypeOK
<1>3. /\ a'[p] = 0 /\ mem'[p] = FALSE
      /\ \A q \in Slots \ {p} : a'[q] = a[q] /\ mem'[q] = mem[q]
  BY DEF Return, Call, TypeOK
<1> QED
  BY <1>1, <1>2, <1>3

\* The locals keep their types.
LEMMA ReturnType ==
    ASSUME TypeOK, NEW p \in Slots, Return(p)
    PROVE  /\ mem' \in [Slots -> BOOLEAN] /\ new' \in [Slots -> SUBSET Parts]
           /\ pc' \in [Slots -> {"user", "setupkvm", "copyuvm", "allocuvm",
                                 "mappages"}]
           /\ job' \in [Slots -> {"none", "fork", "sbrk", "exec", "stack"}]
           /\ child' \in [Slots -> Slots] /\ from' \in [Slots -> 0 .. KERNBASE]
           /\ to' \in [Slots -> 0 .. AddrMod - 1] /\ a' \in [Slots -> 0 .. KERNBASE]
<1>1. 0 \in 0 .. KERNBASE /\ 0 \in 0 .. AddrMod - 1
  BY Sizes
<1>2. mem' \in [Slots -> BOOLEAN]
  <2>1. mem' = [mem EXCEPT ![p] = FALSE] /\ mem \in [Slots -> BOOLEAN]
    BY DEF Return, TypeOK
  <2> QED
    BY <2>1
<1> QED
  BY <1>1, <1>2 DEF Return, Call, TypeOK

\* A call that fails, with what allocuvm() does to the space of the process
\* when the call is sbrk().
FailStep(p, n) ==
    /\ Fail(p, n) /\ UNCHANGED panic
    /\ IF job[p] = "sbrk"
       THEN pgdir' = [pgdir EXCEPT ![p] = Unmapped(@, Visited(to[p], from[p]))]
       ELSE UNCHANGED pgdir

\* After a failure the process is back where it was before the call.
LEMMA FailInv ==
    ASSUME IInv, NEW p \in Slots, state[p] = "live", pc[p] # "user",
           NEW n \in Nat, FailStep(p, n)
    PROVE  IInv'
<1> USE DEF IInv
<1>1. TypeOK /\ JobInv /\ SlotInv /\ AddrInv /\ PagesInv /\ Return(p)
      /\ UNCHANGED <<sz, panic>>
  BY DEF FailStep, Fail
<1>2. job[p] = "fork" => child[p] # p /\ state[child[p]] = "EMBRYO"
  BY <1>1 DEF SlotInv
<1>3. /\ \A q \in Slots : ~(job[p] = "fork" /\ q = child[p]) =>
           state'[q] = state[q] /\ kstack'[q] = kstack[q]
      /\ job[p] = "fork" => state'[child[p]] = "UNUSED" /\ ~kstack'[child[p]]
  BY <1>1 DEF FailStep, Fail, TypeOK
<1>4. \A q \in Slots \ {p} : pgdir'[q] = pgdir[q]
  BY <1>1 DEF FailStep, TypeOK
<1>5. state'[p] = "live"
  BY <1>2, <1>3
<1>6. /\ pc'[p] = "user" /\ job'[p] = "none" /\ new'[p] = {}
      /\ child'[p] = p /\ from'[p] = 0 /\ to'[p] = 0 /\ a'[p] = 0
      /\ mem'[p] = FALSE
      /\ \A q \in Slots \ {p} :
           /\ pc'[q] = pc[q] /\ job'[q] = job[q] /\ new'[q] = new[q]
           /\ child'[q] = child[q] /\ from'[q] = from[q] /\ to'[q] = to[q]
           /\ a'[q] = a[q] /\ mem'[q] = mem[q]
  BY <1>1, ReturnFacts
<1>7. TypeOK'
  <2>1. nfree' \in Nat
    <3>1. new[p] \in SUBSET Parts /\ nfree \in Nat
      BY <1>1 DEF TypeOK
    <3>2. Cardinality(new[p]) \in Nat
      BY <3>1, FiniteParts
    <3> QED
      BY <3>1, <3>2 DEF FailStep, Fail, kfree, freevm
  <2>2. kstack' \in [Slots -> BOOLEAN]
    <3>1. kstack' = kstack \/ kstack' = [kstack EXCEPT ![child[p]] = FALSE]
      BY DEF FailStep, Fail
    <3> QED
      BY <3>1, <1>1 DEF TypeOK
  <2>3. state' \in [Slots -> {"UNUSED", "EMBRYO", "live", "ZOMBIE"}]
    BY <1>1 DEF FailStep, Fail, TypeOK
  <2>4. pgdir' \in [Slots -> SUBSET Parts]
    BY <1>1 DEF FailStep, Unmapped, TypeOK
  <2> QED
    BY <1>1, <2>1, <2>2, <2>3, <2>4, ReturnType DEF TypeOK
<1>8. JobInv'
  <2>1. \A q \in Slots : state'[q] # "live" => state[q] # "live"
    BY <1>2, <1>3
  <2> QED
    BY <1>1, <1>6, <2>1, <1>5 DEF JobInv
<1>9. SlotInv'
  <2>1. \A q \in Slots : kstack'[q] <=> state'[q] # "UNUSED"
    BY <1>1, <1>3 DEF SlotInv
  <2>2. \A q \in Slots : state'[q] \in {"UNUSED", "EMBRYO"} => pgdir'[q] = {}
    BY <1>1, <1>2, <1>3, <1>4, <1>5 DEF SlotInv
  <2>3. state'[initproc] = "live"
    BY <1>1, <1>2, <1>3, Sizes DEF SlotInv
  <2>4. ASSUME NEW q \in Slots, job'[q] = "fork"
        PROVE  /\ state'[child'[q]] = "EMBRYO"
               /\ \A r \in Slots : r # q /\ job'[r] = "fork" => child'[r] # child'[q]
    <3>1. q # p /\ job[q] = "fork" /\ child'[q] = child[q]
      BY <1>6, <2>4
    <3>2. state[child[q]] = "EMBRYO" /\ child[q] \in Slots
      BY <1>1, <3>1 DEF SlotInv, TypeOK
    <3>3. ~(job[p] = "fork" /\ child[q] = child[p])
      BY <1>1, <3>1 DEF SlotInv
    <3>4. state'[child[q]] = "EMBRYO"
      BY <1>3, <3>2, <3>3
    <3>5. \A r \in Slots : r # q /\ job'[r] = "fork" => child'[r] # child'[q]
      BY <1>1, <1>6, <3>1 DEF SlotInv
    <3> QED
      BY <3>1, <3>4, <3>5
  <2> QED
    BY <2>1, <2>2, <2>3, <2>4 DEF SlotInv
<1>10. \A q \in Slots : state'[q] = "live" => state[q] = "live"
  BY <1>3
<1>11. AddrInv'
  <2>1. \A q \in Slots \ {p} : Limit(q)' = Limit(q)
    BY <1>1, <1>6 DEF Limit
  <2>2. 0 % PGSIZE = 0
    BY Sizes
  <2> QED
    BY <1>1, <1>6, <1>10, <2>1, <2>2 DEF AddrInv
<1>12. PagesInv'
  <2>1. Covers(pgdir'[p], sz[p])
    <3>1. CASE job[p] # "sbrk"
      BY <1>1, <3>1 DEF PagesInv, FailStep
    <3>2. CASE job[p] = "sbrk"
      <4>1. /\ Covers(pgdir[p], a[p]) /\ from[p] = sz[p] /\ from[p] < to[p]
            /\ a[p] % PGSIZE = 0 /\ a[p] < to[p] + PGSIZE
            /\ PGROUNDUP(from[p]) <= a[p]
        BY <1>1, <3>2 DEF PagesInv, AddrInv, JobInv, Limit, TypeOK
      <4>2. a[p] \in Nat /\ to[p] \in Nat /\ from[p] \in Nat
        BY <1>1 DEF TypeOK
      <4>3. Below(from[p]) \subseteq Below(a[p])
        <5>1. from[p] <= a[p]
          BY <4>1, <4>2, RoundUp
        <5> QED
          BY <4>2, <5>1, BelowMono
      <4>4. Below(a[p]) \subseteq Below(to[p])
        <5>1. CASE a[p] <= to[p]
          BY <4>2, <5>1, BelowMono
        <5>2. CASE to[p] <= a[p]
          BY <4>1, <4>2, <5>2, SamePages
        <5> QED
          BY <4>2, <5>1, <5>2
      <4>5. Covers(pgdir[p] \ Visited(to[p], from[p]), from[p])
        BY <4>1, <4>2, <4>3, <4>4, Dealloc
      <4>6. pgdir'[p] = pgdir[p] \ Visited(to[p], from[p])
        BY <1>1, <3>2 DEF FailStep, Unmapped, TypeOK
      <4> QED
        BY <4>1, <4>5, <4>6
    <3> QED
      BY <3>1, <3>2
  <2> QED
    BY <1>1, <1>4, <1>6, <1>10, <2>1 DEF PagesInv
<1> QED
  BY <1>7, <1>8, <1>9, <1>11, <1>12

\* fork() takes an UNUSED slot and starts an empty space.
LEMMA ForkInv ==
    ASSUME IInv, NEW p \in Slots, NEW c \in Slots, fork(p, c)
    PROVE  IInv'
<1> USE DEF IInv
<1>1. /\ TypeOK /\ JobInv /\ SlotInv /\ AddrInv /\ PagesInv
      /\ state[p] = "live" /\ pc[p] = "user" /\ state[c] = "UNUSED" /\ c # p
      /\ UNCHANGED <<pgdir, sz, new, from, to, a, mem, panic>>
  BY DEF fork, At, Running
<1>2. job[p] = "none" /\ new[p] = {} /\ a[p] = 0 /\ ~mem[p]
  BY <1>1 DEF JobInv
<1>3. /\ state'[c] = "EMBRYO" /\ kstack'[c] = TRUE
      /\ \A q \in Slots \ {c} : state'[q] = state[q] /\ kstack'[q] = kstack[q]
      /\ child'[p] = c /\ pc'[p] = "setupkvm" /\ job'[p] = "fork"
      /\ \A q \in Slots \ {p} :
           child'[q] = child[q] /\ pc'[q] = pc[q] /\ job'[q] = job[q]
  BY <1>1 DEF fork, Call, TypeOK
<1>4. TypeOK'
  <2>1. nfree' \in Nat
    BY <1>1 DEF fork, kalloc, NoMemory, TypeOK
  <2>2. kstack' \in [Slots -> BOOLEAN]
    <3>1. kstack' = [kstack EXCEPT ![c] = TRUE] /\ kstack \in [Slots -> BOOLEAN]
      BY <1>1 DEF fork, TypeOK
    <3> QED
      BY <3>1
  <2> QED
    BY <1>1, <2>1, <2>2 DEF fork, Call, TypeOK
<1>5. JobInv'
  BY <1>1, <1>2, <1>3 DEF JobInv
<1>6. SlotInv'
  <2>1. \A q \in Slots : kstack'[q] <=> state'[q] # "UNUSED"
    BY <1>1, <1>3 DEF SlotInv
  <2>2. \A q \in Slots : state'[q] \in {"UNUSED", "EMBRYO"} => pgdir'[q] = {}
    BY <1>1, <1>3 DEF SlotInv
  <2>3. state'[initproc] = "live"
    BY <1>1, <1>3, Sizes DEF SlotInv
  <2>4. \A q \in Slots : job[q] = "fork" => child[q] \in Slots /\ state[child[q]] = "EMBRYO"
    BY <1>1 DEF SlotInv, TypeOK
  <2> QED
    BY <1>1, <1>2, <1>3, <2>1, <2>2, <2>3, <2>4 DEF SlotInv
<1>7. AddrInv'
  <2>1. \A q \in Slots \ {p} : Limit(q)' = Limit(q)
    BY <1>1, <1>3 DEF Limit
  <2> QED
    BY <1>1, <1>3, <2>1 DEF AddrInv
<1>8. PagesInv'
  <2>1. MappedIn(new[p]) = Below(a[p])
    BY <1>2, BelowZero DEF MappedIn
  <2> QED
    BY <1>1, <1>2, <1>3, <2>1 DEF PagesInv
<1> QED
  BY <1>4, <1>5, <1>6, <1>7, <1>8

\* exec() starts an empty space for a program of some size.
LEMMA ExecInv ==
    ASSUME IInv, NEW p \in Slots, exec(p)
    PROVE  IInv'
<1> USE DEF IInv
<1>1. /\ TypeOK /\ JobInv /\ SlotInv /\ AddrInv /\ PagesInv
      /\ state[p] = "live" /\ pc[p] = "user"
      /\ UNCHANGED <<nfree, state, kstack, pgdir, sz, new, child, from, a, mem,
                     panic>>
  BY DEF exec, At, Running, proc
<1>2. job[p] = "none" /\ new[p] = {} /\ a[p] = 0 /\ ~mem[p]
  BY <1>1 DEF JobInv
<1>3. PICK t \in ExecSizes : to' = [to EXCEPT ![p] = t]
  BY DEF exec
<1>4. t \in 1 .. KERNBASE - 1 /\ t \in 0 .. AddrMod - 1
  BY <1>3, VmAssumption, Sizes
<1>5. /\ to'[p] = t /\ pc'[p] = "setupkvm" /\ job'[p] = "exec"
      /\ \A q \in Slots \ {p} :
           to'[q] = to[q] /\ pc'[q] = pc[q] /\ job'[q] = job[q]
  BY <1>1, <1>3 DEF exec, Call, TypeOK
<1>6. TypeOK'
  BY <1>1, <1>3, <1>4 DEF exec, Call, TypeOK
<1>7. JobInv'
  BY <1>1, <1>2, <1>5 DEF JobInv
<1>8. SlotInv'
  BY <1>1, <1>2, <1>5 DEF SlotInv
<1>9. AddrInv'
  <2>1. \A q \in Slots \ {p} : Limit(q)' = Limit(q)
    BY <1>1, <1>5 DEF Limit
  <2> QED
    BY <1>1, <1>4, <1>5, <2>1 DEF AddrInv
<1>10. PagesInv'
  <2>1. MappedIn(new[p]) = Below(a[p])
    BY <1>2, BelowZero DEF MappedIn
  <2> QED
    BY <1>1, <1>2, <1>5, <2>1 DEF PagesInv
<1> QED
  BY <1>6, <1>7, <1>8, <1>9, <1>10

\* exit() happens outside of the other calls; init never exits.
LEMMA ExitInv ==
    ASSUME IInv, NEW p \in Slots, exit(p)
    PROVE  IInv'
<1> USE DEF IInv
<1>1. /\ TypeOK /\ JobInv /\ SlotInv /\ AddrInv /\ PagesInv
      /\ state[p] = "live" /\ pc[p] = "user" /\ p # initproc
      /\ state' = [state EXCEPT ![p] = "ZOMBIE"]
      /\ UNCHANGED <<nfree, kstack, pgdir, sz, pc, job, new, child, from, to, a,
                     mem, panic>>
  BY DEF exit, At, Running, locals
<1>2. state'[p] = "ZOMBIE" /\ \A q \in Slots \ {p} : state'[q] = state[q]
  BY <1>1 DEF TypeOK
<1>3. TypeOK'
  BY <1>1 DEF TypeOK
<1>4. JobInv'
  BY <1>1, <1>2 DEF JobInv
<1>5. SlotInv'
  <2>1. \A q \in Slots : job[q] = "fork" => child[q] \in Slots /\ child[q] # p
    BY <1>1 DEF SlotInv, TypeOK
  <2> QED
    BY <1>1, <1>2, <2>1, Sizes DEF SlotInv
<1>6. AddrInv'
  <2>1. \A q \in Slots : Limit(q)' = Limit(q)
    BY <1>1 DEF Limit
  <2> QED
    BY <1>1, <1>2, <2>1 DEF AddrInv
<1>7. PagesInv'
  BY <1>1, <1>2 DEF PagesInv
<1> QED
  BY <1>3, <1>4, <1>5, <1>6, <1>7

\* wait() empties the slot of a ZOMBIE, which is in no call.
LEMMA WaitInv ==
    ASSUME IInv, NEW p \in Slots, NEW c \in Slots, wait(p, c)
    PROVE  IInv'
<1> USE DEF IInv
<1>1. /\ TypeOK /\ JobInv /\ SlotInv /\ AddrInv /\ PagesInv
      /\ state[c] = "ZOMBIE" /\ pc[c] = "user"
      /\ UNCHANGED <<pc, job, new, child, from, to, a, mem, panic>>
  BY DEF wait, locals, JobInv
<1>2. /\ state'[c] = "UNUSED" /\ kstack'[c] = FALSE /\ pgdir'[c] = {} /\ sz'[c] = 0
      /\ \A q \in Slots \ {c} : /\ state'[q] = state[q] /\ kstack'[q] = kstack[q]
                                /\ pgdir'[q] = pgdir[q] /\ sz'[q] = sz[q]
  BY <1>1 DEF wait, TypeOK
<1>3. TypeOK'
  <2>1. nfree' \in Nat
    <3>1. pgdir[c] \in SUBSET Parts /\ nfree \in Nat
      BY <1>1 DEF TypeOK
    <3>2. Cardinality(pgdir[c]) \in Nat
      BY <3>1, FiniteParts
    <3> QED
      BY <3>1, <3>2 DEF wait, kfree, freevm
  <2>2. kstack' \in [Slots -> BOOLEAN]
    <3>1. kstack' = [kstack EXCEPT ![c] = FALSE] /\ kstack \in [Slots -> BOOLEAN]
      BY <1>1 DEF wait, TypeOK
    <3> QED
      BY <3>1
  <2>3. 0 \in 0 .. KERNBASE - 1
    BY Sizes
  <2> QED
    BY <1>1, <2>1, <2>2, <2>3 DEF wait, TypeOK
<1>4. JobInv'
  BY <1>1, <1>2 DEF JobInv
<1>5. SlotInv'
  <2>1. \A q \in Slots : job[q] = "fork" => child[q] \in Slots /\ child[q] # c
    BY <1>1 DEF SlotInv, TypeOK
  <2> QED
    BY <1>1, <1>2, <2>1, Sizes DEF SlotInv
<1>6. job[c] = "none"
  BY <1>1 DEF JobInv
<1>7. AddrInv'
  <2>1. \A q \in Slots \ {c} : Limit(q)' = Limit(q)
    BY <1>1, <1>2 DEF Limit
  <2> QED
    BY <1>1, <1>2, <1>6, <2>1 DEF AddrInv
<1>8. PagesInv'
  BY <1>1, <1>2, <1>6 DEF PagesInv
<1> QED
  BY <1>3, <1>4, <1>5, <1>7, <1>8

\* A size and an argument of sbrk() add up without wrapping, unless the sum is
\* negative, and then the result is beyond every size.
LEMMA SbrkSum ==
    ASSUME NEW x \in 0 .. KERNBASE - 1, NEW n \in SbrkArgs
    PROVE  /\ n \in Int
           /\ x + n >= 0 => Add(x, n) = x + n
           /\ x + n < 0 => Add(x, n) >= KERNBASE
<1>1. n \in -KERNBASE .. KERNBASE - 1
  BY VmAssumption
<1>2. /\ x \in Int /\ n \in Int /\ x + n >= -KERNBASE /\ x + n < 2 * KERNBASE
      /\ KERNBASE \in Nat /\ AddrMod \in Nat \ {0} /\ 2 * KERNBASE <= AddrMod
  BY <1>1, Sizes
<1>3. x + n >= 0 => (x + n) % AddrMod = x + n
  BY <1>2
<1>4. ASSUME x + n < 0 PROVE (x + n) % AddrMod = x + n + AddrMod
  <2>1. x + n + AddrMod \in 0 .. AddrMod - 1
    BY <1>2, <1>4
  <2>2. (AddrMod * (-1) + (x + n + AddrMod)) % AddrMod = x + n + AddrMod
    BY <1>2, <2>1, RemainderIs
  <2> QED
    BY <1>2, <2>2
<1> QED
  BY <1>2, <1>3, <1>4 DEF Add

\* growproc() with a positive argument starts above the last page.
LEMMA GrowInv ==
    ASSUME IInv, NEW p \in Slots, NEW n \in SbrkArgs, Grow(p, n)
    PROVE  IInv'
<1> USE DEF IInv
<1>1. /\ TypeOK /\ JobInv /\ SlotInv /\ AddrInv /\ PagesInv
      /\ state[p] = "live" /\ pc[p] = "user"
      /\ UNCHANGED <<nfree, state, kstack, pgdir, sz, new, child, mem, panic>>
  BY DEF Grow, At, Running, proc
<1>2. job[p] = "none" /\ new[p] = {} /\ a[p] = 0 /\ ~mem[p] /\ sz[p] > 0
  BY <1>1 DEF JobInv, AddrInv
<1> DEFINE t == Add(sz[p], n)
<1>3. sz[p] \in 0 .. KERNBASE - 1 /\ sz[p] \in Nat
  BY <1>1 DEF TypeOK
<1>4. t = sz[p] + n /\ t \in Nat /\ sz[p] < t /\ t < KERNBASE
  <2>1. n > 0 /\ t < KERNBASE
    BY DEF Grow
  <2>2. n \in Int /\ sz[p] + n >= 0
    BY <1>3, <2>1, SbrkSum
  <2>3. t = sz[p] + n
    BY <1>3, <2>2, SbrkSum
  <2> QED
    BY <1>3, <2>1, <2>2, <2>3
<1>5. /\ from'[p] = sz[p] /\ to'[p] = t /\ a'[p] = PGROUNDUP(sz[p])
      /\ pc'[p] = "allocuvm" /\ job'[p] = "sbrk"
      /\ \A q \in Slots \ {p} : /\ from'[q] = from[q] /\ to'[q] = to[q]
                                /\ a'[q] = a[q] /\ pc'[q] = pc[q]
                                /\ job'[q] = job[q]
  BY <1>1 DEF Grow, Call, TypeOK
<1> HIDE DEF t
<1>6. /\ PGROUNDUP(sz[p]) \in Nat /\ PGROUNDUP(sz[p]) % PGSIZE = 0
      /\ sz[p] <= PGROUNDUP(sz[p]) /\ PGROUNDUP(sz[p]) < sz[p] + PGSIZE
  BY <1>3, RoundUp
<1>7. PGROUNDUP(sz[p]) \in 0 .. KERNBASE
  <2>1. CASE PGROUNDUP(sz[p]) < PGSIZE
    BY <2>1, <1>6, Sizes
  <2>2. CASE PGROUNDUP(sz[p]) >= PGSIZE
    <3> DEFINE x == PGROUNDUP(sz[p]) - PGSIZE
    <3>1. x \in Nat /\ x < KERNBASE /\ x + PGSIZE = PGROUNDUP(sz[p])
      BY <2>2, <1>3, <1>6, Sizes
    <3>2. x % PGSIZE = 0
      <4> DEFINE i == PGROUNDUP(sz[p]) \div PGSIZE
      <4>1. i \in Nat /\ i * PGSIZE = PGROUNDUP(sz[p])
        BY <1>6, Aligned
      <4> HIDE DEF i
      <4>2. (i - 1) * PGSIZE = x
        BY <4>1, Sizes
      <4>3. ((i - 1) * PGSIZE) % PGSIZE = 0
        BY <4>1, MultipleAligned
      <4> QED
        BY <4>2, <4>3
    <3> HIDE DEF x
    <3>3. x + PGSIZE <= KERNBASE
      BY <3>1, <3>2, PageAt
    <3> QED
      BY <1>6, <3>1, <3>3, Sizes
  <2> QED
    BY <1>6, <2>1, <2>2, Sizes
<1>8. TypeOK'
  <2>1. sz[p] \in 0 .. KERNBASE /\ t \in 0 .. AddrMod - 1
    BY <1>3, <1>4, Sizes
  <2> QED
    BY <1>1, <1>7, <2>1 DEF Grow, Call, TypeOK, t
<1>9. JobInv'
  BY <1>1, <1>2, <1>5 DEF JobInv
<1>10. SlotInv'
  BY <1>1, <1>2, <1>5 DEF SlotInv
<1>11. AddrInv'
  <2>1. Limit(p)' = t /\ \A q \in Slots \ {p} : Limit(q)' = Limit(q)
    BY <1>1, <1>5 DEF Limit
  <2>2. t \in 1 .. KERNBASE - 1 /\ PGROUNDUP(sz[p]) < t + PGSIZE
    BY <1>3, <1>4, <1>6, Sizes
  <2> QED
    BY <1>1, <1>2, <1>4, <1>5, <1>6, <2>1, <2>2 DEF AddrInv, PGROUNDUP
<1>12. PagesInv'
  <2>1. Below(PGROUNDUP(sz[p])) = Below(sz[p])
    BY <1>3, <1>6, SamePages
  <2>2. Covers(pgdir[p], sz[p])
    BY <1>1, <1>2 DEF PagesInv
  <2>3. Covers(pgdir[p], PGROUNDUP(sz[p]))
    BY <2>1, <2>2 DEF Covers
  <2> QED
    BY <1>1, <1>2, <1>5, <2>3 DEF PagesInv
<1> QED
  BY <1>8, <1>9, <1>10, <1>11, <1>12

\* growproc() with a negative argument frees the pages above the new size, and
\* all of them, with the size kept, when that is 0.
LEMMA ShrinkInv ==
    ASSUME IInv, NEW p \in Slots, NEW n \in SbrkArgs, Shrink(p, n)
    PROVE  IInv'
<1> USE DEF IInv
<1>1. /\ TypeOK /\ JobInv /\ SlotInv /\ AddrInv /\ PagesInv
      /\ state[p] = "live" /\ pc[p] = "user"
      /\ UNCHANGED <<state, kstack, pc, job, new, child, from, to, a, mem, panic>>
  BY DEF Shrink, At, Running, locals
<1>2. job[p] = "none" /\ sz[p] > 0 /\ sz[p] \in 0 .. KERNBASE - 1 /\ sz[p] \in Nat
  BY <1>1 DEF JobInv, AddrInv, TypeOK
<1> DEFINE t == Add(sz[p], n)
           s == pgdir[p] \ Visited(sz[p], t)
<1>3. t \in Nat /\ t < sz[p]
  <2>1. n < 0 /\ t < sz[p]
    BY DEF Shrink
  <2>4. n \in Int /\ (sz[p] + n < 0 => t >= KERNBASE)
    BY <1>2, SbrkSum
  <2>5. t \in Int
    BY Sizes, <1>2, <2>4 DEF Add
  <2>2. n \in Int /\ sz[p] + n >= 0
    <3> HIDE DEF t
    <3> QED
      BY <1>2, <2>1, <2>4, <2>5, Sizes
  <2>3. t = sz[p] + n
    BY <1>2, <2>2, SbrkSum
  <2> QED
    BY <1>2, <2>1, <2>2, <2>3
<1>4. /\ pgdir'[p] = s /\ sz'[p] = IF t = 0 THEN sz[p] ELSE t
      /\ \A q \in Slots \ {p} : pgdir'[q] = pgdir[q] /\ sz'[q] = sz[q]
  BY <1>1 DEF Shrink, Unmapped, TypeOK
<1>5. TypeOK'
  <2>1. nfree' \in Nat
    <3>1. pgdir[p] \cap Visited(sz[p], t) \in SUBSET Parts /\ nfree \in Nat
      BY <1>1 DEF TypeOK
    <3>2. Cardinality(pgdir[p] \cap Visited(sz[p], t)) \in Nat
      BY <3>1, FiniteParts
    <3> QED
      BY <3>1, <3>2 DEF Shrink, kfree
  <2>2. pgdir' \in [Slots -> SUBSET Parts]
    BY <1>1 DEF Shrink, Unmapped, TypeOK
  <2>3. sz' \in [Slots -> 0 .. KERNBASE - 1]
    <3>1. (IF t = 0 THEN sz[p] ELSE t) \in 0 .. KERNBASE - 1
      BY <1>2, <1>3, Sizes
    <3> QED
      BY <1>1, <3>1 DEF Shrink, TypeOK
  <2> QED
    BY <1>1, <2>1, <2>2, <2>3 DEF TypeOK
<1>6. Covers(s, t) /\ (t = 0 => MappedIn(s) = {})
  <2>1. Covers(pgdir[p], sz[p])
    BY <1>1, <1>2 DEF PagesInv
  <2>2. Below(t) \subseteq Below(sz[p])
    BY <1>2, <1>3, BelowMono
  <2> HIDE DEF t
  <2> QED
    BY <1>2, <1>3, <2>1, <2>2, Dealloc
<1>7. Covers(s, IF t = 0 THEN sz[p] ELSE t)
  BY <1>6 DEF Covers
<1> HIDE DEF t, s
<1>8. JobInv'
  BY <1>1 DEF JobInv
<1>9. SlotInv'
  BY <1>1, <1>4 DEF SlotInv
<1>10. AddrInv'
  <2>1. \A q \in Slots \ {p} : Limit(q)' = Limit(q)
    BY <1>1, <1>4 DEF Limit
  <2>2. sz'[p] > 0
    BY <1>2, <1>3, <1>4
  <2>3. pc[p] = "user"
    BY <1>1
  <2> QED
    BY <1>1, <1>2, <1>4, <2>1, <2>2 DEF AddrInv
<1>11. PagesInv'
  BY <1>1, <1>2, <1>4, <1>7 DEF PagesInv
<1> QED
  BY <1>5, <1>8, <1>9, <1>10, <1>11

\* setupkvm() only ever adds the directory and tables of the kernel half.
LEMMA FirstMissing ==
    ASSUME NEW s, Missing(s) # {}
    PROVE  FirstOf(Missing(s)) \in ({Dir} \cup Kernel) \ s
BY DEF FirstOf, Missing

\* One more table of the kernel half.
LEMMA SetupInv ==
    ASSUME IInv, NEW p \in Slots, setupkvm(p), ~NoMemory
    PROVE  IInv'
<1> USE DEF IInv
<1> DEFINE x == FirstOf(Missing(new[p]))
<1>1. /\ TypeOK /\ JobInv /\ SlotInv /\ AddrInv /\ PagesInv
      /\ state[p] = "live" /\ pc[p] = "setupkvm"
      /\ new' = [new EXCEPT ![p] = @ \cup {x}] /\ kalloc
      /\ UNCHANGED <<state, kstack, pgdir, sz, pc, job, child, from, to, a, mem,
                     panic>>
  BY DEF setupkvm, At, Running, proc
<1>2. x \in {Dir} \cup Kernel
  BY FirstMissing DEF setupkvm
<1> HIDE DEF x
<1>3. job[p] \in {"fork", "exec"} /\ a[p] = 0
  BY <1>1 DEF JobInv
<1>4. new'[p] = new[p] \cup {x} /\ \A q \in Slots \ {p} : new'[q] = new[q]
  BY <1>1 DEF TypeOK
<1>5. TypeOK'
  <2>1. nfree' \in Nat
    BY <1>1 DEF kalloc, NoMemory, TypeOK
  <2>2. x \in Parts
    BY <1>2, PartsHave
  <2>3. new' \in [Slots -> SUBSET Parts]
    BY <1>1, <2>2 DEF TypeOK
  <2> QED
    BY <1>1, <2>1, <2>3 DEF TypeOK
<1>6. JobInv'
  BY <1>1, <1>3, <1>4 DEF JobInv
<1>7. SlotInv'
  BY <1>1 DEF SlotInv
<1>8. AddrInv'
  BY <1>1 DEF AddrInv, Limit
<1>9. PagesInv'
  <2>1. MappedIn(new[p] \cup {x}) = MappedIn(new[p])
    BY <1>2, Kinds DEF MappedIn
  <2> QED
    BY <1>1, <1>3, <1>4, <2>1 DEF PagesInv
<1> QED
  BY <1>5, <1>6, <1>7, <1>8, <1>9

\* The kernel half is complete: on to the user half.
LEMMA SetupDoneInv ==
    ASSUME IInv, NEW p \in Slots, SetupDone(p)
    PROVE  IInv'
<1> USE DEF IInv
<1>1. /\ TypeOK /\ JobInv /\ SlotInv /\ AddrInv /\ PagesInv
      /\ state[p] = "live" /\ pc[p] = "setupkvm"
      /\ UNCHANGED <<nfree, state, kstack, pgdir, sz, new, child, from, to, a,
                     mem, panic>>
  BY DEF SetupDone, At, Running, proc
<1>2. job[p] \in {"fork", "exec"} /\ a[p] = 0 /\ ~mem[p]
  BY <1>1 DEF JobInv
<1>3. /\ job' = job
      /\ pc'[p] = IF job[p] = "fork" THEN "copyuvm" ELSE "allocuvm"
      /\ \A q \in Slots \ {p} : pc'[q] = pc[q]
  BY <1>1 DEF SetupDone, Call, TypeOK
<1>4. TypeOK'
  BY <1>1 DEF SetupDone, Call, TypeOK
<1>5. JobInv'
  BY <1>1, <1>2, <1>3 DEF JobInv
<1>6. SlotInv'
  BY <1>1, <1>3 DEF SlotInv
<1>7. AddrInv'
  <2>1. \A q \in Slots : Limit(q)' = Limit(q)
    BY <1>1, <1>3 DEF Limit
  <2>2. Limit(p) \in Nat
    BY <1>1 DEF Limit, TypeOK
  <2>3. a[p] < Limit(p) + PGSIZE
    BY <1>2, <2>2, Sizes
  <2> QED
    BY <1>1, <1>2, <1>3, <2>1, <2>3 DEF AddrInv
<1>8. PagesInv'
  BY <1>1, <1>3 DEF PagesInv
<1> QED
  BY <1>4, <1>5, <1>6, <1>7, <1>8

\* copyuvm() or allocuvm() has a frame for the page at a.
LEMMA GetFrameInv ==
    ASSUME IInv, NEW p \in Slots, GetFrame(p), ~NoMemory
    PROVE  IInv'
<1> USE DEF IInv
<1>1. /\ TypeOK /\ JobInv /\ SlotInv /\ AddrInv /\ PagesInv
      /\ state[p] = "live" /\ pc[p] \in {"copyuvm", "allocuvm"} /\ a[p] < Limit(p)
      /\ kalloc
      /\ UNCHANGED <<state, kstack, pgdir, sz, new, child, from, to, a, panic>>
  BY DEF GetFrame, InLoop, Running, proc
<1>2. /\ job' = job /\ pc'[p] = "mappages" /\ mem'[p] = TRUE
      /\ \A q \in Slots \ {p} : pc'[q] = pc[q] /\ mem'[q] = mem[q]
  BY <1>1 DEF GetFrame, Call, TypeOK
<1>3. TypeOK'
  <2>1. nfree' \in Nat
    BY <1>1 DEF kalloc, NoMemory, TypeOK
  <2>2. mem' \in [Slots -> BOOLEAN]
    <3>1. mem' = [mem EXCEPT ![p] = TRUE] /\ mem \in [Slots -> BOOLEAN]
      BY <1>1 DEF GetFrame, TypeOK
    <3> QED
      BY <3>1
  <2> QED
    BY <1>1, <2>1, <2>2 DEF GetFrame, Call, TypeOK
<1>4. JobInv'
  BY <1>1, <1>2 DEF JobInv
<1>5. SlotInv'
  BY <1>1, <1>2 DEF SlotInv
<1>6. AddrInv'
  <2>1. \A q \in Slots : Limit(q)' = Limit(q)
    BY <1>1, <1>2 DEF Limit
  <2> QED
    BY <1>1, <1>2, <2>1 DEF AddrInv
<1>7. PagesInv'
  BY <1>1, <1>2 DEF PagesInv
<1> QED
  BY <1>3, <1>4, <1>5, <1>6, <1>7

\* What holds when mappages() is called: the page at a exists, is not mapped
\* yet, and a stays in range when it moves on.
LEMMA MapReady ==
    ASSUME IInv, NEW p \in Slots, pc[p] = "mappages"
    PROVE  /\ job[p] \in {"fork", "sbrk", "exec", "stack"}
           /\ state[p] = "live" /\ mem[p]
           /\ a[p] \in Nat /\ a[p] < Limit(p) /\ Limit(p) < KERNBASE
           /\ Limit(p) \in Nat
           /\ Current(p) \in Pages /\ a[p] + PGSIZE \in 0 .. KERNBASE
           /\ (a[p] + PGSIZE) % PGSIZE = 0
           /\ Below(a[p] + PGSIZE) = Below(a[p]) \cup {Current(p)}
           /\ Current(p) \notin Below(a[p])
           /\ job[p] = "sbrk" => Current(p) # 0
           /\ Page(Current(p)) \notin Target(p)
<1> USE DEF IInv
<1>1. /\ TypeOK /\ JobInv /\ SlotInv /\ AddrInv /\ PagesInv
  OBVIOUS
<1>2. /\ job[p] # "none" /\ job[p] \in {"none", "fork", "sbrk", "exec", "stack"}
      /\ state[p] = "live" /\ mem[p]
  BY <1>1 DEF JobInv, TypeOK
<1>3. a[p] \in Nat /\ a[p] < Limit(p) /\ a[p] % PGSIZE = 0
  BY <1>1 DEF AddrInv, TypeOK
<1>4. Limit(p) < KERNBASE /\ Limit(p) \in Nat
  <2>1. sz[p] \in Nat /\ sz[p] < KERNBASE
    BY <1>1, Sizes DEF TypeOK
  <2>2. job[p] # "fork" => to[p] \in 1 .. KERNBASE - 1
    BY <1>1, <1>2 DEF AddrInv
  <2> QED
    BY <2>1, <2>2, Sizes DEF Limit
<1>5. a[p] < KERNBASE
  BY <1>3, <1>4, Sizes
<1>6. /\ Current(p) \in Pages /\ a[p] + PGSIZE <= KERNBASE
      /\ (a[p] + PGSIZE) % PGSIZE = 0
      /\ a[p] >= PGSIZE => Current(p) # 0
  BY <1>3, <1>5, PageAt DEF Current
<1>7. /\ Below(a[p] + PGSIZE) = Below(a[p]) \cup {Current(p)}
      /\ Current(p) \notin Below(a[p])
  BY <1>3, <1>5, NextPage DEF Current
<1>8. ASSUME job[p] = "sbrk" PROVE Current(p) # 0
  <2>1. from[p] \in Nat /\ from[p] > 0 /\ PGROUNDUP(from[p]) <= a[p]
    BY <1>1, <1>2, <1>8 DEF AddrInv, TypeOK
  <2>2. PGROUNDUP(from[p]) \in Nat /\ PGROUNDUP(from[p]) % PGSIZE = 0
        /\ PGROUNDUP(from[p]) > 0
    BY <2>1, RoundUp
  <2>3. PGROUNDUP(from[p]) >= PGSIZE
    BY <2>2, Sizes
  <2> QED
    BY <1>3, <1>6, <2>1, <2>2, <2>3, Sizes
<1>9. MappedIn(Target(p)) \subseteq Below(a[p])
  BY <1>1, <1>2 DEF PagesInv, Target, Covers
<1>10. Page(Current(p)) \notin Target(p)
  BY <1>6, <1>7, <1>9 DEF MappedIn
<1>11. a[p] + PGSIZE \in 0 .. KERNBASE
  BY <1>3, <1>6, Sizes
<1> QED
  BY <1>2, <1>3, <1>4, <1>6, <1>7, <1>8, <1>10, <1>11

\* mappages() adds the page at a, and its table, and a moves one page on.
LEMMA MapInv ==
    ASSUME IInv, NEW p \in Slots, mappages(p)
    PROVE  IInv'
<1> USE DEF IInv
<1> DEFINE s == Target(p) \cup {Page(Current(p)), Table(TableOf(Current(p)))}
<1>1. /\ TypeOK /\ JobInv /\ SlotInv /\ AddrInv /\ PagesInv
      /\ state[p] = "live" /\ pc[p] = "mappages" /\ SetTarget(p, s)
      /\ UNCHANGED <<state, kstack, sz, child, from, to, panic>>
  BY DEF mappages, At, Running
<1>2. /\ job[p] \in {"fork", "sbrk", "exec", "stack"}
      /\ a[p] \in Nat /\ a[p] < Limit(p) /\ Limit(p) \in Nat
      /\ Current(p) \in Pages /\ a[p] + PGSIZE \in 0 .. KERNBASE
      /\ (a[p] + PGSIZE) % PGSIZE = 0
      /\ Below(a[p] + PGSIZE) = Below(a[p]) \cup {Current(p)}
      /\ job[p] = "sbrk" => Current(p) # 0
  BY <1>1, MapReady
<1>3. /\ job' = job /\ pc'[p] = Loop(p) /\ mem'[p] = FALSE /\ a'[p] = a[p] + PGSIZE
      /\ \A q \in Slots \ {p} :
           pc'[q] = pc[q] /\ mem'[q] = mem[q] /\ a'[q] = a[q]
  BY <1>1 DEF mappages, Call, TypeOK
<1>4. s \in SUBSET Parts
  <2>1. Target(p) \in SUBSET Parts
    BY <1>1 DEF Target, TypeOK
  <2> QED
    BY <1>2, <2>1, PartsHave
<1>5. MappedIn(s) = MappedIn(Target(p)) \cup {Current(p)}
  BY <1>2, MapOne
<1> HIDE DEF s
<1>6. /\ pgdir'[p] = IF job[p] = "sbrk" THEN s ELSE pgdir[p]
      /\ new'[p] = IF job[p] = "sbrk" THEN new[p] ELSE s
      /\ \A q \in Slots \ {p} : pgdir'[q] = pgdir[q] /\ new'[q] = new[q]
  BY <1>1 DEF SetTarget, TypeOK
<1>7. TypeOK'
  <2>1. nfree' \in Nat
    BY <1>1 DEF mappages, kalloc, NoMemory, TypeOK
  <2>2. mem' \in [Slots -> BOOLEAN]
    <3>1. mem' = [mem EXCEPT ![p] = FALSE] /\ mem \in [Slots -> BOOLEAN]
      BY <1>1 DEF mappages, TypeOK
    <3> QED
      BY <3>1
  <2>3. pgdir' \in [Slots -> SUBSET Parts] /\ new' \in [Slots -> SUBSET Parts]
    BY <1>1, <1>4 DEF SetTarget, TypeOK
  <2>4. a' \in [Slots -> 0 .. KERNBASE]
    BY <1>1, <1>2 DEF mappages, TypeOK
  <2>5. pc' \in [Slots -> {"user", "setupkvm", "copyuvm", "allocuvm", "mappages"}]
    BY <1>1 DEF mappages, Call, Loop, TypeOK
  <2> QED
    BY <1>1, <1>3, <2>1, <2>2, <2>3, <2>4, <2>5 DEF TypeOK
<1>8. JobInv'
  BY <1>1, <1>2, <1>3, <1>6 DEF JobInv, Loop
<1>9. SlotInv'
  BY <1>1, <1>3, <1>6 DEF SlotInv
<1>10. AddrInv'
  <2>1. \A q \in Slots : Limit(q)' = Limit(q)
    BY <1>1, <1>3 DEF Limit
  <2>2. /\ a'[p] < Limit(p) + PGSIZE /\ a'[p] % PGSIZE = 0 /\ a[p] <= a'[p]
        /\ a'[p] \in Nat
    BY <1>2, <1>3, Sizes
  <2>3. \A q \in Slots : PGROUNDUP(from[q]) \in Int
    BY <1>1, RoundUp DEF TypeOK
  <2>4. job[p] = "sbrk" => PGROUNDUP(from[p]) <= a'[p]
    BY <1>1, <1>2, <2>2, <2>3 DEF AddrInv
  <2>5. pc'[p] # "mappages"
    BY <1>3 DEF Loop
  <2> QED
    BY <1>1, <1>3, <2>1, <2>2, <2>4, <2>5 DEF AddrInv, PGROUNDUP
<1>11. PagesInv'
  <2>1. CASE job[p] = "sbrk"
    <3>1. Covers(pgdir[p], a[p]) /\ Target(p) = pgdir[p]
      BY <1>1, <2>1 DEF PagesInv, Target
    <3>2. Covers(s, a[p] + PGSIZE)
      BY <1>2, <1>5, <2>1, <3>1 DEF Covers
    <3> QED
      BY <1>1, <1>3, <1>6, <2>1, <3>2 DEF PagesInv
  <2>2. CASE job[p] # "sbrk"
    <3>1. MappedIn(new[p]) = Below(a[p]) /\ Target(p) = new[p]
      BY <1>1, <1>2, <2>2 DEF PagesInv, Target
    <3>2. MappedIn(s) = Below(a[p] + PGSIZE)
      BY <1>2, <1>5, <3>1
    <3> QED
      BY <1>1, <1>3, <1>6, <2>2, <3>2 DEF PagesInv
  <2> QED
    BY <2>1, <2>2
<1> QED
  BY <1>7, <1>8, <1>9, <1>10, <1>11

\* When a loop has ended, the space it built or grew ends at its limit.
LEMMA LoopEnd ==
    ASSUME IInv, NEW p \in Slots, pc[p] \in {"copyuvm", "allocuvm"},
           a[p] >= Limit(p)
    PROVE  /\ state[p] = "live" /\ job[p] \in {"fork", "sbrk", "exec", "stack"}
           /\ Limit(p) \in Nat /\ Below(a[p]) = Below(Limit(p))
<1> USE DEF IInv
<1>1. TypeOK /\ JobInv /\ AddrInv
  OBVIOUS
<1>2. state[p] = "live" /\ job[p] \in {"fork", "sbrk", "exec", "stack"}
  BY <1>1 DEF JobInv
<1>3. Limit(p) \in Nat /\ a[p] \in Nat
  BY <1>1 DEF Limit, TypeOK
<1>4. a[p] % PGSIZE = 0 /\ a[p] < Limit(p) + PGSIZE
  BY <1>1 DEF AddrInv
<1>5. Limit(p) <= a[p]
  BY <1>3
<1>6. Below(a[p]) = Below(Limit(p))
  BY <1>3, <1>4, <1>5, SamePages
<1> QED
  BY <1>2, <1>3, <1>6

\* The child gets the copied space and the size of its parent.
LEMMA ForkDoneInv ==
    ASSUME IInv, NEW p \in Slots, ForkDone(p)
    PROVE  IInv'
<1> USE DEF IInv
<1> DEFINE c == child[p]
<1>1. /\ TypeOK /\ JobInv /\ SlotInv /\ AddrInv /\ PagesInv
      /\ pc[p] \in {"copyuvm", "allocuvm"} /\ a[p] >= Limit(p) /\ job[p] = "fork"
      /\ Return(p) /\ UNCHANGED <<nfree, kstack, panic>>
      /\ c \in Slots
  BY DEF ForkDone, InLoop, TypeOK
<1>2. state[c] = "EMBRYO" /\ state[p] = "live" /\ pc[c] = "user" /\ c # p
  BY <1>1, LoopEnd DEF SlotInv, JobInv
<1>3. job[c] = "none"
  BY <1>1, <1>2 DEF JobInv
<1>4. /\ pgdir'[c] = new[p] /\ sz'[c] = sz[p] /\ state'[c] = "live"
      /\ \A q \in Slots \ {c} :
           pgdir'[q] = pgdir[q] /\ sz'[q] = sz[q] /\ state'[q] = state[q]
  BY <1>1 DEF ForkDone, TypeOK
<1>5. /\ pc'[p] = "user" /\ job'[p] = "none" /\ new'[p] = {}
      /\ child'[p] = p /\ from'[p] = 0 /\ to'[p] = 0 /\ a'[p] = 0
      /\ mem'[p] = FALSE
      /\ \A q \in Slots \ {p} :
           /\ pc'[q] = pc[q] /\ job'[q] = job[q] /\ new'[q] = new[q]
           /\ child'[q] = child[q] /\ from'[q] = from[q] /\ to'[q] = to[q]
           /\ a'[q] = a[q] /\ mem'[q] = mem[q]
  BY <1>1, ReturnFacts
<1>6. TypeOK'
  <2>1. pgdir' \in [Slots -> SUBSET Parts] /\ sz' \in [Slots -> 0 .. KERNBASE - 1]
        /\ state' \in [Slots -> {"UNUSED", "EMBRYO", "live", "ZOMBIE"}]
    BY <1>1 DEF ForkDone, TypeOK
  <2> QED
    BY <1>1, <2>1, ReturnType DEF TypeOK
<1> HIDE DEF c
<1>7. JobInv'
  BY <1>1, <1>2, <1>3, <1>4, <1>5 DEF JobInv
<1>8. SlotInv'
  <2>1. \A q \in Slots : kstack'[q] <=> state'[q] # "UNUSED"
    BY <1>1, <1>2, <1>4 DEF SlotInv
  <2>2. \A q \in Slots : state'[q] \in {"UNUSED", "EMBRYO"} => pgdir'[q] = {}
    BY <1>1, <1>4 DEF SlotInv
  <2>3. state'[initproc] = "live"
    BY <1>1, <1>4, Sizes DEF SlotInv
  <2>4. ASSUME NEW q \in Slots, job'[q] = "fork"
        PROVE  /\ state'[child'[q]] = "EMBRYO"
               /\ \A r \in Slots : r # q /\ job'[r] = "fork" => child'[r] # child'[q]
    <3>1. q # p /\ job[q] = "fork" /\ child'[q] = child[q] /\ child[q] \in Slots
      BY <1>1, <1>5, <2>4 DEF TypeOK
    <3>2. state[child[q]] = "EMBRYO" /\ child[q] # c
      BY <1>1, <3>1 DEF SlotInv, c
    <3>3. \A r \in Slots : r # q /\ job'[r] = "fork" => child'[r] # child'[q]
      BY <1>1, <1>5, <3>1 DEF SlotInv
    <3> QED
      BY <1>4, <3>1, <3>2, <3>3
  <2> QED
    BY <2>1, <2>2, <2>3, <2>4 DEF SlotInv
<1>9. AddrInv'
  <2>1. \A q \in Slots \ {p, c} : Limit(q)' = Limit(q)
    BY <1>1, <1>4, <1>5 DEF Limit
  <2>2. sz[p] > 0 /\ 0 % PGSIZE = 0
    BY <1>1, <1>2, Sizes DEF AddrInv
  <2>3. pc'[c] = "user" /\ job'[c] = "none" /\ a'[c] = a[c]
    BY <1>2, <1>3, <1>5, <1>1
  <2> QED
    BY <1>1, <1>2, <1>4, <1>5, <2>1, <2>2, <2>3 DEF AddrInv
<1>10. PagesInv'
  <2>1. MappedIn(new[p]) = Below(sz[p])
    BY <1>1, LoopEnd DEF PagesInv, Limit
  <2>2. Covers(new[p], sz[p])
    BY <2>1 DEF Covers
  <2> QED
    BY <1>1, <1>2, <1>3, <1>4, <1>5, <2>2 DEF PagesInv
<1> QED
  BY <1>6, <1>7, <1>8, <1>9, <1>10

\* sbrk() has all its pages.
LEMMA GrowDoneInv ==
    ASSUME IInv, NEW p \in Slots, GrowDone(p)
    PROVE  IInv'
<1> USE DEF IInv
<1>1. /\ TypeOK /\ JobInv /\ SlotInv /\ AddrInv /\ PagesInv
      /\ pc[p] \in {"copyuvm", "allocuvm"} /\ a[p] >= Limit(p) /\ job[p] = "sbrk"
      /\ Return(p) /\ sz' = [sz EXCEPT ![p] = to[p]]
      /\ UNCHANGED <<nfree, state, kstack, pgdir, panic>>
  BY DEF GrowDone, InLoop
<1>2. to[p] \in 1 .. KERNBASE - 1 /\ state[p] = "live"
  BY <1>1 DEF AddrInv, JobInv
<1>3. sz'[p] = to[p] /\ \A q \in Slots \ {p} : sz'[q] = sz[q]
  BY <1>1 DEF TypeOK
<1>4. /\ pc'[p] = "user" /\ job'[p] = "none" /\ new'[p] = {}
      /\ child'[p] = p /\ from'[p] = 0 /\ to'[p] = 0 /\ a'[p] = 0
      /\ mem'[p] = FALSE
      /\ \A q \in Slots \ {p} :
           /\ pc'[q] = pc[q] /\ job'[q] = job[q] /\ new'[q] = new[q]
           /\ child'[q] = child[q] /\ from'[q] = from[q] /\ to'[q] = to[q]
           /\ a'[q] = a[q] /\ mem'[q] = mem[q]
  BY <1>1, ReturnFacts
<1>5. TypeOK'
  <2>1. to[p] \in 0 .. KERNBASE - 1
    BY <1>2, Sizes
  <2>2. sz' \in [Slots -> 0 .. KERNBASE - 1]
    BY <1>1, <2>1 DEF TypeOK
  <2> QED
    BY <1>1, <2>2, ReturnType DEF TypeOK
<1>6. JobInv'
  BY <1>1, <1>4 DEF JobInv
<1>7. SlotInv'
  BY <1>1, <1>4 DEF SlotInv
<1>8. AddrInv'
  <2>1. \A q \in Slots \ {p} : Limit(q)' = Limit(q)
    BY <1>1, <1>3, <1>4 DEF Limit
  <2>2. to[p] > 0 /\ 0 % PGSIZE = 0
    BY <1>2, Sizes
  <2> QED
    BY <1>1, <1>3, <1>4, <2>1, <2>2 DEF AddrInv
<1>9. PagesInv'
  <2>1. Below(a[p]) = Below(to[p])
    BY <1>1, LoopEnd DEF Limit
  <2>2. Covers(pgdir[p], to[p])
    BY <1>1, <1>2, <2>1 DEF PagesInv, Covers
  <2> QED
    BY <1>1, <1>3, <1>4, <2>2 DEF PagesInv
<1> QED
  BY <1>5, <1>6, <1>7, <1>8, <1>9

\* The program is in: the stack starts at the next page boundary, where the
\* loop has stopped.
LEMMA StackInv ==
    ASSUME IInv, NEW p \in Slots, StackAlloc(p),
           ~(PGROUNDUP(to[p]) + 2 * PGSIZE >= KERNBASE)
    PROVE  IInv'
<1> USE DEF IInv
<1> DEFINE base == PGROUNDUP(to[p])
<1>1. /\ TypeOK /\ JobInv /\ SlotInv /\ AddrInv /\ PagesInv
      /\ pc[p] \in {"copyuvm", "allocuvm"} /\ a[p] >= Limit(p) /\ job[p] = "exec"
      /\ from' = [from EXCEPT ![p] = base]
      /\ to' = [to EXCEPT ![p] = base + 2 * PGSIZE]
      /\ a' = [a EXCEPT ![p] = base]
      /\ Call(p, "allocuvm", "stack")
      /\ UNCHANGED <<nfree, state, kstack, sz, new, child, mem, pgdir, panic>>
  BY DEF StackAlloc, InLoop
<1>2. to[p] \in Nat /\ to[p] > 0 /\ pc[p] = "allocuvm" /\ state[p] = "live"
  BY <1>1 DEF TypeOK, AddrInv, JobInv
<1>3. /\ base \in Nat /\ base % PGSIZE = 0 /\ to[p] <= base
      /\ base < to[p] + PGSIZE /\ Below(base) = Below(to[p])
  BY <1>2, RoundUp, SamePages
<1>4. base + 2 * PGSIZE < KERNBASE
  BY <1>3, Sizes
<1> HIDE DEF base
<1>5. /\ base \in 0 .. KERNBASE /\ base + 2 * PGSIZE \in 1 .. KERNBASE - 1
      /\ base + 2 * PGSIZE \in 0 .. AddrMod - 1 /\ base < base + 2 * PGSIZE + PGSIZE
  BY <1>3, <1>4, Sizes
<1>6. /\ from'[p] = base /\ to'[p] = base + 2 * PGSIZE /\ a'[p] = base
      /\ pc'[p] = "allocuvm" /\ job'[p] = "stack"
      /\ \A q \in Slots \ {p} : /\ from'[q] = from[q] /\ to'[q] = to[q]
                                /\ a'[q] = a[q] /\ pc'[q] = pc[q]
                                /\ job'[q] = job[q]
  BY <1>1 DEF Call, TypeOK
<1>7. TypeOK'
  BY <1>1, <1>5 DEF Call, TypeOK
<1>8. JobInv'
  BY <1>1, <1>2, <1>6 DEF JobInv
<1>9. SlotInv'
  BY <1>1, <1>6 DEF SlotInv
<1>10. AddrInv'
  <2>1. /\ Limit(p)' = base + 2 * PGSIZE
        /\ \A q \in Slots \ {p} : Limit(q)' = Limit(q)
    BY <1>1, <1>6 DEF Limit
  <2> QED
    BY <1>1, <1>3, <1>5, <1>6, <2>1 DEF AddrInv
<1>11. PagesInv'
  <2>1. MappedIn(new[p]) = Below(base)
    BY <1>1, <1>3, LoopEnd DEF PagesInv, Limit
  <2> QED
    BY <1>1, <1>6, <2>1 DEF PagesInv
<1> QED
  BY <1>7, <1>8, <1>9, <1>10, <1>11

\* exec() replaces the space of the process by the one it has built.
LEMMA CommitInv ==
    ASSUME IInv, NEW p \in Slots, ExecCommit(p)
    PROVE  IInv'
<1> USE DEF IInv
<1>1. /\ TypeOK /\ JobInv /\ SlotInv /\ AddrInv /\ PagesInv
      /\ pc[p] \in {"copyuvm", "allocuvm"} /\ a[p] >= Limit(p) /\ job[p] = "stack"
      /\ Return(p) /\ sz' = [sz EXCEPT ![p] = to[p]]
      /\ pgdir' = [pgdir EXCEPT ![p] = new[p]]
      /\ UNCHANGED <<state, kstack, panic>>
  BY DEF ExecCommit, InLoop
<1>2. to[p] \in 1 .. KERNBASE - 1 /\ state[p] = "live"
  BY <1>1 DEF AddrInv, JobInv
<1>3. /\ sz'[p] = to[p] /\ pgdir'[p] = new[p]
      /\ \A q \in Slots \ {p} : sz'[q] = sz[q] /\ pgdir'[q] = pgdir[q]
  BY <1>1 DEF TypeOK
<1>4. /\ pc'[p] = "user" /\ job'[p] = "none" /\ new'[p] = {}
      /\ child'[p] = p /\ from'[p] = 0 /\ to'[p] = 0 /\ a'[p] = 0
      /\ mem'[p] = FALSE
      /\ \A q \in Slots \ {p} :
           /\ pc'[q] = pc[q] /\ job'[q] = job[q] /\ new'[q] = new[q]
           /\ child'[q] = child[q] /\ from'[q] = from[q] /\ to'[q] = to[q]
           /\ a'[q] = a[q] /\ mem'[q] = mem[q]
  BY <1>1, ReturnFacts
<1>5. TypeOK'
  <2>1. to[p] \in 0 .. KERNBASE - 1
    BY <1>2, Sizes
  <2>2. sz' \in [Slots -> 0 .. KERNBASE - 1] /\ pgdir' \in [Slots -> SUBSET Parts]
    BY <1>1, <2>1 DEF TypeOK
  <2>3. nfree' \in Nat
    <3>1. pgdir[p] \in SUBSET Parts /\ nfree \in Nat
      BY <1>1 DEF TypeOK
    <3>2. Cardinality(pgdir[p]) \in Nat
      BY <3>1, FiniteParts
    <3> QED
      BY <3>1, <3>2 DEF ExecCommit, kfree, freevm
  <2> QED
    BY <1>1, <2>2, <2>3, ReturnType DEF TypeOK
<1>6. JobInv'
  BY <1>1, <1>4 DEF JobInv
<1>7. SlotInv'
  BY <1>1, <1>2, <1>3, <1>4 DEF SlotInv
<1>8. AddrInv'
  <2>1. \A q \in Slots \ {p} : Limit(q)' = Limit(q)
    BY <1>1, <1>3, <1>4 DEF Limit
  <2>2. to[p] > 0 /\ 0 % PGSIZE = 0
    BY <1>2, Sizes
  <2> QED
    BY <1>1, <1>3, <1>4, <2>1, <2>2 DEF AddrInv
<1>9. PagesInv'
  <2>1. MappedIn(new[p]) = Below(to[p])
    BY <1>1, LoopEnd DEF PagesInv, Limit
  <2>2. Covers(new[p], to[p])
    BY <2>1 DEF Covers
  <2> QED
    BY <1>1, <1>3, <1>4, <2>2 DEF PagesInv
<1> QED
  BY <1>5, <1>6, <1>7, <1>8, <1>9

\* What a failing call gives back besides the space it was building: sbrk() the
\* pages it had added, allocuvm() the frame it could not map.
Undone(p) ==
    (IF job[p] = "sbrk" THEN Cardinality(pgdir[p] \cap Visited(to[p], from[p])) ELSE 0)
    + (IF pc[p] = "mappages" THEN GivenBack(p) ELSE 0)

\* The steps on which a system call fails.
Fails(p) ==
    \/ ExecBad(p) \/ MapFails(p)
    \/ setupkvm(p) /\ NoMemory
    \/ GetFrame(p) /\ NoMemory
    \/ StackAlloc(p) /\ PGROUNDUP(to[p]) + 2 * PGSIZE >= KERNBASE

\* They all do the same: give back what the call has.
LEMMA FailCases ==
    ASSUME IInv, NEW p \in Slots, Fails(p)
    PROVE  /\ state[p] = "live" /\ pc[p] # "user" /\ ~panic
           /\ Undone(p) \in Nat /\ FailStep(p, Undone(p))
<1> USE DEF IInv
<1>1. TypeOK /\ JobInv
  OBVIOUS
<1>2. state[p] = "live" /\ pc[p] # "user" /\ ~panic
  BY DEF Fails, ExecBad, MapFails, setupkvm, GetFrame, StackAlloc, At, InLoop,
     Running
<1> DEFINE f == Cardinality(pgdir[p] \cap Visited(to[p], from[p]))
<1>3. f \in Nat
  <2>1. pgdir[p] \cap Visited(to[p], from[p]) \in SUBSET Parts
    BY <1>1 DEF TypeOK
  <2> QED
    BY <2>1, FiniteParts
<1>4. Undone(p) = (IF job[p] = "sbrk" THEN f ELSE 0)
                  + (IF pc[p] = "mappages" THEN GivenBack(p) ELSE 0)
  BY DEF Undone
<1>5. GivenBack(p) \in Nat
  BY DEF GivenBack
<1>6. FailStep(p, Undone(p))
  <2>1. CASE ExecBad(p)
    <3>1. job[p] \in {"exec", "stack"} /\ pc[p] = "allocuvm"
      BY <2>1 DEF ExecBad, At
    <3>2. Undone(p) = 0
      BY <1>4, <3>1
    <3> QED
      BY <2>1, <3>1, <3>2 DEF ExecBad, FailStep
  <2>2. CASE MapFails(p)
    <3>1. pc[p] = "mappages" /\ AllocFails(p, GivenBack(p)) /\ UNCHANGED panic
      BY <2>2 DEF MapFails, At
    <3>2. job[p] = "sbrk" => Undone(p) = GivenBack(p) + f
      BY <1>3, <1>4, <1>5, <3>1
    <3>3. job[p] # "sbrk" => Undone(p) = GivenBack(p)
      BY <1>4, <1>5, <3>1
    <3> QED
      BY <3>1, <3>2, <3>3 DEF AllocFails, FailStep
  <2>3. CASE setupkvm(p) /\ NoMemory
    <3>1. pc[p] = "setupkvm" /\ job[p] \in {"fork", "exec"}
      BY <1>1, <2>3 DEF setupkvm, At, JobInv
    <3>2. Undone(p) = 0
      BY <1>4, <3>1
    <3> QED
      BY <2>3, <3>1, <3>2 DEF setupkvm, FailStep
  <2>4. CASE GetFrame(p) /\ NoMemory
    <3>1. pc[p] # "mappages" /\ AllocFails(p, 0) /\ UNCHANGED panic
      BY <2>4 DEF GetFrame, InLoop
    <3>2. job[p] = "sbrk" => Undone(p) = 0 + f
      BY <1>3, <1>4, <3>1
    <3>3. job[p] # "sbrk" => Undone(p) = 0
      BY <1>4, <3>1
    <3> QED
      BY <3>1, <3>2, <3>3 DEF AllocFails, FailStep
  <2>5. CASE StackAlloc(p) /\ PGROUNDUP(to[p]) + 2 * PGSIZE >= KERNBASE
    <3>1. pc[p] # "mappages" /\ job[p] = "exec"
      BY <2>5 DEF StackAlloc, InLoop
    <3>2. Undone(p) = 0
      BY <1>4, <3>1
    <3> QED
      BY <2>5, <3>1, <3>2 DEF StackAlloc, FailStep
  <2> QED
    BY <2>1, <2>2, <2>3, <2>4, <2>5 DEF Fails
<1> QED
  BY <1>2, <1>3, <1>4, <1>5, <1>6

\* The steps of a process, with the failing ones set apart.
LEMMA StepCases ==
    ASSUME NEW p \in Slots, Step(p)
    PROVE  \/ Fails(p)
           \/ exec(p) \/ exit(p) \/ (setupkvm(p) /\ ~NoMemory) \/ SetupDone(p)
           \/ (GetFrame(p) /\ ~NoMemory) \/ CopyPanic(p) \/ mappages(p)
           \/ ForkDone(p) \/ GrowDone(p)
           \/ (StackAlloc(p) /\ ~(PGROUNDUP(to[p]) + 2 * PGSIZE >= KERNBASE))
           \/ ExecCommit(p)
           \/ (\E c \in Slots : fork(p, c)) \/ (\E c \in Slots : wait(p, c))
           \/ (\E n \in SbrkArgs : Grow(p, n)) \/ (\E n \in SbrkArgs : Shrink(p, n))
BY DEF Step, Fails

\* Every step preserves the invariant.
LEMMA IInvStep == IInv /\ [Next]_vars => IInv'
<1> SUFFICES ASSUME IInv, [Next]_vars PROVE IInv'
  OBVIOUS
<1>1. CASE UNCHANGED vars
  <2>1. /\ TypeOK /\ JobInv /\ SlotInv /\ AddrInv /\ PagesInv
        /\ UNCHANGED <<nfree, state, kstack, pgdir, sz, pc, job, new, child,
                       from, to, a, mem, panic>>
    BY <1>1 DEF IInv, vars, proc, locals
  <2>2. TypeOK' /\ JobInv' /\ SlotInv'
    BY <2>1 DEF TypeOK, JobInv, SlotInv
  <2>3. AddrInv'
    BY <2>1 DEF AddrInv, Limit
  <2>4. PagesInv'
    BY <2>1 DEF PagesInv
  <2> QED
    BY <2>2, <2>3, <2>4 DEF IInv
<1>2. ASSUME NEW p \in Slots, Step(p) PROVE IInv'
  <2>1. CASE Fails(p)
    BY <2>1, FailCases, FailInv
  <2>2. CASE exec(p) \/ exit(p)
    BY <2>2, ExecInv, ExitInv
  <2>3. CASE (setupkvm(p) /\ ~NoMemory) \/ SetupDone(p)
    BY <2>3, SetupInv, SetupDoneInv
  <2>4. CASE (GetFrame(p) /\ ~NoMemory) \/ mappages(p)
    BY <2>4, GetFrameInv, MapInv
  <2>5. CASE CopyPanic(p)
    <3>1. /\ TypeOK /\ JobInv /\ SlotInv /\ AddrInv /\ PagesInv
          /\ panic' = TRUE
          /\ UNCHANGED <<nfree, state, kstack, pgdir, sz, pc, job, new, child,
                         from, to, a, mem>>
      BY <2>5 DEF IInv, CopyPanic, proc, locals
    <3>2. TypeOK'
      <4>1. panic' \in BOOLEAN
        BY <3>1, Zenon
      <4> QED
        BY <3>1, <4>1 DEF TypeOK
    <3>3. JobInv' /\ SlotInv'
      BY <3>1 DEF JobInv, SlotInv
    <3>4. AddrInv'
      BY <3>1 DEF AddrInv, Limit
    <3>5. PagesInv'
      BY <3>1 DEF PagesInv
    <3> QED
      BY <3>2, <3>3, <3>4, <3>5 DEF IInv
  <2>6. CASE ForkDone(p) \/ GrowDone(p)
    BY <2>6, ForkDoneInv, GrowDoneInv
  <2>7. CASE \/ StackAlloc(p) /\ ~(PGROUNDUP(to[p]) + 2 * PGSIZE >= KERNBASE)
             \/ ExecCommit(p)
    BY <2>7, StackInv, CommitInv
  <2>8. CASE (\E c \in Slots : fork(p, c)) \/ (\E c \in Slots : wait(p, c))
    BY <2>8, ForkInv, WaitInv
  <2>9. CASE \/ \E n \in SbrkArgs : Grow(p, n)
             \/ \E n \in SbrkArgs : Shrink(p, n)
    BY <2>9, GrowInv, ShrinkInv
  <2> QED
    BY <1>2, <2>1, <2>2, <2>3, <2>4, <2>5, <2>6, <2>7, <2>8, <2>9, StepCases
<1> QED
  BY <1>1, <1>2 DEF Next

\* The invariant holds in every reachable state.
LEMMA IInvAlways == Spec => []IInv
BY IInvInit, IInvStep, PTL DEF Spec

\* Whatever fails half way, a process in user space has exactly the pages below
\* p->sz, unless sbrk() has emptied it.
THEOREM SizeSoundAlways == Spec => []SizeSound
<1>1. IInv => SizeSound
  <2> SUFFICES ASSUME IInv PROVE SizeSound
    OBVIOUS
  <2>1. ASSUME NEW p \in Slots, At(p, "user"), 0 \in Mapped(p)
        PROVE  Mapped(p) = {k \in Pages : k * PGSIZE < sz[p]}
    <3>1. state[p] = "live" /\ job[p] = "none"
      BY <2>1 DEF At, Running, IInv, JobInv
    <3>2. Covers(pgdir[p], sz[p])
      BY <3>1 DEF IInv, PagesInv
    <3> QED
      BY <2>1, <3>2 DEF Covers, Mapped, MappedIn, Below
  <2> QED
    BY <2>1 DEF SizeSound, MappedBelowSize, IInv
<1> QED
  BY <1>1, IInvAlways, PTL

-----------------------------------------------------------------------------
(* The panics of vm.c *)

\* After panic() nothing runs; before it, copyuvm() misses a page only in a
\* process that has lost page 0.
LEMMA PanicStep ==
    IInv /\ PanicOnlyWhenEmptied /\ [Next]_vars => PanicOnlyWhenEmptied'
<1> SUFFICES ASSUME IInv, PanicOnlyWhenEmptied, [Next]_vars
             PROVE  PanicOnlyWhenEmptied'
  OBVIOUS
<1>1. CASE UNCHANGED vars
  BY <1>1 DEF PanicOnlyWhenEmptied, Mapped, vars, proc, locals
<1>2. ASSUME NEW p \in Slots, Step(p) PROVE PanicOnlyWhenEmptied'
  <2>1. ~panic
    BY <1>2 DEF Step, exec, ExecBad, exit, setupkvm, SetupDone, GetFrame,
       CopyPanic, MapFails, mappages, ForkDone, GrowDone, StackAlloc, ExecCommit,
       fork, wait, Grow, Shrink, At, InLoop, Running
  <2>2. CASE CopyPanic(p)
    <3>1. /\ state[p] = "live" /\ a[p] < Limit(p) /\ job[p] = "fork"
          /\ Page(Current(p)) \notin pgdir[p] /\ UNCHANGED <<pgdir, job>>
      BY <2>2 DEF CopyPanic, InLoop, Running, proc, locals
    <3>2. Covers(pgdir[p], sz[p]) /\ a[p] < sz[p] /\ a[p] % PGSIZE = 0
      BY <3>1 DEF IInv, PagesInv, AddrInv, Limit
    <3>3. a[p] \in Nat /\ sz[p] \in Nat /\ sz[p] < KERNBASE
      BY Sizes DEF IInv, TypeOK
    <3>4. Current(p) \in Pages /\ Current(p) * PGSIZE = a[p]
      <4>1. a[p] < KERNBASE
        BY <3>2, <3>3, Sizes
      <4> QED
        BY <3>2, <3>3, <4>1, PageAt DEF Current
    <3>5. Current(p) \in Below(sz[p]) /\ Current(p) \notin MappedIn(pgdir[p])
      BY <3>1, <3>2, <3>4 DEF Below, MappedIn
    <3>6. 0 \notin Mapped(p)
      BY <3>2, <3>5 DEF Covers, Mapped, MappedIn
    <3> QED
      BY <3>1, <3>6 DEF PanicOnlyWhenEmptied, Mapped
  <2>3. CASE UNCHANGED panic
    BY <2>1, <2>3 DEF PanicOnlyWhenEmptied
  <2>4. CopyPanic(p) \/ UNCHANGED panic
    BY <1>2 DEF Step, exec, ExecBad, exit, setupkvm, SetupDone, GetFrame,
       MapFails, mappages, ForkDone, GrowDone, StackAlloc, ExecCommit, fork,
       wait, Grow, Shrink
  <2> QED
    BY <2>2, <2>3, <2>4
<1> QED
  BY <1>1, <1>2 DEF Next

\* panic("remap") is unreachable, and panic("copyuvm: page not present") only
\* follows from an sbrk() to size 0, for every memory layout.
THEOREM PanicsConfinedAlways == Spec => []PanicsConfined
<1>1. IInv => NoRemap
  BY MapReady DEF NoRemap
<1>2. Init => PanicOnlyWhenEmptied
  BY DEF Init, PanicOnlyWhenEmptied
<1>3. NoRemap /\ PanicOnlyWhenEmptied => PanicsConfined
  BY DEF PanicsConfined
<1> QED
  BY <1>1, <1>2, <1>3, IInvAlways, PanicStep, PTL DEF Spec

-----------------------------------------------------------------------------
(* Counting frames *)

\* Disjoint finite sets add up.
LEMMA DisjointSum ==
    ASSUME NEW S, NEW T, IsFiniteSet(S), IsFiniteSet(T), S \cap T = {}
    PROVE  /\ IsFiniteSet(S \cup T)
           /\ Cardinality(S \cup T) = Cardinality(S) + Cardinality(T)
           /\ Cardinality(S) \in Nat /\ Cardinality(T) \in Nat
BY FS_Union, FS_EmptySet, FS_CardinalityType

\* Changing the space of one slot changes the count by the difference.
LEMMA FramesUpdate ==
    ASSUME NEW f \in [Slots -> SUBSET Parts], NEW q \in Slots,
           NEW s \in SUBSET Parts
    PROVE  /\ Frames(f) \in Nat /\ Cardinality(f[q]) \in Nat
           /\ Cardinality(s) \in Nat
           /\ Frames([f EXCEPT ![q] = s]) =
                Frames(f) - Cardinality(f[q]) + Cardinality(s)
<1> DEFINE A == {y \in Slots \X Parts : y[1] # q /\ y[2] \in f[y[1]]}
           Slice(t) == {q} \X t
           Pairs(h) == {y \in Slots \X Parts : y[2] \in h[y[1]]}
           g == [f EXCEPT ![q] = s]
<1>1. IsFiniteSet(A)
  <2>1. IsFiniteSet(Slots \X Parts)
    BY FiniteParts, FS_Product
  <2>2. A \subseteq Slots \X Parts
    OBVIOUS
  <2> QED
    BY <2>1, <2>2, FS_Subset
<1>2. ASSUME NEW t \in SUBSET Parts
      PROVE  /\ IsFiniteSet(Slice(t)) /\ Cardinality(Slice(t)) = Cardinality(t)
             /\ Cardinality(t) \in Nat
  <2>1. IsFiniteSet({q}) /\ Cardinality({q}) = 1
    BY FS_Singleton
  <2>2. IsFiniteSet(t) /\ Cardinality(t) \in Nat
    BY FiniteParts
  <2>3. IsFiniteSet(Slice(t)) /\ Cardinality(Slice(t)) = 1 * Cardinality(t)
    BY <2>1, <2>2, FS_Product
  <2> QED
    BY <2>2, <2>3
<1>3. \A t \in SUBSET Parts : A \cap Slice(t) = {}
  OBVIOUS
<1>4. ASSUME NEW t \in SUBSET Parts
      PROVE  Cardinality(A \cup Slice(t)) = Cardinality(A) + Cardinality(t)
             /\ Cardinality(A) \in Nat
  <2>1. IsFiniteSet(Slice(t)) /\ Cardinality(Slice(t)) = Cardinality(t)
    BY <1>2
  <2>2. A \cap Slice(t) = {}
    BY <1>3
  <2> HIDE DEF A, Slice
  <2> QED
    BY <1>1, <2>1, <2>2, DisjointSum
<1>5. Pairs(f) = A \cup Slice(f[q])
  OBVIOUS
<1>6. Pairs(g) = A \cup Slice(s)
  <2>1. g[q] = s /\ \A p \in Slots \ {q} : g[p] = f[p]
    OBVIOUS
  <2> HIDE DEF g
  <2> QED
    BY <2>1
<1>7. f[q] \in SUBSET Parts
  OBVIOUS
<1>8. Frames(f) = Cardinality(Pairs(f)) /\ Frames(g) = Cardinality(Pairs(g))
  BY DEF Frames
<1>9. /\ Frames(f) = Cardinality(A) + Cardinality(f[q])
      /\ Frames(g) = Cardinality(A) + Cardinality(s)
      /\ Cardinality(A) \in Nat
  BY <1>4, <1>5, <1>6, <1>7, <1>8
<1>10. Cardinality(f[q]) \in Nat /\ Cardinality(s) \in Nat
  BY <1>7, FiniteParts
<1> HIDE DEF A, g
<1> QED
  BY <1>9, <1>10 DEF g

\* The frame of a flag that is set.
One(b) == IF b THEN 1 ELSE 0

\* Changing the flag of one slot changes the count by at most one.
LEMMA CountUpdate ==
    ASSUME NEW f \in [Slots -> BOOLEAN], NEW q \in Slots, NEW b \in BOOLEAN
    PROVE  /\ Count(f) \in Nat
           /\ Count([f EXCEPT ![q] = b]) = Count(f) - One(f[q]) + One(b)
<1> DEFINE S == {p \in Slots : f[p]}
           T == {p \in Slots : [f EXCEPT ![q] = b][p]}
           R == {p \in Slots \ {q} : f[p]}
<1>1. IsFiniteSet(R) /\ Cardinality(R) \in Nat
  <2>1. R \subseteq Slots
    OBVIOUS
  <2> QED
    BY <2>1, FiniteParts, FS_Subset, FS_CardinalityType
<1>2. Cardinality(R \cup {q}) = Cardinality(R) + 1
  <2>1. q \notin R
    OBVIOUS
  <2> HIDE DEF R
  <2> QED
    BY <1>1, <2>1, FS_AddElement
<1>3. S = IF f[q] THEN R \cup {q} ELSE R
  OBVIOUS
<1>4. T = IF b THEN R \cup {q} ELSE R
  OBVIOUS
<1>5. Count(f) = Cardinality(S) /\ Count([f EXCEPT ![q] = b]) = Cardinality(T)
  BY DEF Count
<1> HIDE DEF R, S, T
<1> QED
  BY <1>1, <1>2, <1>3, <1>4, <1>5 DEF One

\* All counts are natural numbers.
LEMMA Counts ==
    ASSUME TypeOK
    PROVE  /\ Frames(pgdir) \in Nat /\ Frames(new) \in Nat
           /\ Count(kstack) \in Nat /\ Count(mem) \in Nat
           /\ nfree \in Nat /\ NFrames \in Nat
<1>1. initproc \in Slots /\ {} \in SUBSET Parts
  BY Sizes
<1>2. Frames(pgdir) \in Nat /\ Frames(new) \in Nat
  BY <1>1, FramesUpdate DEF TypeOK
<1>3. FALSE \in BOOLEAN
  OBVIOUS
<1>4. Count(kstack) \in Nat /\ Count(mem) \in Nat
  BY <1>1, <1>3, CountUpdate DEF TypeOK
<1> QED
  BY <1>2, <1>4, VmAssumption DEF TypeOK

\* Return() drops the space being built and the frame being mapped.
LEMMA ReturnCounts ==
    ASSUME TypeOK, NEW p \in Slots, Return(p)
    PROVE  /\ Frames(new') = Frames(new) - Cardinality(new[p])
           /\ Count(mem') = Count(mem) - One(mem[p])
           /\ Cardinality(new[p]) \in Nat
<1>1. new' = [new EXCEPT ![p] = {}] /\ mem' = [mem EXCEPT ![p] = FALSE]
  BY DEF Return
<1>2. /\ new \in [Slots -> SUBSET Parts] /\ mem \in [Slots -> BOOLEAN]
      /\ {} \in SUBSET Parts /\ FALSE \in BOOLEAN
  BY DEF TypeOK
<1>3. /\ Frames(new') = Frames(new) - Cardinality(new[p]) + Cardinality({})
      /\ Cardinality(new[p]) \in Nat /\ Frames(new) \in Nat
  BY <1>1, <1>2, FramesUpdate
<1>4. Count(mem') = Count(mem) - One(mem[p]) + One(FALSE) /\ Count(mem) \in Nat
  BY <1>1, <1>2, CountUpdate
<1>5. Frames(new') = Frames(new) - Cardinality(new[p])
  <2>1. Cardinality({}) = 0
    BY FS_EmptySet
  <2> QED
    BY <1>3, <2>1
<1>6. Count(mem') = Count(mem) - One(mem[p])
  BY <1>4 DEF One
<1> QED
  BY <1>3, <1>5, <1>6

\* A failing call gives back all that it holds, except for the frame that
\* copyuvm() could not map.
LEMMA LostFail ==
    ASSUME IInv, NEW p \in Slots, Fails(p)
    PROVE  Lost' = Lost + (IF pc[p] = "mappages" /\ job[p] = "fork" THEN 1 ELSE 0)
<1>1. /\ TypeOK /\ JobInv /\ SlotInv /\ FailStep(p, Undone(p)) /\ Undone(p) \in Nat
  BY FailCases DEF IInv
<1>2. /\ nfree' = nfree + (Undone(p) + Cardinality(new[p])
                           + (IF job[p] = "fork" THEN 1 ELSE 0))
      /\ Return(p)
  BY <1>1 DEF FailStep, Fail, kfree, freevm
<1>3. /\ Frames(new') = Frames(new) - Cardinality(new[p])
      /\ Count(mem') = Count(mem) - One(mem[p]) /\ Cardinality(new[p]) \in Nat
  BY <1>1, <1>2, ReturnCounts
<1>4. Count(kstack') = Count(kstack) - (IF job[p] = "fork" THEN 1 ELSE 0)
  <2>1. CASE job[p] = "fork"
    <3>1. /\ kstack' = [kstack EXCEPT ![child[p]] = FALSE]
          /\ child[p] \in Slots /\ kstack \in [Slots -> BOOLEAN]
          /\ kstack[child[p]] /\ FALSE \in BOOLEAN
      BY <1>1, <2>1 DEF FailStep, Fail, TypeOK, SlotInv
    <3>2. /\ Count(kstack') = Count(kstack) - One(kstack[child[p]]) + One(FALSE)
          /\ Count(kstack) \in Nat
      BY <3>1, CountUpdate
    <3> QED
      BY <2>1, <3>1, <3>2 DEF One
  <2>2. CASE job[p] # "fork"
    <3>1. kstack' = kstack /\ Count(kstack) \in Nat
      BY <1>1, <2>2, Counts DEF FailStep, Fail
    <3> QED
      BY <2>2, <3>1
  <2> QED
    BY <2>1, <2>2
<1> DEFINE xs == Visited(to[p], from[p])
           f == Cardinality(pgdir[p] \cap xs)
<1>5. /\ Frames(pgdir') = Frames(pgdir) - (IF job[p] = "sbrk" THEN f ELSE 0)
      /\ f \in Nat
  <2>0. pgdir[p] \in SUBSET Parts /\ pgdir[p] \cap xs \in SUBSET Parts
    BY <1>1 DEF TypeOK
  <2>1. f \in Nat /\ IsFiniteSet(pgdir[p]) /\ Cardinality(pgdir[p]) \in Nat
    BY <2>0, FiniteParts
  <2>2. CASE job[p] = "sbrk"
    <3>1. /\ pgdir' = [pgdir EXCEPT ![p] = pgdir[p] \ xs]
          /\ pgdir \in [Slots -> SUBSET Parts] /\ pgdir[p] \ xs \in SUBSET Parts
      BY <1>1, <2>2 DEF FailStep, Unmapped, TypeOK
    <3>2. Cardinality(pgdir[p] \ xs) = Cardinality(pgdir[p]) - f
      BY <2>1, FS_Difference
    <3> HIDE DEF xs, f
    <3>3. /\ Frames(pgdir') = Frames(pgdir) - Cardinality(pgdir[p])
                              + Cardinality(pgdir[p] \ xs)
          /\ Frames(pgdir) \in Nat
      BY <3>1, FramesUpdate
    <3> QED
      BY <2>1, <2>2, <3>2, <3>3
  <2>3. CASE job[p] # "sbrk"
    <3>1. pgdir' = pgdir /\ Frames(pgdir) \in Nat
      BY <1>1, <2>3, Counts DEF FailStep
    <3> QED
      BY <2>1, <2>3, <3>1
  <2> QED
    BY <2>2, <2>3
<1>6. Undone(p) = (IF job[p] = "sbrk" THEN f ELSE 0)
                  + (IF pc[p] = "mappages" THEN GivenBack(p) ELSE 0)
  BY DEF Undone
<1>7. One(mem[p]) = IF pc[p] = "mappages" THEN 1 ELSE 0
  BY <1>1 DEF JobInv, One
<1>8. GivenBack(p) = IF job[p] = "fork" THEN 0 ELSE 1
  BY DEF GivenBack
<1>9. /\ Frames(pgdir) \in Nat /\ Frames(new) \in Nat /\ Count(kstack) \in Nat
      /\ Count(mem) \in Nat /\ nfree \in Nat /\ NFrames \in Nat
  BY <1>1, Counts
<1>10. /\ Lost = NFrames - nfree
                 - (Frames(pgdir) + Frames(new) + Count(kstack) + Count(mem))
       /\ Lost' = NFrames - nfree'
                  - (Frames(pgdir') + Frames(new') + Count(kstack') + Count(mem'))
  BY DEF Lost, Held, Frames, Count
<1> HIDE DEF xs, f
<1> QED
  BY <1>2, <1>3, <1>4, <1>5, <1>6, <1>7, <1>8, <1>9, <1>10

\* Lost frames, in terms of the counts before and after a step.
LEMMA LostParts ==
    /\ Lost = NFrames - nfree
              - (Frames(pgdir) + Frames(new) + Count(kstack) + Count(mem))
    /\ Lost' = NFrames - nfree'
               - (Frames(pgdir') + Frames(new') + Count(kstack') + Count(mem'))
BY DEF Lost, Held, Frames, Count

\* The steps that move no frame.
LEMMA LostSame ==
    ASSUME UNCHANGED <<nfree, pgdir, new, kstack, mem>>
    PROVE  Lost' = Lost
BY DEF Lost, Held, Frames, Count

\* fork() turns a free frame into the stack of a slot that had none.
LEMMA LostFork ==
    ASSUME IInv, NEW p \in Slots, NEW c \in Slots, fork(p, c)
    PROVE  Lost' = Lost
<1>1. /\ TypeOK /\ nfree' = nfree - 1 /\ UNCHANGED <<pgdir, new, mem>>
      /\ kstack' = [kstack EXCEPT ![c] = TRUE] /\ ~kstack[c]
      /\ kstack \in [Slots -> BOOLEAN] /\ TRUE \in BOOLEAN
  BY DEF IInv, TypeOK, SlotInv, fork, kalloc
<1>2. Count(kstack') = Count(kstack) - One(kstack[c]) + One(TRUE)
  BY <1>1, CountUpdate
<1>3. Count(kstack) \in Nat
  BY <1>1, Counts
<1>4. Count(kstack') = Count(kstack) + 1
  BY <1>1, <1>2, <1>3 DEF One
<1> QED
  BY <1>1, <1>4, Counts, LostParts

\* wait() gives back the stack and every part of the space.
LEMMA LostWait ==
    ASSUME IInv, NEW p \in Slots, NEW c \in Slots, wait(p, c)
    PROVE  Lost' = Lost
<1>1. /\ TypeOK /\ nfree' = nfree + (Cardinality(pgdir[c]) + 1)
      /\ kstack' = [kstack EXCEPT ![c] = FALSE] /\ kstack[c]
      /\ pgdir' = [pgdir EXCEPT ![c] = {}] /\ UNCHANGED <<new, mem>>
      /\ kstack \in [Slots -> BOOLEAN] /\ FALSE \in BOOLEAN
      /\ pgdir \in [Slots -> SUBSET Parts] /\ {} \in SUBSET Parts
  BY DEF IInv, TypeOK, SlotInv, wait, kfree, freevm, locals
<1>2. Count(kstack') = Count(kstack) - One(kstack[c]) + One(FALSE)
  BY <1>1, CountUpdate
<1>3. Count(kstack) \in Nat
  BY <1>1, Counts
<1>4. Count(kstack') = Count(kstack) - 1
  BY <1>1, <1>2, <1>3 DEF One
<1>5. /\ Frames(pgdir') = Frames(pgdir) - Cardinality(pgdir[c]) + Cardinality({})
      /\ Cardinality(pgdir[c]) \in Nat
  BY <1>1, FramesUpdate
<1>6. Cardinality({}) = 0
  BY FS_EmptySet
<1> QED
  BY <1>1, <1>4, <1>5, <1>6, Counts, LostParts

\* growproc() gives back exactly the pages it unmaps.
LEMMA LostShrink ==
    ASSUME IInv, NEW p \in Slots, NEW n \in SbrkArgs, Shrink(p, n)
    PROVE  Lost' = Lost
<1> DEFINE xs == Visited(sz[p], Add(sz[p], n))
           f == Cardinality(pgdir[p] \cap xs)
<1>1. /\ TypeOK /\ nfree' = nfree + f
      /\ pgdir' = [pgdir EXCEPT ![p] = pgdir[p] \ xs]
      /\ UNCHANGED <<new, mem, kstack>>
      /\ pgdir \in [Slots -> SUBSET Parts] /\ pgdir[p] \ xs \in SUBSET Parts
      /\ pgdir[p] \cap xs \in SUBSET Parts /\ pgdir[p] \in SUBSET Parts
  BY DEF IInv, TypeOK, Shrink, kfree, Unmapped, locals
<1>2. f \in Nat /\ IsFiniteSet(pgdir[p]) /\ Cardinality(pgdir[p]) \in Nat
  BY <1>1, FiniteParts
<1>3. Cardinality(pgdir[p] \ xs) = Cardinality(pgdir[p]) - f
  BY <1>2, FS_Difference
<1> HIDE DEF xs, f
<1>4. Frames(pgdir') = Frames(pgdir) - Cardinality(pgdir[p])
                       + Cardinality(pgdir[p] \ xs)
  BY <1>1, FramesUpdate
<1> QED
  BY <1>1, <1>2, <1>3, <1>4, Counts, LostParts

\* setupkvm() puts a frame where none was.
LEMMA LostSetup ==
    ASSUME IInv, NEW p \in Slots, setupkvm(p), ~NoMemory
    PROVE  Lost' = Lost
<1> DEFINE x == FirstOf(Missing(new[p]))
<1>1. x \in {Dir} \cup Kernel /\ x \notin new[p]
  BY FirstMissing DEF setupkvm
<1>2. x \in Parts
  BY <1>1, PartsHave
<1>3. /\ TypeOK /\ nfree' = nfree - 1
      /\ new' = [new EXCEPT ![p] = new[p] \cup {x}]
      /\ UNCHANGED <<pgdir, mem, kstack>>
      /\ new \in [Slots -> SUBSET Parts] /\ new[p] \cup {x} \in SUBSET Parts
      /\ new[p] \in SUBSET Parts
  BY <1>2 DEF IInv, TypeOK, setupkvm, kalloc, proc
<1> HIDE DEF x
<1>4. IsFiniteSet(new[p]) /\ Cardinality(new[p]) \in Nat
  BY <1>3, FiniteParts
<1>5. Cardinality(new[p] \cup {x}) = Cardinality(new[p]) + 1
  BY <1>1, <1>4, FS_AddElement
<1>6. Frames(new') = Frames(new) - Cardinality(new[p])
                     + Cardinality(new[p] \cup {x})
  BY <1>3, FramesUpdate
<1> QED
  BY <1>3, <1>4, <1>5, <1>6, Counts, LostParts

\* A frame that kalloc() has returned is on its way to be mapped.
LEMMA LostGetFrame ==
    ASSUME IInv, NEW p \in Slots, GetFrame(p), ~NoMemory
    PROVE  Lost' = Lost
<1>1. /\ TypeOK /\ nfree' = nfree - 1 /\ UNCHANGED <<pgdir, new, kstack>>
      /\ mem' = [mem EXCEPT ![p] = TRUE] /\ ~mem[p]
      /\ mem \in [Slots -> BOOLEAN] /\ TRUE \in BOOLEAN
  BY DEF IInv, TypeOK, JobInv, GetFrame, InLoop, kalloc, proc
<1>2. Count(mem') = Count(mem) - One(mem[p]) + One(TRUE)
  BY <1>1, CountUpdate
<1>3. Count(mem) \in Nat
  BY <1>1, Counts
<1>4. Count(mem') = Count(mem) + 1
  BY <1>1, <1>2, <1>3 DEF One
<1> QED
  BY <1>1, <1>4, Counts, LostParts

\* mappages() maps that frame, and one more for a table that is missing.
LEMMA LostMap ==
    ASSUME IInv, NEW p \in Slots, mappages(p)
    PROVE  Lost' = Lost
<1> DEFINE x == Page(Current(p))
           t == Table(TableOf(Current(p)))
           s == Target(p) \cup {x, t}
           d == IF NoTable(p) THEN 1 ELSE 0
<1>1. /\ TypeOK /\ pc[p] = "mappages" /\ SetTarget(p, s)
      /\ mem' = [mem EXCEPT ![p] = FALSE] /\ UNCHANGED kstack
      /\ nfree' = nfree - d /\ nfree \in Nat
  BY DEF IInv, TypeOK, mappages, At, kalloc
<1>2. x \notin Target(p) /\ mem[p] /\ Current(p) \in Pages
  BY <1>1, MapReady
<1>3. x # t
  BY Kinds
<1>4. s \in SUBSET Parts /\ Target(p) \in SUBSET Parts
  <2>1. Target(p) \in SUBSET Parts
    BY <1>1 DEF Target, TypeOK
  <2> QED
    BY <1>2, <2>1, PartsHave
<1>5. NoTable(p) <=> t \notin Target(p)
  BY DEF NoTable
<1>6. IsFiniteSet(Target(p)) /\ Cardinality(Target(p)) \in Nat
  BY <1>4, FiniteParts
<1> HIDE DEF x, t
<1>7. Cardinality(s) = Cardinality(Target(p)) + 1 + d
  <2>1. /\ IsFiniteSet(Target(p) \cup {x})
        /\ Cardinality(Target(p) \cup {x}) = Cardinality(Target(p)) + 1
    BY <1>2, <1>6, FS_AddElement
  <2>2. Cardinality((Target(p) \cup {x}) \cup {t}) =
          IF t \in Target(p) \cup {x} THEN Cardinality(Target(p) \cup {x})
          ELSE Cardinality(Target(p) \cup {x}) + 1
    BY <2>1, FS_AddElement
  <2>3. s = (Target(p) \cup {x}) \cup {t}
    OBVIOUS
  <2>4. t \in Target(p) \cup {x} <=> ~NoTable(p)
    BY <1>3, <1>5
  <2> HIDE DEF s
  <2> QED
    BY <1>6, <2>1, <2>2, <2>3, <2>4
<1>8. Count(mem') = Count(mem) - 1
  <2>1. /\ mem \in [Slots -> BOOLEAN] /\ FALSE \in BOOLEAN
    BY <1>1 DEF TypeOK
  <2>2. Count(mem') = Count(mem) - One(mem[p]) + One(FALSE) /\ Count(mem) \in Nat
    BY <1>1, <2>1, CountUpdate
  <2> QED
    BY <1>2, <2>2 DEF One
<1> HIDE DEF s
<1>9. CASE job[p] = "sbrk"
  <2>1. /\ pgdir' = [pgdir EXCEPT ![p] = s] /\ UNCHANGED new
        /\ Target(p) = pgdir[p] /\ pgdir \in [Slots -> SUBSET Parts]
    BY <1>1, <1>9 DEF SetTarget, Target, TypeOK
  <2>2. Frames(pgdir') = Frames(pgdir) - Cardinality(Target(p)) + Cardinality(s)
    BY <1>4, <2>1, FramesUpdate
  <2> QED
    BY <1>1, <1>6, <1>7, <1>8, <2>1, <2>2, Counts, LostParts
<1>10. CASE job[p] # "sbrk"
  <2>1. /\ new' = [new EXCEPT ![p] = s] /\ UNCHANGED pgdir
        /\ Target(p) = new[p] /\ new \in [Slots -> SUBSET Parts]
    BY <1>1, <1>10 DEF SetTarget, Target, TypeOK
  <2>2. Frames(new') = Frames(new) - Cardinality(Target(p)) + Cardinality(s)
    BY <1>4, <2>1, FramesUpdate
  <2> QED
    BY <1>1, <1>6, <1>7, <1>8, <2>1, <2>2, Counts, LostParts
<1> QED
  BY <1>9, <1>10

\* The space that fork() has copied moves to the child.
LEMMA LostForkDone ==
    ASSUME IInv, NEW p \in Slots, ForkDone(p)
    PROVE  Lost' = Lost
<1>1. /\ TypeOK /\ Return(p) /\ UNCHANGED <<nfree, kstack>> /\ ~mem[p]
      /\ pgdir' = [pgdir EXCEPT ![child[p]] = new[p]] /\ child[p] \in Slots
      /\ pgdir[child[p]] = {} /\ new[p] \in SUBSET Parts
      /\ pgdir \in [Slots -> SUBSET Parts]
  BY DEF IInv, TypeOK, JobInv, SlotInv, ForkDone, InLoop
<1>2. /\ Frames(pgdir') = Frames(pgdir) - Cardinality(pgdir[child[p]])
                          + Cardinality(new[p])
  BY <1>1, FramesUpdate
<1>3. Cardinality(pgdir[child[p]]) = 0
  BY <1>1, FS_EmptySet
<1>4. /\ Frames(new') = Frames(new) - Cardinality(new[p])
      /\ Count(mem') = Count(mem) - One(mem[p]) /\ Cardinality(new[p]) \in Nat
  BY <1>1, ReturnCounts
<1>5. One(mem[p]) = 0
  BY <1>1 DEF One
<1> QED
  BY <1>1, <1>2, <1>3, <1>4, <1>5, Counts, LostParts

\* sbrk() has nothing left to account for.
LEMMA LostGrowDone ==
    ASSUME IInv, NEW p \in Slots, GrowDone(p)
    PROVE  Lost' = Lost
<1>1. /\ TypeOK /\ Return(p) /\ UNCHANGED <<nfree, kstack, pgdir>> /\ ~mem[p]
      /\ new[p] = {}
  BY DEF IInv, TypeOK, JobInv, GrowDone, InLoop
<1>2. Cardinality(new[p]) = 0
  BY <1>1, FS_EmptySet
<1>3. /\ Frames(new') = Frames(new) - Cardinality(new[p])
      /\ Count(mem') = Count(mem) - One(mem[p])
  BY <1>1, ReturnCounts
<1>4. One(mem[p]) = 0
  BY <1>1 DEF One
<1> QED
  BY <1>1, <1>2, <1>3, <1>4, Counts, LostParts

\* exec() frees the old space and keeps the new one.
LEMMA LostCommit ==
    ASSUME IInv, NEW p \in Slots, ExecCommit(p)
    PROVE  Lost' = Lost
<1>1. /\ TypeOK /\ Return(p) /\ UNCHANGED kstack /\ ~mem[p]
      /\ nfree' = nfree + Cardinality(pgdir[p])
      /\ pgdir' = [pgdir EXCEPT ![p] = new[p]] /\ new[p] \in SUBSET Parts
      /\ pgdir \in [Slots -> SUBSET Parts]
  BY DEF IInv, TypeOK, JobInv, ExecCommit, InLoop, kfree, freevm
<1>2. /\ Frames(pgdir') = Frames(pgdir) - Cardinality(pgdir[p])
                          + Cardinality(new[p])
      /\ Cardinality(pgdir[p]) \in Nat
  BY <1>1, FramesUpdate
<1>3. /\ Frames(new') = Frames(new) - Cardinality(new[p])
      /\ Count(mem') = Count(mem) - One(mem[p]) /\ Cardinality(new[p]) \in Nat
  BY <1>1, ReturnCounts
<1>4. One(mem[p]) = 0
  BY <1>1 DEF One
<1> QED
  BY <1>1, <1>2, <1>3, <1>4, Counts, LostParts

\* The frame that copyuvm() could not map is the only one ever lost.
LEMMA LostStep ==
    ASSUME IInv, [Next]_vars
    PROVE  \/ Lost' = Lost
           \/ /\ Lost' = Lost + 1
              /\ \E p \in Slots : job[p] = "fork" /\ mem[p]
<1>1. CASE UNCHANGED vars
  BY <1>1, LostSame DEF vars, proc, locals
<1>2. ASSUME NEW p \in Slots, Step(p)
      PROVE  \/ Lost' = Lost
             \/ Lost' = Lost + 1 /\ job[p] = "fork" /\ mem[p]
  <2>1. CASE Fails(p)
    <3>1. Lost' = Lost + (IF pc[p] = "mappages" /\ job[p] = "fork" THEN 1 ELSE 0)
      BY <2>1, LostFail
    <3>2. Lost \in Int
      BY LostParts, Counts DEF IInv
    <3>3. pc[p] = "mappages" => mem[p]
      BY DEF IInv, JobInv
    <3> QED
      BY <3>1, <3>2, <3>3
  <2>2. CASE exec(p) \/ exit(p) \/ SetupDone(p) \/ CopyPanic(p)
             \/ (\E n \in SbrkArgs : Grow(p, n))
    BY <2>2, LostSame DEF exec, exit, SetupDone, CopyPanic, Grow, proc, locals
  <2>3. CASE StackAlloc(p) /\ ~(PGROUNDUP(to[p]) + 2 * PGSIZE >= KERNBASE)
    BY <2>3, LostSame DEF StackAlloc
  <2>4. CASE (setupkvm(p) /\ ~NoMemory) \/ (GetFrame(p) /\ ~NoMemory) \/ mappages(p)
    BY <2>4, LostSetup, LostGetFrame, LostMap
  <2>5. CASE ForkDone(p) \/ GrowDone(p) \/ ExecCommit(p)
    BY <2>5, LostForkDone, LostGrowDone, LostCommit
  <2>6. CASE \/ \E c \in Slots : fork(p, c)
             \/ \E c \in Slots : wait(p, c)
             \/ \E n \in SbrkArgs : Shrink(p, n)
    BY <2>6, LostFork, LostWait, LostShrink
  <2> QED
    BY <1>2, <2>1, <2>2, <2>3, <2>4, <2>5, <2>6, StepCases
<1> QED
  BY <1>1, <1>2 DEF Next

\* The tables of the kernel half are as many as setupkvm() allocates.
LEMMA KernelSize ==
    IsFiniteSet(Kernel) /\ Cardinality(Kernel) = KTables
<1> DEFINE f == [k \in 1 .. KTables |-> <<"ktable", k>>]
<1>1. /\ IsFiniteSet(1 .. KTables) /\ KTables \in Nat
      /\ Cardinality(1 .. KTables) = KTables
  BY VmAssumption, FS_Interval
<1>2. Kernel = {f[k] : k \in 1 .. KTables}
  BY DEF Kernel
<1>3. f \in Surjection(1 .. KTables, Kernel)
  BY <1>2 DEF Surjection
<1>4. f \in [1 .. KTables -> Kernel] /\ \A x, y \in 1 .. KTables : f[x] = f[y] => x = y
  BY <1>2
<1>5. f \in Injection(1 .. KTables, Kernel)
  BY <1>4 DEF Injection, IsInjective
<1> HIDE DEF f
<1> QED
  BY <1>1, <1>3, <1>5, FS_Surjection

\* The first address space has three frames beside the kernel half.
LEMMA InitSpaceSize ==
    InitSpace \in SUBSET Parts /\ Cardinality(InitSpace) = KTables + 3
<1>1. InitSpace = ((Kernel \cup {Dir}) \cup {Table(0)}) \cup {Page(0)}
  BY DEF InitSpace
<1>2. /\ Dir \notin Kernel /\ Table(0) \notin Kernel \cup {Dir}
      /\ Page(0) \notin (Kernel \cup {Dir}) \cup {Table(0)}
  BY Kinds
<1>3. /\ IsFiniteSet(Kernel \cup {Dir})
      /\ Cardinality(Kernel \cup {Dir}) = KTables + 1
  BY <1>2, KernelSize, FS_AddElement
<1>4. /\ IsFiniteSet((Kernel \cup {Dir}) \cup {Table(0)})
      /\ Cardinality((Kernel \cup {Dir}) \cup {Table(0)}) = KTables + 1 + 1
  BY <1>2, <1>3, FS_AddElement
<1>5. Cardinality(InitSpace) = KTables + 1 + 1 + 1
  BY <1>1, <1>2, <1>4, FS_AddElement
<1>6. TableOf(0) = 0 /\ 0 \in Pages /\ KTables \in Nat
  BY Sizes, VmAssumption DEF TableOf
<1>7. InitSpace \in SUBSET Parts
  BY <1>6 DEF InitSpace, Parts, Tables
<1> QED
  BY <1>5, <1>6, <1>7

\* Spaces that are all empty have no frame, flags that are all clear none.
LEMMA NoneCounted ==
    /\ Frames([p \in Slots |-> {}]) = 0
    /\ Count([p \in Slots |-> FALSE]) = 0
<1>1. {y \in Slots \X Parts : y[2] \in [p \in Slots |-> {}][y[1]]} = {}
  OBVIOUS
<1>2. {q \in Slots : [p \in Slots |-> FALSE][q]} = {}
  OBVIOUS
<1> QED
  BY <1>1, <1>2, FS_EmptySet DEF Frames, Count

\* userinit() has accounted for every frame.
LEMMA LostInit == Init => Lost = 0
<1> SUFFICES ASSUME Init
             PROVE  Lost = 0
  OBVIOUS
<1> DEFINE e == [p \in Slots |-> {}]
           n == [p \in Slots |-> FALSE]
<1>1. initproc \in Slots /\ e \in [Slots -> SUBSET Parts] /\ n \in [Slots -> BOOLEAN]
      /\ e[initproc] = {} /\ ~n[initproc]
  BY Sizes
<1>2. pgdir = [e EXCEPT ![initproc] = InitSpace] /\ new = e
  BY DEF Init
<1>3. kstack = [n EXCEPT ![initproc] = TRUE] /\ mem = n
  BY Zenon DEF Init
<1>4. Frames(e) = 0 /\ Count(n) = 0 /\ Cardinality({}) = 0
  BY NoneCounted, FS_EmptySet
<1> HIDE DEF e, n
<1>5. /\ Frames(pgdir) = Frames(e) - Cardinality(e[initproc])
                         + Cardinality(InitSpace)
      /\ Frames(new) = 0
  BY <1>1, <1>2, <1>4, InitSpaceSize, FramesUpdate
<1>6. /\ Count(kstack) = Count(n) - One(n[initproc]) + One(TRUE)
      /\ Count(mem) = 0
  BY <1>1, <1>3, <1>4, CountUpdate
<1>7. Frames(pgdir) = KTables + 3
  BY <1>1, <1>4, <1>5, InitSpaceSize, VmAssumption
<1>8. Count(kstack) = 1
  BY <1>1, <1>4, <1>6 DEF One
<1>9. nfree = NFrames - KTables - 4 /\ NFrames \in Nat /\ KTables \in Nat
  BY VmAssumption DEF Init
<1> QED
  BY <1>5, <1>6, <1>7, <1>8, <1>9, LostParts

\* Every failure in the middle of fork(), exec() or sbrk() gives back all the
\* frames it took, except that copyuvm() drops one when mappages() fails.
THEOREM OnlyCopyLeaksAlways == Spec => OnlyCopyLeaks
<1>1. ASSUME IInv, [Next]_vars
      PROVE  [Lost' # Lost => /\ Lost' = Lost + 1
                              /\ \E p \in Slots : job[p] = "fork" /\ mem[p]]_vars
  BY <1>1, LostStep
<1> QED
  BY <1>1, IInvAlways, PTL DEF Spec, OnlyCopyLeaks

\* kfree() never gets a frame that is free or still mapped: the frames in use
\* and on the free list are never more than the machine has.
THEOREM NoneFreedInUseAlways == Spec => []NoneFreedInUse
<1>1. Init => NoneFreedInUse
  BY LostInit DEF NoneFreedInUse
<1>2. IInv /\ NoneFreedInUse /\ [Next]_vars => NoneFreedInUse'
  <2> SUFFICES ASSUME IInv, NoneFreedInUse, [Next]_vars
               PROVE  NoneFreedInUse'
    OBVIOUS
  <2>1. Lost' = Lost \/ Lost' = Lost + 1
    BY LostStep
  <2>2. Lost \in Int
    BY LostParts, Counts DEF IInv
  <2> QED
    BY <2>1, <2>2 DEF NoneFreedInUse
<1> QED
  BY <1>1, <1>2, IInvAlways, PTL DEF Spec
=============================================================================
