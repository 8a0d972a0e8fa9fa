--------------------------------- MODULE Vm ---------------------------------
(***************************************************************************)
(* Physical pages and address spaces: kalloc.c, vm.c, and their users      *)
(* fork(), growproc(), wait() (xv6/proc.c) and exec() (xv6/exec.c).        *)
(* Processes run these system calls concurrently and meet in the free      *)
(* list, so every kalloc() is a step of its own and may be the one that    *)
(* finds it empty.                                                         *)
(*                                                                         *)
(* An address space is the set of its parts that have a page frame:        *)
(* directory, tables of the kernel half, tables of the user half, user     *)
(* pages.  Frames are counted, not named: one that were freed twice, or    *)
(* while a page table maps it, shows as a frame too many.  Contents and    *)
(* permission bits are left out.  Addresses are in units of which PGSIZE   *)
(* make a page, and wrap at AddrMod.                                       *)
(***************************************************************************)
EXTENDS Integers, FiniteSets

CONSTANTS
    NPROC,
    NFrames,        \* page frames that kinit1() and kinit2() free
    PGSIZE, KERNBASE, AddrMod,
    NPTE,           \* entries of a page table
    KTables,        \* page tables that map the kernel half
    ExecSizes,      \* sizes of programs
    SbrkArgs        \* arguments of sbrk()

Slots == 1 .. NPROC
initproc == 1
Pages == 0 .. (KERNBASE \div PGSIZE) - 1
TableOf(k) == k \div NPTE
Tables == {TableOf(k) : k \in Pages}
Dir == <<"dir", 0>>
Kernel == {<<"ktable", k>> : k \in 1 .. KTables}
Table(t) == <<"table", t>>
Page(k) == <<"page", k>>
Parts == {Dir} \cup Kernel \cup {Table(t) : t \in Tables}
               \cup {Page(k) : k \in Pages}

ASSUME VmAssumption ==
    /\ NPROC \in Nat \ {0}
    /\ PGSIZE \in Nat \ {0} /\ NPTE \in Nat \ {0} /\ KTables \in Nat
    /\ NFrames \in Nat /\ NFrames >= KTables + 4        \* userinit() succeeds
    /\ KERNBASE \in Nat /\ KERNBASE % PGSIZE = 0 /\ KERNBASE > PGSIZE
    /\ AddrMod \in Nat /\ 2 * KERNBASE <= AddrMod
    /\ ExecSizes \subseteq 1 .. KERNBASE - 1
    /\ SbrkArgs \subseteq -KERNBASE .. KERNBASE - 1

VARIABLES
    nfree,          \* frames on kmem.freelist
    state, kstack, pgdir, sz,       \* of a process
    pc, job,        \* the loop a process is in, and for which system call
    new,            \* the address space fork() or exec() is building
    child,          \* the slot fork() has allocated
    from, to, a,    \* oldsz, newsz and the loop variable of allocuvm()
    mem,            \* kalloc() has returned a frame that is not mapped yet
    panic

proc == <<state, kstack, pgdir, sz>>
locals == <<pc, job, new, child, from, to, a, mem>>
vars == <<nfree, proc, locals, panic>>

TypeOK ==
    /\ nfree \in Nat
    /\ state \in [Slots -> {"UNUSED", "EMBRYO", "live", "ZOMBIE"}]
    /\ kstack \in [Slots -> BOOLEAN] /\ mem \in [Slots -> BOOLEAN]
    /\ pgdir \in [Slots -> SUBSET Parts] /\ new \in [Slots -> SUBSET Parts]
    /\ sz \in [Slots -> 0 .. KERNBASE - 1]
    /\ pc \in [Slots -> {"user", "setupkvm", "copyuvm", "allocuvm", "mappages"}]
    /\ job \in [Slots -> {"none", "fork", "sbrk", "exec", "stack"}]
    /\ child \in [Slots -> Slots]
    /\ from \in [Slots -> 0 .. KERNBASE] /\ to \in [Slots -> 0 .. AddrMod - 1]
    /\ a \in [Slots -> 0 .. KERNBASE]
    /\ panic \in BOOLEAN

\* userinit(): a stack, a page table and one page for initcode.
InitSpace == {Dir, Table(0), Page(0)} \cup Kernel

Init ==
    /\ nfree = NFrames - KTables - 4
    /\ state = [p \in Slots |-> IF p = initproc THEN "live" ELSE "UNUSED"]
    /\ kstack = [p \in Slots |-> p = initproc]
    /\ pgdir = [p \in Slots |-> IF p = initproc THEN InitSpace ELSE {}]
    /\ sz = [p \in Slots |-> IF p = initproc THEN PGSIZE ELSE 0]
    /\ pc = [p \in Slots |-> "user"] /\ job = [p \in Slots |-> "none"]
    /\ new = [p \in Slots |-> {}] /\ child = [p \in Slots |-> p]
    /\ from = [p \in Slots |-> 0] /\ to = [p \in Slots |-> 0]
    /\ a = [p \in Slots |-> 0] /\ mem = [p \in Slots |-> FALSE]
    /\ panic = FALSE

-----------------------------------------------------------------------------
(* Helpers *)

\* uint addition, and the next page boundary.
Add(x, y) == (x + y) % AddrMod
RoundDown(x) == (x \div PGSIZE) * PGSIZE
PGROUNDUP(x) == ((x + PGSIZE - 1) \div PGSIZE) * PGSIZE

\* kalloc() takes a frame from the free list or fails.
NoMemory == nfree = 0
kalloc == nfree' = nfree - 1

\* kfree() of n frames.
kfree(n) == nfree' = nfree + n

\* The pages deallocuvm() visits: those from PGROUNDUP(newsz) to oldsz.
VisitedOneShort(oldsz, newsz) ==
    {Page(k) : k \in {j \in Pages : /\ j * PGSIZE >= PGROUNDUP(newsz)
                                   /\ (j + 1) * PGSIZE < oldsz}}
Visited(oldsz, newsz) ==
    {Page(k) : k \in {j \in Pages : /\ j * PGSIZE >= PGROUNDUP(newsz)
                                   /\ j * PGSIZE < oldsz}}

\* A page that is freed leaves the page table.
StillMapped(s, xs) == s
Unmapped(s, xs) == s \ xs

\* freevm(): user pages, page tables, directory.
freevm(s) == Cardinality(s)

Running(p) == state[p] = "live" /\ ~panic
At(p, l) == Running(p) /\ pc[p] = l

Call(p, l, j) ==
    /\ pc' = [pc EXCEPT ![p] = l]
    /\ job' = [job EXCEPT ![p] = j]

\* Back to user space, with the locals reset.
Return(p) ==
    /\ Call(p, "user", "none")
    /\ new' = [new EXCEPT ![p] = {}] /\ child' = [child EXCEPT ![p] = p]
    /\ from' = [from EXCEPT ![p] = 0] /\ to' = [to EXCEPT ![p] = 0]
    /\ a' = [a EXCEPT ![p] = 0] /\ mem' = [mem EXCEPT ![p] = FALSE]

\* The call fails: exec() frees what it has built, fork() also the stack and
\* the slot of the child, growproc() nothing here.
Fail(p, freed) ==
    /\ kfree(freed + freevm(new[p]) + (IF job[p] = "fork" THEN 1 ELSE 0))
    /\ IF job[p] = "fork"
       THEN /\ kstack' = [kstack EXCEPT ![child[p]] = FALSE]
            /\ state' = [state EXCEPT ![child[p]] = "UNUSED"]
       ELSE UNCHANGED <<kstack, state>>
    /\ Return(p)
    /\ UNCHANGED sz

-----------------------------------------------------------------------------
(* The system calls *)

\* allocproc(): without a frame for the stack nothing has changed.
fork(p, c) ==
    /\ At(p, "user") /\ state[c] = "UNUSED" /\ ~NoMemory
    /\ kalloc
    /\ kstack' = [kstack EXCEPT ![c] = TRUE]
    /\ state' = [state EXCEPT ![c] = "EMBRYO"]
    /\ child' = [child EXCEPT ![p] = c]
    /\ Call(p, "setupkvm", "fork")
    /\ UNCHANGED <<pgdir, sz, new, from, to, a, mem, panic>>

exec(p) ==
    /\ At(p, "user")
    /\ \E t \in ExecSizes : to' = [to EXCEPT ![p] = t]
    /\ Call(p, "setupkvm", "exec")
    /\ UNCHANGED <<nfree, proc, new, child, from, a, mem, panic>>

\* A bad program or bad arguments: exec() gives up.
ExecBad(p) ==
    /\ At(p, "allocuvm") /\ job[p] \in {"exec", "stack"}
    /\ a[p] = 0 \/ a[p] >= to[p]
    /\ Fail(p, 0)
    /\ UNCHANGED <<pgdir, panic>>

\* growproc(n): a size that is out of range or wraps is refused, or changes
\* nothing.
Grow(p, n) ==
    /\ At(p, "user") /\ n > 0 /\ Add(sz[p], n) < KERNBASE
    /\ from' = [from EXCEPT ![p] = sz[p]]
    /\ to' = [to EXCEPT ![p] = Add(sz[p], n)]
    /\ a' = [a EXCEPT ![p] = PGROUNDUP(sz[p])]
    /\ Call(p, "allocuvm", "sbrk")
    /\ UNCHANGED <<nfree, proc, new, child, mem, panic>>

\* deallocuvm() returns the new size, and 0 is taken for a failure.
Shrink(p, n) ==
    /\ At(p, "user") /\ n < 0 /\ Add(sz[p], n) < sz[p]
    /\ LET xs == Visited(sz[p], Add(sz[p], n))
       IN /\ kfree(Cardinality(pgdir[p] \cap xs))
          /\ pgdir' = [pgdir EXCEPT ![p] = Unmapped(@, xs)]
    /\ sz' = [sz EXCEPT ![p] = IF Add(@, n) = 0 THEN @ ELSE Add(@, n)]
    /\ UNCHANGED <<state, kstack, locals, panic>>

exit(p) ==
    /\ At(p, "user") /\ p # initproc
    /\ state' = [state EXCEPT ![p] = "ZOMBIE"]
    /\ UNCHANGED <<nfree, kstack, pgdir, sz, locals, panic>>

\* wait() by the parent, whoever that is; what a free slot keeps in pgdir and
\* sz is never read.
wait(p, c) ==
    /\ At(p, "user") /\ state[c] = "ZOMBIE"
    /\ kfree(freevm(pgdir[c]) + 1)
    /\ kstack' = [kstack EXCEPT ![c] = FALSE]
    /\ pgdir' = [pgdir EXCEPT ![c] = {}] /\ sz' = [sz EXCEPT ![c] = 0]
    /\ state' = [state EXCEPT ![c] = "UNUSED"]
    /\ UNCHANGED <<locals, panic>>

-----------------------------------------------------------------------------
(* setupkvm(): the directory, then the tables of the kernel half *)

Missing(s) == ({Dir} \cup Kernel) \ s
FirstOf(xs) == IF Dir \in xs THEN Dir ELSE CHOOSE x \in xs : TRUE

setupkvm(p) ==
    /\ At(p, "setupkvm") /\ Missing(new[p]) # {}
    /\ IF NoMemory
       THEN Fail(p, 0) /\ UNCHANGED <<pgdir, panic>>
       ELSE /\ new' = [new EXCEPT ![p] = @ \cup {FirstOf(Missing(new[p]))}]
            /\ kalloc
            /\ UNCHANGED <<proc, pc, job, child, from, to, a, mem, panic>>

SetupDone(p) ==
    /\ At(p, "setupkvm") /\ Missing(new[p]) = {}
    /\ Call(p, IF job[p] = "fork" THEN "copyuvm" ELSE "allocuvm", job[p])
    /\ UNCHANGED <<nfree, proc, new, child, from, to, a, mem, panic>>

-----------------------------------------------------------------------------
(* copyuvm() and allocuvm(): a frame, then its mapping *)

Limit(p) == IF job[p] = "fork" THEN sz[p] ELSE to[p]
Loop(p) == IF job[p] = "fork" THEN "copyuvm" ELSE "allocuvm"
InLoop(p) == Running(p) /\ pc[p] \in {"copyuvm", "allocuvm"}
Current(p) == a[p] \div PGSIZE          \* the page at address a

\* The space that grows, and its update.
Target(p) == IF job[p] = "sbrk" THEN pgdir[p] ELSE new[p]
SetTarget(p, s) ==
    IF job[p] = "sbrk"
    THEN pgdir' = [pgdir EXCEPT ![p] = s] /\ UNCHANGED new
    ELSE new' = [new EXCEPT ![p] = s] /\ UNCHANGED pgdir

\* allocuvm() out of memory: deallocuvm(newsz, oldsz), and n more frames.
AllocFails(p, n) ==
    LET xs == Visited(to[p], from[p])
    IN IF job[p] = "sbrk"
       THEN /\ Fail(p, n + Cardinality(pgdir[p] \cap xs))
            /\ pgdir' = [pgdir EXCEPT ![p] = Unmapped(@, xs)]
       ELSE Fail(p, n) /\ UNCHANGED pgdir

GetFrame(p) ==
    /\ InLoop(p) /\ a[p] < Limit(p)
    /\ job[p] = "fork" => Page(Current(p)) \in pgdir[p]
    /\ IF NoMemory
       THEN AllocFails(p, 0) /\ UNCHANGED panic
       ELSE /\ mem' = [mem EXCEPT ![p] = TRUE]
            /\ kalloc
            /\ Call(p, "mappages", job[p])
            /\ UNCHANGED <<proc, new, child, from, to, a, panic>>

\* panic("copyuvm: page not present")
CopyPanic(p) ==
    /\ InLoop(p) /\ a[p] < Limit(p)
    /\ job[p] = "fork" /\ Page(Current(p)) \notin pgdir[p]
    /\ panic' = TRUE
    /\ UNCHANGED <<nfree, proc, locals>>

\* mappages(), through walkpgdir().  When there is no frame for the page
\* table, allocuvm() frees mem and copyuvm() forgets it.
NoTable(p) == Table(TableOf(Current(p))) \notin Target(p)
GivenBackNever(p) == 0
GivenBack(p) == IF job[p] = "fork" THEN 0 ELSE 1
MapFails(p) ==
    /\ At(p, "mappages") /\ NoTable(p) /\ NoMemory
    /\ AllocFails(p, GivenBack(p))
    /\ UNCHANGED panic

mappages(p) ==
    /\ At(p, "mappages") /\ (NoTable(p) => ~NoMemory)
    /\ SetTarget(p, Target(p) \cup {Page(Current(p)),
                                    Table(TableOf(Current(p)))})
    /\ IF NoTable(p) THEN kalloc ELSE UNCHANGED nfree
    /\ mem' = [mem EXCEPT ![p] = FALSE]
    /\ a' = [a EXCEPT ![p] = @ + PGSIZE]
    /\ Call(p, Loop(p), job[p])
    /\ UNCHANGED <<state, kstack, sz, child, from, to, panic>>

ForkDone(p) ==
    /\ InLoop(p) /\ job[p] = "fork" /\ a[p] >= Limit(p)
    /\ pgdir' = [pgdir EXCEPT ![child[p]] = new[p]]
    /\ sz' = [sz EXCEPT ![child[p]] = sz[p]]
    /\ state' = [state EXCEPT ![child[p]] = "live"]
    /\ Return(p)
    /\ UNCHANGED <<nfree, kstack, panic>>

GrowDone(p) ==
    /\ InLoop(p) /\ job[p] = "sbrk" /\ a[p] >= Limit(p)
    /\ sz' = [sz EXCEPT ![p] = to[p]]
    /\ Return(p)
    /\ UNCHANGED <<nfree, state, kstack, pgdir, panic>>

\* The program is loaded: two more pages for the stack.
StackAlloc(p) ==
    /\ InLoop(p) /\ job[p] = "exec" /\ a[p] >= Limit(p)
    /\ LET base == PGROUNDUP(to[p])
       IN IF base + 2 * PGSIZE >= KERNBASE
          THEN Fail(p, 0)
          ELSE /\ from' = [from EXCEPT ![p] = base]
               /\ to' = [to EXCEPT ![p] = base + 2 * PGSIZE]
               /\ a' = [a EXCEPT ![p] = base]
               /\ Call(p, "allocuvm", "stack")
               /\ UNCHANGED <<nfree, state, kstack, sz, new, child, mem>>
    /\ UNCHANGED <<pgdir, panic>>

\* Commit to the user image, then free the old one.
ExecCommit(p) ==
    /\ InLoop(p) /\ job[p] = "stack" /\ a[p] >= Limit(p)
    /\ pgdir' = [pgdir EXCEPT ![p] = new[p]]
    /\ sz' = [sz EXCEPT ![p] = to[p]]
    /\ kfree(freevm(pgdir[p]))
    /\ Return(p)
    /\ UNCHANGED <<state, kstack, panic>>

-----------------------------------------------------------------------------
Step(p) ==
    \/ exec(p) \/ ExecBad(p) \/ exit(p)
    \/ setupkvm(p) \/ SetupDone(p)
    \/ GetFrame(p) \/ CopyPanic(p) \/ MapFails(p) \/ mappages(p)
    \/ ForkDone(p) \/ GrowDone(p) \/ StackAlloc(p) \/ ExecCommit(p)
    \/ \E c \in Slots : fork(p, c) \/ wait(p, c)
    \/ \E n \in SbrkArgs : Grow(p, n) \/ Shrink(p, n)

Next == \E p \in Slots : Step(p)

Spec == Init /\ [][Next]_vars

-----------------------------------------------------------------------------
(* Properties *)

\* The frames that page tables, stacks and system calls have.
Frames(space) == Cardinality({y \in Slots \X Parts : y[2] \in space[y[1]]})
Count(flag) == Cardinality({p \in Slots : flag[p]})
Held == Frames(pgdir) + Frames(new) + Count(kstack) + Count(mem)
Lost == NFrames - nfree - Held

\* Whatever fails half way in fork(), exec() or sbrk(), no frame is freed twice
\* or while it is in use: there are never more frames than the machine has.
NoneFreedInUse == Lost >= 0

\* The only frame that ever gets lost is the one copyuvm() holds when
\* mappages() fails (vm.c:343); every other failure gives everything back.
OnlyCopyLeaks ==
    [][Lost' # Lost => /\ Lost' = Lost + 1
                       /\ \E p \in Slots : job[p] = "fork" /\ mem[p]]_vars

\* In user space a process has exactly the pages below p->sz, even after
\* calls that failed half way.  The exception is growproc() to size 0, which
\* frees everything and, taking 0 for a failure, keeps p->sz (proc.c:175); the
\* process has then lost page 0.
Mapped(p) == {k \in Pages : Page(k) \in pgdir[p]}
MappedBelowSize ==
    \A p \in Slots : At(p, "user") /\ 0 \in Mapped(p) =>
        Mapped(p) = {k \in Pages : k * PGSIZE < sz[p]}

\* panic("copyuvm: page not present") is reached from that exception only.
PanicOnlyWhenEmptied ==
    panic => \E p \in Slots : job[p] = "fork" /\ 0 \notin Mapped(p)

\* mappages() never meets an entry in use, panic("remap").
NoRemap ==
    \A p \in Slots : pc[p] = "mappages" =>
        Page(Current(p)) \notin Target(p)

\* The size a process has agrees with the pages it has.
SizeSound == TypeOK /\ MappedBelowSize

\* Of the panics of vm.c, one is unreachable and one has a single cause.
PanicsConfined == NoRemap /\ PanicOnlyWhenEmptied
=============================================================================
