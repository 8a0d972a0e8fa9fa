-------------------------------- MODULE Proc --------------------------------
(***************************************************************************)
(* The process table and the per-CPU schedulers of the kernel              *)
(* (xv6/proc.c), with the parts of trap.c and sysproc.c that create, run,  *)
(* preempt, put to sleep, wake, kill and reap processes.                   *)
(*                                                                         *)
(* A CPU executes either its scheduler thread or the kernel thread of one  *)
(* process; swtch() moves it from one to the other while ptable.lock stays *)
(* held, so the thread that releases the lock is not the one that acquired *)
(* it.  A region that runs entirely under ptable.lock is one step; a       *)
(* region the code leaves unlocked (the body of fork, the reads of         *)
(* p->killed) has a step of its own per shared access.                     *)
(***************************************************************************)
EXTENDS Integers, FiniteSets

CONSTANTS
    NPROC,      \* slots of ptable.proc
    NCPU,       \* CPUs, numbered from 0; CPU 0 counts the ticks
    MaxPid,     \* bound: the largest pid given out
    TickMod,    \* ticks is a uint: it wraps at TickMod (2^32 in the code)
    Calls,      \* system calls that user programs make
    InitCalls,  \* system calls that the init program makes
    KillPids,   \* arguments of kill()
    SleepArgs   \* arguments of sleep(), as the uint they are compared as

Ticks == 0 .. TickMod - 1

SysCalls == {"fork", "exit", "wait", "kill", "sleep"}

ASSUME ProcAssumption ==
    /\ NPROC \in Nat \ {0}
    /\ NCPU \in Nat \ {0}
    /\ MaxPid \in Nat
    /\ TickMod \in Nat \ {0}
    /\ Calls \subseteq SysCalls
    /\ InitCalls \subseteq SysCalls
    /\ KillPids \subseteq Nat
    /\ SleepArgs \subseteq Ticks

Procs == 1 .. NPROC         \* &ptable.proc[i]; 0 is the null pointer
CPUs == 0 .. NCPU - 1
NoCPU == NCPU               \* lk->locked == 0
initproc == 1
TICKS == NPROC + 1          \* the channel &ticks

States == {"UNUSED", "EMBRYO", "SLEEPING", "RUNNABLE", "RUNNING", "ZOMBIE"}

(***************************************************************************)
(* Where a kernel thread is: in user space; at the entry of a system call; *)
(* inside fork (before the kernel stack is allocated, before the address   *)
(* space is copied, before the child is made RUNNABLE); in sys_sleep       *)
(* holding tickslock and wanting ptable.lock, or reacquiring tickslock; at *)
(* the check of p->killed before the return to user space.                 *)
(***************************************************************************)
PCs == SysCalls \cup {"forkret", "user", "kstack", "copy", "start",
                      "tosleep", "resleep", "sysret", "panic"}

VARIABLES
    state, pid, parent, chan, killed,   \* fields of struct proc
    kstack,     \* p->kstack is allocated
    nextpid,
    pc,         \* where the kernel thread of a process is
    mode,       \* "on": running normally; "insched": it has called sched()
                \* and still runs on its own stack; "off": context saved
    preempted,  \* the thread called yield() from the timer interrupt
    np,         \* local np of fork()
    t0, n,      \* locals ticks0 and n of sys_sleep()
    run,        \* whose stack CPU c executes on: a process, 0 = scheduler
    cproc,      \* cpus[c].proc
    scan,       \* scheduler() of c: next slot to look at, 0 = lock not held
    irq,        \* progress of the timer interrupt on CPU c
    ptlock,     \* the CPU holding ptable.lock
    tickslock, ticks

pvars == <<state, pid, parent, chan, killed, kstack, nextpid>>
tvars == <<pc, mode, preempted, np, t0, n>>
cvars == <<run, cproc, scan, irq>>
kvars == <<tickslock, ticks>>
vars == <<pvars, tvars, cvars, ptlock, kvars>>

Irqs == {"none", "tick", "wake", "check", "yield", "ret", "exit"}

TypeOK ==
    /\ state \in [Procs -> States]
    /\ pid \in [Procs -> Nat]
    /\ parent \in [Procs -> Procs \cup {0}]
    /\ chan \in [Procs -> Procs \cup {0, TICKS}]
    /\ killed \in [Procs -> BOOLEAN]
    /\ kstack \in [Procs -> BOOLEAN]
    /\ nextpid \in Nat
    /\ pc \in [Procs -> PCs]
    /\ mode \in [Procs -> {"on", "insched", "off"}]
    /\ preempted \in [Procs -> BOOLEAN]
    /\ np \in [Procs -> Procs \cup {0}]
    /\ t0 \in [Procs -> Ticks]
    /\ n \in [Procs -> Ticks]
    /\ run \in [CPUs -> Procs \cup {0}]
    /\ cproc \in [CPUs -> Procs \cup {0}]
    /\ scan \in [CPUs -> 0 .. NPROC + 1]
    /\ irq \in [CPUs -> Irqs]
    /\ ptlock \in CPUs \cup {NoCPU}
    /\ tickslock \in CPUs \cup {NoCPU}
    /\ ticks \in Ticks

(***************************************************************************)
(* main() has run: userinit() has put the first process, slot 1 and pid 1, *)
(* in the table and every CPU is about to enter scheduler().               *)
(***************************************************************************)
userinit ==
    /\ state = [p \in Procs |-> IF p = initproc THEN "RUNNABLE" ELSE "UNUSED"]
    /\ pid = [p \in Procs |-> IF p = initproc THEN 1 ELSE 0]
    /\ parent = [p \in Procs |-> 0]
    /\ chan = [p \in Procs |-> 0]
    /\ killed = [p \in Procs |-> FALSE]
    /\ kstack = [p \in Procs |-> p = initproc]
    /\ nextpid = 2

Init ==
    /\ userinit
    /\ pc = [p \in Procs |-> "forkret"]
    /\ mode = [p \in Procs |-> "off"]
    /\ preempted = [p \in Procs |-> FALSE]
    /\ np = [p \in Procs |-> 0]
    /\ t0 = [p \in Procs |-> 0]
    /\ n = [p \in Procs |-> 0]
    /\ run = [c \in CPUs |-> 0]
    /\ cproc = [c \in CPUs |-> 0]
    /\ scan = [c \in CPUs |-> 0]
    /\ irq = [c \in CPUs |-> "none"]
    /\ ptlock = NoCPU
    /\ tickslock = NoCPU
    /\ ticks = 0

\* The slot a loop over ptable.proc stops at: the first one that qualifies.
IsFirst(i, S) == i \in S /\ \A j \in S : i <= j

\* The thread of p runs on CPU c and is neither switching nor in an interrupt.
Ready(c, p) == run[c] = p /\ mode[p] = "on" /\ irq[c] = "none"

\* Thread p was just switched to on c: it holds ptable.lock, which the
\* scheduler acquired, and resumes where it called sched().
Resumed(c, p) == run[c] = p /\ mode[p] = "off" /\ ptlock = c

\* Give slot q back: its kernel stack is freed (or was never allocated).
FreeSlotKeepStack(q) ==
    /\ state' = [state EXCEPT ![q] = "UNUSED"]
    /\ UNCHANGED kstack
FreeSlot(q) ==
    /\ state' = [state EXCEPT ![q] = "UNUSED"]
    /\ kstack' = [kstack EXCEPT ![q] = FALSE]

\* p, holding ptable.lock on c, calls sched(); the lock stays held.
EnterSchedUnlocked(c, p) ==
    /\ ptlock' = NoCPU
    /\ mode' = [mode EXCEPT ![p] = "insched"]
EnterSched(c, p) ==
    /\ ptlock' = c
    /\ mode' = [mode EXCEPT ![p] = "insched"]

\* p runs on and releases ptable.lock: one it acquired itself, or the one the
\* scheduler handed to it.
ReleasePtable(p) ==
    /\ ptlock' = NoCPU
    /\ mode' = [mode EXCEPT ![p] = "on"]

-----------------------------------------------------------------------------
(* scheduler() *)

SchedAcquire(c) ==
    /\ run[c] = 0 /\ scan[c] = 0 /\ irq[c] = "none"
    /\ ptlock = NoCPU
    /\ ptlock' = c
    /\ scan' = [scan EXCEPT ![c] = 1]
    /\ UNCHANGED <<pvars, tvars, run, cproc, irq, kvars>>

RunnableFrom(i) == {p \in Procs : p >= i /\ state[p] = "RUNNABLE"}

\* Where the scan goes on when p comes back.
ResumeScanFromStart(c, p) == scan' = [scan EXCEPT ![c] = 1]
ResumeScan(c, p) == scan' = [scan EXCEPT ![c] = p + 1]

\* Switch to the next RUNNABLE process; it inherits ptable.lock.
SchedSwitch(c) ==
    /\ run[c] = 0 /\ scan[c] # 0
    /\ \E p \in Procs :
         /\ IsFirst(p, RunnableFrom(scan[c]))
         /\ cproc' = [cproc EXCEPT ![c] = p]
         /\ state' = [state EXCEPT ![p] = "RUNNING"]
         /\ run' = [run EXCEPT ![c] = p]
         /\ ResumeScan(c, p)
    /\ UNCHANGED <<pid, parent, chan, killed, kstack, nextpid, tvars, irq,
                   ptlock, kvars>>

\* The end of the table: release ptable.lock and start over.
SchedReleaseStaleProc(c) ==
    /\ run[c] = 0 /\ scan[c] # 0
    /\ RunnableFrom(scan[c]) = {}
    /\ scan' = [scan EXCEPT ![c] = 0]
    /\ ptlock' = NoCPU
    /\ UNCHANGED <<pvars, tvars, run, cproc, irq, kvars>>
SchedRelease(c) ==
    /\ run[c] = 0 /\ scan[c] # 0
    /\ RunnableFrom(scan[c]) = {}
    /\ cproc' = [cproc EXCEPT ![c] = 0]
    /\ scan' = [scan EXCEPT ![c] = 0]
    /\ ptlock' = NoCPU
    /\ UNCHANGED <<pvars, tvars, run, irq, kvars>>

\* sched() after its checks: swtch to the scheduler of this CPU, which
\* continues its scan of the table with ptable.lock held.
sched(c, p) ==
    /\ run[c] = p /\ mode[p] = "insched"
    /\ mode' = [mode EXCEPT ![p] = "off"]
    /\ run' = [run EXCEPT ![c] = 0]
    /\ UNCHANGED <<pvars, pc, preempted, np, t0, n, cproc, scan, irq, ptlock,
                   kvars>>

forkret(c, p) ==
    /\ Resumed(c, p) /\ pc[p] = "forkret" /\ ~preempted[p]
    /\ pc' = [pc EXCEPT ![p] = "user"]
    /\ ReleasePtable(p)
    /\ UNCHANGED <<pvars, preempted, np, t0, n, cvars, kvars>>

-----------------------------------------------------------------------------
(* trap(): system calls, faults and the timer interrupt *)

\* Bound: fork() is called only while a pid up to MaxPid is left for it.
PidsLeft == nextpid + Cardinality({q \in Procs : pc[q] = "fork"}) <= MaxPid

\* A killed process exits instead of making the call.
SyscallEntry(c, p) ==
    /\ Ready(c, p) /\ pc[p] = "user"
    /\ IF killed[p]
       THEN pc' = [pc EXCEPT ![p] = "exit"]
       ELSE \E call \in IF p = initproc THEN InitCalls ELSE Calls :
                /\ call = "fork" => PidsLeft
                /\ pc' = [pc EXCEPT ![p] = call]
    /\ UNCHANGED <<pvars, mode, preempted, np, t0, n, cvars, ptlock, kvars>>

SyscallReturn(c, p) ==
    /\ Ready(c, p) /\ pc[p] = "sysret"
    /\ pc' = [pc EXCEPT ![p] = IF killed[p] THEN "exit" ELSE "user"]
    /\ UNCHANGED <<pvars, mode, preempted, np, t0, n, cvars, ptlock, kvars>>

\* The default case of trap(): a fault in user space kills the process.  The
\* init program faults only where it is also assumed able to exit.
Fault(c, p) ==
    /\ Ready(c, p) /\ pc[p] = "user"
    /\ p = initproc => "exit" \in InitCalls
    /\ killed' = [killed EXCEPT ![p] = TRUE]
    /\ pc' = [pc EXCEPT ![p] = "exit"]
    /\ irq' = [irq EXCEPT ![c] = "exit"]
    /\ UNCHANGED <<state, pid, parent, chan, kstack, nextpid, mode, preempted,
                   np, t0, n, run, cproc, scan, ptlock, kvars>>

\* The timer fires where interrupts are enabled: no spinlock held, not in a
\* handler.  Only CPU 0 counts the tick; a scheduler thread has no process
\* to preempt.
TimerInterrupt(c) ==
    /\ irq[c] = "none" /\ tickslock # c
    /\ IF run[c] = 0 THEN scan[c] = 0 /\ c = 0
                     ELSE mode[run[c]] = "on" /\ pc[run[c]] # "panic"
    /\ irq' = [irq EXCEPT ![c] = IF c = 0 THEN "tick" ELSE "check"]
    /\ UNCHANGED <<pvars, tvars, run, cproc, scan, ptlock, kvars>>

NextTick == (ticks + 1) % TickMod       \* ticks++ on a uint

IrqTick(c) ==
    /\ irq[c] = "tick"
    /\ tickslock = NoCPU
    /\ tickslock' = c
    /\ ticks' = NextTick
    /\ irq' = [irq EXCEPT ![c] = "wake"]
    /\ UNCHANGED <<pvars, tvars, run, cproc, scan, ptlock>>

wakeup1(st, ch) ==
    [p \in Procs |-> IF st[p] = "SLEEPING" /\ chan[p] = ch THEN "RUNNABLE"
                                                          ELSE st[p]]

\* wakeup(&ticks), then the release of tickslock.
IrqWake(c) ==
    /\ irq[c] = "wake"
    /\ ptlock = NoCPU
    /\ state' = wakeup1(state, TICKS)
    /\ tickslock' = NoCPU
    /\ irq' = [irq EXCEPT ![c] = IF cproc[c] = 0 THEN "none" ELSE "check"]
    /\ UNCHANGED <<pid, parent, chan, killed, kstack, nextpid, tvars, run,
                   cproc, scan, ptlock, ticks>>

\* Both tests "killed and in user space" of trap(), before and after the yield.
IrqCheck(c, p) ==
    /\ run[c] = p /\ irq[c] \in {"check", "ret"}
    /\ IF killed[p] /\ pc[p] = "user"
       THEN /\ pc' = [pc EXCEPT ![p] = "exit"]
            /\ irq' = [irq EXCEPT ![c] = "exit"]
       ELSE /\ irq' = [irq EXCEPT ![c] = IF @ = "check" THEN "yield" ELSE "none"]
            /\ UNCHANGED pc
    /\ UNCHANGED <<pvars, mode, preempted, np, t0, n, run, cproc, scan, ptlock,
                   kvars>>

yield(c, p) ==
    /\ run[c] = p /\ irq[c] = "yield"
    /\ ptlock = NoCPU
    /\ state' = [state EXCEPT ![p] = "RUNNABLE"]
    /\ EnterSched(c, p)
    /\ preempted' = [preempted EXCEPT ![p] = TRUE]
    /\ irq' = [irq EXCEPT ![c] = "none"]
    /\ UNCHANGED <<pid, parent, chan, killed, kstack, nextpid, pc, np, t0, n,
                   run, cproc, scan, kvars>>

YieldReturn(c, p) ==
    /\ Resumed(c, p) /\ preempted[p]
    /\ ReleasePtable(p)
    /\ preempted' = [preempted EXCEPT ![p] = FALSE]
    /\ irq' = [irq EXCEPT ![c] = "ret"]
    /\ UNCHANGED <<pvars, pc, np, t0, n, run, cproc, scan, kvars>>

-----------------------------------------------------------------------------
(* fork() *)

Unused == {q \in Procs : state[q] = "UNUSED"}

\* p->pid = nextpid++
TakePid(q) == pid' = [pid EXCEPT ![q] = nextpid] /\ nextpid' = nextpid + 1

\* allocproc() under ptable.lock: the first UNUSED slot, or failure.
allocproc(c, p) ==
    /\ Ready(c, p) /\ pc[p] = "fork"
    /\ ptlock = NoCPU
    /\ \/ /\ Unused = {}
          /\ pc' = [pc EXCEPT ![p] = "sysret"]
          /\ UNCHANGED <<state, pid, nextpid, np>>
       \/ \E q \in Procs :
            /\ IsFirst(q, Unused)
            /\ state' = [state EXCEPT ![q] = "EMBRYO"]
            /\ TakePid(q)
            /\ np' = [np EXCEPT ![p] = q]
            /\ pc' = [pc EXCEPT ![p] = "kstack"]
    /\ UNCHANGED <<parent, chan, killed, kstack, mode, preempted, t0, n, cvars,
                   ptlock, kvars>>

\* The rest of allocproc(), without the lock: the kernel stack and a context
\* that starts at forkret, or the slot given back when kalloc() fails.
AllocStack(c, p) ==
    /\ Ready(c, p) /\ pc[p] = "kstack"
    /\ \/ /\ kstack' = [kstack EXCEPT ![np[p]] = TRUE]
          /\ pc' = [pc EXCEPT ![p] = "copy", ![np[p]] = "forkret"]
          /\ mode' = [mode EXCEPT ![np[p]] = "off"]
          /\ UNCHANGED <<state, np>>
       \/ /\ FreeSlot(np[p])
          /\ pc' = [pc EXCEPT ![p] = "sysret"]
          /\ np' = [np EXCEPT ![p] = 0]
          /\ UNCHANGED mode
    /\ UNCHANGED <<pid, parent, chan, killed, nextpid, preempted, t0, n, cvars,
                   ptlock, kvars>>

\* copyuvm() succeeds and the parent is recorded, or it fails and the stack
\* and the slot are given back; no lock is held.
ForkCopy(c, p) ==
    /\ Ready(c, p) /\ pc[p] = "copy"
    /\ \/ /\ parent' = [parent EXCEPT ![np[p]] = p]
          /\ pc' = [pc EXCEPT ![p] = "start"]
          /\ UNCHANGED <<state, kstack, np>>
       \/ /\ FreeSlot(np[p])
          /\ pc' = [pc EXCEPT ![p] = "sysret"]
          /\ np' = [np EXCEPT ![p] = 0]
          /\ UNCHANGED parent
    /\ UNCHANGED <<pid, chan, killed, nextpid, mode, preempted, t0, n, cvars,
                   ptlock, kvars>>

ForkStart(c, p) ==
    /\ Ready(c, p) /\ pc[p] = "start"
    /\ ptlock = NoCPU
    /\ state' = [state EXCEPT ![np[p]] = "RUNNABLE"]
    /\ pc' = [pc EXCEPT ![p] = "sysret"]
    /\ np' = [np EXCEPT ![p] = 0]
    /\ UNCHANGED <<pid, parent, chan, killed, kstack, nextpid, mode, preempted,
                   t0, n, cvars, ptlock, kvars>>

-----------------------------------------------------------------------------
(* exit(), wait(), kill() *)

Children(p) == {q \in Procs : parent[q] = p}

\* The parent might be sleeping in wait().
WakeSelf(p) == wakeup1(state, p)
WakeParent(p) == wakeup1(state, parent[p])

\* Pass abandoned children to init, and wake init if one is already a ZOMBIE.
Reparent(p) == [q \in Procs |-> IF parent[q] = p THEN initproc ELSE parent[q]]
KeepAsleep(p, st) == st
WakeInit(p, st) ==
    IF \E q \in Children(p) : st[q] = "ZOMBIE" THEN wakeup1(st, initproc) ELSE st

\* Wake the parent, give the children to init, become a ZOMBIE, call sched().
exit(c, p) ==
    /\ run[c] = p /\ mode[p] = "on" /\ pc[p] = "exit" /\ irq[c] \in {"none", "exit"}
    /\ p # initproc
    /\ ptlock = NoCPU
    /\ state' = [WakeInit(p, WakeParent(p)) EXCEPT ![p] = "ZOMBIE"]
    /\ parent' = Reparent(p)
    /\ EnterSched(c, p)
    /\ irq' = [irq EXCEPT ![c] = "none"]
    /\ UNCHANGED <<pid, chan, killed, kstack, nextpid, pc, preempted, np, t0, n,
                   run, cproc, scan, kvars>>

\* panic("init exiting"): interrupts off, this CPU spins for ever.
ExitInit(c, p) ==
    /\ run[c] = p /\ mode[p] = "on" /\ pc[p] = "exit" /\ irq[c] \in {"none", "exit"}
    /\ p = initproc
    /\ pc' = [pc EXCEPT ![p] = "panic"]
    /\ UNCHANGED <<pvars, mode, preempted, np, t0, n, cvars, ptlock, kvars>>

\* The children that wait() may reap.
ZombiesAnyState(p) == Children(p)
Zombies(p) == {q \in Children(p) : state[q] = "ZOMBIE"}

\* One round of the loop of wait(), entered by the call or by a wakeup: reap
\* the first ZOMBIE child, fail, or sleep on the process's own address.
wait(c, p) ==
    /\ pc[p] = "wait"
    /\ \/ Ready(c, p) /\ ptlock = NoCPU
       \/ Resumed(c, p) /\ ~preempted[p]
    /\ \/ /\ \E q \in Procs :
               /\ IsFirst(q, Zombies(p))
               /\ FreeSlot(q)
               /\ pid' = [pid EXCEPT ![q] = 0]
               /\ parent' = [parent EXCEPT ![q] = 0]
               /\ killed' = [killed EXCEPT ![q] = FALSE]
          /\ chan' = [chan EXCEPT ![p] = 0]
          /\ pc' = [pc EXCEPT ![p] = "sysret"]
          /\ ReleasePtable(p)
       \/ /\ Zombies(p) = {}
          /\ Children(p) = {} \/ killed[p]
          /\ chan' = [chan EXCEPT ![p] = 0]
          /\ pc' = [pc EXCEPT ![p] = "sysret"]
          /\ ReleasePtable(p)
          /\ UNCHANGED <<state, kstack, pid, parent, killed>>
       \/ /\ Zombies(p) = {}
          /\ Children(p) # {} /\ ~killed[p]
          /\ chan' = [chan EXCEPT ![p] = p]
          /\ state' = [state EXCEPT ![p] = "SLEEPING"]
          /\ EnterSched(c, p)
          /\ UNCHANGED <<kstack, pid, parent, killed, pc>>
    /\ UNCHANGED <<nextpid, preempted, np, t0, n, cvars, kvars>>

WithPid(id) == {q \in Procs : pid[q] = id}

\* kill(id): the first slot with that pid, whatever its state.
kill(c, p) ==
    /\ Ready(c, p) /\ pc[p] = "kill"
    /\ ptlock = NoCPU
    /\ \E id \in KillPids :
         \/ /\ WithPid(id) = {}
            /\ UNCHANGED <<killed, state>>
         \/ \E q \in Procs :
              /\ IsFirst(q, WithPid(id))
              /\ killed' = [killed EXCEPT ![q] = TRUE]
              /\ state' = [state EXCEPT ![q] = IF @ = "SLEEPING" THEN "RUNNABLE"
                                                                ELSE @]
    /\ pc' = [pc EXCEPT ![p] = "sysret"]
    /\ UNCHANGED <<pid, parent, chan, kstack, nextpid, mode, preempted, np, t0,
                   n, cvars, ptlock, kvars>>

-----------------------------------------------------------------------------
(* sys_sleep(): sleep(&ticks, &tickslock) until enough ticks have passed *)

Elapsed(start) == (ticks - start) % TickMod     \* uint subtraction

\* The test of the loop, made with tickslock just acquired.
DoneUnkillable(p, start, len) == Elapsed(start) >= len
Done(p, start, len) == Elapsed(start) >= len \/ killed[p]

\* Into sleep(), keeping tickslock until ptable.lock is held.
ToSleepUnlocked(c, p, start, len) ==
    /\ pc' = [pc EXCEPT ![p] = "tosleep"]
    /\ t0' = [t0 EXCEPT ![p] = start]
    /\ n' = [n EXCEPT ![p] = len]
    /\ UNCHANGED tickslock
ToSleep(c, p, start, len) ==
    /\ pc' = [pc EXCEPT ![p] = "tosleep"]
    /\ t0' = [t0 EXCEPT ![p] = start]
    /\ n' = [n EXCEPT ![p] = len]
    /\ tickslock' = c

SleepLoop(c, p, start, len) ==
    IF Done(p, start, len)
    THEN /\ pc' = [pc EXCEPT ![p] = "sysret"]
         /\ t0' = [t0 EXCEPT ![p] = 0]
         /\ n' = [n EXCEPT ![p] = 0]
         /\ UNCHANGED tickslock
    ELSE ToSleep(c, p, start, len)

sys_sleep(c, p) ==
    /\ Ready(c, p) /\ pc[p] \in {"sleep", "resleep"}
    /\ tickslock = NoCPU
    /\ IF pc[p] = "sleep" THEN \E len \in SleepArgs : SleepLoop(c, p, ticks, len)
                          ELSE SleepLoop(c, p, t0[p], n[p])
    /\ UNCHANGED <<pvars, mode, preempted, np, cvars, ptlock, ticks>>

\* sleep() with lk # &ptable.lock: take ptable.lock, then let go of lk.
SleepKeepLk(c, p) ==
    /\ Ready(c, p) /\ pc[p] = "tosleep"
    /\ ptlock = NoCPU
    /\ chan' = [chan EXCEPT ![p] = TICKS]
    /\ state' = [state EXCEPT ![p] = "SLEEPING"]
    /\ EnterSched(c, p)
    /\ UNCHANGED <<pid, parent, killed, kstack, nextpid, pc, preempted, np, t0,
                   n, cvars, kvars>>
sleep(c, p) ==
    /\ Ready(c, p) /\ pc[p] = "tosleep"
    /\ ptlock = NoCPU
    /\ tickslock' = NoCPU
    /\ chan' = [chan EXCEPT ![p] = TICKS]
    /\ state' = [state EXCEPT ![p] = "SLEEPING"]
    /\ EnterSched(c, p)
    /\ UNCHANGED <<pid, parent, killed, kstack, nextpid, pc, preempted, np, t0,
                   n, cvars, ticks>>

\* sched() returned into sleep(): tidy up, swap the locks back.
SleepReturn(c, p) ==
    /\ Resumed(c, p) /\ pc[p] = "tosleep" /\ ~preempted[p]
    /\ chan' = [chan EXCEPT ![p] = 0]
    /\ pc' = [pc EXCEPT ![p] = "resleep"]
    /\ ReleasePtable(p)
    /\ UNCHANGED <<state, pid, parent, killed, kstack, nextpid, preempted, np,
                   t0, n, cvars, kvars>>

-----------------------------------------------------------------------------
Scheduler(c) == SchedAcquire(c) \/ SchedSwitch(c) \/ SchedRelease(c)

Tick(c) == IrqTick(c) \/ IrqWake(c)

\* The part of a thread's steps that the timer interrupt and sched() cause.
Preempt(c, p) ==
    \/ IrqCheck(c, p) \/ yield(c, p) \/ YieldReturn(c, p) \/ sched(c, p)

\* The work of the kernel thread of p on CPU c.
Kernel(c, p) ==
    \/ forkret(c, p) \/ SyscallReturn(c, p)
    \/ allocproc(c, p) \/ AllocStack(c, p) \/ ForkCopy(c, p) \/ ForkStart(c, p)
    \/ exit(c, p) \/ ExitInit(c, p) \/ wait(c, p) \/ kill(c, p)
    \/ sys_sleep(c, p) \/ sleep(c, p) \/ SleepReturn(c, p)

Next ==
    \E c \in CPUs :
        \/ Scheduler(c) \/ TimerInterrupt(c) \/ Tick(c)
        \/ \E p \in Procs : \/ Kernel(c, p) \/ Preempt(c, p)
                           \/ SyscallEntry(c, p) \/ Fault(c, p)

Spec == Init /\ [][Next]_vars

-----------------------------------------------------------------------------
(* Properties *)

\* Two CPUs never execute on the same kernel stack: scheduler() must not pick
\* a process whose thread has not yet left its stack in sched().
OneCPUPerStack ==
    \A c, d \in CPUs : run[c] = run[d] /\ run[c] # 0 => c = d

\* The kernel stack a CPU executes on is not freed under it: an exiting
\* process is a ZOMBIE while it still runs, and wait() frees its stack.
StackAllocated == \A c \in CPUs : run[c] # 0 => kstack[run[c]]

\* None of the panics of sched() fires: the caller holds ptable.lock, holds no
\* other lock, has changed its state, and is the process the CPU names.
SchedPreconditions ==
    \A c \in CPUs, p \in Procs :
        run[c] = p /\ mode[p] = "insched" =>
            /\ ptlock = c /\ tickslock # c
            /\ state[p] # "RUNNING"
            /\ cproc[c] = p

\* While nobody holds ptable.lock, RUNNING means exactly that some CPU executes
\* the process, and that CPU's c->proc (what myproc() returns) names it.
RunningIffOnCPU ==
    ptlock = NoCPU =>
        /\ \A c \in CPUs : cproc[c] = run[c]
        /\ \A p \in Procs : state[p] = "RUNNING" <=> \E c \in CPUs : run[c] = p

\* No lost wakeup between exit() and wait(): a process asleep in wait() has a
\* child to wait for, no child it could reap, and has not been killed.
WaiterHasReason ==
    ptlock = NoCPU =>
        \A p \in Procs :
            state[p] = "SLEEPING" /\ chan[p] = p =>
                Children(p) # {} /\ Zombies(p) = {} /\ ~killed[p]

\* No lost wakeup between the timer and sys_sleep(): with both locks free, a
\* process asleep on &ticks still has ticks to wait for.
SleeperHasReason ==
    ptlock = NoCPU /\ tickslock = NoCPU =>
        \A p \in Procs :
            state[p] = "SLEEPING" /\ chan[p] = TICKS => Elapsed(t0[p]) < n[p]

\* Nobody is orphaned: the parent of every process but init is a process that
\* can still call wait(), neither free nor a ZOMBIE.
ParentAlive ==
    ptlock = NoCPU =>
        \A p \in Procs \ {initproc} :
            state[p] \notin {"UNUSED", "EMBRYO"} =>
                /\ parent[p] # 0
                /\ state[parent[p]] \in {"SLEEPING", "RUNNABLE", "RUNNING"}

\* kill() and wait() identify a process by its pid: two slots in use never
\* share one, and none has the pid 0 of a free slot.
UniquePids ==
    \A p, q \in Procs :
        state[p] # "UNUSED" =>
            pid[p] # 0 /\ (p # q /\ state[q] # "UNUSED" => pid[p] # pid[q])

\* Every failure path of fork() and the reaping in wait() give the kernel
\* stack back: a free slot owns none, and a slot being built has one builder.
SlotOwnership ==
    /\ \A p \in Procs : state[p] = "UNUSED" => ~kstack[p]
    /\ \A p \in Procs : state[p] = "EMBRYO" =>
           Cardinality({q \in Procs : np[q] = p}) = 1

\* The slots of ptable are handed out and taken back soundly: unique pids while
\* in use, one builder, and no stack left behind.
SlotsSound == TypeOK /\ UniquePids /\ SlotOwnership

\* exit() and wait() keep families together: nobody waits for a child it could
\* reap already, and nobody is left without a parent that could reap it.
FamilySound == WaiterHasReason /\ ParentAlive

(***************************************************************************)
(* Fairness.  A CPU executes instructions between two interrupts, a waiting *)
(* CPU gets a spinlock that is released again and again, and the periodic   *)
(* timer is delivered when interrupts are enabled again and again.  User    *)
(* programs owe nothing.                                                    *)
(***************************************************************************)
Fairness ==
    \A c \in CPUs :
        /\ SF_vars(Scheduler(c)) /\ SF_vars(Tick(c))
        /\ SF_vars(TimerInterrupt(c))
        /\ \A p \in Procs : SF_vars(Kernel(c, p)) /\ SF_vars(Preempt(c, p))

FairSpec == Spec /\ Fairness

\* Round robin: the scan resumes after the process that just ran, so every
\* RUNNABLE process is run.
RunnableRuns ==
    \A p \in Procs : state[p] = "RUNNABLE" ~> state[p] = "RUNNING"

\* A process in wait() with a ZOMBIE child comes back from it.
WaitReturns ==
    \A p \in Procs : pc[p] = "wait" /\ Zombies(p) # {} ~> pc[p] # "wait"

\* A killed process other than init stops: wherever kill() finds it, it gets
\* back to trap() and exits.
KilledExits ==
    \A p \in Procs \ {initproc} :
        killed[p] /\ state[p] # "UNUSED" ~> state[p] \in {"ZOMBIE", "UNUSED"}
=============================================================================
