----------------------------- MODULE ProcProofs -----------------------------
(***************************************************************************)
(* Proofs about Proc for every number of slots and CPUs: the types; that   *)
(* the hand-over of ptable.lock across swtch() keeps CPUs off each other's *)
(* kernel stacks and off freed ones; that slots, pids and families stay    *)
(* consistent; and that neither wait() nor sys_sleep() misses a wakeup.    *)
(***************************************************************************)
EXTENDS Proc, FiniteSetTheorems, TLAPS

\* CPU c holds ptable.lock: its scheduler is in the middle of a scan, or the
\* process it runs is on its way into or out of sched().
HoldsPt(c) == IF run[c] = 0 THEN scan[c] # 0 ELSE mode[run[c]] # "on"

LockInv == \A c \in CPUs : ptlock = c <=> HoldsPt(c)

\* Interrupt handlers run only where interrupts were enabled.
IrqInv == \A c \in CPUs : irq[c] # "none" => ~HoldsPt(c)

TickInv ==
    \A c \in CPUs :
        tickslock = c =>
            \/ irq[c] = "wake"
            \/ /\ irq[c] = "none" /\ run[c] # 0
               /\ mode[run[c]] = "on" /\ pc[run[c]] = "tosleep"

\* What a CPU executes, what c->proc says, and the state of that process.
CPUInv ==
    \A c \in CPUs :
        /\ run[c] # 0 =>
             /\ cproc[c] = run[c] /\ scan[c] # 0
             /\ state[run[c]] \in IF mode[run[c]] = "insched"
                                  THEN {"SLEEPING", "RUNNABLE", "ZOMBIE"}
                                  ELSE {"RUNNING"}
        /\ run[c] = 0 /\ scan[c] = 0 => cproc[c] = 0

OffCPUInv ==
    \A p \in Procs :
        state[p] = "RUNNING" \/ mode[p] # "off" => \E c \in CPUs : run[c] = p

ForkPCs == {"kstack", "copy", "start"}

\* A process inside fork() owns the EMBRYO slot np, alone.
ForkInv ==
    \A p \in Procs :
        pc[p] \in ForkPCs =>
            /\ state[p] \in {"RUNNING", "RUNNABLE"}
            /\ np[p] \in Procs
            /\ state[np[p]] = "EMBRYO"
            /\ pc[p] # "kstack" => kstack[np[p]]
            /\ \A q \in Procs : q # p /\ pc[q] \in ForkPCs => np[q] # np[p]

StackInv ==
    \A p \in Procs : state[p] \notin {"UNUSED", "EMBRYO"} => kstack[p]

IInv == /\ TypeOK
        /\ LockInv /\ IrqInv /\ TickInv
        /\ OneCPUPerStack /\ CPUInv /\ OffCPUInv
        /\ ForkInv /\ StackInv

-----------------------------------------------------------------------------
\* The table that userinit() leaves is well typed.
LEMMA TypeInit == Init => TypeOK
BY ProcAssumption
DEF Init, userinit, TypeOK, Procs, CPUs, NoCPU, Ticks, initproc, States, PCs,
    SysCalls, Irqs

\* Every step of a CPU, in scheduler(), trap() or a system call, keeps the types.
LEMMA TypeStep == TypeOK /\ [Next]_vars => TypeOK'
<1> SUFFICES ASSUME TypeOK, [Next]_vars PROVE TypeOK'
  OBVIOUS
<1> USE DEF TypeOK, vars, pvars, tvars, cvars, kvars
<1>1. CASE UNCHANGED vars
  BY <1>1
<1>2. CASE Next
  <2> PICK c \in CPUs :
          \/ Scheduler(c) \/ TimerInterrupt(c) \/ Tick(c)
          \/ \E p \in Procs : \/ Kernel(c, p) \/ Preempt(c, p)
                             \/ SyscallEntry(c, p) \/ Fault(c, p)
    BY <1>2 DEF Next
  <2>1. CASE SchedAcquire(c)
    BY <2>1, ProcAssumption DEF SchedAcquire, Procs
  <2>2. CASE SchedSwitch(c)
    <3> PICK p \in Procs :
            /\ cproc' = [cproc EXCEPT ![c] = p]
            /\ state' = [state EXCEPT ![p] = "RUNNING"]
            /\ run' = [run EXCEPT ![c] = p]
            /\ scan' = [scan EXCEPT ![c] = p + 1]
      BY <2>2 DEF SchedSwitch, ResumeScan
    <3>1. p + 1 \in 0 .. NPROC + 1
      BY ProcAssumption DEF Procs
    <3> QED
      BY <2>2, <3>1 DEF SchedSwitch, States
  <2>3. CASE SchedRelease(c)
    BY <2>3, ProcAssumption DEF SchedRelease
  <2>4. CASE TimerInterrupt(c)
    BY <2>4 DEF TimerInterrupt, Irqs
  <2>5. CASE IrqTick(c)
    BY <2>5, ProcAssumption DEF IrqTick, NextTick, Irqs, Ticks
  <2>6. CASE IrqWake(c)
    BY <2>6 DEF IrqWake, wakeup1, Irqs, States
  <2>7. ASSUME NEW p \in Procs, Kernel(c, p) \/ Preempt(c, p)
                         \/ SyscallEntry(c, p) \/ Fault(c, p)
        PROVE TypeOK'
    <3>1. CASE forkret(c, p)
      BY <3>1 DEF forkret, ReleasePtable, PCs
    <3>2. CASE SyscallReturn(c, p)
      BY <3>2 DEF SyscallReturn, SysCalls, PCs
    <3>3. CASE allocproc(c, p)
      BY <3>3 DEF allocproc, TakePid, PCs, States
    <3>4. CASE AllocStack(c, p)
      BY <3>4 DEF AllocStack, FreeSlot, PCs, States
    <3>5. CASE ForkCopy(c, p)
      <4>1. /\ parent' \in [Procs -> Procs \cup {0}] /\ state' \in [Procs -> States]
            /\ kstack' \in [Procs -> BOOLEAN] /\ np' \in [Procs -> Procs \cup {0}]
        BY <3>5 DEF ForkCopy, FreeSlot, States
      <4>2. pc' \in [Procs -> PCs]
        BY <3>5 DEF ForkCopy, PCs
      <4> QED
        BY <3>5, <4>1, <4>2 DEF ForkCopy
    <3>6. CASE ForkStart(c, p)
      BY <3>6 DEF ForkStart, PCs, States
    <3>7. CASE exit(c, p)
      <4>1. \A ch : wakeup1(state, ch) \in [Procs -> States]
        BY DEF wakeup1, States
      <4>2. \A st \in [Procs -> States] : \A ch :
              wakeup1(st, ch) \in [Procs -> States]
        BY DEF wakeup1, States
      <4>3. WakeInit(p, WakeParent(p)) \in [Procs -> States]
        BY <4>1, <4>2 DEF WakeInit, WakeParent
      <4>4. state' \in [Procs -> States]
        BY <3>7, <4>3 DEF exit, States
      <4>5. initproc \in Procs
        BY ProcAssumption DEF Procs, initproc
      <4>6. parent' \in [Procs -> Procs \cup {0}]
        BY <3>7, <4>5 DEF exit, Reparent
      <4> QED
        BY <3>7, <4>4, <4>6 DEF exit, EnterSched, Irqs
    <3>8. CASE ExitInit(c, p)
      BY <3>8 DEF ExitInit, PCs
    <3>9. CASE wait(c, p)
      <4>1. /\ parent' \in [Procs -> Procs \cup {0}] /\ state' \in [Procs -> States]
            /\ kstack' \in [Procs -> BOOLEAN]
        BY <3>9 DEF wait, FreeSlot, States
      <4>2. pid' \in [Procs -> Nat]
        BY <3>9 DEF wait
      <4>5. killed' \in [Procs -> BOOLEAN]
        BY <3>9 DEF wait
      <4>3. pc' \in [Procs -> PCs] /\ chan' \in [Procs -> Procs \cup {0, TICKS}]
        BY <3>9 DEF wait, PCs
      <4>4. /\ mode' \in [Procs -> {"on", "insched", "off"}]
            /\ ptlock' \in CPUs \cup {NoCPU}
        BY <3>9 DEF wait, EnterSched, ReleasePtable
      <4> QED
        BY <3>9, <4>1, <4>2, <4>3, <4>4, <4>5 DEF wait
    <3>10. CASE kill(c, p)
      BY <3>10 DEF kill, PCs, States
    <3>11. CASE sys_sleep(c, p)
      <4>1. PICK start \in Ticks, len \in Ticks : SleepLoop(c, p, start, len)
        BY <3>11, ProcAssumption DEF sys_sleep
      <4>2. pc' \in [Procs -> PCs]
        BY <4>1 DEF SleepLoop, ToSleep, PCs
      <4> QED
        BY <3>11, <4>1, <4>2, ProcAssumption DEF sys_sleep, SleepLoop, ToSleep,
           Ticks
    <3>12. CASE sleep(c, p)
      BY <3>12 DEF sleep, EnterSched, TICKS, States
    <3>13. CASE SleepReturn(c, p)
      BY <3>13 DEF SleepReturn, ReleasePtable, PCs
    <3>14. CASE IrqCheck(c, p)
      BY <3>14 DEF IrqCheck, Irqs, SysCalls, PCs
    <3>15. CASE yield(c, p)
      BY <3>15 DEF yield, EnterSched, Irqs, States
    <3>16. CASE YieldReturn(c, p)
      BY <3>16 DEF YieldReturn, ReleasePtable, Irqs
    <3>17. CASE sched(c, p)
      BY <3>17 DEF sched
    <3>18. CASE SyscallEntry(c, p)
      BY <3>18, ProcAssumption DEF SyscallEntry, SysCalls, PCs
    <3>19. CASE Fault(c, p)
      BY <3>19 DEF Fault, Irqs, SysCalls, PCs
    <3> QED
      BY <2>7, <3>1, <3>2, <3>3, <3>4, <3>5, <3>6, <3>7, <3>8, <3>9, <3>10,
         <3>11, <3>12, <3>13, <3>14, <3>15, <3>16, <3>17, <3>18, <3>19
         DEF Kernel, Preempt
  <2> QED
    BY <2>1, <2>2, <2>3, <2>4, <2>5, <2>6, <2>7 DEF Scheduler, Tick
<1> QED
  BY <1>1, <1>2

\* Every variable of the process table and of the schedulers keeps its type.
LEMMA TypeCorrect == Spec => []TypeOK
BY TypeInit, TypeStep, PTL DEF Spec

\* The null values (no CPU, no process) are not CPUs or processes.
LEMMA Consts == NoCPU \notin CPUs /\ 0 \notin Procs /\ initproc \in Procs
BY ProcAssumption DEF NoCPU, CPUs, Procs, initproc

\* wakeup1() only ever turns a SLEEPING process RUNNABLE.
LEMMA WakeupOnly ==
    ASSUME NEW st, NEW ch
    PROVE  /\ DOMAIN wakeup1(st, ch) = Procs
           /\ \A q \in Procs :
                \/ wakeup1(st, ch)[q] = st[q]
                \/ st[q] = "SLEEPING" /\ wakeup1(st, ch)[q] = "RUNNABLE"
BY DEF wakeup1

\* The inductive invariant holds when the CPUs enter scheduler().
LEMMA IInvInit == Init => IInv
<1> SUFFICES ASSUME Init PROVE IInv
  OBVIOUS
<1> USE Consts DEF Init, userinit
<1>1. LockInv /\ IrqInv /\ TickInv
  BY DEF LockInv, IrqInv, TickInv, HoldsPt
<1>2. OneCPUPerStack /\ CPUInv /\ OffCPUInv
  BY DEF OneCPUPerStack, CPUInv, OffCPUInv
<1>3. ForkInv /\ StackInv
  BY DEF ForkInv, ForkPCs, StackInv
<1> QED
  BY TypeInit, <1>1, <1>2, <1>3 DEF IInv

\* Every step preserves the inductive invariant: one case per action.
LEMMA IInvStep == IInv /\ [Next]_vars => IInv'
<1> SUFFICES ASSUME IInv, [Next]_vars PROVE IInv'
  OBVIOUS
<1> USE DEF vars, pvars, tvars, cvars, kvars
<1>t. TypeOK'
  BY TypeStep DEF IInv
<1>i. /\ TypeOK /\ LockInv /\ IrqInv /\ TickInv /\ OneCPUPerStack /\ CPUInv
      /\ OffCPUInv /\ ForkInv /\ StackInv
  BY DEF IInv
<1> USE <1>t, <1>i DEF TypeOK
<1>1. CASE UNCHANGED vars
  BY <1>1 DEF IInv, LockInv, IrqInv, TickInv, HoldsPt, OneCPUPerStack, CPUInv,
              OffCPUInv, ForkInv, StackInv
<1>2. CASE Next
  <2> PICK c \in CPUs :
          \/ Scheduler(c) \/ TimerInterrupt(c) \/ Tick(c)
          \/ \E p \in Procs : \/ Kernel(c, p) \/ Preempt(c, p)
                             \/ SyscallEntry(c, p) \/ Fault(c, p)
    BY <1>2 DEF Next
  <2>1. CASE SchedAcquire(c)
    <3>1. LockInv'
      BY <2>1, Consts DEF SchedAcquire, LockInv, HoldsPt, OneCPUPerStack
    <3>2. IrqInv'
      BY <2>1, Consts DEF SchedAcquire, IrqInv, LockInv, HoldsPt, OneCPUPerStack
    <3>5. CPUInv'
      BY <2>1, Consts DEF SchedAcquire, CPUInv, LockInv, HoldsPt,
         OneCPUPerStack, ForkInv
    <3>12. TickInv' /\ OneCPUPerStack' /\ OffCPUInv' /\ ForkInv' /\ StackInv'
      BY <2>1 DEF SchedAcquire, TickInv, OneCPUPerStack, OffCPUInv, ForkInv,
         StackInv
    <3> QED
      BY <3>1, <3>2, <3>5, <3>12 DEF IInv
  <2>2. CASE SchedSwitch(c)
    <3>0. PICK p \in Procs :
            /\ state[p] = "RUNNABLE"
            /\ cproc' = [cproc EXCEPT ![c] = p]
            /\ state' = [state EXCEPT ![p] = "RUNNING"]
            /\ run' = [run EXCEPT ![c] = p]
            /\ scan' = [scan EXCEPT ![c] = p + 1]
      BY <2>2 DEF SchedSwitch, ResumeScan, IsFirst, RunnableFrom
    <3>11. p + 1 # 0
      BY ProcAssumption DEF Procs
    <3>9. \A d \in CPUs : run[d] # p
      BY <2>2, <3>0, Consts DEF SchedSwitch, CPUInv, LockInv, HoldsPt
    <3>10. mode[p] = "off" /\ ptlock = c
      BY <2>2, <3>0, <3>9 DEF SchedSwitch, OffCPUInv, LockInv, HoldsPt
    <3>1. LockInv'
      BY <2>2, <3>0, <3>9, <3>10, <3>11, Consts DEF SchedSwitch, LockInv,
         HoldsPt, OneCPUPerStack
    <3>2. IrqInv'
      BY <2>2, <3>0, <3>9, <3>10, <3>11, Consts DEF SchedSwitch, IrqInv,
         LockInv, HoldsPt, OneCPUPerStack
    <3>3. TickInv'
      BY <2>2, <3>0, <3>9, <3>10, <3>11, Consts DEF SchedSwitch, TickInv,
         IrqInv, HoldsPt, OneCPUPerStack
    <3>4. OneCPUPerStack'
      BY <2>2, <3>0, <3>9, <3>10, <3>11, Consts DEF SchedSwitch,
         OneCPUPerStack, CPUInv, LockInv, HoldsPt
    <3>5. CPUInv'
      BY <2>2, <3>0, <3>9, <3>10, <3>11, Consts DEF SchedSwitch, CPUInv,
         LockInv, HoldsPt, OneCPUPerStack, ForkInv
    <3>6. OffCPUInv'
      BY <2>2, <3>0, <3>9, <3>10, <3>11, Consts DEF SchedSwitch, OffCPUInv,
         CPUInv
    <3>7. ForkInv'
      BY <2>2, <3>0, <3>9, <3>10, <3>11, Consts DEF SchedSwitch, ForkInv,
         ForkPCs, CPUInv, StackInv, OneCPUPerStack
    <3>8. StackInv'
      BY <2>2, <3>0, <3>9, <3>10, <3>11, Consts DEF SchedSwitch, StackInv,
         ForkInv, ForkPCs, CPUInv
    <3> QED
      BY <3>1, <3>2, <3>3, <3>4, <3>5, <3>6, <3>7, <3>8 DEF IInv
  <2>3. CASE SchedRelease(c)
    <3>1. LockInv'
      BY <2>3, Consts DEF SchedRelease, LockInv, HoldsPt, OneCPUPerStack
    <3>2. IrqInv'
      BY <2>3, Consts DEF SchedRelease, IrqInv, LockInv, HoldsPt, OneCPUPerStack
    <3>5. CPUInv'
      BY <2>3, Consts DEF SchedRelease, CPUInv, LockInv, HoldsPt,
         OneCPUPerStack, ForkInv
    <3>12. TickInv' /\ OneCPUPerStack' /\ OffCPUInv' /\ ForkInv' /\ StackInv'
      BY <2>3 DEF SchedRelease, TickInv, OneCPUPerStack, OffCPUInv, ForkInv,
         StackInv
    <3> QED
      BY <3>1, <3>2, <3>5, <3>12 DEF IInv
  <2>4. CASE TimerInterrupt(c)
    <3>2. IrqInv'
      BY <2>4, Consts DEF TimerInterrupt, IrqInv, LockInv, HoldsPt,
         OneCPUPerStack
    <3>3. TickInv'
      BY <2>4, Consts DEF TimerInterrupt, TickInv, IrqInv, HoldsPt,
         OneCPUPerStack
    <3>12. LockInv' /\ OneCPUPerStack' /\ CPUInv' /\ OffCPUInv' /\ ForkInv' /\ StackInv'
      BY <2>4 DEF TimerInterrupt, LockInv, OneCPUPerStack, CPUInv, OffCPUInv,
         ForkInv, StackInv, HoldsPt
    <3> QED
      BY <3>2, <3>3, <3>12 DEF IInv
  <2>5. CASE IrqTick(c)
    <3>2. IrqInv'
      BY <2>5, Consts DEF IrqTick, IrqInv, LockInv, HoldsPt, OneCPUPerStack
    <3>3. TickInv'
      BY <2>5, Consts DEF IrqTick, TickInv, IrqInv, HoldsPt, OneCPUPerStack
    <3>12. LockInv' /\ OneCPUPerStack' /\ CPUInv' /\ OffCPUInv' /\ ForkInv' /\ StackInv'
      BY <2>5 DEF IrqTick, LockInv, OneCPUPerStack, CPUInv, OffCPUInv, ForkInv,
         StackInv, HoldsPt
    <3> QED
      BY <3>2, <3>3, <3>12 DEF IInv
  <2>6. CASE IrqWake(c)
    <3>2. IrqInv'
      BY <2>6, Consts DEF IrqWake, IrqInv, LockInv, HoldsPt, OneCPUPerStack,
         wakeup1
    <3>3. TickInv'
      BY <2>6, Consts DEF IrqWake, TickInv, IrqInv, HoldsPt, OneCPUPerStack,
         wakeup1
    <3>5. CPUInv'
      BY <2>6, Consts DEF IrqWake, CPUInv, LockInv, HoldsPt, OneCPUPerStack,
         ForkInv, wakeup1
    <3>6. OffCPUInv'
      BY <2>6, Consts DEF IrqWake, OffCPUInv, CPUInv, wakeup1
    <3>7. ForkInv'
      BY <2>6, Consts DEF IrqWake, ForkInv, ForkPCs, CPUInv, StackInv,
         OneCPUPerStack, wakeup1
    <3>8. StackInv'
      BY <2>6, Consts DEF IrqWake, StackInv, ForkInv, ForkPCs, CPUInv, wakeup1
    <3>12. LockInv' /\ OneCPUPerStack'
      BY <2>6 DEF IrqWake, LockInv, OneCPUPerStack, HoldsPt
    <3> QED
      BY <3>2, <3>3, <3>5, <3>6, <3>7, <3>8, <3>12 DEF IInv
  <2>7. ASSUME NEW p \in Procs, Kernel(c, p) \/ Preempt(c, p)
                         \/ SyscallEntry(c, p) \/ Fault(c, p)
        PROVE IInv'
    <3>1. CASE forkret(c, p)
      <4>1. LockInv'
        BY <3>1, Consts DEF forkret, LockInv, HoldsPt, OneCPUPerStack, Resumed,
           ReleasePtable
      <4>2. IrqInv'
        BY <3>1, Consts DEF forkret, IrqInv, LockInv, HoldsPt, OneCPUPerStack,
           Resumed, ReleasePtable
      <4>3. TickInv'
        BY <3>1, Consts DEF forkret, TickInv, IrqInv, HoldsPt, OneCPUPerStack,
           Resumed, ReleasePtable
      <4>5. CPUInv'
        BY <3>1, Consts DEF forkret, CPUInv, LockInv, HoldsPt, OneCPUPerStack,
           ForkInv, Resumed, ReleasePtable
      <4>6. OffCPUInv'
        BY <3>1, Consts DEF forkret, OffCPUInv, CPUInv, Resumed, ReleasePtable
      <4>7. ForkInv'
        BY <3>1, Consts DEF forkret, ForkInv, ForkPCs, CPUInv, StackInv,
           OneCPUPerStack, Resumed, ReleasePtable
      <4>12. OneCPUPerStack' /\ StackInv'
        BY <3>1 DEF forkret, OneCPUPerStack, StackInv
      <4> QED
        BY <4>1, <4>2, <4>3, <4>5, <4>6, <4>7, <4>12 DEF IInv
    <3>2. CASE SyscallReturn(c, p)
      <4>3. TickInv'
        BY <3>2, Consts DEF SyscallReturn, TickInv, IrqInv, HoldsPt,
           OneCPUPerStack, Ready
      <4>7. ForkInv'
        BY <3>2, Consts DEF SyscallReturn, ForkInv, ForkPCs, CPUInv, StackInv,
           OneCPUPerStack, Ready
      <4>12. LockInv' /\ IrqInv' /\ OneCPUPerStack' /\ CPUInv' /\ OffCPUInv' /\ StackInv'
        BY <3>2 DEF SyscallReturn, LockInv, IrqInv, OneCPUPerStack, CPUInv,
           OffCPUInv, StackInv, HoldsPt
      <4> QED
        BY <4>3, <4>7, <4>12 DEF IInv
    <3>3. CASE allocproc(c, p)
      <4>3. TickInv'
        BY <3>3, Consts DEF allocproc, TickInv, IrqInv, HoldsPt,
           OneCPUPerStack, Ready, IsFirst, Unused
      <4>5. CPUInv'
        BY <3>3, Consts DEF allocproc, CPUInv, LockInv, HoldsPt,
           OneCPUPerStack, ForkInv, Ready, IsFirst, Unused
      <4>6. OffCPUInv'
        BY <3>3, Consts DEF allocproc, OffCPUInv, CPUInv, Ready, IsFirst, Unused
      <4>7. ForkInv'
        BY <3>3, Consts DEF allocproc, ForkInv, ForkPCs, CPUInv, StackInv,
           OneCPUPerStack, Ready, IsFirst, Unused
      <4>8. StackInv'
        BY <3>3, Consts DEF allocproc, StackInv, ForkInv, ForkPCs, CPUInv,
           Ready, IsFirst, Unused
      <4>12. LockInv' /\ IrqInv' /\ OneCPUPerStack'
        BY <3>3 DEF allocproc, LockInv, IrqInv, OneCPUPerStack, HoldsPt
      <4> QED
        BY <4>3, <4>5, <4>6, <4>7, <4>8, <4>12 DEF IInv
    <3>4. CASE AllocStack(c, p)
      <4>0. /\ np[p] \in Procs /\ state[np[p]] = "EMBRYO" /\ np[p] # p
        <5>1. state[p] = "RUNNING"
          BY <3>4, Consts DEF AllocStack, Ready, CPUInv
        <5> QED
          BY <3>4, <5>1 DEF AllocStack, ForkInv, ForkPCs
      <4>9. \A d \in CPUs : run[d] # np[p]
        BY <4>0, Consts DEF CPUInv
      <4>1. LockInv'
        BY <3>4, <4>0, <4>9, Consts DEF AllocStack, LockInv, HoldsPt,
           OneCPUPerStack, Ready, FreeSlot
      <4>2. IrqInv'
        BY <3>4, <4>0, <4>9, Consts DEF AllocStack, IrqInv, LockInv, HoldsPt,
           OneCPUPerStack, Ready, FreeSlot
      <4>3. TickInv'
        BY <3>4, <4>0, <4>9, Consts DEF AllocStack, TickInv, IrqInv, HoldsPt,
           OneCPUPerStack, Ready, FreeSlot
      <4>5. CPUInv'
        BY <3>4, <4>0, <4>9, Consts DEF AllocStack, CPUInv, LockInv, HoldsPt,
           OneCPUPerStack, ForkInv, Ready, FreeSlot
      <4>6. OffCPUInv'
        BY <3>4, <4>0, <4>9, Consts DEF AllocStack, OffCPUInv, CPUInv, Ready,
           FreeSlot
      <4>7. ForkInv'
        BY <3>4, <4>0, <4>9, Consts DEF AllocStack, ForkInv, ForkPCs, CPUInv,
           StackInv, OneCPUPerStack, Ready, FreeSlot
      <4>8. StackInv'
        BY <3>4, <4>0, <4>9, Consts DEF AllocStack, StackInv, ForkInv, ForkPCs,
           CPUInv, Ready, FreeSlot
      <4>12. OneCPUPerStack'
        BY <3>4 DEF AllocStack, OneCPUPerStack
      <4> QED
        BY <4>1, <4>2, <4>3, <4>5, <4>6, <4>7, <4>8, <4>12 DEF IInv
    <3>5. CASE ForkCopy(c, p)
      <4>0. /\ np[p] \in Procs /\ state[np[p]] = "EMBRYO" /\ np[p] # p
        <5>1. state[p] = "RUNNING"
          BY <3>5, Consts DEF ForkCopy, Ready, CPUInv
        <5> QED
          BY <3>5, <5>1 DEF ForkCopy, ForkInv, ForkPCs
      <4>9. \A d \in CPUs : run[d] # np[p]
        BY <4>0, Consts DEF CPUInv
      <4>3. TickInv'
        BY <3>5, <4>0, <4>9, Consts DEF ForkCopy, TickInv, IrqInv, HoldsPt,
           OneCPUPerStack, Ready, FreeSlot
      <4>5. CPUInv'
        BY <3>5, <4>0, <4>9, Consts DEF ForkCopy, CPUInv, LockInv, HoldsPt,
           OneCPUPerStack, ForkInv, Ready, FreeSlot
      <4>6. OffCPUInv'
        BY <3>5, <4>0, <4>9, Consts DEF ForkCopy, OffCPUInv, CPUInv, Ready,
           FreeSlot
      <4>7. ForkInv'
        BY <3>5, <4>0, <4>9, Consts DEF ForkCopy, ForkInv, ForkPCs, CPUInv,
           StackInv, OneCPUPerStack, Ready, FreeSlot
      <4>8. StackInv'
        BY <3>5, <4>0, <4>9, Consts DEF ForkCopy, StackInv, ForkInv, ForkPCs,
           CPUInv, Ready, FreeSlot
      <4>12. LockInv' /\ IrqInv' /\ OneCPUPerStack'
        BY <3>5 DEF ForkCopy, LockInv, IrqInv, OneCPUPerStack, HoldsPt
      <4> QED
        BY <4>3, <4>5, <4>6, <4>7, <4>8, <4>12 DEF IInv
    <3>6. CASE ForkStart(c, p)
      <4>0. /\ np[p] \in Procs /\ state[np[p]] = "EMBRYO" /\ np[p] # p
        <5>1. state[p] = "RUNNING"
          BY <3>6, Consts DEF ForkStart, Ready, CPUInv
        <5> QED
          BY <3>6, <5>1 DEF ForkStart, ForkInv, ForkPCs
      <4>9. \A d \in CPUs : run[d] # np[p]
        BY <4>0, Consts DEF CPUInv
      <4>3. TickInv'
        BY <3>6, <4>0, <4>9, Consts DEF ForkStart, TickInv, IrqInv, HoldsPt,
           OneCPUPerStack, Ready
      <4>5. CPUInv'
        BY <3>6, <4>0, <4>9, Consts DEF ForkStart, CPUInv, LockInv, HoldsPt,
           OneCPUPerStack, ForkInv, Ready
      <4>6. OffCPUInv'
        BY <3>6, <4>0, <4>9, Consts DEF ForkStart, OffCPUInv, CPUInv, Ready
      <4>7. ForkInv'
        BY <3>6, <4>0, <4>9, Consts DEF ForkStart, ForkInv, ForkPCs, CPUInv,
           StackInv, OneCPUPerStack, Ready
      <4>8. StackInv'
        BY <3>6, <4>0, <4>9, Consts DEF ForkStart, StackInv, ForkInv, ForkPCs,
           CPUInv, Ready
      <4>12. LockInv' /\ IrqInv' /\ OneCPUPerStack'
        BY <3>6 DEF ForkStart, LockInv, IrqInv, OneCPUPerStack, HoldsPt
      <4> QED
        BY <4>3, <4>5, <4>6, <4>7, <4>8, <4>12 DEF IInv
    <3>7. CASE exit(c, p)
      <4>0. /\ \A q \in Procs : q # p =>
                  \/ state'[q] = state[q]
                  \/ state[q] = "SLEEPING" /\ state'[q] = "RUNNABLE"
            /\ state'[p] = "ZOMBIE"
        <5> DEFINE st1 == WakeParent(p)
                   st2 == WakeInit(p, st1)
        <5>1. \A q \in Procs :
                \/ st1[q] = state[q]
                \/ state[q] = "SLEEPING" /\ st1[q] = "RUNNABLE"
          BY WakeupOnly DEF WakeParent
        <5>3. DOMAIN st1 = Procs
          BY WakeupOnly DEF WakeParent
        <5> HIDE DEF st1
        <5>2. /\ DOMAIN st2 = Procs
              /\ \A q \in Procs :
                   \/ st2[q] = st1[q]
                   \/ st1[q] = "SLEEPING" /\ st2[q] = "RUNNABLE"
          BY <5>3, WakeupOnly DEF WakeInit
        <5>4. state' = [st2 EXCEPT ![p] = "ZOMBIE"]
          BY <3>7 DEF exit, st1
        <5> HIDE DEF st2
        <5> QED
          BY <5>1, <5>2, <5>4
      <4>1. LockInv'
        BY <3>7, <4>0, Consts DEF exit, LockInv, HoldsPt, OneCPUPerStack,
           EnterSched
      <4>2. IrqInv'
        BY <3>7, <4>0, Consts DEF exit, IrqInv, LockInv, HoldsPt,
           OneCPUPerStack, EnterSched
      <4>3. TickInv'
        BY <3>7, <4>0, Consts DEF exit, TickInv, IrqInv, HoldsPt,
           OneCPUPerStack, EnterSched
      <4>5. CPUInv'
        BY <3>7, <4>0, Consts DEF exit, CPUInv, LockInv, HoldsPt,
           OneCPUPerStack, ForkInv, EnterSched
      <4>6. OffCPUInv'
        BY <3>7, <4>0, Consts DEF exit, OffCPUInv, CPUInv, EnterSched
      <4>7. ForkInv'
        BY <3>7, <4>0, Consts DEF exit, ForkInv, ForkPCs, CPUInv, StackInv,
           OneCPUPerStack, EnterSched
      <4>8. StackInv'
        BY <3>7, <4>0, Consts DEF exit, StackInv, ForkInv, ForkPCs, CPUInv,
           EnterSched
      <4>12. OneCPUPerStack'
        BY <3>7 DEF exit, OneCPUPerStack
      <4> QED
        BY <4>1, <4>2, <4>3, <4>5, <4>6, <4>7, <4>8, <4>12 DEF IInv
    <3>8. CASE ExitInit(c, p)
      <4>3. TickInv'
        BY <3>8, Consts DEF ExitInit, TickInv, IrqInv, HoldsPt, OneCPUPerStack
      <4>7. ForkInv'
        BY <3>8, Consts DEF ExitInit, ForkInv, ForkPCs, CPUInv, StackInv,
           OneCPUPerStack
      <4>12. LockInv' /\ IrqInv' /\ OneCPUPerStack' /\ CPUInv' /\ OffCPUInv' /\ StackInv'
        BY <3>8 DEF ExitInit, LockInv, IrqInv, OneCPUPerStack, CPUInv,
           OffCPUInv, StackInv, HoldsPt
      <4> QED
        BY <4>3, <4>7, <4>12 DEF IInv
    <3>9. CASE wait(c, p)
      <4>1. LockInv'
        BY <3>9, Consts DEF wait, LockInv, HoldsPt, OneCPUPerStack, Ready,
           Resumed, EnterSched, ReleasePtable, FreeSlot, IsFirst, Zombies
      <4>2. IrqInv'
        BY <3>9, Consts DEF wait, IrqInv, LockInv, HoldsPt, OneCPUPerStack,
           Ready, Resumed, EnterSched, ReleasePtable, FreeSlot, IsFirst,
           Zombies
      <4>3. TickInv'
        BY <3>9, Consts DEF wait, TickInv, IrqInv, HoldsPt, OneCPUPerStack,
           Ready, Resumed, EnterSched, ReleasePtable, FreeSlot, IsFirst,
           Zombies
      <4>5. CPUInv'
        BY <3>9, Consts DEF wait, CPUInv, LockInv, HoldsPt, OneCPUPerStack,
           ForkInv, Ready, Resumed, EnterSched, ReleasePtable, FreeSlot,
           IsFirst, Zombies
      <4>6. OffCPUInv'
        BY <3>9, Consts DEF wait, OffCPUInv, CPUInv, Ready, Resumed,
           EnterSched, ReleasePtable, FreeSlot, IsFirst, Zombies
      <4>7. ForkInv'
        BY <3>9, Consts DEF wait, ForkInv, ForkPCs, CPUInv, StackInv,
           OneCPUPerStack, Ready, Resumed, EnterSched, ReleasePtable, FreeSlot,
           IsFirst, Zombies
      <4>8. StackInv'
        BY <3>9, Consts DEF wait, StackInv, ForkInv, ForkPCs, CPUInv, Ready,
           Resumed, EnterSched, ReleasePtable, FreeSlot, IsFirst, Zombies
      <4>12. OneCPUPerStack'
        BY <3>9 DEF wait, OneCPUPerStack
      <4> QED
        BY <4>1, <4>2, <4>3, <4>5, <4>6, <4>7, <4>8, <4>12 DEF IInv
    <3>10. CASE kill(c, p)
      <4>3. TickInv'
        BY <3>10, Consts DEF kill, TickInv, IrqInv, HoldsPt, OneCPUPerStack,
           Ready
      <4>5. CPUInv'
        BY <3>10, Consts DEF kill, CPUInv, LockInv, HoldsPt, OneCPUPerStack,
           ForkInv, Ready
      <4>6. OffCPUInv'
        BY <3>10, Consts DEF kill, OffCPUInv, CPUInv, Ready
      <4>7. ForkInv'
        BY <3>10, Consts DEF kill, ForkInv, ForkPCs, CPUInv, StackInv,
           OneCPUPerStack, Ready
      <4>8. StackInv'
        BY <3>10, Consts DEF kill, StackInv, ForkInv, ForkPCs, CPUInv, Ready
      <4>12. LockInv' /\ IrqInv' /\ OneCPUPerStack'
        BY <3>10 DEF kill, LockInv, IrqInv, OneCPUPerStack, HoldsPt
      <4> QED
        BY <4>3, <4>5, <4>6, <4>7, <4>8, <4>12 DEF IInv
    <3>11. CASE sys_sleep(c, p)
      <4>3. TickInv'
        BY <3>11, Consts DEF sys_sleep, TickInv, IrqInv, HoldsPt,
           OneCPUPerStack, Ready, SleepLoop, ToSleep
      <4>7. ForkInv'
        BY <3>11, Consts DEF sys_sleep, ForkInv, ForkPCs, CPUInv, StackInv,
           OneCPUPerStack, Ready, SleepLoop, ToSleep
      <4>12. LockInv' /\ IrqInv' /\ OneCPUPerStack' /\ CPUInv' /\ OffCPUInv' /\ StackInv'
        BY <3>11 DEF sys_sleep, LockInv, IrqInv, OneCPUPerStack, CPUInv,
           OffCPUInv, StackInv, HoldsPt
      <4> QED
        BY <4>3, <4>7, <4>12 DEF IInv
    <3>12. CASE sleep(c, p)
      <4>1. LockInv'
        BY <3>12, Consts DEF sleep, LockInv, HoldsPt, OneCPUPerStack, Ready,
           EnterSched
      <4>2. IrqInv'
        BY <3>12, Consts DEF sleep, IrqInv, LockInv, HoldsPt, OneCPUPerStack,
           Ready, EnterSched
      <4>3. TickInv'
        BY <3>12, Consts DEF sleep, TickInv, IrqInv, HoldsPt, OneCPUPerStack,
           Ready, EnterSched
      <4>5. CPUInv'
        BY <3>12, Consts DEF sleep, CPUInv, LockInv, HoldsPt, OneCPUPerStack,
           ForkInv, Ready, EnterSched
      <4>6. OffCPUInv'
        BY <3>12, Consts DEF sleep, OffCPUInv, CPUInv, Ready, EnterSched
      <4>7. ForkInv'
        BY <3>12, Consts DEF sleep, ForkInv, ForkPCs, CPUInv, StackInv,
           OneCPUPerStack, Ready, EnterSched
      <4>8. StackInv'
        BY <3>12, Consts DEF sleep, StackInv, ForkInv, ForkPCs, CPUInv, Ready,
           EnterSched
      <4>12. OneCPUPerStack'
        BY <3>12 DEF sleep, OneCPUPerStack
      <4> QED
        BY <4>1, <4>2, <4>3, <4>5, <4>6, <4>7, <4>8, <4>12 DEF IInv
    <3>13. CASE SleepReturn(c, p)
      <4>1. LockInv'
        BY <3>13, Consts DEF SleepReturn, LockInv, HoldsPt, OneCPUPerStack,
           Resumed, ReleasePtable
      <4>2. IrqInv'
        BY <3>13, Consts DEF SleepReturn, IrqInv, LockInv, HoldsPt,
           OneCPUPerStack, Resumed, ReleasePtable
      <4>3. TickInv'
        BY <3>13, Consts DEF SleepReturn, TickInv, IrqInv, HoldsPt,
           OneCPUPerStack, Resumed, ReleasePtable
      <4>5. CPUInv'
        BY <3>13, Consts DEF SleepReturn, CPUInv, LockInv, HoldsPt,
           OneCPUPerStack, ForkInv, Resumed, ReleasePtable
      <4>6. OffCPUInv'
        BY <3>13, Consts DEF SleepReturn, OffCPUInv, CPUInv, Resumed,
           ReleasePtable
      <4>7. ForkInv'
        BY <3>13, Consts DEF SleepReturn, ForkInv, ForkPCs, CPUInv, StackInv,
           OneCPUPerStack, Resumed, ReleasePtable
      <4>12. OneCPUPerStack' /\ StackInv'
        BY <3>13 DEF SleepReturn, OneCPUPerStack, StackInv
      <4> QED
        BY <4>1, <4>2, <4>3, <4>5, <4>6, <4>7, <4>12 DEF IInv
    <3>14. CASE IrqCheck(c, p)
      <4>2. IrqInv'
        BY <3>14, Consts DEF IrqCheck, IrqInv, LockInv, HoldsPt, OneCPUPerStack
      <4>3. TickInv'
        BY <3>14, Consts DEF IrqCheck, TickInv, IrqInv, HoldsPt, OneCPUPerStack
      <4>7. ForkInv'
        BY <3>14, Consts DEF IrqCheck, ForkInv, ForkPCs, CPUInv, StackInv,
           OneCPUPerStack
      <4>12. LockInv' /\ OneCPUPerStack' /\ CPUInv' /\ OffCPUInv' /\ StackInv'
        BY <3>14 DEF IrqCheck, LockInv, OneCPUPerStack, CPUInv, OffCPUInv,
           StackInv, HoldsPt
      <4> QED
        BY <4>2, <4>3, <4>7, <4>12 DEF IInv
    <3>15. CASE yield(c, p)
      <4>1. LockInv'
        BY <3>15, Consts DEF yield, LockInv, HoldsPt, OneCPUPerStack, EnterSched
      <4>2. IrqInv'
        BY <3>15, Consts DEF yield, IrqInv, LockInv, HoldsPt, OneCPUPerStack,
           EnterSched
      <4>3. TickInv'
        BY <3>15, Consts DEF yield, TickInv, IrqInv, HoldsPt, OneCPUPerStack,
           EnterSched
      <4>5. CPUInv'
        BY <3>15, Consts DEF yield, CPUInv, LockInv, HoldsPt, OneCPUPerStack,
           ForkInv, EnterSched
      <4>6. OffCPUInv'
        BY <3>15, Consts DEF yield, OffCPUInv, CPUInv, EnterSched
      <4>7. ForkInv'
        BY <3>15, Consts DEF yield, ForkInv, ForkPCs, CPUInv, StackInv,
           OneCPUPerStack, EnterSched
      <4>8. StackInv'
        BY <3>15, Consts DEF yield, StackInv, ForkInv, ForkPCs, CPUInv,
           EnterSched
      <4>12. OneCPUPerStack'
        BY <3>15 DEF yield, OneCPUPerStack
      <4> QED
        BY <4>1, <4>2, <4>3, <4>5, <4>6, <4>7, <4>8, <4>12 DEF IInv
    <3>16. CASE YieldReturn(c, p)
      <4>1. LockInv'
        BY <3>16, Consts DEF YieldReturn, LockInv, HoldsPt, OneCPUPerStack,
           Resumed, ReleasePtable
      <4>2. IrqInv'
        BY <3>16, Consts DEF YieldReturn, IrqInv, LockInv, HoldsPt,
           OneCPUPerStack, Resumed, ReleasePtable
      <4>3. TickInv'
        BY <3>16, Consts DEF YieldReturn, TickInv, IrqInv, HoldsPt,
           OneCPUPerStack, Resumed, ReleasePtable
      <4>5. CPUInv'
        BY <3>16, Consts DEF YieldReturn, CPUInv, LockInv, HoldsPt,
           OneCPUPerStack, ForkInv, Resumed, ReleasePtable
      <4>6. OffCPUInv'
        BY <3>16, Consts DEF YieldReturn, OffCPUInv, CPUInv, Resumed,
           ReleasePtable
      <4>12. OneCPUPerStack' /\ ForkInv' /\ StackInv'
        BY <3>16 DEF YieldReturn, OneCPUPerStack, ForkInv, StackInv
      <4> QED
        BY <4>1, <4>2, <4>3, <4>5, <4>6, <4>12 DEF IInv
    <3>17. CASE sched(c, p)
      <4>1. LockInv'
        BY <3>17, Consts DEF sched, LockInv, HoldsPt, OneCPUPerStack, CPUInv
      <4>2. IrqInv'
        BY <3>17, Consts DEF sched, IrqInv, LockInv, HoldsPt, OneCPUPerStack,
           CPUInv
      <4>3. TickInv'
        BY <3>17, Consts DEF sched, TickInv, IrqInv, HoldsPt, OneCPUPerStack,
           CPUInv
      <4>4. OneCPUPerStack'
        BY <3>17, Consts DEF sched, OneCPUPerStack, CPUInv, LockInv, HoldsPt,
           CPUInv
      <4>5. CPUInv'
        BY <3>17, Consts DEF sched, CPUInv, LockInv, HoldsPt, OneCPUPerStack,
           ForkInv, CPUInv
      <4>6. OffCPUInv'
        BY <3>17, Consts DEF sched, OffCPUInv, CPUInv, CPUInv
      <4>12. ForkInv' /\ StackInv'
        BY <3>17 DEF sched, ForkInv, StackInv
      <4> QED
        BY <4>1, <4>2, <4>3, <4>4, <4>5, <4>6, <4>12 DEF IInv
    <3>18. CASE SyscallEntry(c, p)
      <4>3. TickInv'
        BY <3>18, ProcAssumption, Consts DEF SyscallEntry, TickInv, IrqInv,
           HoldsPt, OneCPUPerStack, Ready, SysCalls
      <4>7. ForkInv'
        BY <3>18, ProcAssumption, Consts DEF SyscallEntry, ForkInv, ForkPCs,
           CPUInv, StackInv, OneCPUPerStack, Ready, SysCalls
      <4>12. LockInv' /\ IrqInv' /\ OneCPUPerStack' /\ CPUInv' /\ OffCPUInv' /\ StackInv'
        BY <3>18 DEF SyscallEntry, LockInv, IrqInv, OneCPUPerStack, CPUInv,
           OffCPUInv, StackInv, HoldsPt
      <4> QED
        BY <4>3, <4>7, <4>12 DEF IInv
    <3>19. CASE Fault(c, p)
      <4>2. IrqInv'
        BY <3>19, Consts DEF Fault, IrqInv, LockInv, HoldsPt, OneCPUPerStack,
           Ready
      <4>3. TickInv'
        BY <3>19, Consts DEF Fault, TickInv, IrqInv, HoldsPt, OneCPUPerStack,
           Ready
      <4>7. ForkInv'
        BY <3>19, Consts DEF Fault, ForkInv, ForkPCs, CPUInv, StackInv,
           OneCPUPerStack, Ready
      <4>12. LockInv' /\ OneCPUPerStack' /\ CPUInv' /\ OffCPUInv' /\ StackInv'
        BY <3>19 DEF Fault, LockInv, OneCPUPerStack, CPUInv, OffCPUInv,
           StackInv, HoldsPt
      <4> QED
        BY <4>2, <4>3, <4>7, <4>12 DEF IInv
    <3> QED
      BY <2>7, <3>1, <3>2, <3>3, <3>4, <3>5, <3>6, <3>7, <3>8, <3>9, <3>10,
         <3>11, <3>12, <3>13, <3>14, <3>15, <3>16, <3>17, <3>18, <3>19
         DEF Kernel, Preempt
  <2> QED
    BY <2>1, <2>2, <2>3, <2>4, <2>5, <2>6, <2>7 DEF Scheduler, Tick
<1> QED
  BY <1>1, <1>2

\* The inductive invariant holds in every reachable state.
LEMMA IInvAlways == Spec => []IInv
BY IInvInit, IInvStep, PTL DEF Spec

\* Whatever the number of CPUs and of processes, no two CPUs execute on the
\* same kernel stack.
THEOREM OneCPUPerStackAlways == Spec => []OneCPUPerStack
<1>1. IInv => OneCPUPerStack
  BY DEF IInv
<1> QED
  BY <1>1, IInvAlways, PTL

\* A CPU never executes on a kernel stack that wait() or a failed fork() freed.
THEOREM StackAllocatedAlways == Spec => []StackAllocated
<1>1. IInv => StackAllocated
  BY Consts DEF IInv, TypeOK, CPUInv, StackInv, StackAllocated
<1> QED
  BY <1>1, IInvAlways, PTL

\* sched() is always entered with exactly ptable.lock held, a changed state
\* and c->proc naming the caller, so none of its panics can fire.
THEOREM SchedPreconditionsAlways == Spec => []SchedPreconditions
<1>1. IInv => SchedPreconditions
  <2> SUFFICES ASSUME IInv, NEW c \in CPUs, NEW p \in Procs,
                      run[c] = p, mode[p] = "insched"
               PROVE  /\ ptlock = c /\ tickslock # c
                      /\ state[p] # "RUNNING" /\ cproc[c] = p
    BY DEF SchedPreconditions
  <2>1. HoldsPt(c)
    BY Consts DEF HoldsPt
  <2>2. ptlock = c
    BY <2>1 DEF IInv, LockInv
  <2>3. irq[c] = "none"
    BY <2>1 DEF IInv, IrqInv
  <2>4. tickslock # c
    BY <2>3 DEF IInv, TickInv
  <2>5. state[p] # "RUNNING" /\ cproc[c] = p
    BY Consts DEF IInv, CPUInv
  <2> QED
    BY <2>2, <2>4, <2>5
<1> QED
  BY <1>1, IInvAlways, PTL

\* With ptable.lock free, the RUNNING processes are exactly the ones the CPUs
\* execute, and myproc() is right on every CPU.
THEOREM RunningIffOnCPUAlways == Spec => []RunningIffOnCPU
<1>1. IInv => RunningIffOnCPU
  <2> SUFFICES ASSUME IInv, ptlock = NoCPU
               PROVE  /\ \A c \in CPUs : cproc[c] = run[c]
                      /\ \A p \in Procs :
                           state[p] = "RUNNING" <=> \E c \in CPUs : run[c] = p
    BY DEF RunningIffOnCPU
  <2>1. \A c \in CPUs : ~HoldsPt(c)
    BY Consts DEF IInv, LockInv
  <2>2. \A c \in CPUs : cproc[c] = run[c]
    BY <2>1 DEF IInv, CPUInv, HoldsPt
  <2>3. ASSUME NEW p \in Procs
        PROVE  state[p] = "RUNNING" <=> \E c \in CPUs : run[c] = p
    BY <2>1, Consts DEF IInv, CPUInv, OffCPUInv, HoldsPt
  <2> QED
    BY <2>2, <2>3
<1> QED
  BY <1>1, IInvAlways, PTL

-----------------------------------------------------------------------------
(***************************************************************************)
(* Slots, families and the sleep on &ticks.  Each invariant below is       *)
(* inductive relative to IInv.                                             *)
(***************************************************************************)

\* Pids are handed out in increasing order, so none in use is given again.
PidInv == UniquePids /\ \A p \in Procs : pid[p] < nextpid

\* A slot and its builder in fork() belong together; the parent of a slot is
\* recorded by ForkCopy and forgotten before the slot is free again.
FreeInv ==
    \A p \in Procs : state[p] = "UNUSED" => ~kstack[p] /\ parent[p] = 0
BuilderInv ==
    /\ \A p \in Procs : pc[p] \notin ForkPCs => np[p] = 0
    /\ \A p \in Procs : pc[p] \in {"kstack", "copy"} => parent[np[p]] = 0
    /\ \A p \in Procs : pc[p] = "start" => parent[np[p]] = p
    /\ \A p \in Procs : state[p] = "EMBRYO" =>
           \E q \in Procs : pc[q] \in ForkPCs /\ np[q] = p

\* The states of a process that can still call wait(); init stays in them.
CanWait == {"SLEEPING", "RUNNABLE", "RUNNING"}
ParentInv ==
    /\ state[initproc] \in CanWait
    /\ \A p \in Procs \ {initproc} :
           state[p] \notin {"UNUSED", "EMBRYO"} =>
               /\ parent[p] \in Procs \ {p}
               /\ state[parent[p]] \in CanWait

\* What sends a process to sleep in wait() remains true until it is woken, at
\* every moment and not only while ptable.lock is free.
WaiterInv ==
    \A p \in Procs :
        state[p] = "SLEEPING" /\ chan[p] = p =>
            /\ \E q \in Procs : parent[q] = p
            /\ \A q \in Procs : parent[q] = p => state[q] # "ZOMBIE"
            /\ ~killed[p]

\* From the test of sys_sleep() to sleep() tickslock is held and the CPU takes
\* no interrupt, so the test stays true; a sleeper whose time has come is one
\* that a timer interrupt is about to wake.
TickHolderInv ==
    /\ \A c \in CPUs : irq[c] = "wake" => tickslock = c
    /\ \A p \in Procs : preempted[p] => mode[p] # "on" /\ pc[p] # "tosleep"
    /\ \A c \in CPUs :
           run[c] # 0 /\ mode[run[c]] = "on" /\ pc[run[c]] = "tosleep" =>
               /\ tickslock = c /\ irq[c] = "none"
               /\ Elapsed(t0[run[c]]) < n[run[c]]
TickSleepInv ==
    \A p \in Procs :
        state[p] = "SLEEPING" /\ chan[p] = TICKS =>
            Elapsed(t0[p]) < n[p] \/ \E c \in CPUs : irq[c] = "wake"

\* exit() makes p a ZOMBIE and otherwise only wakes sleepers.
LEMMA ExitStates ==
    ASSUME NEW c \in CPUs, NEW p \in Procs, TypeOK, exit(c, p)
    PROVE  /\ state'[p] = "ZOMBIE"
           /\ \A q \in Procs \ {p} :
                \/ state'[q] = state[q]
                \/ state[q] = "SLEEPING" /\ state'[q] = "RUNNABLE"
<1> DEFINE st1 == WakeParent(p)
           st2 == WakeInit(p, st1)
<1>1. /\ DOMAIN st1 = Procs
      /\ \A q \in Procs : \/ st1[q] = state[q]
                          \/ state[q] = "SLEEPING" /\ st1[q] = "RUNNABLE"
  BY WakeupOnly DEF WakeParent
<1>2. state' = [st2 EXCEPT ![p] = "ZOMBIE"]
  BY DEF exit
<1> HIDE DEF st1
<1>3. /\ DOMAIN st2 = Procs
      /\ \A q \in Procs : \/ st2[q] = st1[q]
                          \/ st1[q] = "SLEEPING" /\ st2[q] = "RUNNABLE"
  BY <1>1, WakeupOnly DEF WakeInit
<1> HIDE DEF st2
<1> QED
  BY <1>1, <1>2, <1>3

\* Only allocproc() hands out a pid, the next one; wait() takes one back.
LEMMA PidStep == IInv /\ PidInv /\ [Next]_vars => PidInv'
<1> SUFFICES ASSUME IInv, PidInv, [Next]_vars PROVE PidInv'
  OBVIOUS
<1> USE DEF vars, pvars, tvars, cvars, kvars
<1>i. /\ TypeOK /\ LockInv /\ IrqInv /\ TickInv /\ OneCPUPerStack /\ CPUInv
      /\ OffCPUInv /\ ForkInv /\ StackInv
  BY DEF IInv
<1>t. TypeOK'
  BY TypeStep DEF IInv
<1>1. CASE UNCHANGED vars
  BY <1>1 DEF PidInv, UniquePids
<1>2. CASE Next
  <2> PICK c \in CPUs :
          \/ Scheduler(c) \/ TimerInterrupt(c) \/ Tick(c)
          \/ \E p \in Procs : \/ Kernel(c, p) \/ Preempt(c, p)
                             \/ SyscallEntry(c, p) \/ Fault(c, p)
    BY <1>2 DEF Next
  <2>1. CASE SchedAcquire(c) \/ SchedRelease(c) \/ TimerInterrupt(c) \/
     IrqTick(c)
    BY <2>1 DEF SchedAcquire, SchedRelease, TimerInterrupt, IrqTick, PidInv,
       UniquePids
  <2>2. CASE SchedSwitch(c)
    BY <2>2, <1>i DEF SchedSwitch, PidInv, UniquePids, TypeOK, IsFirst,
       RunnableFrom, CPUInv
  <2>3. CASE IrqWake(c)
    BY <2>3, <1>i DEF IrqWake, wakeup1, PidInv, UniquePids, TypeOK, IsFirst,
       RunnableFrom, CPUInv
  <2>4. ASSUME NEW p \in Procs, Kernel(c, p) \/ Preempt(c, p)
                         \/ SyscallEntry(c, p) \/ Fault(c, p)
        PROVE PidInv'
    <3>1. CASE forkret(c, p) \/ SyscallReturn(c, p) \/ ExitInit(c, p) \/
       sys_sleep(c, p) \/ SleepReturn(c, p) \/ IrqCheck(c, p) \/
       YieldReturn(c, p) \/ sched(c, p) \/ SyscallEntry(c, p) \/ Fault(c, p)
      BY <3>1 DEF forkret, SyscallReturn, ExitInit, sys_sleep, SleepReturn,
         IrqCheck, YieldReturn, sched, SyscallEntry, Fault, PidInv, UniquePids
    <3>2. CASE allocproc(c, p)
      <4>1. \A q \in Procs : pid[q] \in Nat /\ pid[q] < nextpid /\ nextpid \in Nat
        BY <1>i DEF PidInv, TypeOK
      <4>2. CASE UNCHANGED <<state, pid, nextpid>>
        BY <4>2 DEF PidInv, UniquePids
      <4>3. ASSUME NEW q \in Procs, state' = [state EXCEPT ![q] = "EMBRYO"], TakePid(q)
            PROVE  PidInv'
        <5>1. /\ nextpid' = nextpid + 1 /\ pid'[q] = nextpid
              /\ \A r \in Procs \ {q} : pid'[r] = pid[r] /\ state'[r] = state[r]
          BY <4>3, <1>i DEF TakePid, TypeOK
        <5>2. \A r \in Procs : pid'[r] < nextpid'
          BY <4>1, <5>1
        <5>3. nextpid # 0 /\ \A r \in Procs : pid[r] # nextpid
          BY <4>1
        <5>4. UniquePids'
          BY <5>1, <5>3 DEF PidInv, UniquePids
        <5> QED
          BY <5>2, <5>4 DEF PidInv
      <4> QED
        BY <3>2, <4>2, <4>3 DEF allocproc
    <3>3. CASE AllocStack(c, p)
      BY <3>3, <1>i, Consts DEF AllocStack, Ready, CPUInv, FreeSlot, ForkInv,
         ForkPCs, PidInv, UniquePids, TypeOK
    <3>4. CASE ForkCopy(c, p)
      BY <3>4, <1>i, Consts DEF ForkCopy, Ready, CPUInv, FreeSlot, ForkInv,
         ForkPCs, PidInv, UniquePids, TypeOK
    <3>5. CASE ForkStart(c, p)
      BY <3>5, <1>i, Consts DEF ForkStart, Ready, CPUInv, ForkInv, ForkPCs,
         PidInv, UniquePids, TypeOK
    <3>6. CASE exit(c, p)
      <4>1. \A q \in Procs \ {p} :
              \/ state'[q] = state[q]
              \/ state[q] = "SLEEPING" /\ state'[q] = "RUNNABLE"
        BY <3>6, <1>i, ExitStates
      <4>2. state[p] = "RUNNING"
        BY <3>6, <1>i, Consts DEF exit, CPUInv
      <4>3. \A q \in Procs : state'[q] # "UNUSED" => state[q] # "UNUSED"
        BY <4>1, <4>2
      <4> QED
        BY <3>6, <4>3 DEF exit, PidInv, UniquePids
    <3>7. CASE wait(c, p)
      <4>1. \A q \in Procs : pid'[q] < nextpid'
        BY <3>7, <1>i DEF wait, PidInv, TypeOK
      <4>2. \A q \in Procs : state'[q] # "UNUSED" => state[q] # "UNUSED" /\ pid'[q] = pid[q]
        BY <3>7, <1>i, Consts DEF wait, FreeSlot, Ready, Resumed, CPUInv, TypeOK
      <4> QED
        BY <4>1, <4>2 DEF PidInv, UniquePids
    <3>8. CASE kill(c, p)
      BY <3>8, <1>i DEF kill, PidInv, UniquePids, TypeOK
    <3>9. CASE sleep(c, p)
      BY <3>9, <1>i, Consts DEF sleep, Ready, PidInv, UniquePids, TypeOK, CPUInv
    <3>10. CASE yield(c, p)
      BY <3>10, <1>i, Consts DEF yield, PidInv, UniquePids, TypeOK, CPUInv,
         IrqInv, HoldsPt
    <3> QED
      BY <2>4, <3>1, <3>2, <3>3, <3>4, <3>5, <3>6, <3>7, <3>8, <3>9, <3>10 DEF
         Kernel, Preempt
  <2> QED
    BY <2>1, <2>2, <2>3, <2>4 DEF Scheduler, Tick
<1> QED
  BY <1>1, <1>2

\* A slot that is given back has neither a kernel stack nor a parent.
LEMMA FreeStep == IInv /\ BuilderInv /\ FreeInv /\ [Next]_vars => FreeInv'
<1> SUFFICES ASSUME IInv, BuilderInv, FreeInv, [Next]_vars PROVE FreeInv'
  OBVIOUS
<1> USE DEF vars, pvars, tvars, cvars, kvars
<1>i. /\ TypeOK /\ LockInv /\ IrqInv /\ TickInv /\ OneCPUPerStack /\ CPUInv
      /\ OffCPUInv /\ ForkInv /\ StackInv
  BY DEF IInv
<1>t. TypeOK'
  BY TypeStep DEF IInv
<1>1. CASE UNCHANGED vars
  BY <1>1 DEF FreeInv
<1>2. CASE Next
  <2> PICK c \in CPUs :
          \/ Scheduler(c) \/ TimerInterrupt(c) \/ Tick(c)
          \/ \E p \in Procs : \/ Kernel(c, p) \/ Preempt(c, p)
                             \/ SyscallEntry(c, p) \/ Fault(c, p)
    BY <1>2 DEF Next
  <2>1. CASE SchedAcquire(c) \/ SchedRelease(c) \/ TimerInterrupt(c) \/
     IrqTick(c)
    BY <2>1 DEF SchedAcquire, SchedRelease, TimerInterrupt, IrqTick, FreeInv
  <2>2. CASE SchedSwitch(c)
    BY <2>2, <1>i DEF SchedSwitch, IsFirst, RunnableFrom, FreeInv, TypeOK
  <2>3. CASE IrqWake(c)
    BY <2>3, <1>i DEF IrqWake, wakeup1, FreeInv, TypeOK
  <2>4. ASSUME NEW p \in Procs, Kernel(c, p) \/ Preempt(c, p)
                         \/ SyscallEntry(c, p) \/ Fault(c, p)
        PROVE FreeInv'
    <3>1. CASE forkret(c, p) \/ SyscallReturn(c, p) \/ ExitInit(c, p) \/
       sys_sleep(c, p) \/ SleepReturn(c, p) \/ IrqCheck(c, p) \/
       YieldReturn(c, p) \/ sched(c, p) \/ SyscallEntry(c, p) \/ Fault(c, p)
      BY <3>1 DEF forkret, SyscallReturn, ExitInit, sys_sleep, SleepReturn,
         IrqCheck, YieldReturn, sched, SyscallEntry, Fault, FreeInv
    <3>2. CASE allocproc(c, p)
      BY <3>2, <1>i DEF allocproc, FreeInv, TypeOK
    <3>3. CASE AllocStack(c, p)
      <4>0. /\ state[p] = "RUNNING" /\ pc[p] \in ForkPCs /\ np[p] \in Procs
            /\ state[np[p]] = "EMBRYO" /\ np[p] # p
        <5>1. state[p] = "RUNNING"
          BY <3>3, <1>i, Consts DEF AllocStack, Ready, CPUInv
        <5> QED
          BY <3>3, <5>1, <1>i DEF AllocStack, ForkInv, ForkPCs
      <4> QED
        BY <3>3, <4>0, <1>i DEF AllocStack, FreeSlot, BuilderInv, FreeInv,
           TypeOK
    <3>4. CASE ForkCopy(c, p)
      <4>0. /\ state[p] = "RUNNING" /\ pc[p] \in ForkPCs /\ np[p] \in Procs
            /\ state[np[p]] = "EMBRYO" /\ np[p] # p
        <5>1. state[p] = "RUNNING"
          BY <3>4, <1>i, Consts DEF ForkCopy, Ready, CPUInv
        <5> QED
          BY <3>4, <5>1, <1>i DEF ForkCopy, ForkInv, ForkPCs
      <4> QED
        BY <3>4, <4>0, <1>i DEF ForkCopy, FreeSlot, BuilderInv, FreeInv, TypeOK
    <3>5. CASE ForkStart(c, p)
      <4>0. /\ state[p] = "RUNNING" /\ pc[p] \in ForkPCs /\ np[p] \in Procs
            /\ state[np[p]] = "EMBRYO" /\ np[p] # p
        <5>1. state[p] = "RUNNING"
          BY <3>5, <1>i, Consts DEF ForkStart, Ready, CPUInv
        <5> QED
          BY <3>5, <5>1, <1>i DEF ForkStart, ForkInv, ForkPCs
      <4> QED
        BY <3>5, <4>0, <1>i DEF ForkStart, BuilderInv, FreeInv, TypeOK
    <3>6. CASE exit(c, p)
      <4>1. \A q \in Procs : state'[q] = "UNUSED" => state[q] = "UNUSED"
        BY <3>6, <1>i, ExitStates
      <4> QED
        BY <3>6, <4>1, <1>i, Consts DEF exit, Reparent, FreeInv, TypeOK
    <3>7. CASE wait(c, p)
      BY <3>7, <1>i DEF wait, FreeSlot, FreeInv, TypeOK
    <3>8. CASE kill(c, p)
      BY <3>8, <1>i DEF kill, FreeInv, TypeOK
    <3>9. CASE sleep(c, p)
      BY <3>9, <1>i DEF sleep, FreeInv, TypeOK
    <3>10. CASE yield(c, p)
      BY <3>10, <1>i DEF yield, FreeInv, TypeOK
    <3> QED
      BY <2>4, <3>1, <3>2, <3>3, <3>4, <3>5, <3>6, <3>7, <3>8, <3>9, <3>10 DEF
         Kernel, Preempt
  <2> QED
    BY <2>1, <2>2, <2>3, <2>4 DEF Scheduler, Tick
<1> QED
  BY <1>1, <1>2


\* A slot is EMBRYO exactly while one process builds it in fork().
LEMMA BuilderStep == IInv /\ FreeInv /\ BuilderInv /\ [Next]_vars => BuilderInv'
<1> SUFFICES ASSUME IInv, FreeInv, BuilderInv, [Next]_vars PROVE BuilderInv'
  OBVIOUS
<1> USE DEF vars, pvars, tvars, cvars, kvars
<1>i. /\ TypeOK /\ LockInv /\ IrqInv /\ TickInv /\ OneCPUPerStack /\ CPUInv
      /\ OffCPUInv /\ ForkInv /\ StackInv
  BY DEF IInv
<1>t. TypeOK'
  BY TypeStep DEF IInv
<1>1. CASE UNCHANGED vars
  BY <1>1 DEF BuilderInv
<1>2. CASE Next
  <2> PICK c \in CPUs :
          \/ Scheduler(c) \/ TimerInterrupt(c) \/ Tick(c)
          \/ \E p \in Procs : \/ Kernel(c, p) \/ Preempt(c, p)
                             \/ SyscallEntry(c, p) \/ Fault(c, p)
    BY <1>2 DEF Next
  <2>1. CASE SchedAcquire(c) \/ SchedRelease(c) \/ TimerInterrupt(c) \/
     IrqTick(c)
    BY <2>1 DEF SchedAcquire, SchedRelease, TimerInterrupt, IrqTick,
       BuilderInv
  <2>2. CASE SchedSwitch(c)
    BY <2>2, <1>i DEF SchedSwitch, BuilderInv, ForkPCs, TypeOK
  <2>3. CASE IrqWake(c)
    BY <2>3, <1>i DEF IrqWake, wakeup1, BuilderInv, ForkPCs, TypeOK
  <2>4. ASSUME NEW p \in Procs, Kernel(c, p) \/ Preempt(c, p)
                         \/ SyscallEntry(c, p) \/ Fault(c, p)
        PROVE BuilderInv'
    <3>1. CASE YieldReturn(c, p) \/ sched(c, p)
      BY <3>1 DEF YieldReturn, sched, BuilderInv
    <3>2. CASE forkret(c, p)
      BY <3>2, <1>i DEF forkret, BuilderInv, ForkPCs, TypeOK
    <3>3. CASE SyscallReturn(c, p)
      BY <3>3, <1>i DEF SyscallReturn, BuilderInv, ForkPCs, TypeOK
    <3>4. CASE allocproc(c, p)
      <4>1. CASE UNCHANGED <<state, np>> /\ pc' = [pc EXCEPT ![p] = "sysret"]
        BY <3>4, <4>1, <1>i DEF allocproc, BuilderInv, ForkPCs, TypeOK
      <4>2. ASSUME NEW q \in Procs, state[q] = "UNUSED",
                   state' = [state EXCEPT ![q] = "EMBRYO"],
                   np' = [np EXCEPT ![p] = q], pc' = [pc EXCEPT ![p] = "kstack"]
            PROVE  BuilderInv'
        <5>1. parent[q] = 0 /\ UNCHANGED parent /\ pc[p] \notin ForkPCs
          BY <3>4, <4>2 DEF FreeInv, allocproc, ForkPCs
        <5> QED
          BY <4>2, <5>1, <1>i DEF BuilderInv, ForkPCs, TypeOK
      <4> QED
        BY <3>4, <4>1, <4>2 DEF allocproc, IsFirst, Unused
    <3>5. CASE AllocStack(c, p)
      <4>0. /\ state[p] = "RUNNING" /\ pc[p] \in ForkPCs /\ np[p] \in Procs
            /\ state[np[p]] = "EMBRYO" /\ np[p] # p
        <5>1. state[p] = "RUNNING"
          BY <3>5, <1>i, Consts DEF AllocStack, Ready, CPUInv
        <5> QED
          BY <3>5, <5>1, <1>i DEF AllocStack, ForkInv, ForkPCs
      <4>2. ASSUME FreeSlot(np[p]), pc' = [pc EXCEPT ![p] = "sysret"],
                   np' = [np EXCEPT ![p] = 0], UNCHANGED parent
            PROVE  BuilderInv'
        BY <4>0, <4>2, <1>i DEF FreeSlot, ForkInv, BuilderInv, ForkPCs, TypeOK
      <4>9. np[np[p]] = 0 /\ pc[np[p]] \notin ForkPCs
        BY <4>0, <1>i DEF ForkInv, BuilderInv
      <4>1. ASSUME pc' = [pc EXCEPT ![p] = "copy", ![np[p]] = "forkret"],
                   UNCHANGED <<state, np, parent>>
            PROVE  BuilderInv'
        <5>1. /\ pc'[p] = "copy" /\ pc'[np[p]] = "forkret"
              /\ \A q \in Procs : q # p /\ q # np[p] => pc'[q] = pc[q]
          BY <4>0, <4>1, <1>i DEF TypeOK
        <5>2. \A q \in Procs : pc'[q] \in ForkPCs <=> pc[q] \in ForkPCs
          BY <5>1, <4>0, <4>9 DEF ForkPCs
        <5>3. pc[p] = "kstack"
          BY <3>5 DEF AllocStack
        <5>4. \A q \in Procs : pc'[q] = "start" => pc[q] = "start"
          BY <5>1, <4>0
        <5>5. \A q \in Procs : pc'[q] \in {"kstack", "copy"} => pc[q] \in {"kstack", "copy"}
          BY <5>1, <5>3, <4>0
        <5> QED
          BY <5>2, <5>4, <5>5, <4>1 DEF BuilderInv
      <4> QED
        BY <3>5, <4>1, <4>2 DEF AllocStack
    <3>6. CASE ForkCopy(c, p)
      <4>0. /\ state[p] = "RUNNING" /\ pc[p] \in ForkPCs /\ np[p] \in Procs
            /\ state[np[p]] = "EMBRYO" /\ np[p] # p
        <5>1. state[p] = "RUNNING"
          BY <3>6, <1>i, Consts DEF ForkCopy, Ready, CPUInv
        <5> QED
          BY <3>6, <5>1, <1>i DEF ForkCopy, ForkInv, ForkPCs
      <4>2. ASSUME FreeSlot(np[p]), pc' = [pc EXCEPT ![p] = "sysret"],
                   np' = [np EXCEPT ![p] = 0], UNCHANGED parent
            PROVE  BuilderInv'
        BY <4>0, <4>2, <1>i DEF FreeSlot, ForkInv, BuilderInv, ForkPCs, TypeOK
      <4>1. ASSUME parent' = [parent EXCEPT ![np[p]] = p],
                   pc' = [pc EXCEPT ![p] = "start"], UNCHANGED <<state, np>>
            PROVE  BuilderInv'
        BY <4>0, <4>1, <1>i DEF ForkInv, BuilderInv, ForkPCs, TypeOK
      <4> QED
        BY <3>6, <4>1, <4>2 DEF ForkCopy
    <3>7. CASE ForkStart(c, p)
      <4>0. /\ state[p] = "RUNNING" /\ pc[p] \in ForkPCs /\ np[p] \in Procs
            /\ state[np[p]] = "EMBRYO" /\ np[p] # p
        <5>1. state[p] = "RUNNING"
          BY <3>7, <1>i, Consts DEF ForkStart, Ready, CPUInv
        <5> QED
          BY <3>7, <5>1, <1>i DEF ForkStart, ForkInv, ForkPCs
      <4> QED
        BY <3>7, <4>0, <1>i DEF ForkStart, ForkInv, BuilderInv, ForkPCs, TypeOK
    <3>8. CASE exit(c, p)
      <4>1. \A q \in Procs : state'[q] = "EMBRYO" => state[q] = "EMBRYO"
        BY <3>8, <1>i, ExitStates
      <4>2. /\ pc[p] = "exit" /\ UNCHANGED <<pc, np>>
            /\ \A q \in Procs : parent[q] # p => parent'[q] = parent[q]
        BY <3>8, <1>i DEF exit, Reparent, TypeOK
      <4>3. \A q \in Procs : pc[q] \in ForkPCs => np[q] \in Procs
        BY <1>i DEF ForkInv
      <4> QED
        BY <4>1, <4>2, <4>3, <1>i, Consts DEF BuilderInv, ForkPCs, TypeOK
    <3>9. CASE ExitInit(c, p)
      BY <3>9, <1>i DEF ExitInit, BuilderInv, ForkPCs, TypeOK
    <3>10. CASE wait(c, p)
      <4>1. /\ \A q \in Procs : state'[q] = "EMBRYO" <=> state[q] = "EMBRYO"
            /\ \A q \in Procs : state[q] = "EMBRYO" => parent'[q] = parent[q]
        BY <3>10, <1>i, Consts DEF wait, FreeSlot, IsFirst, Zombies, Ready,
           Resumed, CPUInv, TypeOK
      <4>2. /\ UNCHANGED np /\ pc[p] = "wait"
            /\ pc' = pc \/ pc' = [pc EXCEPT ![p] = "sysret"]
        BY <3>10 DEF wait
      <4>3. \A q \in Procs : pc[q] \in ForkPCs =>
              np[q] \in Procs /\ state[np[q]] = "EMBRYO"
        BY <1>i DEF ForkInv
      <4>4. \A q \in Procs : pc'[q] \in ForkPCs <=> pc[q] \in ForkPCs
        BY <4>2, <1>i DEF ForkPCs, TypeOK
      <4>5. \A q \in Procs : pc[q] \in ForkPCs => pc'[q] = pc[q]
        BY <4>2, <1>i DEF ForkPCs, TypeOK
      <4>6. ForkPCs = {"kstack", "copy", "start"}
        BY DEF ForkPCs
      <4> QED
        BY <4>1, <4>2, <4>3, <4>4, <4>5, <4>6 DEF BuilderInv
    <3>11. CASE kill(c, p)
      <4>1. /\ pc' = [pc EXCEPT ![p] = "sysret"] /\ UNCHANGED <<np, parent>>
            /\ \A q \in Procs : state'[q] = "EMBRYO" => state[q] = "EMBRYO"
        BY <3>11, <1>i DEF kill, TypeOK
      <4> QED
        BY <3>11, <4>1, <1>i DEF kill, BuilderInv, ForkPCs, TypeOK
    <3>12. CASE sys_sleep(c, p)
      <4>1. /\ pc[p] \notin ForkPCs
            /\ pc' = [pc EXCEPT ![p] = "sysret"] \/ pc' = [pc EXCEPT ![p] = "tosleep"]
            /\ UNCHANGED <<state, np, parent>>
        BY <3>12 DEF sys_sleep, SleepLoop, ToSleep, ForkPCs
      <4> QED
        BY <4>1, <1>i DEF BuilderInv, ForkPCs, TypeOK
    <3>13. CASE sleep(c, p)
      BY <3>13, <1>i DEF sleep, BuilderInv, ForkPCs, TypeOK
    <3>14. CASE SleepReturn(c, p)
      BY <3>14, <1>i DEF SleepReturn, BuilderInv, ForkPCs, TypeOK
    <3>15. CASE IrqCheck(c, p)
      BY <3>15, <1>i DEF IrqCheck, BuilderInv, ForkPCs, TypeOK
    <3>16. CASE yield(c, p)
      BY <3>16, <1>i DEF yield, BuilderInv, ForkPCs, TypeOK
    <3>17. CASE SyscallEntry(c, p)
      <4>1. /\ pc[p] \notin ForkPCs
            /\ \E l \in SysCalls : pc' = [pc EXCEPT ![p] = l]
            /\ UNCHANGED <<state, np, parent>>
        BY <3>17, ProcAssumption DEF SyscallEntry, SysCalls, ForkPCs
      <4> QED
        BY <4>1, <1>i DEF SysCalls, BuilderInv, ForkPCs, TypeOK
    <3>18. CASE Fault(c, p)
      BY <3>18, <1>i DEF Fault, BuilderInv, ForkPCs, TypeOK
    <3> QED
      BY <2>4, <3>1, <3>2, <3>3, <3>4, <3>5, <3>6, <3>7, <3>8, <3>9, <3>10,
         <3>11, <3>12, <3>13, <3>14, <3>15, <3>16, <3>17, <3>18 DEF Kernel,
         Preempt
  <2> QED
    BY <2>1, <2>2, <2>3, <2>4 DEF Scheduler, Tick
<1> QED
  BY <1>1, <1>2

\* kill() marks one process and wakes it if it sleeps.
LEMMA KillStates ==
    ASSUME NEW c \in CPUs, NEW p \in Procs, TypeOK, kill(c, p)
    PROVE  \A q \in Procs :
             \/ state'[q] = state[q] /\ killed'[q] = killed[q]
             \/ state'[q] = state[q] /\ state[q] # "SLEEPING"
             \/ state[q] = "SLEEPING" /\ state'[q] = "RUNNABLE"
<1>1. CASE UNCHANGED <<killed, state>>
  BY <1>1
<1>2. ASSUME NEW v \in Procs, killed' = [killed EXCEPT ![v] = TRUE],
             state' = [state EXCEPT ![v] = IF @ = "SLEEPING" THEN "RUNNABLE"
                                                            ELSE @]
      PROVE  \A q \in Procs :
               \/ state'[q] = state[q] /\ killed'[q] = killed[q]
               \/ state'[q] = state[q] /\ state[q] # "SLEEPING"
               \/ state[q] = "SLEEPING" /\ state'[q] = "RUNNABLE"
  <2>1. \A q \in Procs \ {v} : state'[q] = state[q] /\ killed'[q] = killed[q]
    BY <1>2 DEF TypeOK
  <2>2. state'[v] = IF state[v] = "SLEEPING" THEN "RUNNABLE" ELSE state[v]
    BY <1>2 DEF TypeOK
  <2> QED
    BY <2>1, <2>2
<1> QED
  BY <1>1, <1>2 DEF kill

\* exit() hands its children to init, and init never exits: nobody is orphaned.
LEMMA ParentStep == IInv /\ BuilderInv /\ ParentInv /\ [Next]_vars => ParentInv'
<1> SUFFICES ASSUME IInv, BuilderInv, ParentInv, [Next]_vars PROVE ParentInv'
  OBVIOUS
<1> USE DEF vars, pvars, tvars, cvars, kvars
<1>i. /\ TypeOK /\ LockInv /\ IrqInv /\ TickInv /\ OneCPUPerStack /\ CPUInv
      /\ OffCPUInv /\ ForkInv /\ StackInv
  BY DEF IInv
<1>t. TypeOK'
  BY TypeStep DEF IInv
<1>1. CASE UNCHANGED vars
  BY <1>1 DEF ParentInv
<1>2. CASE Next
  <2> PICK c \in CPUs :
          \/ Scheduler(c) \/ TimerInterrupt(c) \/ Tick(c)
          \/ \E p \in Procs : \/ Kernel(c, p) \/ Preempt(c, p)
                             \/ SyscallEntry(c, p) \/ Fault(c, p)
    BY <1>2 DEF Next
  <2>1. CASE SchedAcquire(c) \/ SchedRelease(c) \/ TimerInterrupt(c) \/
     IrqTick(c)
    BY <2>1 DEF SchedAcquire, SchedRelease, TimerInterrupt, IrqTick, ParentInv
  <2>2. CASE SchedSwitch(c)
    BY <2>2, <1>i DEF SchedSwitch, IsFirst, RunnableFrom, ParentInv, CanWait,
       TypeOK
  <2>3. CASE IrqWake(c)
    BY <2>3, <1>i, Consts DEF IrqWake, wakeup1, ParentInv, CanWait, TypeOK
  <2>4. ASSUME NEW p \in Procs, Kernel(c, p) \/ Preempt(c, p)
                         \/ SyscallEntry(c, p) \/ Fault(c, p)
        PROVE ParentInv'
    <3>1. CASE forkret(c, p) \/ SyscallReturn(c, p) \/ ExitInit(c, p) \/
       sys_sleep(c, p) \/ SleepReturn(c, p) \/ IrqCheck(c, p) \/
       YieldReturn(c, p) \/ sched(c, p) \/ SyscallEntry(c, p) \/ Fault(c, p)
      BY <3>1 DEF forkret, SyscallReturn, ExitInit, sys_sleep, SleepReturn,
         IrqCheck, YieldReturn, sched, SyscallEntry, Fault, ParentInv
    <3>2. CASE allocproc(c, p)
      BY <3>2, <1>i, Consts DEF allocproc, IsFirst, Unused, ParentInv, CanWait,
         TypeOK
    <3>3. CASE AllocStack(c, p)
      <4>0. /\ state[p] = "RUNNING" /\ pc[p] \in ForkPCs /\ np[p] \in Procs
            /\ state[np[p]] = "EMBRYO" /\ np[p] # p
        <5>1. state[p] = "RUNNING"
          BY <3>3, <1>i, Consts DEF AllocStack, Ready, CPUInv
        <5> QED
          BY <3>3, <5>1, <1>i DEF AllocStack, ForkInv, ForkPCs
      <4> QED
        BY <3>3, <4>0, <1>i, Consts DEF AllocStack, FreeSlot, BuilderInv,
           ParentInv, CanWait, TypeOK
    <3>4. CASE ForkCopy(c, p)
      <4>0. /\ state[p] = "RUNNING" /\ pc[p] \in ForkPCs /\ np[p] \in Procs
            /\ state[np[p]] = "EMBRYO" /\ np[p] # p
        <5>1. state[p] = "RUNNING"
          BY <3>4, <1>i, Consts DEF ForkCopy, Ready, CPUInv
        <5> QED
          BY <3>4, <5>1, <1>i DEF ForkCopy, ForkInv, ForkPCs
      <4> QED
        BY <3>4, <4>0, <1>i, Consts DEF ForkCopy, FreeSlot, BuilderInv,
           ParentInv, CanWait, TypeOK
    <3>5. CASE ForkStart(c, p)
      <4>0. /\ state[p] = "RUNNING" /\ pc[p] \in ForkPCs /\ np[p] \in Procs
            /\ state[np[p]] = "EMBRYO" /\ np[p] # p
        <5>1. state[p] = "RUNNING"
          BY <3>5, <1>i, Consts DEF ForkStart, Ready, CPUInv
        <5> QED
          BY <3>5, <5>1, <1>i DEF ForkStart, ForkInv, ForkPCs
      <4> QED
        BY <3>5, <4>0, <1>i, Consts DEF ForkStart, BuilderInv, ParentInv,
           CanWait, TypeOK
    <3>6. CASE exit(c, p)
      <4>1. \A q \in Procs \ {p} :
              \/ state'[q] = state[q]
              \/ state[q] = "SLEEPING" /\ state'[q] = "RUNNABLE"
        BY <3>6, <1>i, ExitStates
      <4>2. state[p] = "RUNNING" /\ p # initproc
        BY <3>6, <1>i, Consts DEF exit, CPUInv
      <4>3. \A q \in Procs : parent'[q] = IF parent[q] = p THEN initproc ELSE parent[q]
        BY <3>6 DEF exit, Reparent
      <4>4. \A q \in Procs :
              state'[q] \notin {"UNUSED", "EMBRYO"} => state[q] \notin {"UNUSED", "EMBRYO"}
        BY <4>1, <4>2
      <4>5. \A q \in Procs \ {p} : state[q] \in CanWait => state'[q] \in CanWait
        BY <4>1 DEF CanWait
      <4> QED
        BY <4>2, <4>3, <4>4, <4>5, Consts DEF ParentInv
    <3>7. CASE wait(c, p)
      <4>0. state[p] = "RUNNING"
        BY <3>7, <1>i, Consts DEF wait, Ready, Resumed, CPUInv
      <4>1. \A q \in Procs : state[q] \in CanWait => state'[q] \in CanWait
        BY <3>7, <4>0, <1>i DEF wait, FreeSlot, IsFirst, Zombies, CanWait,
           TypeOK
      <4>2. \A q \in Procs : state'[q] \notin {"UNUSED", "EMBRYO"} =>
              state[q] \notin {"UNUSED", "EMBRYO"} /\ parent'[q] = parent[q]
        BY <3>7, <4>0, <1>i DEF wait, FreeSlot, TypeOK
      <4> QED
        BY <4>1, <4>2, Consts DEF ParentInv
    <3>8. CASE kill(c, p)
      <4>1. \A q \in Procs :
              \/ state'[q] = state[q]
              \/ state[q] = "SLEEPING" /\ state'[q] = "RUNNABLE"
        BY <3>8, <1>i, KillStates
      <4> QED
        BY <3>8, <4>1, <1>i, Consts DEF kill, ParentInv, CanWait, TypeOK
    <3>9. CASE sleep(c, p)
      <4>0. state[p] = "RUNNING"
        BY <3>9, <1>i, Consts DEF sleep, Ready, Resumed, CPUInv, IrqInv, HoldsPt
      <4> QED
        BY <3>9, <4>0, <1>i, Consts DEF sleep, ParentInv, CanWait, TypeOK
    <3>10. CASE yield(c, p)
      <4>0. state[p] = "RUNNING"
        BY <3>10, <1>i, Consts DEF yield, Ready, Resumed, CPUInv, IrqInv,
           HoldsPt
      <4> QED
        BY <3>10, <4>0, <1>i, Consts DEF yield, ParentInv, CanWait, TypeOK
    <3> QED
      BY <2>4, <3>1, <3>2, <3>3, <3>4, <3>5, <3>6, <3>7, <3>8, <3>9, <3>10 DEF
         Kernel, Preempt
  <2> QED
    BY <2>1, <2>2, <2>3, <2>4 DEF Scheduler, Tick
<1> QED
  BY <1>1, <1>2


\* exit() leaves nobody asleep who waits for p, nor init once it has inherited
\* a ZOMBIE.
LEMMA ExitWakes ==
    ASSUME NEW c \in CPUs, NEW p \in Procs, TypeOK, exit(c, p)
    PROVE  /\ \A q \in Procs : state'[q] = "SLEEPING" =>
                state[q] = "SLEEPING" /\ chan[q] # parent[p]
           /\ (\E q \in Procs : parent[q] = p /\ state'[q] = "ZOMBIE" /\ q # p) =>
                \A q \in Procs : state'[q] = "SLEEPING" => chan[q] # initproc
<1> DEFINE st1 == WakeParent(p)
           st2 == WakeInit(p, st1)
<1>1. st1 = [q \in Procs |-> IF state[q] = "SLEEPING" /\ chan[q] = parent[p]
                             THEN "RUNNABLE" ELSE state[q]]
  BY DEF WakeParent, wakeup1
<1>2. state' = [st2 EXCEPT ![p] = "ZOMBIE"]
  BY DEF exit
<1> HIDE DEF st1
<1>3. st2 = IF \E q \in Procs : parent[q] = p /\ st1[q] = "ZOMBIE"
            THEN [q \in Procs |-> IF st1[q] = "SLEEPING" /\ chan[q] = initproc
                                  THEN "RUNNABLE" ELSE st1[q]]
            ELSE st1
  BY DEF WakeInit, wakeup1, Children
<1> HIDE DEF st2
<1>4. DOMAIN st1 = Procs /\ DOMAIN st2 = Procs
  BY <1>1, <1>3
<1>5. /\ \A q \in Procs : st2[q] = "SLEEPING" => st1[q] = "SLEEPING"
      /\ \A q \in Procs : st2[q] = "ZOMBIE" => st1[q] = "ZOMBIE"
  BY <1>3, <1>4
<1>6. \A q \in Procs : st1[q] = "SLEEPING" =>
        state[q] = "SLEEPING" /\ chan[q] # parent[p]
  BY <1>1
<1>7. state'[p] = "ZOMBIE" /\ \A q \in Procs \ {p} : state'[q] = st2[q]
  BY <1>2, <1>4
<1>8. ASSUME NEW q \in Procs, parent[q] = p, state'[q] = "ZOMBIE", q # p,
             NEW r \in Procs, state'[r] = "SLEEPING"
      PROVE  chan[r] # initproc
  <2>1. st1[q] = "ZOMBIE" /\ st2[r] = "SLEEPING"
    BY <1>5, <1>7, <1>8
  <2>2. st2 = [x \in Procs |-> IF st1[x] = "SLEEPING" /\ chan[x] = initproc
                               THEN "RUNNABLE" ELSE st1[x]]
    BY <1>3, <1>8, <2>1
  <2> QED
    BY <2>1, <2>2
<1> QED
  BY <1>5, <1>6, <1>7, <1>8

\* No wakeup is lost between exit() and wait().
LEMMA WaiterStep == IInv /\ BuilderInv /\ ParentInv /\ WaiterInv /\ [Next]_vars => WaiterInv'
<1> SUFFICES ASSUME IInv, BuilderInv, ParentInv, WaiterInv, [Next]_vars PROVE WaiterInv'
  OBVIOUS
<1> USE DEF vars, pvars, tvars, cvars, kvars
<1>i. /\ TypeOK /\ LockInv /\ IrqInv /\ TickInv /\ OneCPUPerStack /\ CPUInv
      /\ OffCPUInv /\ ForkInv /\ StackInv
  BY DEF IInv
<1>t. TypeOK'
  BY TypeStep DEF IInv
<1>1. CASE UNCHANGED vars
  BY <1>1 DEF WaiterInv
<1>2. CASE Next
  <2> PICK c \in CPUs :
          \/ Scheduler(c) \/ TimerInterrupt(c) \/ Tick(c)
          \/ \E p \in Procs : \/ Kernel(c, p) \/ Preempt(c, p)
                             \/ SyscallEntry(c, p) \/ Fault(c, p)
    BY <1>2 DEF Next
  <2>1. CASE SchedAcquire(c) \/ SchedRelease(c) \/ TimerInterrupt(c) \/
     IrqTick(c)
    BY <2>1 DEF SchedAcquire, SchedRelease, TimerInterrupt, IrqTick, WaiterInv
  <2>2. CASE SchedSwitch(c)
    BY <2>2, <1>i DEF SchedSwitch, IsFirst, RunnableFrom, WaiterInv, TypeOK
  <2>3. CASE IrqWake(c)
    BY <2>3, <1>i, Consts DEF IrqWake, wakeup1, WaiterInv, TypeOK
  <2>4. ASSUME NEW p \in Procs, Kernel(c, p) \/ Preempt(c, p)
                         \/ SyscallEntry(c, p) \/ Fault(c, p)
        PROVE WaiterInv'
    <3>1. CASE forkret(c, p) \/ SyscallReturn(c, p) \/ ExitInit(c, p) \/
       sys_sleep(c, p) \/ IrqCheck(c, p) \/ YieldReturn(c, p) \/ sched(c, p)
       \/ SyscallEntry(c, p)
      BY <3>1 DEF forkret, SyscallReturn, ExitInit, sys_sleep, IrqCheck,
         YieldReturn, sched, SyscallEntry, WaiterInv
    <3>2. CASE allocproc(c, p)
      BY <3>2, <1>i, Consts DEF allocproc, IsFirst, Unused, WaiterInv, TypeOK
    <3>3. CASE AllocStack(c, p)
      <4>0. /\ state[p] = "RUNNING" /\ pc[p] \in ForkPCs /\ np[p] \in Procs
            /\ state[np[p]] = "EMBRYO" /\ np[p] # p
        <5>1. state[p] = "RUNNING"
          BY <3>3, <1>i, Consts DEF AllocStack, Ready, CPUInv
        <5> QED
          BY <3>3, <5>1, <1>i DEF AllocStack, ForkInv, ForkPCs
      <4> QED
        BY <3>3, <4>0, <1>i, Consts DEF AllocStack, FreeSlot, WaiterInv, TypeOK
    <3>4. CASE ForkCopy(c, p)
      <4>0. /\ state[p] = "RUNNING" /\ pc[p] \in ForkPCs /\ np[p] \in Procs
            /\ state[np[p]] = "EMBRYO" /\ np[p] # p
        <5>1. state[p] = "RUNNING"
          BY <3>4, <1>i, Consts DEF ForkCopy, Ready, CPUInv
        <5> QED
          BY <3>4, <5>1, <1>i DEF ForkCopy, ForkInv, ForkPCs
      <4>1. parent[np[p]] = 0
        BY <3>4, <4>0 DEF ForkCopy, BuilderInv
      <4>2. \A q \in Procs : state'[q] \in {"SLEEPING", "ZOMBIE"} => state'[q] = state[q]
        BY <3>4, <4>0, <1>i DEF ForkCopy, FreeSlot, TypeOK
      <4>3. \A q \in Procs : state[q] = "ZOMBIE" => state'[q] = state[q] /\ parent'[q] = parent[q]
        BY <3>4, <4>0, <1>i DEF ForkCopy, FreeSlot, TypeOK
      <4>4. \A q \in Procs : parent[q] # 0 => parent'[q] = parent[q]
        BY <3>4, <4>0, <4>1, <1>i DEF ForkCopy, TypeOK
      <4>5. /\ UNCHANGED <<chan, killed>>
            /\ \A q \in Procs : state'[q] = "ZOMBIE" => state[q] = "ZOMBIE"
        BY <3>4, <4>0, <1>i DEF ForkCopy, FreeSlot, TypeOK
      <4> QED
        BY <4>2, <4>3, <4>4, <4>5, Consts DEF WaiterInv
    <3>5. CASE ForkStart(c, p)
      <4>0. /\ state[p] = "RUNNING" /\ pc[p] \in ForkPCs /\ np[p] \in Procs
            /\ state[np[p]] = "EMBRYO" /\ np[p] # p
        <5>1. state[p] = "RUNNING"
          BY <3>5, <1>i, Consts DEF ForkStart, Ready, CPUInv
        <5> QED
          BY <3>5, <5>1, <1>i DEF ForkStart, ForkInv, ForkPCs
      <4> QED
        BY <3>5, <4>0, <1>i, Consts DEF ForkStart, WaiterInv, TypeOK
    <3>6. CASE exit(c, p)
      <4>0. state[p] = "RUNNING" /\ p # initproc
        BY <3>6, <1>i, Consts DEF exit, CPUInv
      <4>1. /\ state'[p] = "ZOMBIE"
            /\ \A q \in Procs \ {p} :
                 \/ state'[q] = state[q]
                 \/ state[q] = "SLEEPING" /\ state'[q] = "RUNNABLE"
        BY <3>6, <1>i, ExitStates
      <4>2. /\ UNCHANGED <<chan, killed>>
            /\ \A q \in Procs : parent'[q] = IF parent[q] = p THEN initproc ELSE parent[q]
        BY <3>6 DEF exit, Reparent
      <4>4. \A q \in Procs : state'[q] = "SLEEPING" => state[q] = "SLEEPING" /\ chan[q] # parent[p]
        BY <3>6, <1>i, ExitWakes
      <4>5. (\E q \in Procs : parent[q] = p /\ state'[q] = "ZOMBIE" /\ q # p) =>
              \A q \in Procs : state'[q] = "SLEEPING" => chan[q] # initproc
        BY <3>6, <1>i, ExitWakes
      <4>6. SUFFICES ASSUME NEW w \in Procs, state'[w] = "SLEEPING", chan'[w] = w
                     PROVE  /\ \E q \in Procs : parent'[q] = w
                            /\ \A q \in Procs : parent'[q] = w => state'[q] # "ZOMBIE"
                            /\ ~killed'[w]
        BY DEF WaiterInv
      <4>7. /\ state[w] = "SLEEPING" /\ chan[w] = w /\ w # parent[p] /\ w # p
        BY <4>0, <4>2, <4>4, <4>6
      <4>8. /\ \E q \in Procs : parent[q] = w
            /\ \A q \in Procs : parent[q] = w => state[q] # "ZOMBIE"
            /\ ~killed[w]
        BY <4>7 DEF WaiterInv
      <4>9. \E q \in Procs : parent'[q] = w
        BY <4>2, <4>7, <4>8
      <4>10. ASSUME NEW q \in Procs, parent'[q] = w, state'[q] = "ZOMBIE" PROVE FALSE
        <5>1. q # p
          <6>1. parent[p] # p
            BY <4>0, <1>i DEF ParentInv
          <6> QED
            BY <6>1, <4>2, <4>7, <4>10
        <5>2. CASE parent[q] = p
          BY <5>1, <5>2, <4>2, <4>5, <4>6, <4>10
        <5>3. CASE parent[q] # p
          BY <5>1, <5>3, <4>1, <4>2, <4>8, <4>10
        <5> QED
          BY <5>2, <5>3
      <4> QED
        BY <4>2, <4>8, <4>9, <4>10
    <3>7. CASE wait(c, p)
      <4>0. state[p] = "RUNNING"
        BY <3>7, <1>i, Consts DEF wait, Ready, Resumed, CPUInv
      <4>1. ASSUME NEW q \in Procs, parent[q] = p, state[q] = "ZOMBIE", FreeSlot(q),
                   parent' = [parent EXCEPT ![q] = 0], killed' = [killed EXCEPT ![q] = FALSE],
                   chan' = [chan EXCEPT ![p] = 0]
            PROVE  WaiterInv'
        <5>1. /\ \A r \in Procs \ {q} : parent'[r] = parent[r] /\ state'[r] = state[r] /\ killed'[r] = killed[r]
              /\ state'[q] = "UNUSED" /\ parent'[q] = 0
              /\ \A r \in Procs \ {p} : chan'[r] = chan[r]
          BY <4>1, <1>i DEF FreeSlot, TypeOK
        <5> QED
          BY <5>1, <4>0, <4>1, Consts DEF WaiterInv
      <4>2. CASE UNCHANGED <<state, parent, killed>> /\ chan' = [chan EXCEPT ![p] = 0]
        BY <4>0, <4>2, <1>i DEF WaiterInv, TypeOK
      <4>3. ASSUME Zombies(p) = {}, Children(p) # {}, ~killed[p],
                   chan' = [chan EXCEPT ![p] = p], state' = [state EXCEPT ![p] = "SLEEPING"],
                   UNCHANGED <<parent, killed>>
            PROVE  WaiterInv'
        <5>1. /\ \E q \in Procs : parent[q] = p
              /\ \A q \in Procs : parent[q] = p => state[q] # "ZOMBIE"
          BY <4>3 DEF Zombies, Children
        <5> QED
          BY <5>1, <4>3, <1>i DEF WaiterInv, TypeOK
      <4> QED
        BY <3>7, <4>1, <4>2, <4>3 DEF wait, IsFirst, Zombies, Children
    <3>8. CASE kill(c, p)
      <4>1. /\ UNCHANGED <<parent, chan>>
            /\ \A q \in Procs :
                 \/ state'[q] = state[q] /\ killed'[q] = killed[q]
                 \/ state'[q] # "SLEEPING" /\ (state'[q] = "ZOMBIE" => state[q] = "ZOMBIE")
        BY <3>8, <1>i, KillStates DEF kill
      <4> QED
        BY <4>1, <1>i DEF WaiterInv
    <3>9. CASE sleep(c, p)
      <4>1. TICKS \notin Procs
        BY ProcAssumption DEF TICKS, Procs
      <4> QED
        BY <3>9, <4>1, <1>i DEF sleep, WaiterInv, TypeOK
    <3>10. CASE SleepReturn(c, p)
      BY <3>10, <1>i, Consts DEF SleepReturn, WaiterInv, TypeOK
    <3>11. CASE yield(c, p)
      <4>0. state[p] = "RUNNING"
        BY <3>11, <1>i, Consts DEF yield, Ready, Resumed, CPUInv, IrqInv,
           HoldsPt
      <4> QED
        BY <3>11, <4>0, <1>i, Consts DEF yield, WaiterInv, TypeOK
    <3>12. CASE Fault(c, p)
      <4>0. state[p] = "RUNNING"
        BY <3>12, <1>i, Consts DEF Fault, Ready, Resumed, CPUInv, IrqInv,
           HoldsPt
      <4> QED
        BY <3>12, <4>0, <1>i DEF Fault, WaiterInv, TypeOK
    <3> QED
      BY <2>4, <3>1, <3>2, <3>3, <3>4, <3>5, <3>6, <3>7, <3>8, <3>9, <3>10,
         <3>11, <3>12 DEF Kernel, Preempt
  <2> QED
    BY <2>1, <2>2, <2>3, <2>4 DEF Scheduler, Tick
<1> QED
  BY <1>1, <1>2

\* tickslock keeps the test of sys_sleep() true until the process sleeps.
LEMMA TickHolderStep == IInv /\ TickHolderInv /\ [Next]_vars => TickHolderInv'
<1> SUFFICES ASSUME IInv, TickHolderInv, [Next]_vars PROVE TickHolderInv'
  OBVIOUS
<1> USE DEF vars, pvars, tvars, cvars, kvars
<1>i. /\ TypeOK /\ LockInv /\ IrqInv /\ TickInv /\ OneCPUPerStack /\ CPUInv
      /\ OffCPUInv /\ ForkInv /\ StackInv
  BY DEF IInv
<1>t. TypeOK'
  BY TypeStep DEF IInv
<1>1. CASE UNCHANGED vars
  BY <1>1 DEF TickHolderInv, Elapsed
<1>2. CASE Next
  <2> PICK c \in CPUs :
          \/ Scheduler(c) \/ TimerInterrupt(c) \/ Tick(c)
          \/ \E p \in Procs : \/ Kernel(c, p) \/ Preempt(c, p)
                             \/ SyscallEntry(c, p) \/ Fault(c, p)
    BY <1>2 DEF Next
  <2>1. CASE SchedAcquire(c) \/ SchedRelease(c)
    BY <2>1 DEF SchedAcquire, SchedRelease, TickHolderInv, Elapsed
  <2>2. CASE SchedSwitch(c)
    <3>1. PICK p \in Procs : state[p] = "RUNNABLE" /\ run' = [run EXCEPT ![c] = p]
      BY <2>2 DEF SchedSwitch, IsFirst, RunnableFrom
    <3>2. \A d \in CPUs : run[d] # p
      BY <2>2, <3>1, <1>i, Consts DEF SchedSwitch, CPUInv, LockInv, HoldsPt
    <3>3. mode[p] = "off"
      BY <3>1, <3>2, <1>i DEF OffCPUInv
    <3> QED
      BY <2>2, <3>1, <3>3, <1>i DEF SchedSwitch, TickHolderInv, Elapsed, TypeOK
  <2>3. CASE TimerInterrupt(c)
    BY <2>3, <1>i, Consts DEF TimerInterrupt, TickHolderInv, Elapsed, TypeOK
  <2>4. CASE IrqTick(c)
    BY <2>4, <1>i, Consts DEF IrqTick, TickHolderInv, Elapsed, TypeOK
  <2>5. CASE IrqWake(c)
    BY <2>5, <1>i, Consts DEF IrqWake, TickHolderInv, Elapsed, TypeOK
  <2>6. ASSUME NEW p \in Procs, Kernel(c, p) \/ Preempt(c, p)
                         \/ SyscallEntry(c, p) \/ Fault(c, p)
        PROVE TickHolderInv'
    <3>1. CASE forkret(c, p)
      BY <3>1, <1>i, Consts DEF forkret, Resumed, ReleasePtable, TickHolderInv,
         Elapsed, TypeOK, OneCPUPerStack
    <3>2. CASE SyscallReturn(c, p)
      BY <3>2, <1>i, Consts DEF SyscallReturn, Ready, TickHolderInv, Elapsed,
         TypeOK, OneCPUPerStack
    <3>3. CASE allocproc(c, p)
      BY <3>3, <1>i, Consts DEF allocproc, Ready, TickHolderInv, Elapsed,
         TypeOK, OneCPUPerStack
    <3>4. CASE AllocStack(c, p)
      <4>0. /\ state[p] = "RUNNING" /\ pc[p] \in ForkPCs /\ np[p] \in Procs
            /\ state[np[p]] = "EMBRYO" /\ np[p] # p
        <5>1. state[p] = "RUNNING"
          BY <3>4, <1>i, Consts DEF AllocStack, Ready, CPUInv
        <5> QED
          BY <3>4, <5>1, <1>i DEF AllocStack, ForkInv, ForkPCs
      <4> QED
        BY <3>4, <4>0, <1>i, Consts DEF AllocStack, Ready, TickHolderInv,
           Elapsed, TypeOK, OneCPUPerStack
    <3>5. CASE ForkCopy(c, p)
      <4>0. /\ state[p] = "RUNNING" /\ pc[p] \in ForkPCs /\ np[p] \in Procs
            /\ state[np[p]] = "EMBRYO" /\ np[p] # p
        <5>1. state[p] = "RUNNING"
          BY <3>5, <1>i, Consts DEF ForkCopy, Ready, CPUInv
        <5> QED
          BY <3>5, <5>1, <1>i DEF ForkCopy, ForkInv, ForkPCs
      <4> QED
        BY <3>5, <4>0, <1>i, Consts DEF ForkCopy, Ready, TickHolderInv,
           Elapsed, TypeOK, OneCPUPerStack
    <3>6. CASE ForkStart(c, p)
      BY <3>6, <1>i, Consts DEF ForkStart, Ready, TickHolderInv, Elapsed,
         TypeOK, OneCPUPerStack
    <3>7. CASE exit(c, p)
      BY <3>7, <1>i, Consts DEF exit, EnterSched, TickHolderInv, Elapsed,
         TypeOK, OneCPUPerStack
    <3>8. CASE ExitInit(c, p)
      BY <3>8, <1>i, Consts DEF ExitInit, TickHolderInv, Elapsed, TypeOK,
         OneCPUPerStack
    <3>9. CASE wait(c, p)
      BY <3>9, <1>i, Consts DEF wait, Ready, Resumed, EnterSched,
         ReleasePtable, TickHolderInv, Elapsed, TypeOK, OneCPUPerStack
    <3>10. CASE kill(c, p)
      BY <3>10, <1>i, Consts DEF kill, Ready, TickHolderInv, Elapsed, TypeOK,
         OneCPUPerStack
    <3>11. CASE sys_sleep(c, p)
      <4>1. PICK start \in Ticks, len \in Ticks : SleepLoop(c, p, start, len)
        BY <3>11, <1>i, ProcAssumption DEF sys_sleep, TypeOK
      <4>2. /\ run[c] = p /\ mode[p] = "on" /\ irq[c] = "none" /\ tickslock = NoCPU
            /\ UNCHANGED <<run, mode, irq, preempted, ticks>>
        BY <3>11 DEF sys_sleep, Ready
      <4>3. ~preempted[p]
        BY <4>2, <1>i DEF TickHolderInv
      <4>4. CASE pc' = [pc EXCEPT ![p] = "sysret"]
        BY <4>1, <4>2, <4>4, <1>i, Consts DEF SleepLoop, OneCPUPerStack,
           ToSleep, TickHolderInv, Elapsed, TypeOK
      <4>5. CASE Elapsed(start) < len /\ ToSleep(c, p, start, len)
        BY <4>2, <4>3, <4>5, <1>i, Consts DEF ToSleep, OneCPUPerStack,
           TickHolderInv, Elapsed, TypeOK
      <4>6. Elapsed(start) \in Nat /\ len \in Nat
        BY <4>1, <1>i, ProcAssumption DEF Elapsed, Ticks, TypeOK
      <4> QED
        BY <4>1, <4>4, <4>5, <4>6 DEF SleepLoop, Done
    <3>12. CASE sleep(c, p)
      BY <3>12, <1>i, Consts DEF sleep, Ready, EnterSched, TickHolderInv,
         Elapsed, TypeOK, OneCPUPerStack
    <3>13. CASE SleepReturn(c, p)
      BY <3>13, <1>i, Consts DEF SleepReturn, Resumed, ReleasePtable,
         TickHolderInv, Elapsed, TypeOK, OneCPUPerStack
    <3>14. CASE IrqCheck(c, p)
      BY <3>14, <1>i, Consts DEF IrqCheck, TickHolderInv, Elapsed, TypeOK,
         OneCPUPerStack
    <3>15. CASE yield(c, p)
      BY <3>15, <1>i, Consts DEF yield, IrqInv, HoldsPt, EnterSched,
         TickHolderInv, Elapsed, TypeOK, OneCPUPerStack
    <3>16. CASE YieldReturn(c, p)
      BY <3>16, <1>i, Consts DEF YieldReturn, Resumed, ReleasePtable,
         TickHolderInv, Elapsed, TypeOK, OneCPUPerStack
    <3>17. CASE sched(c, p)
      BY <3>17, <1>i, Consts DEF sched, TickHolderInv, Elapsed, TypeOK,
         OneCPUPerStack
    <3>18. CASE SyscallEntry(c, p)
      <4>1. /\ \E l \in SysCalls : pc' = [pc EXCEPT ![p] = l]
            /\ UNCHANGED <<mode, preempted, t0, n, run, irq, tickslock, ticks>>
        BY <3>18, ProcAssumption DEF SyscallEntry, SysCalls
      <4> QED
        BY <4>1, <1>i DEF SysCalls, TickHolderInv, Elapsed, TypeOK
    <3>19. CASE Fault(c, p)
      BY <3>19, <1>i, Consts DEF Fault, Ready, TickHolderInv, Elapsed, TypeOK,
         OneCPUPerStack
    <3> QED
      BY <2>6, <3>1, <3>2, <3>3, <3>4, <3>5, <3>6, <3>7, <3>8, <3>9, <3>10,
         <3>11, <3>12, <3>13, <3>14, <3>15, <3>16, <3>17, <3>18, <3>19 DEF
         Kernel, Preempt
  <2> QED
    BY <2>1, <2>2, <2>3, <2>4, <2>5, <2>6 DEF Scheduler, Tick
<1> QED
  BY <1>1, <1>2

\* No wakeup is lost between the timer interrupt and sys_sleep().
LEMMA TickSleepStep == IInv /\ TickHolderInv /\ TickSleepInv /\ [Next]_vars => TickSleepInv'
<1> SUFFICES ASSUME IInv, TickHolderInv, TickSleepInv, [Next]_vars PROVE TickSleepInv'
  OBVIOUS
<1> USE DEF vars, pvars, tvars, cvars, kvars
<1>i. /\ TypeOK /\ LockInv /\ IrqInv /\ TickInv /\ OneCPUPerStack /\ CPUInv
      /\ OffCPUInv /\ ForkInv /\ StackInv
  BY DEF IInv
<1>t. TypeOK'
  BY TypeStep DEF IInv
<1>1. CASE UNCHANGED vars
  BY <1>1 DEF TickSleepInv, Elapsed
<1>2. CASE Next
  <2> PICK c \in CPUs :
          \/ Scheduler(c) \/ TimerInterrupt(c) \/ Tick(c)
          \/ \E p \in Procs : \/ Kernel(c, p) \/ Preempt(c, p)
                             \/ SyscallEntry(c, p) \/ Fault(c, p)
    BY <1>2 DEF Next
  <2>1. CASE SchedAcquire(c) \/ SchedRelease(c)
    BY <2>1 DEF SchedAcquire, SchedRelease, TickSleepInv, Elapsed
  <2>2. CASE SchedSwitch(c)
    BY <2>2, <1>i DEF SchedSwitch, TickSleepInv, Elapsed, TypeOK
  <2>3. CASE TimerInterrupt(c)
    BY <2>3, <1>i DEF TimerInterrupt, TickSleepInv, Elapsed, TypeOK
  <2>4. CASE IrqTick(c)
    BY <2>4, <1>i DEF IrqTick, TickSleepInv, Elapsed, TypeOK
  <2>5. CASE IrqWake(c)
    BY <2>5, <1>i DEF IrqWake, wakeup1, TickSleepInv, Elapsed, TypeOK
  <2>6. ASSUME NEW p \in Procs, Kernel(c, p) \/ Preempt(c, p)
                         \/ SyscallEntry(c, p) \/ Fault(c, p)
        PROVE TickSleepInv'
    <3>1. CASE forkret(c, p) \/ SyscallReturn(c, p) \/ ExitInit(c, p) \/
       sched(c, p) \/ SyscallEntry(c, p)
      BY <3>1 DEF forkret, SyscallReturn, ExitInit, sched, SyscallEntry,
         TickSleepInv, Elapsed
    <3>2. CASE allocproc(c, p)
      BY <3>2, <1>i DEF allocproc, TickSleepInv, Elapsed, TypeOK
    <3>3. CASE AllocStack(c, p)
      BY <3>3, <1>i DEF AllocStack, FreeSlot, TickSleepInv, Elapsed, TypeOK
    <3>4. CASE ForkCopy(c, p)
      BY <3>4, <1>i DEF ForkCopy, FreeSlot, TickSleepInv, Elapsed, TypeOK
    <3>5. CASE ForkStart(c, p)
      BY <3>5, <1>i DEF ForkStart, TickSleepInv, Elapsed, TypeOK
    <3>6. CASE exit(c, p)
      <4>1. \A q \in Procs : state'[q] = "SLEEPING" => state[q] = "SLEEPING"
        BY <3>6, <1>i, ExitStates
      <4>2. irq[c] # "wake"
        BY <3>6 DEF exit
      <4> QED
        BY <3>6, <4>1, <4>2, <1>i DEF exit, TickSleepInv, Elapsed, TypeOK
    <3>7. CASE wait(c, p)
      <4>1. 0 # TICKS /\ p # TICKS
        BY ProcAssumption DEF TICKS, Procs
      <4>2. chan' = [chan EXCEPT ![p] = 0] \/ chan' = [chan EXCEPT ![p] = p]
        BY <3>7 DEF wait
      <4>3. \A q \in Procs \ {p} : state'[q] = "SLEEPING" => state[q] = "SLEEPING"
        BY <3>7, <1>i DEF wait, FreeSlot, TypeOK
      <4>4. UNCHANGED <<irq, t0, n, ticks>>
        BY <3>7 DEF wait
      <4> QED
        BY <4>1, <4>2, <4>3, <4>4, <1>i DEF TickSleepInv, Elapsed, TypeOK
    <3>8. CASE kill(c, p)
      <4>1. \A q \in Procs : state'[q] = "SLEEPING" => state[q] = "SLEEPING"
        BY <3>8, <1>i, KillStates
      <4> QED
        BY <3>8, <4>1, <1>i DEF kill, TickSleepInv, Elapsed, TypeOK
    <3>9. CASE sys_sleep(c, p)
      <4>0. state[p] = "RUNNING"
        BY <3>9, <1>i, Consts DEF sys_sleep, Ready, CPUInv
      <4>1. /\ UNCHANGED <<state, chan, irq, ticks>>
            /\ \A q \in Procs \ {p} : t0'[q] = t0[q] /\ n'[q] = n[q]
        BY <3>9, <1>i DEF sys_sleep, SleepLoop, ToSleep, TypeOK
      <4> QED
        BY <4>0, <4>1 DEF TickSleepInv, Elapsed
    <3>10. CASE sleep(c, p)
      <4>1. Elapsed(t0[p]) < n[p]
        BY <3>10, Consts DEF sleep, Ready, TickHolderInv
      <4> QED
        BY <3>10, <4>1, <1>i DEF sleep, TickSleepInv, Elapsed, TypeOK
    <3>11. CASE SleepReturn(c, p)
      <4>1. TICKS # 0
        BY ProcAssumption DEF TICKS
      <4> QED
        BY <3>11, <4>1, <1>i DEF SleepReturn, TickSleepInv, Elapsed, TypeOK
    <3>12. CASE IrqCheck(c, p)
      BY <3>12, <1>i, Consts DEF IrqCheck, IrqInv, HoldsPt, TickSleepInv,
         Elapsed, TypeOK
    <3>13. CASE yield(c, p)
      BY <3>13, <1>i, Consts DEF yield, IrqInv, HoldsPt, TickSleepInv, Elapsed,
         TypeOK
    <3>14. CASE YieldReturn(c, p)
      BY <3>14, <1>i, Consts DEF YieldReturn, Resumed, IrqInv, HoldsPt,
         TickSleepInv, Elapsed, TypeOK
    <3>15. CASE Fault(c, p)
      BY <3>15, <1>i DEF Fault, Ready, TickSleepInv, Elapsed, TypeOK
    <3> QED
      BY <2>6, <3>1, <3>2, <3>3, <3>4, <3>5, <3>6, <3>7, <3>8, <3>9, <3>10,
         <3>11, <3>12, <3>13, <3>14, <3>15 DEF Kernel, Preempt
  <2> QED
    BY <2>1, <2>2, <2>3, <2>4, <2>5, <2>6 DEF Scheduler, Tick
<1> QED
  BY <1>1, <1>2

\* All the invariants together, from the table that userinit() leaves.
LEMMA FamilyInit ==
    Init => /\ PidInv /\ FreeInv /\ BuilderInv /\ ParentInv /\ WaiterInv
            /\ TickHolderInv /\ TickSleepInv
<1> SUFFICES ASSUME Init
             PROVE  /\ PidInv /\ FreeInv /\ BuilderInv /\ ParentInv /\ WaiterInv
                    /\ TickHolderInv /\ TickSleepInv
  OBVIOUS
<1> USE Consts DEF Init, userinit
<1>1. PidInv
  BY DEF PidInv, UniquePids
<1>2. FreeInv /\ BuilderInv
  BY DEF FreeInv, BuilderInv, ForkPCs
<1>3. ParentInv /\ WaiterInv
  BY DEF ParentInv, CanWait, WaiterInv
<1>4. TickHolderInv /\ TickSleepInv
  BY DEF TickHolderInv, TickSleepInv
<1> QED
  BY <1>1, <1>2, <1>3, <1>4

\* They hold in every reachable state.
LEMMA FamilyInvAlways ==
    Spec => [](/\ IInv /\ PidInv /\ FreeInv /\ BuilderInv /\ ParentInv
               /\ WaiterInv /\ TickHolderInv /\ TickSleepInv)
BY FamilyInit, IInvInit, IInvStep, PidStep, FreeStep, BuilderStep, ParentStep,
   WaiterStep, TickHolderStep, TickSleepStep, PTL DEF Spec

\* Exactly one process builds an EMBRYO slot.
LEMMA OneBuilder ==
    ASSUME IInv, BuilderInv, NEW p \in Procs, state[p] = "EMBRYO"
    PROVE  Cardinality({q \in Procs : np[q] = p}) = 1
<1>1. PICK b \in Procs : pc[b] \in ForkPCs /\ np[b] = p
  BY DEF BuilderInv
<1>2. \A q \in Procs : np[q] = p => q = b
  BY <1>1, Consts DEF BuilderInv, IInv, ForkInv
<1>3. {q \in Procs : np[q] = p} = {b}
  BY <1>1, <1>2
<1> QED
  BY <1>3, FS_Singleton

\* The slots of ptable for any number of processes and CPUs: pids in use are
\* unique, a slot in the making has one builder, a free one owns no stack.
THEOREM SlotsSoundAlways == Spec => []SlotsSound
<1>1. IInv /\ PidInv /\ FreeInv /\ BuilderInv => SlotsSound
  <2> SUFFICES ASSUME IInv, PidInv, FreeInv, BuilderInv PROVE SlotsSound
    OBVIOUS
  <2>1. \A p \in Procs : state[p] = "EMBRYO" =>
            Cardinality({q \in Procs : np[q] = p}) = 1
    BY OneBuilder
  <2> QED
    BY <2>1 DEF SlotsSound, SlotOwnership, PidInv, FreeInv, IInv
<1> QED
  BY <1>1, FamilyInvAlways, PTL

\* Nobody waits for a child that is already a ZOMBIE, and nobody is orphaned,
\* in every interleaving of fork(), exit(), wait() and kill().
THEOREM FamilySoundAlways == Spec => []FamilySound
<1>1. ParentInv /\ WaiterInv => FamilySound
  BY Consts DEF ParentInv, WaiterInv, CanWait, FamilySound, WaiterHasReason,
     ParentAlive, Children, Zombies
<1> QED
  BY <1>1, FamilyInvAlways, PTL

\* sys_sleep() misses no tick: with both locks free a process asleep on &ticks
\* still has ticks to wait for, however the counter wraps.
THEOREM SleeperHasReasonAlways == Spec => []SleeperHasReason
<1>1. TickHolderInv /\ TickSleepInv => SleeperHasReason
  BY Consts DEF TickHolderInv, TickSleepInv, SleeperHasReason
<1> QED
  BY <1>1, FamilyInvAlways, PTL
=============================================================================
