\* Four slots, so that a grandchild of init can be a ZOMBIE when its parent
\* exits; processes other than init exit by faults.
SPECIFICATION Spec
CONSTANTS
  NPROC = 4
  NCPU = 2
  MaxPid = 4
  TickMod = 2
  Calls = {"fork"}
  InitCalls = {"fork", "wait", "sleep", "exit"}
  KillPids = {}
  SleepArgs = {1}
INVARIANTS OneCPUPerStack StackAllocated RunningIffOnCPU SlotsSound SchedPreconditions SleeperHasReason FamilySound
