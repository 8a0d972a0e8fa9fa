SPECIFICATION FairSpec
CONSTANTS
  NPROC = 2
  NCPU = 1
  MaxPid = 3
  TickMod = 2
  Calls = {"exit", "wait", "sleep"}
  InitCalls = {"fork", "wait", "kill"}
  KillPids = {2}
  SleepArgs = {1}
PROPERTIES RunnableRuns WaitReturns KilledExits
