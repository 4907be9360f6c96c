SPECIFICATION FairSpecRR
CONSTANTS
  c1 = c1
  c2 = c2
  none = none
  CPU = {c1, c2}
  CPU0 = c1
  NoCPU = none
  NPROC = 3
  Syscalls = {"fork", "exit"}
  KillTargets = {}
  PauseTicks = 1
  MemoryFails = FALSE
  MaxPid = 3
  MaxTicks = 1
  TickWidth = 1
PROPERTIES
  RunnableRuns
