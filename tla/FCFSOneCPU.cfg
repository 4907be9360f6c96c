SPECIFICATION EndingSpec
CONSTANTS
  c1 = c1
  c2 = c2
  none = none
  CPU = {c1}
  CPU0 = c1
  NoCPU = none
  NPROC = 4
  Syscalls = {"fork", "exit", "wait", "pause", "kill", "fault"}
  KillTargets = {3}
  PauseTicks = 1
  MemoryFails = FALSE
  MaxPid = 4
  MaxTicks = 1
  TickWidth = 16
PROPERTIES
  EarliestArrival
  LivesEnd
  RunnableRuns
