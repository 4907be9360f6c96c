SPECIFICATION SpecFCFS
CONSTANTS
  c1 = c1
  c2 = c2
  none = none
  CPU = {c1, c2}
  CPU0 = c1
  NoCPU = none
  NPROC = 3
  Syscalls = {"fork", "exit", "wait", "kill", "pause"}
  KillTargets = {3}
  PauseTicks = 1
  MemoryFails = TRUE
  MaxPid = 4
  MaxTicks = 2
  TickWidth = 16
INVARIANTS
  RunsOnce
  LockDiscipline
  NoLostWakeup
  ParentLives
  KillHitsPid
