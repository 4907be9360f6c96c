SPECIFICATION FairSpec
CONSTANTS
  Process = {1, 2, 3, 4, 5, 6, 7}
  NFILE = 7
  NOFILE = 6
  NPipe = 2
  PIPESIZE = 2
  MAXARGS = 3
  Rounds = 2
  MostForks = 7
  Console = 1
  Inode <- MCInode
  Missing = {"g"}
  Preemptive = TRUE
  Session <- MCSession
INVARIANTS
  Foreground
  Plumbed
  TestsPass
PROPERTIES
  ReadAsWritten
  PromptReturns
CHECK_DEADLOCK FALSE
