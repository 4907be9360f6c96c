SPECIFICATION FairSpec
CONSTANTS
  p1 = p1
  p2 = p2
  Process = {p1, p2}
  InitProcess = p1
  NoProcess = NoProcess
  NFILE = 2
  NOFILE = 2
  NPipe = 1
  PIPESIZE = 2
  UintMod = 4
  Counts = {2}
INVARIANTS
  FreedWithLastHolder
  NoLostWakeup
PROPERTIES
  ByteStream
  EndsAreSeen
CHECK_DEADLOCK FALSE
