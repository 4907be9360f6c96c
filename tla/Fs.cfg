SPECIFICATION Spec
CONSTANTS
  p1 = p1
  p2 = p2
  p3 = p3
  n1 = n1
  n2 = n2
  NoProcess = NoProcess
  Process = {p1, p2}
  InitProcess = p1
  Name = {n1, n2}
  Request <- Requests
  Grown <- Trees
  NINODE = 4
  NINODES = 4
  NBLOCKS = 5
  NDIRECT = 1
  NINDIRECT = 1
  DPB = 4
  NFILE = 2
  NOFILE = 1
  MaxCount = 2
  MaxCalls = 3
INVARIANTS
  RefsCounted
  NeverFreedInUse
  BlocksOwned
  MemoryIsCurrent
  NeverStuck
PROPERTIES
  OrphansAreHeld
