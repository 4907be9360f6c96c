SPECIFICATION Spec
CONSTANTS
  p1 = p1
  p2 = p2
  p3 = p3
  b1 = b1
  b2 = b2
  Process = {p1, p2, p3}
  Block = {b1, b2}
  MAXOPBLOCKS = 2
  OpBlocks = 1
  LOGBLOCKS = 4
  MaxCalls = 3
INVARIANTS
  Orderly
  NoLostWakeup
  SyncSaves
PROPERTIES
  Atomic
