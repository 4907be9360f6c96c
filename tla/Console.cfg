SPECIFICATION FairSpec
CONSTANTS
  r1 = r1
  w1 = w1
  w2 = w2
  Reader = {r1}
  Writer = {w1, w2}
  INPUT_BUF_SIZE = 2
  IdxMod = 4
  Start = 2
  Char = {"x", "eof", "bs", "kill"}
  FIFO = 3
  MaxTyped = 3
  Counts = {2}
  MaxCalls = 2
INVARIANTS
  NothingLost
PROPERTIES
  LineDiscipline
  WritesReturn
CHECK_DEADLOCK FALSE
