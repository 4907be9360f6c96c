SPECIFICATION Spec
SYMMETRY Symmetry
CONSTANTS
  p1 = p1
  p2 = p2
  p3 = p3
  b1 = b1
  b2 = b2
  b3 = b3
  Process = {p1, p2, p3}
  Block = {b1, b2, b3}
  Changing = {b1}
  NBUF = 3
  NUM = 8
  IdxMod = 8
  MaxPinned = 0
INVARIANTS
  NoLostWakeup
