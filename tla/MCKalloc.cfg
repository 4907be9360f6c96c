SPECIFICATION Spec
CONSTANTS
  t1 = t1
  t2 = t2
  none = none
  Thread = {t1, t2}
  BootThread = t1
  NoThread = none
  NPages = 3
INVARIANTS
  Chain
  OnePlace
PROPERTIES
  FailsOnlyWhenEmpty
  FifoOrder
