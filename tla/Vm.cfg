SPECIFICATION Spec
CONSTANTS
  p1 = p1
  p2 = p2
  Process = {p1, p2}
  InitProcess = p1
  NPAGES = 17
  PGSIZE = 2
  FANOUT = 2
  USERSTACK = 1
  MAXARG = 1
  Program <- Programs
  First <- Small
  Amounts = {3}
  MaxOther = 1
INVARIANTS
  PagesConserved
  Protected
