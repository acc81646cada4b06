SPECIFICATION partsSpec
CONSTANTS
  None = None
  p1 = p1
  p2 = p2
  p3 = p3
  p4 = p4
  p5 = p5
  f1 = f1
  f2 = f2
  f3 = f3
  u1 = u1
  i1 = i1
INVARIANTS
  TableSound
  AloneTrue
  EndsNoOther
PROPERTIES
  RowsGoRight
CHECK_DEADLOCK FALSE
SYMMETRY Symmetry
