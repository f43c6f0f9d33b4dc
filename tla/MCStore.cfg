SPECIFICATION Spec
CONSTANTS
  Procs = {p1, p2}
  Files = {f1, f2}
  Models = {m1, m2}
  Shapes = {x, y}
  Ids = {i1, i2, i3, i4}
  MaxStarts = 2
  NULL = NULL
SYMMETRY Symmetry
CHECK_DEADLOCK FALSE
INVARIANTS
  NothingLost
  NoTruncatedOpen
  
  
