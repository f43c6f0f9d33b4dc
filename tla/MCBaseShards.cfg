SPECIFICATION Spec
CONSTANTS
  Files = {f1, f2}
  Models = {m1, m2}
  Shapes = {x, y}
  MaxGens = 3
  NULL = NULL
SYMMETRY Symmetry
CHECK_DEADLOCK FALSE
INVARIANTS
  LiveWhole
  CommittedKept
  ImportsOwnModel
PROPERTIES
  ImplementsAtomicBase
