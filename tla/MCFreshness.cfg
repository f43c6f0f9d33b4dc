SPECIFICATION Spec
CONSTANTS
  Files = {f1, f2}
  MaxEdits = 2
  MaxFails = 1
  Batch = 1
  Watcher = TRUE
  Peer = TRUE
  NULL = NULL
INVARIANTS BaselineCovered ScanBaselineCovered AnswerFresh StructureFresh
PROPERTY PurgesOnlyVanished
SYMMETRY Symmetry
CONSTRAINT OneExtra
