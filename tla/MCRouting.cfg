SPECIFICATION Spec
CONSTANTS
  Stores = {s0, s1}
  Boot = s0
  Routable = {s0, s1}
  MaxEdits = 2
  MaxFails = 1
  Watcher = FALSE
  NULL = NULL
INVARIANTS GraphOfBound AnswerFresh GraphFollowsRows
PROPERTY BootBaselineKept
