SPECIFICATION UnlockedSpec
CONSTANTS
  Procs = {p1, p2}
  Surfaces = {s1, s2}
  Rests = {r1, r2}
  MaxCode = 2
  MaxEdits = 2
  NULL = NULL
  Runners = {p1, p2}
  Projects = {s1, s2}
  OmpNames = {n1}
  NPieces = 2
  MaxCmds = 3
  MaxUser = 1
  BAD = BAD
  ABSENT = ABSENT
SYMMETRY Symmetry
CHECK_DEADLOCK FALSE
INVARIANTS
  ServesWhatTheWalkReturns
