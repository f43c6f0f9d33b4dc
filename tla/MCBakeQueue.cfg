SPECIFICATION FairSpec
CONSTANTS
  Clients = {c1, c2}
  Foreign = {s1}
  Boot = Boot
  MaxCalls = 3
  MaxFails = 1
  MaxBreaks = 1
  NULL = NULL
INVARIANTS NoLostWake ScopeRestored BakedWhereAsked ConsentKept
PROPERTIES ImplementsFifo Drains
CHECK_DEADLOCK FALSE
