SPECIFICATION FairSpec
CONSTANTS
  Stores = {s0, s1}
  Boot = s0
  Routable = {s1}
  MaxEdits = 1
  MaxFails = 0
  Watcher = TRUE
  NULL = NULL
INVARIANT BaselineCovered
PROPERTY WatcherHeals
