SPECIFICATION FairSpec
CONSTANTS
  Files = {f1, f2}
  MaxEdits = 1
  MaxFails = 2
  Batch = 1
  Watcher = FALSE
  Peer = FALSE
  NULL = NULL
PROPERTY Converges
