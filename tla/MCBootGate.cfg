SPECIFICATION SessionSpec
CONSTANTS
  Calls = {c1, c2}
  MaxBoots = 2
  NULL = NULL
  Nodes = {1, 2, 3}
  Links <- MCLinks
  ClusterOf <- MCClusterOf
  Depths = {1, 2}
  Spreads = {1, 2}
  DirModes = {"both"}
  CollapseMin = 2
  StackCap = 1
  core = core
  ui = ui
  NONE = NONE
SYMMETRY Symmetry
CHECK_DEADLOCK FALSE
INVARIANTS
  BootNeedsConsent
  BoundWhole
  ServesAnIndex
  OverviewClean
  SettledExact
PROPERTIES
  GuidanceEndsBuilt
  InstSeededOnce
