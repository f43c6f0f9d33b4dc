SPECIFICATION PageSpec
CONSTANTS
  Nodes = {1, 2, 3}
  Links <- MCLinks
  ClusterOf <- MCClusterOf
  Depths = {1, 2}
  Spreads = {1, 2}
  DirModes = {"both", "out"}
  CollapseMin = 2
  StackCap = 1
  core = core
  ui = ui
  NONE = NONE
PROPERTIES
  ResetReturnsToBoot
