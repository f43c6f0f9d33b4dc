SPECIFICATION AnalysesSpec
CONSTANTS
  Files = {C1, C2, C3}
  Methods = {m}
  Members = {v}
  MaxSites = 2
  MaxEntries = 1
  MaxHits = 3
  MaxDepth = 2
  NULL = NULL
  a1 = a1
  a2 = a2
  b1 = b1
  b2 = b2
  s1 = s1
  s2 = s2
  s3 = s3
  packA = packA
  packB = packB
  Paths <- MCPaths
  Scenes <- MCScenes
  Packs = {packA, packB}
  PackOf <- MCPackOf
  WeldChoices <- MCWelds
  WeldCap = 3
  BlobMin = 3
  SmallMin = 2
  TinyMax = 1
  PartSoftCap = 3
  PartCap = 4
  ChunkMin = 2
  Guard = 2
  MaxMoves = 2
  PackMin = 2
  StrayShare = 1
  None = None
SYMMETRY Symmetry
CHECK_DEADLOCK FALSE
INVARIANTS
  RunsIsNotDead
  ImpactExact
  OneCluster
  CapBound
