SPECIFICATION Spec
CONSTANTS
  Sources <- MCSources
  Options <- MCOptions
  Files <- MCFiles
  Widths = {"B128", "B256"}
  MaxBones = 4
INVARIANTS
  HierarchyIsPreorder
  EveryQuadOnce
  CacheReadIsExact
