SPECIFICATION KmallocSpec
CONSTANTS
  Slabs = {0, 1, 2}
  Null = Null
  c1 = c1
  c2 = c2
  Caches = {c1, c2}
  ObjectsPerSlab = 2
  CacheSize <- MCCacheSize
  SlabMax = 2
  MaxRequest = 4
  SizeMod = 8
INVARIANTS
  FailsOnlyWithoutPages
CHECK_DEADLOCK FALSE
