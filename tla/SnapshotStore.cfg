SPECIFICATION StoreSpec
CONSTANTS
  u1 = u1
  u2 = u2
  full = full
  bird = bird
  a1 = a1
  Procs <- mcProcs
  Auditors <- mcProcs
  Pruners <- mcPruners
  Differs <- mcDiffers
  Keys <- mcKeys
  Assets <- mcAssets
  Estates <- mcEstates
  KeepLast = 1
  MaxAge = 1
  CacheMaxAge = 1
  Batch = 1
  MaxSaves = 3
  MaxClock = 2
SYMMETRY mcSymmetry
INVARIANTS RetentionSpares RetentionBounds ReportedIsGone DiffIsComparable
