SPECIFICATION TimedSpec
CONSTANTS
  p1 = p1
  p2 = p2
  r1 = r1
  r2 = r2
  a1 = a1
  a2 = a2
  Providers <- mcProviders
  Assets <- mcAssets
  Inventory <- mcInventory
  Reporters <- mcReporters
  Owner <- mcOwner
  Pipelines <- mcPipelines
  Matching <- mcMatching
  MaxStages <- mcMaxStages
INVARIANT ExitZeroMeansComplete
CHECK_DEADLOCK FALSE
