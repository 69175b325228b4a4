SPECIFICATION SseSpec
CONSTANTS
  p1 = p1
  r1 = r1
  r2 = r2
  a1 = a1
  a2 = a2
  Providers <- mcProviders
  Assets <- mcAssets
  Inventory <- mcInventory
  Reporters <- mcReporters
  Owner <- mcOwner
  InitErrs = 1
INVARIANTS SseTypeOK FramesAreWhole StreamContract DoneCountsMatch
PROPERTY HandlerReturns
CHECK_DEADLOCK FALSE
