SPECIFICATION BufSpec
CONSTANTS
  p1 = p1
  p2 = p2
  r1 = r1
  r2 = r2
  r3 = r3
  a1 = a1
  a2 = a2
  a3 = a3
  Providers <- mcProviders
  Assets <- mcAssets
  Inventory <- mcInventory
  Reporters <- mcReporters
  Owner <- mcOwner
INVARIANTS BufTypeOK UninterruptedAnswerIsHonest LiveNeverHidesAnError
PROPERTY AnswerComes
CHECK_DEADLOCK FALSE
