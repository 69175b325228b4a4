SPECIFICATION ListingSpec
CONSTANTS
  Settings <- mcAll
  PageSize = 2
  Zones <- mcZones
  MaxCalls = 2
PROPERTIES EveryCollectorReturns
CHECK_DEADLOCK FALSE
INVARIANTS SilenceIsJustified RealFailureSurfaces AccountListIsWhole NoAccountsIsExplained
