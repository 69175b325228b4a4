SPECIFICATION ListingSpec
CONSTANTS
  Settings <- mcAll
  PageSize = 2
  Zones <- mcZones
  MaxCalls = 2
INVARIANT EveryAccountIsListed
CHECK_DEADLOCK FALSE
