SPECIFICATION Spec
CONSTANTS
  big = big
  small = small
  leadB = leadB
  dep = dep
  opt = opt
  leadS = leadS
  a1 = a1
  a2 = a2
  Providers <- mcProviders
  Collectors <- mcCollectors
  Owner <- mcOwner
  Lead <- mcLead
  NeedsLead <- mcNeedsLead
  Optional <- mcOptional
  Assets <- mcAssets
  Items <- mcItems
  Limit <- mcLimit
  ErrCap <- mcErrCap
INVARIANTS TypeOK NothingLost FailureIsReported ClosedHasNoSender
PROPERTIES ImplementsMergedStream EveryAuditEnds
CHECK_DEADLOCK FALSE
