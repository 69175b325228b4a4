\* One request on each of three small estates, whichever providers start, fail or
\* deliver a part.  A request is answered once and then nothing is left to do.
SPECIFICATION Spec
CHECK_DEADLOCK FALSE
CONSTANTS
  LowerCase <- MCLowerCase
  Undotted <- MCUndotted
  InputOrder <- MCInputOrder
  ListTags <- MCListTags
  NameOrder <- MCNameOrder
  NumberOf <- MCNumberOf
  InstanceIn <- MCInstanceIn
  Tables <- MCTables
  StatusOf <- MCStatusOf
  NormalKey <- MCNormalKey
  ExpiryOf <- MCExpiryOf
  AddressOf <- MCAddressOf
  RangeOf <- MCRangeOf
  DomainsOf <- MCDomainsOf
  Bare <- MCBare
  DerivedTags <- MCDerivedTags
  Estates <- MCEstates
  Requests <- MCRequests
  Today <- MCToday
INVARIANT SpendIsCountedOnce
INVARIANT RowsMakeUpTheTotal
INVARIANT DanglingIsGenuine
INVARIANT SilenceIsAccounted
INVARIANT GateSpeaksForTheEstate
INVARIANT DriftIsReal
