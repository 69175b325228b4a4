\* One request on each of six small estates, after any order of deliveries and
\* any failures.  A request is answered once and then nothing is left to do.
SPECIFICATION Spec
CHECK_DEADLOCK FALSE
CONSTANTS
  LowerCase <- MCLowerCase
  Undotted <- MCUndotted
  Order <- MCOrder
  Pools <- MCPools
  Requests <- MCRequests
INVARIANT ReachIsExact
INVARIANT HostnameTraceIsWhole
INVARIANT CollapseKeepsEveryEdge
INVARIANT LostEdgesAreExplained
INVARIANT GraphIgnoresArrivalOrder
