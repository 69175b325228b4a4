SPECIFICATION Spec
CONSTANTS
  topology = topology
  reach = reach
  audit = audit
  Graphs <- mcGraphs
  Audits <- mcAudits
  Configured = FALSE
INVARIANT ToggleIsUnobserved
CHECK_DEADLOCK FALSE
