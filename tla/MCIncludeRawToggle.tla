------------------------- MODULE MCIncludeRawToggle -------------------------
(* Two graph requests and an audit request, --include-raw off.             *)
EXTENDS IncludeRawToggle

CONSTANTS topology, reach, audit

mcGraphs == {topology, reach}
mcAudits == {audit}
=============================================================================
