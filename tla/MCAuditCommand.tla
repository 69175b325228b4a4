--------------------------- MODULE MCAuditCommand ---------------------------
(***************************************************************************)
(* Two providers with one asset each, each able to report one error; every *)
(* mode; no stage or both stages; a filter that keeps one of the assets.   *)
(***************************************************************************)
EXTENDS AuditCommand

CONSTANTS p1, p2, r1, r2, a1, a2

mcProviders == {p1, p2}
mcReporters == {r1, r2}
mcOwner == [r \in mcReporters |-> IF r = r1 THEN p1 ELSE p2]
mcAssets == {a1, a2}
mcInventory == [p \in mcProviders |-> IF p = p1 THEN {a1} ELSE {a2}]
mcPipelines == {<<>>, <<"annotate", "filter">>}
mcMatching == {a1}
mcMaxStages == 2
=============================================================================
