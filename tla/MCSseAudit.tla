----------------------------- MODULE MCSseAudit -----------------------------
(* Two assets, two errors of one provider, one init error.                 *)
EXTENDS SseAudit

CONSTANTS p1, r1, r2, a1, a2

mcProviders == {p1}
mcReporters == {r1, r2}
mcOwner == [r \in mcReporters |-> p1]
mcAssets == {a1, a2}
mcInventory == [p \in mcProviders |-> mcAssets]
=============================================================================
