--------------------------- MODULE MCBufferedAudit --------------------------
(* Two providers; each may fail, the second with either of two errors.     *)
EXTENDS BufferedAudit

CONSTANTS p1, p2, r1, r2, r3, a1, a2, a3

mcProviders == {p1, p2}
mcReporters == {r1, r2, r3}
mcOwner == [r \in mcReporters |-> IF r = r1 THEN p1 ELSE p2]
mcAssets == {a1, a2, a3}
mcInventory == [p \in mcProviders |-> IF p = p1 THEN {a1} ELSE {a2, a3}]
=============================================================================
