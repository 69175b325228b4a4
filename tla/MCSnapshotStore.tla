--------------------------- MODULE MCSnapshotStore --------------------------
(* A scheduled process that audits and prunes, an operator who audits and  *)
(* compares; two series, three snapshots.                                  *)
EXTENDS SnapshotStore, TLC

CONSTANTS u1, u2, full, bird, a1

mcProcs == {u1, u2}
mcPruners == {u1}
mcDiffers == {u2}
mcKeys == {full, bird}
mcAssets == {a1}
mcEstates == {{a1}}
mcSymmetry == Permutations(mcKeys)
=============================================================================
