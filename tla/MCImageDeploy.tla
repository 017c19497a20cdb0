--------------------------- MODULE MCImageDeploy ---------------------------
(* Two deployments and two releases: one that overtakes another needs no    *)
(* third, and a record can be one release behind.                           *)
EXTENDS ImageDeploy, TLC

CONSTANTS d1, d2

Symmetry == Permutations({d1, d2})
=============================================================================
