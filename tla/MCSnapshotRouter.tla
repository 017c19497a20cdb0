-------------------------- MODULE MCSnapshotRouter --------------------------
(* Two snapshots and a deployment want the lock; with three versions two   *)
(* writes of one file can fall between the copies of two others.           *)
EXTENDS SnapshotRouter, TLC

CONSTANTS s1, s2

Symmetry == Permutations({s1, s2})
=============================================================================
