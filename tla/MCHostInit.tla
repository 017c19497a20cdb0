----------------------------- MODULE MCHostInit -----------------------------
(* A host that is initialised for one of two uids, again and again.         *)
EXTENDS HostInit, TLC

CONSTANTS u1, u2

Symmetry == Permutations(Uid)
=============================================================================
