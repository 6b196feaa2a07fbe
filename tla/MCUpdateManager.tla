-------------------------- MODULE MCUpdateManager ---------------------------
(* Instances of UpdateManager for TLC.                                     *)
EXTENDS UpdateManager, TLC

CONSTANTS s1, s2, s3, k1, none

EveryOp == Plain \cup {"confirm"}

Symmetry == Permutations(Sessions)
=============================================================================
