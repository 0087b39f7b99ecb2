------------------------------- MODULE MCQuota -------------------------------
(* Small instances of Quota. *)
EXTENDS Quota, TLC

CONSTANTS c1, c2, j1, j2, j3, d1, u1

Symmetric == Permutations(Cluster) \cup Permutations(Create)
=============================================================================
