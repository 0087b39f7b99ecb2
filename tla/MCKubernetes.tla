---------------------------- MODULE MCKubernetes ----------------------------
(* Small instances of Kubernetes. *)
EXTENDS Kubernetes, TLC

CONSTANTS k1, k2

Symmetric == Permutations(K)
=============================================================================
