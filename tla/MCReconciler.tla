---------------------------- MODULE MCReconciler ----------------------------
(* Instances of Reconciler for TLC. *)
EXTENDS Reconciler, TLC

Workers == Permutations(Proc)
Both == Permutations(Proc) \cup Permutations(Member)
=============================================================================
