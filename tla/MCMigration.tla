---------------------------- MODULE MCMigration ----------------------------
(* Instances of Migration for TLC. *)
EXTENDS Migration, TLC

CONSTANTS m1, m2

(* A job and its retry are interchangeable. *)
JobSymmetry == Permutations(Job)
=============================================================================
