---------------------------- MODULE MCJobRunner ----------------------------
(* Instances of JobRunner for TLC. *)
EXTENDS JobRunner, TLC

CONSTANTS j1, j2, p1, p2, h1, h2, k1

(* All jobs on one instance. *)
MCKeyOf == [j \in Job |-> k1]

(* A recreated pod has a name of its own... *)
MCRecreated == [p \in Proc |-> IF p = p1 THEN h1 ELSE h2]

(* ...a container restarted in place keeps hostname and pid. *)
MCRestarted == [p \in Proc |-> h1]

(* The jobs of an instance are interchangeable. *)
JobSymmetry == Permutations(Job)
=============================================================================
