------------------------------- MODULE MCLeases -------------------------------
(* Small instances of Leases. *)
EXTENDS Leases

CONSTANTS c1, c2
=============================================================================
