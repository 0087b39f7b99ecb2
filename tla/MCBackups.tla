------------------------------- MODULE MCBackups -------------------------------
(* Small instances of Backups. *)
EXTENDS Backups
=============================================================================
