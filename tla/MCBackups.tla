------------------------------ MODULE MCBackups ------------------------------
(* Backups for TLC: two backups, one request at a time, one chain.           *)
EXTENDS Backups
=============================================================================
