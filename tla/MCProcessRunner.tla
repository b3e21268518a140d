--------------------------- MODULE MCProcessRunner ---------------------------
(* ProcessRunner on a small instance. *)
EXTENDS ProcessRunnerProofs, TLC

Symmetry == Permutations(Procs) \cup Permutations(Callers)
=============================================================================
