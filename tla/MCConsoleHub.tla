---------------------------- MODULE MCConsoleHub -----------------------------
(* ConsoleHub for TLC: two streams, one viewer of each kind and a slow one.  *)
EXTENDS ConsoleHub
=============================================================================
