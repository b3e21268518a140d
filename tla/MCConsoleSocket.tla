--------------------------- MODULE MCConsoleSocket ---------------------------
(* ConsoleSocket for TLC.                                                    *)
EXTENDS ConsoleSocket
=============================================================================
