-------------------------- MODULE MCServerLifecycle --------------------------
(* ServerLifecycle for TLC: one request at a time beside the auto-restart, the *)
(* boot and the watchers.                                                    *)
EXTENDS ServerLifecycle
=============================================================================
