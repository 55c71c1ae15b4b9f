---------------------------- MODULE MCPendingCmd ----------------------------
(* Two waiters are enough to overwrite and to clear each other's registration *)
(* and two handlers to race for it.                                           *)
EXTENDS PendingCmd
=============================================================================
