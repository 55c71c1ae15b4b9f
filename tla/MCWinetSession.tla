--------------------------- MODULE MCWinetSession ---------------------------
(* The session on small instances: the cfg files give one or two sessions,    *)
(* one or two devices, at most one command, and choose the faults.            *)
EXTENDS WinetSession
=============================================================================
