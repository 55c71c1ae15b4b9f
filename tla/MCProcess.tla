------------------------------ MODULE MCProcess ------------------------------
(* The process with one request, a session that is given up after two         *)
(* failures, and deadlines of one tick and two.                               *)
EXTENDS Process
=============================================================================
