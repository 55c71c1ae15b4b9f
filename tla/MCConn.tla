------------------------------- MODULE MCConn -------------------------------
(* Two senders contend for the mutex with readLoop, setupPing and Close.      *)
EXTENDS Conn
=============================================================================
