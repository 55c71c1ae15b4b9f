----------------------------- MODULE MCStorage ------------------------------
(* What happens to a token depends on no other, so one is enough, with two    *)
(* requests and the cleanup to race for it; two files, the first with two     *)
(* statements, so that it can be left between them, after them and recorded;  *)
(* two ends of the process, so that the second meets what the first has left. *)
EXTENDS Storage

MCStatements == <<2, 1>>
=============================================================================
