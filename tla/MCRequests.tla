----------------------------- MODULE MCRequests -----------------------------
(* Two requests that only differ by name.                                     *)
EXTENDS Requests, TLC

Symmetry == Permutations(Request)
=============================================================================
