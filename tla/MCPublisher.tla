----------------------------- MODULE MCPublisher -----------------------------
(* A scaled sensor and a text sensor, two starts of the process, and calls    *)
(* that take turns or overlap.  A world in which less goes wrong has fewer    *)
(* behaviours, so each assumption is combined with the worst of the others;   *)
(* that calls overlap and that the process is restarted are taken separately. *)
EXTENDS Publisher

MCWorld == {<<TRUE, FALSE, "error", TRUE>>, <<TRUE, TRUE, "no", TRUE>>,
            <<TRUE, TRUE, "slow", TRUE>>, <<FALSE, TRUE, "error", FALSE>>}
=============================================================================
