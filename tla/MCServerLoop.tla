---------------------------- MODULE MCServerLoop ----------------------------
(* A small instance of ServerLoop for TLC; without symmetry, as its run     *)
(* checks liveness too.                                                     *)
EXTENDS ServerLoop
=============================================================================
