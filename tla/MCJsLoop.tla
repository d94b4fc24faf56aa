------------------------------ MODULE MCJsLoop ------------------------------
(* A small instance of JsLoop for TLC; without symmetry, as its run checks  *)
(* liveness too.                                                            *)
EXTENDS JsLoop
=============================================================================
