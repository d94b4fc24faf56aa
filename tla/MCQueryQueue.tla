---------------------------- MODULE MCQueryQueue ----------------------------
(* Small instances of QueryQueue for TLC: the configurations choose who     *)
(* calls, how much the pipe holds and what access does after dispose.       *)
EXTENDS QueryQueue, TLC

(* User threads and blocks are interchangeable in safety runs. *)
Symmetry == Permutations(Blocks) \cup Permutations(Callers \ {Worker})
=============================================================================
