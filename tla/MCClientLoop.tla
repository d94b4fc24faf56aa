---------------------------- MODULE MCClientLoop ----------------------------
(* Small instances of ClientLoop for TLC. *)
EXTENDS ClientLoop, TLC

(* Blocks, sockets, addresses and scheduled blocks are interchangeable in   *)
(* safety runs.                                                             *)
CSymmetry == Permutations(Blocks) \cup Permutations(Sockets)
             \cup Permutations(Addresses) \cup Permutations(Timers)
=============================================================================
