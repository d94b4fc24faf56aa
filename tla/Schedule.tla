------------------------------ MODULE Schedule ------------------------------
(***************************************************************************)
(* What the event loops take a queue of scheduled blocks to be: blocks with *)
(* the time they fall due; poll hands out one that falls due first.  Ties  *)
(* come in no particular order, which is all that compareTo, on the time   *)
(* alone, lets a queue promise ("Timeout is NOT exact").                   *)
(***************************************************************************)
EXTENDS Integers

CONSTANT Scheduled      \* the scheduled blocks: records with a time and a block

VARIABLE pending        \* those added and not handed out yet

Init == pending = {}

Add(e) == e \notin pending /\ pending' = pending \cup {e}

Poll == \E e \in pending : /\ \A f \in pending : e.time <= f.time
                           /\ pending' = pending \ {e}

Next == Poll \/ \E e \in Scheduled : Add(e)

Spec == Init /\ [][Next]_pending
=============================================================================
