---------------------------- MODULE MCAlgorithms ----------------------------
(* The two sequential algorithms on all small inputs: one behaviour runs    *)
(* the priority queue or the payload, never both.                           *)
EXTENDS PriorityQueue, BinaryPayload

CONSTANTS MaxTime, Tasks    \* due times 0..MaxTime, blocks to schedule

VARIABLE subject

Pending == [time : 0..MaxTime, block : Tasks]
Strings == {[chars |-> 1, bytes |-> 1], [chars |-> 1, bytes |-> 2]}

AInit == PInit /\ BInit /\ subject \in {"queue", "payload"}

ANext == \/ subject = "queue" /\ PNext /\ UNCHANGED <<subject, bvars>>
         \/ subject = "payload" /\ BNext /\ UNCHANGED <<subject, pvars>>

ASpec == AInit /\ [][ANext]_<<subject, pvars, bvars>>
=============================================================================
