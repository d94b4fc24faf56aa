------------------------------ MODULE Mailbox ------------------------------
(***************************************************************************)
(* What ClientLoop and ServerLoop promise to the threads that use them     *)
(* (the comments of the expect classes: "Thread-safe ZMQ client",          *)
(* "Invokes [block] in the loop thread", "Sends a query to the loop to     *)
(* stop"): a mailbox.  Queries are accepted from any thread in some order; *)
(* the loop handles them one at a time in that order, each once; a stop    *)
(* query closes the mailbox and nothing is handled after it.               *)
(***************************************************************************)
EXTENDS Naturals, Sequences

CONSTANTS Blocks,       \* the blocks passed to invokeSafe, one per call
          StopQuery     \* the query that stopSafe sends

VARIABLES accepted,     \* every query accepted so far, oldest first
          handled,      \* how many of them the loop has handled
          open          \* no stop query has been handled yet

mvars == <<accepted, handled, open>>

Init == accepted = <<>> /\ handled = 0 /\ open = TRUE

(* Some thread hands in a query. *)
Accept(q) == accepted' = Append(accepted, q) /\ UNCHANGED <<handled, open>>

(* The loop handles the oldest query not handled yet. *)
Handle == /\ open
          /\ handled < Len(accepted)
          /\ handled' = handled + 1
          /\ open' = (accepted[handled'] # StopQuery)
          /\ UNCHANGED accepted

Next == Handle \/ \E q \in Blocks \cup {StopQuery} : Accept(q)

Spec == Init /\ [][Next]_mvars
============================================================================
