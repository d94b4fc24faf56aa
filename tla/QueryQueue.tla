----------------------------- MODULE QueryQueue -----------------------------
(***************************************************************************)
(* The hand-over of queries from user threads to an event-loop thread, the *)
(* same in ClientLoop and ServerLoop, on Kotlin/Native and on the JVM.     *)
(*                                                                         *)
(* A query crosses in two parts.  The query itself goes into an ArrayDeque *)
(* that lives inside a stately IsolateState, whose access { } runs one     *)
(* block at a time on the isolate's own thread.  A ping message goes from  *)
(* the dealer socket kept beside the deque to the loop's pong socket, to   *)
(* wake the loop's poll.  invokeSafe does both in one access; stopSafe     *)
(* does too, but with a message that has no frame.  The loop removes one   *)
(* query per ping, in an access of its own.                                *)
(***************************************************************************)
EXTENDS Integers, Sequences, FiniteSets

CONSTANTS Blocks,         \* the blocks passed to invokeSafe, one per call
          StopQuery,      \* ClientLoopQuery.StopQuery / ServerLoopQuery.StopQuery
          Callers,        \* the threads that call invokeSafe and stopSafe
          Worker,         \* the loop's thread; in Callers when callbacks call back
          HWM,            \* messages the ping-pong pipe holds before send blocks
          MaxStops,       \* bound on the calls to stopSafe
          DisposedAccess, \* what access does once disposed: serve, refuse or either
          MayThrow        \* user code may throw: nothing in the loop catches

ASSUME BlocksAssumption == StopQuery \notin Blocks
ASSUME HwmAssumption    == HWM \in Nat \ {0}
ASSUME StopsAssumption  == MaxStops \in Nat
ASSUME AccessAssumption == DisposedAccess \subseteq {"serve", "refuse"}
ASSUME ThrowAssumption  == MayThrow \in BOOLEAN

Query == Blocks \cup {StopQuery}

VARIABLES queue,      \* the deque in the isolate state
          pipe,       \* pings sent and not yet received
          call,       \* per caller, how far its call of the loop's API is
          disposed,   \* IsolateState.dispose has run
          loop,       \* where the loop's thread is
          isStopped,  \* ClientLoopScope.isStopped / ServerLoopScope.isStopped
          log,        \* history: every query put in the deque, oldest first
          started     \* history: the blocks started, oldest first

qvars == <<queue, pipe, call, disposed, loop, isStopped, log, started>>

CallState == {"none", "ping", "dispose", "refused"}
LoopState == {"starting", "free", "taking", "running", "stopped", "crashed"}

TypeOK == /\ queue \in Seq(Query)
          /\ pipe \in 0..HWM
          /\ call \in [Callers -> CallState]
          /\ disposed \in BOOLEAN
          /\ loop \in LoopState
          /\ isStopped \in BOOLEAN
          /\ log \in Seq(Query)
          /\ started \in Seq(Blocks)

-----------------------------------------------------------------------------
(* Helpers *)

Elements(s) == {s[i] : i \in DOMAIN s}

(* The positions of the stop queries put in the deque so far. *)
StopsIn(s) == {i \in DOMAIN s : s[i] = StopQuery}

(* A thread is inside an access, sending its ping: the isolate's thread is  *)
(* taken and every other access waits.                                      *)
Pinging == \E t \in Callers : call[t] = "ping"

Served  == ~disposed \/ "serve" \in DisposedAccess
Refused == disposed /\ "refuse" \in DisposedAccess

(* zmsg_send of a message without frames sends nothing. *)
Delivered(frames) == IF frames = 0 THEN 0 ELSE 1

(* Where a caller may start a call: the loop's own thread, in user code. *)
CanCall(t) == /\ call[t] = "none"
              /\ t = Worker => loop \in {"free", "running"}

(* The loop's thread is not inside a call it made itself. *)
WorkerIdle == Worker \in Callers => call[Worker] = "none"

Init == /\ queue = <<>>
        /\ pipe = 0
        /\ call = [t \in Callers |-> "none"]
        /\ disposed = FALSE
        /\ loop = "starting"
        /\ isStopped = FALSE
        /\ log = <<>>
        /\ started = <<>>

-----------------------------------------------------------------------------
(* The callers *)

(* Fault: a ping only when the deque was empty. *)
InvokeSafe_PingIfEmpty(t, b) ==
    /\ CanCall(t) /\ ~Pinging /\ Served
    /\ b \notin Elements(log)
    /\ queue' = Append(queue, b)
    /\ log' = Append(log, b)
    /\ call' = [call EXCEPT ![t] = IF queue = <<>> THEN "ping" ELSE "none"]
    /\ UNCHANGED <<pipe, disposed, loop, isStopped, started>>

(* invokeSafe: enters the access, puts the query in the deque and begins to *)
(* send the ping, still inside the access.                                  *)
InvokeSafe(t, b) ==
    /\ CanCall(t)
    /\ ~Pinging
    /\ Served
    /\ b \notin Elements(log)
    /\ queue' = Append(queue, b)
    /\ log' = Append(log, b)
    /\ call' = [call EXCEPT ![t] = "ping"]
    /\ UNCHANGED <<pipe, disposed, loop, isStopped, started>>

(* Fault: a send that does not wait for room in the pipe. *)
PingSent_NoWait(t) ==
    /\ call[t] = "ping"
    /\ loop # "starting"
    /\ pipe' = pipe + Delivered(1)
    /\ call' = [call EXCEPT ![t] = "none"]
    /\ UNCHANGED <<queue, disposed, loop, isStopped, log, started>>

(* The one-frame ping goes out: it needs the pong socket connected and room *)
(* in the pipe; until then the sender, and with it the isolate, blocks.     *)
PingSent(t) ==
    /\ call[t] = "ping"
    /\ loop # "starting"
    /\ pipe < HWM
    /\ pipe' = pipe + Delivered(1)
    /\ call' = [call EXCEPT ![t] = "none"]
    /\ UNCHANGED <<queue, disposed, loop, isStopped, log, started>>

(* stopSafe, its access: the query goes in; the message has no frame, so    *)
(* nothing is sent and nothing blocks.                                      *)
StopSafe(t) ==
    /\ CanCall(t)
    /\ ~Pinging
    /\ Served
    /\ Cardinality(StopsIn(log)) < MaxStops
    /\ queue' = Append(queue, StopQuery)
    /\ log' = Append(log, StopQuery)
    /\ pipe' = pipe + Delivered(0)
    /\ call' = [call EXCEPT ![t] = "dispose"]
    /\ UNCHANGED <<disposed, loop, isStopped, started>>

(* stopSafe, after the access: isolatedQueue.dispose(). *)
Dispose(t) ==
    /\ call[t] = "dispose"
    /\ disposed' = TRUE
    /\ call' = [call EXCEPT ![t] = "none"]
    /\ UNCHANGED <<queue, pipe, loop, isStopped, log, started>>

(* A call made after dispose throws in its caller.  A user thread gives up  *)
(* on the loop; in the loop's thread nothing catches the exception.         *)
AccessRefused(t) ==
    /\ CanCall(t)
    /\ Refused
    /\ call' = [call EXCEPT ![t] = "refused"]
    /\ loop' = IF t = Worker THEN "crashed" ELSE loop
    /\ UNCHANGED <<queue, pipe, disposed, isStopped, log, started>>

-----------------------------------------------------------------------------
(* The loop's thread *)

(* The pong socket is created and connected; the while loop begins. *)
Connect ==
    /\ loop = "starting"
    /\ loop' = "free"
    /\ UNCHANGED <<queue, pipe, call, disposed, isStopped, log, started>>

(* Fault: the loop reacts to the ping without receiving it. *)
RecvPong_Peek ==
    /\ loop = "free" /\ WorkerIdle
    /\ ~isStopped
    /\ pipe > 0
    /\ loop' = "taking"
    /\ UNCHANGED <<queue, pipe, call, disposed, isStopped, log, started>>

(* poll finds the pong socket readable and receives one ping. *)
RecvPong ==
    /\ loop = "free" /\ WorkerIdle
    /\ ~isStopped
    /\ pipe > 0
    /\ pipe' = pipe - 1
    /\ loop' = "taking"
    /\ UNCHANGED <<queue, call, disposed, isStopped, log, started>>

(* Fault: a stop query that the loop forgets. *)
Obey_ForgetStop(q) ==
    \/ /\ q \in Blocks
       /\ loop' = "running"
       /\ started' = Append(started, q)
       /\ UNCHANGED isStopped
    \/ /\ q = StopQuery
       /\ loop' = "free"
       /\ UNCHANGED <<isStopped, started>>

(* The query that handlePongSocket removed: a block begins, a stop query    *)
(* sets isStopped.                                                          *)
Obey(q) ==
    \/ /\ q \in Blocks
       /\ loop' = "running"
       /\ started' = Append(started, q)
       /\ UNCHANGED isStopped
    \/ /\ q = StopQuery
       /\ loop' = "free"
       /\ isStopped' = TRUE
       /\ UNCHANGED started

(* Fault: removeLast for removeFirst. *)
TakeQuery_Last ==
    /\ loop = "taking" /\ ~Pinging /\ Served
    /\ IF queue = <<>>
       THEN loop' = "crashed" /\ UNCHANGED <<queue, isStopped, started>>
       ELSE /\ queue' = SubSeq(queue, 1, Len(queue) - 1)
            /\ Obey(queue[Len(queue)])
    /\ UNCHANGED <<pipe, call, disposed, log>>

(* handlePongSocket, its access served: removeFirst, which throws on an     *)
(* empty deque, and then what the query asks for.                           *)
TakeQuery ==
    /\ loop = "taking"
    /\ ~Pinging
    /\ Served
    /\ IF queue = <<>>
       THEN loop' = "crashed" /\ UNCHANGED <<queue, isStopped, started>>
       ELSE queue' = Tail(queue) /\ Obey(Head(queue))
    /\ UNCHANGED <<pipe, call, disposed, log>>

(* handlePongSocket, its access refused: the exception ends the loop. *)
TakeRefused ==
    /\ loop = "taking"
    /\ Refused
    /\ loop' = "crashed"
    /\ UNCHANGED <<queue, pipe, call, disposed, isStopped, log, started>>

BlockDone ==
    /\ loop = "running" /\ WorkerIdle
    /\ loop' = "free"
    /\ UNCHANGED <<queue, pipe, call, disposed, isStopped, log, started>>

(* A block, a listener or a scheduled block throws. *)
UserThrow ==
    /\ MayThrow
    /\ loop \in {"free", "running"} /\ WorkerIdle
    /\ loop' = "crashed"
    /\ UNCHANGED <<queue, pipe, call, disposed, isStopped, log, started>>

(* while (!isStopped) ends. *)
LoopExit ==
    /\ loop = "free" /\ WorkerIdle
    /\ isStopped
    /\ loop' = "stopped"
    /\ UNCHANGED <<queue, pipe, call, disposed, isStopped, log, started>>

-----------------------------------------------------------------------------
Next == \/ Connect \/ RecvPong \/ TakeQuery \/ TakeRefused
        \/ BlockDone \/ UserThrow \/ LoopExit
        \/ \E t \in Callers :
              \/ PingSent(t) \/ StopSafe(t) \/ Dispose(t) \/ AccessRefused(t)
              \/ \E b \in Blocks : InvokeSafe(t, b)

Spec == Init /\ [][Next]_qvars

(* The scheduler runs every thread; zmq delivers what it accepted; blocks   *)
(* end (the listeners' comments forbid long work in the loop's thread).     *)
Fairness ==
    /\ WF_qvars(Connect) /\ WF_qvars(RecvPong) /\ WF_qvars(TakeQuery \/ TakeRefused)
    /\ WF_qvars(BlockDone) /\ WF_qvars(LoopExit)
    /\ \A t \in Callers : WF_qvars(PingSent(t)) /\ WF_qvars(Dispose(t))

FairSpec == Spec /\ Fairness

-----------------------------------------------------------------------------
(* Properties *)

(* Wake-ups balance: while the loop lives, the deque holds one query per    *)
(* ping in the pipe, per ping being sent and per ping being handled, and    *)
(* one more per stop query, which sends none.  A query without its ping     *)
(* would never be seen; a ping without its query would throw.               *)
PingBalance ==
    loop # "crashed" =>
        Len(queue) = pipe + (IF Pinging THEN 1 ELSE 0)
                          + (IF loop = "taking" THEN 1 ELSE 0)
                          + Cardinality(StopsIn(log))

(* handlePongSocket's removeFirst never meets an empty deque, whatever the  *)
(* callers were doing between the ping and the access.                      *)
NoEmptyTake == loop = "taking" => queue # <<>>

(* Blocks start in the order in which the accesses of invokeSafe took       *)
(* effect, over all threads, each once, and none that was put in the deque  *)
(* after a stop query.                                                      *)
RunsInOrder == /\ Len(started) <= Len(log)
               /\ \A i \in 1..Len(started) : started[i] = log[i]

(* The two-part hand-over implements the mailbox that the comments promise: *)
(* the query handled is always the oldest one not handled.                  *)
Promise == INSTANCE Mailbox WITH accepted <- log,
                                 handled  <- Len(log) - Len(queue),
                                 open     <- ~isStopped
ImplementsMailbox == Promise!Spec

(* b is in the deque's history, with no stop query before it. *)
AcceptedBeforeStop(b) ==
    \E i \in DOMAIN log : /\ log[i] = b
                          /\ \A j \in 1..i : log[j] # StopQuery

(* "Invokes [block] in the loop thread": a block accepted before any stop   *)
(* query does run.                                                          *)
AcceptedBlocksRun ==
    \A b \in Blocks : AcceptedBeforeStop(b) ~> (b \in Elements(started))

(* "Sends a query to the loop to stop": after stopSafe the loop ends. *)
StopTakesEffect ==
    (StopsIn(log) # {}) ~> (loop \in {"stopped", "crashed"})
=============================================================================
