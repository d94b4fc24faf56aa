----------------------------- MODULE ServerLoop -----------------------------
(***************************************************************************)
(* The server's event loop on Kotlin/Native (serverLoopJob,                *)
(* ServerLoopScope, the poller and ZmqMsg), on top of the query queue, with*)
(* the clients at the other end of its router socket.                      *)
(*                                                                         *)
(* A request is a message of two frames, the identity of its sender and a  *)
(* body.  The listener pops the frames it wants, closes the message and may*)
(* reply at once or in any later callback, to the identity it kept.  An    *)
(* identity is not a copy but a pointer into the popped frame, so what is  *)
(* on the heap is part of the state.                                       *)
(*                                                                         *)
(* Every step is a step of QueryQueue or leaves its variables alone.       *)
(***************************************************************************)
EXTENDS QueryQueue

CONSTANTS Clients,     \* the dealers that connect to the router, once each
          MaxRequests, \* bound on the requests of a client at a time: on their
                       \* way, heard or kept; over time they are without end
          PeerHWM,     \* replies the router holds for a client
          Timers       \* the blocks passed to invokeAfterTimeout, one per call

ASSUME RouterAssumption == MaxRequests \in Nat /\ PeerHWM \in Nat \ {0}
ASSUME CallbacksCallAssumption == Worker \in Callers

VARIABLES phase,       \* where the loop's thread is in its iteration
          ready,       \* what the last poll found readable, not yet handled
          bound,       \* the router's bind succeeded
          clients,     \* per client: new, up or gone
          inbox,       \* per client, its requests the router has not handed over
          outbox,      \* per client, replies on their way to it
          hearing,     \* the request whose message the listener holds
          frames,      \* the frames left in that message
          heap,        \* per request, which parts of it are allocated and
                       \* still referred to
          kept,        \* the requests whose identity user code has popped
          scheduled,   \* the blocks in the priority queue
          fired        \* history: the scheduled blocks started

peervars == <<bound, clients, inbox, outbox>>
msgvars  == <<hearing, frames, heap, kept>>
timevars == <<scheduled, fired>>
lvars    == <<phase, ready, peervars, msgvars, timevars>>
svars    == <<qvars, lvars>>

(* The requests; one that is done with lends its name to a later one. *)
Request == [client : Clients, n : 1..MaxRequests]

(* What a received request is made of in memory: zmsg_t, its two zframe_t,  *)
(* and the char* that zmsg_popstr returns.                                  *)
Frames == {"identity", "body"}
Parts  == Frames \cup {"message", "string"}

STypeOK == /\ TypeOK
           /\ phase \in {"setup", "top", "timers", "timer", "poll", "dispatch", "listener"}
           /\ ready \in Seq({"pong", "router"}) /\ Len(ready) <= 2
           /\ bound \in BOOLEAN
           /\ clients \in [Clients -> {"new", "up", "gone"}]
           /\ inbox \in [Clients -> Seq(Request)]
           /\ \A c \in Clients : outbox[c] \in Seq(Request) /\ Len(outbox[c]) <= PeerHWM
           /\ hearing \in SUBSET Request
           /\ frames \in Seq(Frames)
           /\ heap \in [Request -> SUBSET Parts]
           /\ kept \in SUBSET Request
           /\ scheduled \in SUBSET Timers
           /\ fired \in SUBSET Timers

-----------------------------------------------------------------------------
(* Helpers *)

(* The loop's thread is in user code, and not inside a call it made. *)
InUserCode == /\ \/ loop = "running"
                 \/ loop = "free" /\ phase \in {"timer", "listener"}
              /\ WorkerIdle

(* Fault: the router is not in the list given to poll. *)
Readable_PongOnly == IF pipe > 0 THEN <<"pong">> ELSE <<>>

(* What zmq_poll reports, in the order of the list it was given. *)
Readable == (IF pipe > 0 THEN <<"pong">> ELSE <<>>)
            \o (IF \E c \in Clients : inbox[c] # <<>> THEN <<"router">> ELSE <<>>)

(* Where the router finds the peer of a reply: the bytes that the identity  *)
(* of the request points to; anything, once they are freed.                 *)
Addressee(r) == IF "identity" \in heap[r] THEN {r.client} ELSE Clients

SInit == /\ Init
         /\ phase = "setup"
         /\ ready = <<>>
         /\ bound = FALSE
         /\ clients = [c \in Clients |-> "new"]
         /\ inbox = [c \in Clients |-> <<>>]
         /\ outbox = [c \in Clients |-> <<>>]
         /\ hearing = {}
         /\ frames = <<>>
         /\ heap = [r \in Request |-> {}]
         /\ kept = {}
         /\ scheduled = {}
         /\ fired = {}

-----------------------------------------------------------------------------
(* The iteration *)

(* The pong socket is connected: pings flow from here on. *)
SConnect == Connect /\ UNCHANGED lvars

(* The router is created and bound, the return code of zmq_bind not looked  *)
(* at, and loopStateProducer called.                                        *)
BindRouter ==
    /\ loop = "free" /\ phase = "setup"
    /\ bound' \in BOOLEAN
    /\ phase' = "top"
    /\ UNCHANGED <<qvars, ready, clients, inbox, outbox, msgvars, timevars>>

(* while (!isStopped), and the reading of the clock. *)
Iterate ==
    /\ loop = "free" /\ phase = "top"
    /\ ~isStopped
    /\ phase' = "timers"
    /\ UNCHANGED <<qvars, ready, peervars, msgvars, timevars>>

(* The loop's function returns: the router stays open. *)
SLoopExit == /\ phase = "top"
             /\ LoopExit
             /\ UNCHANGED lvars

(* A block at the head of the schedule is due: it is removed and begins.    *)
(* Times are ClientLoop's and PriorityQueue's subject; here any block may   *)
(* be the earliest, and be due or not.                                      *)
RunScheduled ==
    /\ loop = "free" /\ phase = "timers"
    /\ \E b \in scheduled :
          /\ scheduled' = scheduled \ {b}
          /\ fired' = fired \cup {b}
    /\ phase' = "timer"
    /\ UNCHANGED <<qvars, ready, peervars, msgvars>>

ScheduledDone ==
    /\ InUserCode /\ phase = "timer"
    /\ phase' = "timers"
    /\ UNCHANGED <<qvars, ready, peervars, msgvars, timevars>>

(* None is due: on to poll, which never times out. *)
TimersDrained ==
    /\ loop = "free" /\ phase = "timers"
    /\ phase' = "poll"
    /\ UNCHANGED <<qvars, ready, peervars, msgvars, timevars>>

PollReady ==
    /\ loop = "free" /\ phase = "poll"
    /\ Readable # <<>>
    /\ ready' = Readable
    /\ phase' = "dispatch"
    /\ UNCHANGED <<qvars, peervars, msgvars, timevars>>

(* Index 0: one ping is received for handlePongSocket. *)
DispatchPong ==
    /\ phase = "dispatch"
    /\ RecvPong
    /\ ready # <<>> /\ Head(ready) = "pong"
    /\ ready' = Tail(ready)
    /\ UNCHANGED <<phase, peervars, msgvars, timevars>>

(* Fault: the router has its turn until it has nothing more to hand over. *)
Hear_Drain(c) ==
    /\ loop = "free" /\ phase = "dispatch"
    /\ ready # <<>> /\ Head(ready) = "router"
    /\ inbox[c] # <<>>
    /\ inbox' = [inbox EXCEPT ![c] = Tail(@)]
    /\ ready' = IF \E d \in Clients : inbox'[d] # <<>> THEN ready ELSE Tail(ready)
    /\ hearing' = {Head(inbox[c])}
    /\ heap' = [heap EXCEPT ![Head(inbox[c])] = {"message"} \cup Frames]
    /\ frames' = <<"identity", "body">>
    /\ phase' = "listener"
    /\ UNCHANGED <<qvars, bound, clients, outbox, kept, timevars>>

(* The other index: one request, here of c, is received, and the listener   *)
(* is called with it.                                                       *)
Hear(c) ==
    /\ loop = "free" /\ phase = "dispatch"
    /\ ready # <<>> /\ Head(ready) = "router"
    /\ ready' = Tail(ready)
    /\ inbox[c] # <<>>
    /\ inbox' = [inbox EXCEPT ![c] = Tail(@)]
    /\ hearing' = {Head(inbox[c])}
    /\ heap' = [heap EXCEPT ![Head(inbox[c])] = {"message"} \cup Frames]
    /\ frames' = <<"identity", "body">>
    /\ phase' = "listener"
    /\ UNCHANGED <<qvars, bound, clients, outbox, kept, timevars>>

(* Which client's it is, is the router's choice. *)
DispatchRouter == \E c \in Clients : Hear(c)

(* The listener returns.  Of its message only an identity it kept is still  *)
(* referred to; the rest, if allocated, stays so with nobody to free it.    *)
ListenerDone ==
    /\ InUserCode /\ phase = "listener"
    /\ phase' = "dispatch"
    /\ hearing' = {}
    /\ frames' = <<>>
    /\ heap' = [r \in Request |-> IF r \in kept THEN heap[r] \cap {"identity"} ELSE {}]
    /\ UNCHANGED <<qvars, ready, peervars, kept, timevars>>

DispatchDone ==
    /\ loop = "free" /\ phase = "dispatch"
    /\ ready = <<>>
    /\ phase' = "top"
    /\ UNCHANGED <<qvars, ready, peervars, msgvars, timevars>>

STakeQuery   == TakeQuery /\ UNCHANGED lvars
STakeRefused == TakeRefused /\ UNCHANGED lvars
SBlockDone   == InUserCode /\ BlockDone /\ UNCHANGED lvars

(* A callback throws, or loopStateProducer does. *)
SUserThrow == (InUserCode \/ phase = "setup") /\ UserThrow /\ UNCHANGED lvars

-----------------------------------------------------------------------------
(* What the listener does with its message *)

(* The message is in the listener's hands and not closed. *)
Holds(r) == InUserCode /\ phase = "listener" /\ r \in hearing /\ "message" \in heap[r]

(* Fault: the popped frame is destroyed, as its memory would otherwise leak. *)
PopIdentity_Free(r) ==
    /\ Holds(r)
    /\ frames # <<>> /\ Head(frames) = "identity"
    /\ frames' = Tail(frames)
    /\ kept' = kept \cup {r}
    /\ heap' = [heap EXCEPT ![r] = @ \ {"identity"}]
    /\ UNCHANGED <<qvars, phase, ready, peervars, hearing, timevars>>

(* popBytes: zmsg_pop gives the frame away; the BinaryData is a pointer     *)
(* into it and nothing ever destroys it.                                    *)
PopIdentity(r) ==
    /\ Holds(r)
    /\ frames # <<>> /\ Head(frames) = "identity"
    /\ frames' = Tail(frames)
    /\ kept' = kept \cup {r}
    /\ UNCHANGED <<qvars, phase, ready, peervars, hearing, heap, timevars>>

(* popString: zmsg_popstr copies the frame to a fresh string and destroys   *)
(* it; toKString copies again and nothing frees the first copy.             *)
PopString(r) ==
    /\ Holds(r)
    /\ frames # <<>> /\ Head(frames) = "body"
    /\ frames' = Tail(frames)
    /\ heap' = [heap EXCEPT ![r] = (@ \ {"body"}) \cup {"string"}]
    /\ UNCHANGED <<qvars, phase, ready, peervars, hearing, kept, timevars>>

(* Fault: only the message itself is freed. *)
CloseMsg_Shallow(r) ==
    /\ Holds(r)
    /\ heap' = [heap EXCEPT ![r] = @ \ {"message"}]
    /\ frames' = <<>>
    /\ UNCHANGED <<qvars, phase, ready, peervars, hearing, kept, timevars>>

(* close: the message and the frames still in it are destroyed. *)
CloseMsg(r) ==
    /\ Holds(r)
    /\ heap' = [heap EXCEPT ![r] = @ \ ({"message"} \cup Elements(frames))]
    /\ frames' = <<>>
    /\ UNCHANGED <<qvars, phase, ready, peervars, hearing, kept, timevars>>

-----------------------------------------------------------------------------
(* What user code does with the scope *)

(* User code drops the identity it kept of r: nothing refers to the frame. *)
Forget(r) ==
    /\ InUserCode
    /\ r \in kept \ hearing
    /\ kept' = kept \ {r}
    /\ heap' = [heap EXCEPT ![r] = {}]
    /\ UNCHANGED <<qvars, phase, ready, peervars, hearing, frames, timevars>>

(* Fault: the reply goes out unconditionally. *)
SendMessage_NoMark(r) ==
    /\ InUserCode /\ r \in kept
    /\ \E c \in Addressee(r) : outbox' = [outbox EXCEPT ![c] = Append(@, r)]
    /\ UNCHANGED <<qvars, phase, ready, bound, clients, inbox,
                   msgvars, timevars>>

(* sendMessage of a reply whose first frame is the identity kept of r.  A   *)
(* router never blocks: what it cannot deliver, because the peer is gone or *)
(* PeerHWM replies are on their way to it, it drops, and nothing changes.   *)
SendMessage(r) ==
    /\ InUserCode
    /\ r \in kept
    /\ \E c \in Addressee(r) :
          /\ clients[c] = "up" /\ Len(outbox[c]) < PeerHWM
          /\ outbox' = [outbox EXCEPT ![c] = Append(@, r)]
    /\ UNCHANGED <<qvars, phase, ready, bound, clients, inbox,
                   msgvars, timevars>>

InvokeAfterTimeout(b) ==
    /\ InUserCode
    /\ b \notin scheduled \cup fired
    /\ scheduled' = scheduled \cup {b}
    /\ UNCHANGED <<qvars, phase, ready, peervars, msgvars, fired>>

(* invokeSafe and stopSafe, from user threads and from the callbacks. *)
SInvokeSafe(t, b) ==
    (t = Worker => InUserCode) /\ InvokeSafe(t, b) /\ UNCHANGED lvars
SPingSent(t) == PingSent(t) /\ UNCHANGED lvars
SStopSafe(t) == (t = Worker => InUserCode) /\ StopSafe(t) /\ UNCHANGED lvars
SDispose(t) == Dispose(t) /\ UNCHANGED lvars
SAccessRefused(t) ==
    (t = Worker => InUserCode) /\ AccessRefused(t) /\ UNCHANGED lvars

-----------------------------------------------------------------------------
(* The world outside *)

(* A request of c reaches the router (one that is lost on the way is, to    *)
(* the server, one that was never sent).                                    *)
Arrives(c) ==
    /\ bound
    /\ clients[c] # "gone"
    /\ clients' = [clients EXCEPT ![c] = "up"]
    /\ \E r \in Request :
          /\ r.client = c /\ r \notin Elements(inbox[c]) \cup hearing \cup kept
          /\ inbox' = [inbox EXCEPT ![c] = Append(@, r)]
    /\ UNCHANGED <<qvars, phase, ready, bound, outbox, msgvars, timevars>>

TakeAnswer(c) ==
    /\ outbox[c] # <<>>
    /\ outbox' = [outbox EXCEPT ![c] = Tail(@)]
    /\ UNCHANGED <<qvars, phase, ready, bound, clients, inbox, msgvars, timevars>>

(* A client closes its socket or dies: the replies on their way are lost,   *)
(* the requests that arrived are not.                                       *)
Disconnect(c) ==
    /\ clients[c] = "up"
    /\ clients' = [clients EXCEPT ![c] = "gone"]
    /\ outbox' = [outbox EXCEPT ![c] = <<>>]
    /\ UNCHANGED <<qvars, phase, ready, bound, inbox, msgvars, timevars>>

-----------------------------------------------------------------------------
LoopStep == \/ SConnect \/ BindRouter \/ Iterate \/ SLoopExit
            \/ RunScheduled \/ ScheduledDone \/ TimersDrained
            \/ PollReady \/ DispatchPong \/ DispatchRouter
            \/ ListenerDone \/ DispatchDone
            \/ STakeQuery \/ STakeRefused \/ SBlockDone \/ SUserThrow

UserStep == \/ \E r \in Request : \/ PopIdentity(r) \/ PopString(r) \/ CloseMsg(r)
                                   \/ SendMessage(r) \/ Forget(r)
            \/ \E b \in Timers : InvokeAfterTimeout(b)

CallStep == \E t \in Callers :
               \/ SPingSent(t) \/ SStopSafe(t) \/ SDispose(t) \/ SAccessRefused(t)
               \/ \E b \in Blocks : SInvokeSafe(t, b)

PeerStep == \E c \in Clients : Arrives(c) \/ TakeAnswer(c) \/ Disconnect(c)

SNext == LoopStep \/ UserStep \/ CallStep \/ PeerStep

SSpec == SInit /\ [][SNext]_svars

(* As in ClientLoop: the loop's thread is scheduled, callbacks end, pings   *)
(* that can be sent are.  Clients need not read, or ask, or stay.  A router *)
(* hands over the requests of its peers in turn, none of them never.        *)
LoopProgress == \/ SConnect \/ BindRouter \/ Iterate \/ SLoopExit \/ RunScheduled
                \/ TimersDrained \/ PollReady \/ DispatchPong \/ DispatchRouter
                \/ DispatchDone \/ STakeQuery \/ STakeRefused
CallbackEnds == ScheduledDone \/ ListenerDone \/ SBlockDone

SFairness ==
    /\ WF_svars(LoopProgress)
    /\ SF_svars(CallbackEnds)
    /\ \A c \in Clients : SF_svars(Hear(c))
    /\ \A t \in Callers : WF_svars(SPingSent(t)) /\ WF_svars(SDispose(t))

SFairSpec == SSpec /\ SFairness

-----------------------------------------------------------------------------
(* Properties *)

Dead == loop \in {"stopped", "crashed"}

(* A reply goes to the client whose request it answers and no other,        *)
(* whenever it is sent: from the listener or from a later callback, after   *)
(* the request's message was closed, with other requests heard in between.  *)
RepliesReachAsker ==
    \A c \in Clients : \A r \in Elements(outbox[c]) : r.client = c

(* close frees the frames still in the message and no others: those of an   *)
(* open message are there; of a closed one only what the listener popped is *)
(* left; and an identity outlives its message while a reply may name it.    *)
(* Of what is left PoppedDestroyed speaks.                                  *)
MessagesFreed ==
    /\ \A r \in hearing :
          IF "message" \in heap[r]
          THEN Elements(frames) \subseteq heap[r]
          ELSE "identity" \in heap[r] => r \in kept
    /\ \A r \in kept : "identity" \in heap[r]
    /\ \A r \in Request : "message" \notin heap[r] => "body" \notin heap[r]

(* zmsg.h, of zmsg_pop and zmsg_popstr: "Caller owns return value and must  *)
(* destroy it when done."  So when user code is done with what it popped of *)
(* a message it has closed, nothing of that is still allocated.             *)
PoppedDestroyed ==
    [][\A r \in Request :
         "message" \notin heap[r] /\ (ListenerDone \/ Forget(r)) => heap'[r] = heap[r]]_svars

(* Every request that arrived is heard, unless the loop ends first, however *)
(* many requests the other clients send without end, and whether or not the *)
(* clients read the replies or stay.                                        *)
RequestsHeard ==
    \A c \in Clients, r \in Request :
       (r \in Elements(inbox[c])) ~> (r \notin Elements(inbox[c]) \/ Dead)

(* "Invokes [block] in the loop thread", in the midst of requests without   *)
(* end: a ping has its turn in the iteration after it was sent.             *)
ServerRunsBlocks ==
    \A b \in Blocks : AcceptedBeforeStop(b) ~> (b \in Elements(started) \/ Dead)
=============================================================================
