----------------------------- MODULE NodeSocket -----------------------------
(***************************************************************************)
(* The sockets of the JavaScript builds: ZmqSocket in front of a raw       *)
(* zeromq.js (TCP) or jszmq (WebSocket) socket.  A zeromq.js bind ends in a*)
(* callback, and until then the raw socket refuses every other operation,  *)
(* so the wrapper queues binds and defers a close.  A jszmq bind ends at   *)
(* once, or throws; a jszmq close may throw too, when it comes early.      *)
(***************************************************************************)
EXTENDS Integers, Sequences

CONSTANTS Sockets,     \* the ZmqSocket objects: a bound on how many are created
          WebSockets,  \* those that wrap a jszmq socket
          MaxBinds     \* bound on the calls of bind on a socket

ASSUME WebSocketsAssumption == WebSockets \subseteq Sockets
ASSUME MaxBindsAssumption   == MaxBinds \in Nat

VARIABLE sk  \* the sockets: the wrapper's fields and the raw socket

(* raw is "busy" from a bind to its callback.  The endpoint of the n-th     *)
(* call of bind is n; bound is the history of those given to the raw socket,*)
(* failed records that a close has thrown.                                  *)
Endpoint  == 1..MaxBinds
ZmqSocket == [raw          : {"none", "ready", "busy", "closed"},
              bindFinished : BOOLEAN,
              bindQueue    : Seq(Endpoint),
              shouldClose  : BOOLEAN,
              bound        : Seq(Endpoint),
              failed       : BOOLEAN]

Uncreated == [raw          |-> "none",
              bindFinished |-> TRUE,
              bindQueue    |-> <<>>,
              shouldClose  |-> FALSE,
              bound        |-> <<>>,
              failed       |-> FALSE]

(* The calls of bind so far: isClosed is never set, so each is queued or    *)
(* reaches the raw socket.                                                  *)
Binds(k) == Len(k.bound) + Len(k.bindQueue)

-----------------------------------------------------------------------------
(* What the wrapper's functions make of a socket *)

Connected(k) == [k EXCEPT !.raw = "ready"]

(* The TCP branch of bind: the flag goes down and the raw bind begins; on a *)
(* socket that is closed or busy it throws, and the flag stays down.        *)
StartBind(k, endpoint) ==
    [k EXCEPT !.bindFinished = FALSE,
              !.raw          = IF @ = "ready" THEN "busy" ELSE @,
              !.bound        = Append(@, endpoint)]

(* The WebSocket branch of bind; the flag stays down if the raw bind throws.*)
BindAtOnce(k, endpoint, throws) ==
    [k EXCEPT !.bindFinished = ~throws,
              !.bound        = Append(@, endpoint)]

(* bind: queued while another is under way. *)
Bound(k, webSocket, endpoint, throws) ==
    IF ~k.bindFinished THEN [k EXCEPT !.bindQueue = Append(@, endpoint)]
    ELSE IF webSocket THEN BindAtOnce(k, endpoint, throws)
    ELSE StartBind(k, endpoint)

(* Fault: a close that does not wait for the bind. *)
Closed_NoDefer(k, throws) ==
    [k EXCEPT !.shouldClose = FALSE,
              !.raw         = IF throws \/ @ = "busy" THEN @ ELSE "closed",
              !.failed      = @ \/ throws]

(* close: deferred while a bind is under way; what the raw close throws is  *)
(* printed and forgotten, and a busy raw socket always throws.              *)
Closed(k, throws) ==
    IF ~k.bindFinished THEN [k EXCEPT !.shouldClose = TRUE]
    ELSE [k EXCEPT !.shouldClose = FALSE,
                   !.raw         = IF throws \/ @ = "busy" THEN @ ELSE "closed",
                   !.failed      = @ \/ throws]

(* Fault: first() for removeFirst(). *)
BindCalledBack_Peek(k) ==
    LET free == [k EXCEPT !.raw = "ready", !.bindFinished = TRUE] IN
    IF k.bindQueue # <<>> THEN StartBind(free, Head(k.bindQueue))
    ELSE IF k.shouldClose THEN Closed(free, FALSE)
    ELSE free

(* Fault: removeLast() for removeFirst(). *)
BindCalledBack_Last(k) ==
    LET free == [k EXCEPT !.raw = "ready", !.bindFinished = TRUE]
        n    == Len(k.bindQueue) IN
    IF n > 0
    THEN StartBind([free EXCEPT !.bindQueue = SubSeq(@, 1, n - 1)], k.bindQueue[n])
    ELSE IF k.shouldClose THEN Closed(free, FALSE)
    ELSE free

(* Fault: the deferred close before the queued binds. *)
BindCalledBack_CloseFirst(k) ==
    LET free == [k EXCEPT !.raw = "ready", !.bindFinished = TRUE] IN
    IF k.shouldClose THEN Closed(free, FALSE)
    ELSE IF k.bindQueue # <<>>
    THEN StartBind([free EXCEPT !.bindQueue = Tail(@)], Head(k.bindQueue))
    ELSE free

(* Fault: the flag is raised at the end of the callback. *)
BindCalledBack_FlagLate(k) ==
    LET free == [k EXCEPT !.raw = "ready", !.bindFinished = TRUE] IN
    IF k.bindQueue # <<>>
    THEN [StartBind([free EXCEPT !.bindQueue = Tail(@)], Head(k.bindQueue))
             EXCEPT !.bindFinished = TRUE]
    ELSE IF k.shouldClose THEN Closed(free, FALSE)
    ELSE free

(* Fault: the deferred close is forgotten. *)
BindCalledBack_NoClose(k) ==
    LET free == [k EXCEPT !.raw = "ready", !.bindFinished = TRUE] IN
    IF k.bindQueue # <<>>
    THEN StartBind([free EXCEPT !.bindQueue = Tail(@)], Head(k.bindQueue))
    ELSE free

(* The callback of a TCP bind, whether it succeeded or not: the next queued *)
(* bind, or else the deferred close.                                        *)
BindCalledBack(k) ==
    LET free == [k EXCEPT !.raw = "ready", !.bindFinished = TRUE] IN
    IF k.bindQueue # <<>>
    THEN StartBind([free EXCEPT !.bindQueue = Tail(@)], Head(k.bindQueue))
    ELSE IF k.shouldClose THEN Closed(free, FALSE)
    ELSE free

-----------------------------------------------------------------------------
(* The steps of one socket *)

Bind(s) ==
    /\ sk[s].raw # "none"
    /\ Binds(sk[s]) < MaxBinds
    /\ \E throws \in BOOLEAN :
          /\ throws => s \in WebSockets
          /\ sk' = [sk EXCEPT ![s] =
                      Bound(@, s \in WebSockets, Binds(@) + 1, throws)]

BindCallback(s) ==
    /\ sk[s].raw = "busy"
    /\ sk' = [sk EXCEPT ![s] = BindCalledBack(@)]

(* close, called from outside a bind's callback; only jszmq throws early. *)
Close(S) ==
    \E early \in SUBSET (S \cap WebSockets) :
       sk' = [s \in Sockets |-> IF s \in S THEN Closed(sk[s], s \in early) ELSE sk[s]]

-----------------------------------------------------------------------------
(* Properties *)

SocketsOK == /\ sk \in [Sockets -> ZmqSocket]
             /\ \A s \in Sockets : Binds(sk[s]) <= MaxBinds

(* The flag tells when the raw socket may be touched: a busy one is never   *)
(* bound or closed, which would throw and, for a close, be lost.  What is   *)
(* queued or deferred has a bind to wait for: on TCP one that is under way, *)
(* or a socket that is closed already.                                      *)
FlagsAgree ==
    \A s \in Sockets :
       LET k == sk[s] IN
       /\ k.raw = "busy" => ~k.bindFinished
       /\ ~k.bindFinished => s \in WebSockets \/ k.raw \in {"busy", "closed"}
       /\ k.shouldClose \/ k.bindQueue # <<>> => ~k.bindFinished

(* The raw socket gets the binds in the order they were asked for, and      *)
(* those left are the last: none is lost, whatever closes come in between.  *)
BindsInOrder ==
    \A s \in Sockets :
       LET all == sk[s].bound \o sk[s].bindQueue
       IN  \A i \in DOMAIN all : all[i] = i

(* A close comes last and once: no bind is in the queue of a socket that is *)
(* closed, a closed one stays so whatever is called on it, and a close that *)
(* is deferred stays so until it happens or throws.                         *)
ClosesLast ==
    [][\A s \in Sockets :
          /\ sk[s].raw \in {"ready", "busy"} /\ sk'[s].raw = "closed" =>
                sk'[s].bindQueue = <<>>
          /\ sk[s].raw = "closed" => sk'[s].raw = "closed"
          /\ sk[s].shouldClose => \/ sk'[s].shouldClose
                                  \/ sk'[s].raw = "closed" \/ sk'[s].failed]_sk

(* A close that was deferred happens. *)
CloseHappens ==
    \A s \in Sockets \ WebSockets : sk[s].shouldClose ~> (sk[s].raw = "closed")
=============================================================================
