------------------------------- MODULE JsLoop -------------------------------
(***************************************************************************)
(* The client loop and the server loop of the JavaScript builds, in the one*)
(* thread of a JavaScript program.  invokeSafe runs its block at once, in  *)
(* the middle of whatever calls it, a stop or not; messages and setTimeout *)
(* callbacks are events, which start user code when nothing runs.  For the *)
(* loops all three are the same: user code, that may send to an address,   *)
(* remove one, bind or close a socket it was handed, stop a loop.          *)
(*                                                                         *)
(* One piece of user code runs inside the loop's own: socketStateProducer, *)
(* in the middle of the sendMessage that needs a new socket.               *)
(***************************************************************************)
EXTENDS NodeSocket, FiniteSets

CONSTANTS Addresses,  \* the addresses user code sends to
          Router,     \* the server's socket
          NoSocket,   \* null
          MaxCalls    \* bound on the calls of bind on all sockets together

ASSUME RouterAssumption == Router \in Sockets
ASSUME NoSocketAssumption == NoSocket \notin Sockets

VARIABLES forwardSockets, \* the map of the client loop
          creating,       \* the sendMessages inside socketStateProducer, a stack
          lost,           \* history: sockets whose sendMessage or constructor threw
          shadowed,       \* history: sockets whose entry was overwritten
          stopped,        \* history: the sockets managed when the client stopped
          server          \* the server loop: none, running, stopped or failed

clientvars == <<forwardSockets, creating, lost, shadowed, stopped>>
jvars      == <<sk, clientvars, server>>

Call == [address : Addresses, socket : Sockets]

JTypeOK == /\ SocketsOK
           /\ forwardSockets \in [Addresses -> Sockets \cup {NoSocket}]
           /\ creating \in Seq(Call)
           /\ lost \in SUBSET Sockets
           /\ shadowed \in SUBSET Sockets
           /\ stopped \in SUBSET Sockets
           /\ server \in {"none", "running", "stopped", "failed"}

-----------------------------------------------------------------------------
(* Helpers *)

Managed  == {forwardSockets[a] : a \in Addresses} \ {NoSocket}
InCalls  == {creating[i].socket : i \in DOMAIN creating}
Served   == IF server \in {"running", "stopped"} THEN {Router} ELSE {}
Innermost == creating[Len(creating)]
Return   == creating' = SubSeq(creating, 1, Len(creating) - 1)

(* The sockets user code can have a reference to, from a listener or from   *)
(* the scope of the server loop.                                            *)
Handed == {s \in Sockets : /\ sk[s].raw # "none"
                           /\ s \notin InCalls \cup lost
                           /\ s = Router => Router \in Served}

BindCalls == {c \in Sockets \X Endpoint : c[2] <= Binds(sk[c[1]])}

(* The event loop turns: no JavaScript is running. *)
Turn == creating = <<>>

JInit == /\ sk = [s \in Sockets |-> Uncreated]
         /\ forwardSockets = [a \in Addresses |-> NoSocket]
         /\ creating = <<>>
         /\ lost = {}
         /\ shadowed = {}
         /\ stopped = {}
         /\ server = "none"

-----------------------------------------------------------------------------
(* The client loop *)

(* sendMessage to an address without a socket: one is created and connected *)
(* and socketStateProducer begins.  (To an address with one it only sends.) *)
SendMessage(a) ==
    /\ forwardSockets[a] = NoSocket
    /\ \E s \in Sockets \ {Router} :
          /\ sk[s].raw = "none"
          /\ sk' = [sk EXCEPT ![s] = Connected(@)]
          /\ creating' = Append(creating, [address |-> a, socket |-> s])
    /\ UNCHANGED <<forwardSockets, lost, shadowed, stopped, server>>

(* The producer returns: the socket goes into the map, in place of one that *)
(* the producer itself caused to be there.                                  *)
Produced ==
    /\ creating # <<>>
    /\ LET a == Innermost.address
           s == Innermost.socket
       IN  /\ shadowed' = shadowed \cup ({forwardSockets[a]} \ {NoSocket})
           /\ forwardSockets' = [forwardSockets EXCEPT ![a] = s]
    /\ Return
    /\ UNCHANGED <<sk, lost, stopped, server>>

(* The producer throws, or connect did before it: nobody has the socket. *)
ProducerThrows ==
    /\ creating # <<>>
    /\ lost' = lost \cup {Innermost.socket}
    /\ Return
    /\ UNCHANGED <<sk, forwardSockets, shadowed, stopped, server>>

Remove(a) ==
    /\ forwardSockets[a] # NoSocket
    /\ Close({forwardSockets[a]})
    /\ forwardSockets' = [forwardSockets EXCEPT ![a] = NoSocket]
    /\ UNCHANGED <<creating, lost, shadowed, stopped, server>>

(* Fault: a socket that is being bound is skipped. *)
StopClient_SkipBusy ==
    /\ Close({s \in Managed : sk[s].bindFinished})
    /\ stopped' = stopped \cup Managed
    /\ UNCHANGED <<forwardSockets, creating, lost, shadowed, server>>

(* stopSafe: the sockets of the map are closed, and stay in the map; that   *)
(* the loop is stopped is recorded and never looked at.                     *)
StopClient ==
    /\ Close(Managed)
    /\ stopped' = stopped \cup Managed
    /\ UNCHANGED <<forwardSockets, creating, lost, shadowed, server>>

-----------------------------------------------------------------------------
(* The server loop *)

(* The constructor: the router is created, its bind begins, and             *)
(* loopStateProducer returns or throws; if either throws, there is no loop  *)
(* and nobody has the router.                                               *)
StartServer ==
    /\ server = "none"
    /\ \E throws \in BOOLEAN :
          /\ throws => Router \in WebSockets
          /\ sk' = [sk EXCEPT ![Router] =
                      Bound(Connected(@), Router \in WebSockets, 1, throws)]
          /\ server' \in IF throws THEN {"failed"} ELSE {"running", "failed"}
    /\ MaxBinds > 0
    /\ lost' = IF server' = "failed" THEN lost \cup {Router} ELSE lost
    /\ UNCHANGED <<forwardSockets, creating, shadowed, stopped>>

StopServer ==
    /\ server \in {"running", "stopped"}
    /\ Close({Router})
    /\ server' = "stopped"
    /\ UNCHANGED clientvars

-----------------------------------------------------------------------------
(* User code, and events *)

UserBind(s) ==
    /\ s \in Handed
    /\ Cardinality(BindCalls) < MaxCalls
    /\ Bind(s)
    /\ UNCHANGED <<clientvars, server>>

UserClose(s) == s \in Handed /\ Close({s}) /\ UNCHANGED <<clientvars, server>>

BindEnds(s) == Turn /\ BindCallback(s) /\ UNCHANGED <<clientvars, server>>

-----------------------------------------------------------------------------
JNext == \/ \E a \in Addresses : SendMessage(a) \/ Remove(a)
         \/ Produced \/ ProducerThrows
         \/ StopClient \/ StartServer \/ StopServer
         \/ \E s \in Sockets : UserBind(s) \/ UserClose(s) \/ BindEnds(s)

JSpec == JInit /\ [][JNext]_jvars

(* User code ends, and the event loop gives every callback its turn. *)
JFairness == /\ WF_jvars(Produced \/ ProducerThrows)
             /\ \A s \in Sockets : WF_jvars(BindEnds(s))

JFairSpec == JSpec /\ JFairness

-----------------------------------------------------------------------------
(* Properties *)

Open(s) == sk[s].raw \in {"ready", "busy"}

(* A close of s was asked for and is deferred, or the raw close threw. *)
CloseAsked(s) == sk[s].shouldClose \/ sk[s].failed

(* The loops know every socket they have opened, until it is closed or its  *)
(* close is deferred or has thrown, through any mix of sends, removes and   *)
(* binds; but for three, which leave a socket that nothing will close: a    *)
(* sendMessage that throws, one that its own producer overtakes, and a      *)
(* server's constructor that throws after the router is made.               *)
SocketsTracked ==
    \A s \in Sockets : Open(s) =>
        \/ s \in Managed \cup InCalls \cup Served
        \/ CloseAsked(s)
        \/ s \in lost \cup shadowed

(* "Stop and close all managed sockets": the sockets managed at a stop are  *)
(* closed, or their close waits for a bind or has thrown.                   *)
StopClosesManaged ==
    \A s \in stopped : Open(s) => CloseAsked(s)

(* "Sends a query to the loop to stop and close managed router socket",     *)
(* also when the stop comes before the bind has ended.                      *)
StopClosesRouter ==
    Router \notin WebSockets =>
        ((server = "stopped") ~> (sk[Router].raw = "closed"))
=============================================================================
