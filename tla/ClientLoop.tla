----------------------------- MODULE ClientLoop -----------------------------
(***************************************************************************)
(* The client's event loop (clientLoopJob, ClientLoopScope and the poller),*)
(* on top of the query queue.  One thread repeats: run the scheduled blocks*)
(* that are due, poll the pong socket and the forward sockets, handle what *)
(* was readable.  Blocks, listeners and scheduled blocks are user code in  *)
(* that thread: each may send to an address (a dealer socket is created on *)
(* first use), remove an address, schedule a block, call invokeSafe or     *)
(* stopSafe, in any order and any number of times.  socketStateProducer is *)
(* user code too, in the middle of the sendMessage that creates a socket.  *)
(*                                                                         *)
(* Every step is a step of QueryQueue or leaves its variables alone.       *)
(***************************************************************************)
EXTENDS QueryQueue

CONSTANTS Platform,    \* native or jvm
          Addresses,   \* the addresses user code names
          Sockets,     \* dealer sockets: a bound on how many are ever created
          SndHWM,      \* messages a socket holds for its peer before send blocks
          RcvHWM,      \* messages a socket holds for the loop
          Timers,      \* the blocks passed to invokeAfterTimeout, one per call
          Delays,      \* the timeouts they are passed with
          MaxTime      \* bound on the clock

ASSUME PlatformAssumption == Platform \in {"native", "jvm"}
ASSUME SocketHwmAssumption == SndHWM \in Nat \ {0} /\ RcvHWM \in Nat \ {0}
ASSUME DelaysAssumption == Delays \subseteq Nat /\ MaxTime \in Nat
ASSUME WorkerCallsAssumption == Worker \in Callers

VARIABLES phase,          \* where the loop's thread is in its iteration
          forwardSockets, \* the LinkedHashMap: entries in insertion order
          sock,           \* per socket: unused, open or closed
          creating,       \* the sendMessages inside socketStateProducer, a stack
          lost,           \* history: sockets whose sendMessage threw
          shadowed,       \* history: sockets whose entry was overwritten
          sending,        \* the socket a sendMessage in progress sends on
          hearing,        \* the socket whose listener is running
          outbox,         \* per socket, messages on their way to the peer
          inbox,          \* per socket, messages received and not yet read
          ready,          \* what the last poll found readable, not yet handled:
                          \* sockets, by their key in what was polled
          scheduled,      \* the priority queue: records of time and block
          fired,          \* history: the scheduled blocks started
          now,            \* the clock
          currentTime     \* the clock as read at the top of the iteration

mapvars   == <<forwardSockets, sock, creating, lost, shadowed>>
sockvars  == <<mapvars, sending, outbox, inbox>>
timevars  == <<scheduled, fired, now, currentTime>>
lvars     == <<phase, ready, hearing, sockvars, timevars>>
cvars     == <<qvars, lvars>>

Entry == [address : Addresses, socket : Sockets]
Timed == [time : 0..MaxTime, block : Timers]

(* The pong socket, which is no forward socket. *)
Pong == [pong |-> TRUE]
ASSUME PongAssumption == Pong \notin Sockets

CTypeOK == /\ TypeOK
           /\ phase \in {"setup", "top", "timers", "timer", "poll", "dispatch", "listener"}
           /\ forwardSockets \in Seq(Entry)
           /\ sock \in [Sockets -> {"unused", "open", "closed"}]
           /\ creating \in Seq(Entry)
           /\ lost \in SUBSET Sockets
           /\ shadowed \in SUBSET Sockets
           /\ sending \in SUBSET Sockets
           /\ hearing \in SUBSET Sockets
           /\ outbox \in [Sockets -> 0..SndHWM]
           /\ inbox \in [Sockets -> 0..RcvHWM]
           /\ ready \in [DOMAIN ready -> Sockets \cup {Pong}]
           /\ DOMAIN ready \subseteq IF Platform = "native" THEN Nat \ {0}
                                    ELSE Sockets \cup {Pong}
           /\ scheduled \in SUBSET Timed
           /\ fired \in SUBSET Timers
           /\ now \in 0..MaxTime
           /\ currentTime \in 0..MaxTime

-----------------------------------------------------------------------------
(* Helpers *)

(* The keys of forwardSockets, the entry of one, and the entries' sockets.  *)
Managed == {e.address : e \in Elements(forwardSockets)}
EntryOf(a) == CHOOSE e \in Elements(forwardSockets) : e.address = a
Held == {e.socket : e \in Elements(forwardSockets)}

(* forwardSockets[e.address] = ..: in place, if the key is there. *)
Put(e) == IF e.address \in Managed
          THEN [i \in DOMAIN forwardSockets |->
                  IF forwardSockets[i].address = e.address THEN e ELSE forwardSockets[i]]
          ELSE Append(forwardSockets, e)

InCalls   == {e.socket : e \in Elements(creating)}
Innermost == creating[Len(creating)]
Return    == creating' = SubSeq(creating, 1, Len(creating) - 1)

Armed == {e.block : e \in scheduled} \cup fired

(* Fault: compareTo the wrong way round. *)
Earliest_Reversed(e) == e \in scheduled /\ \A f \in scheduled : e.time >= f.time

(* peek: an entry with the least time; ties come in no particular order. *)
Earliest(e) == e \in scheduled /\ \A f \in scheduled : e.time <= f.time
NothingDue  == \A e \in scheduled : Earliest(e) => e.time > currentTime

(* The loop's thread is in user code, and not inside a call it made. *)
InUserCode == /\ \/ loop = "running"
                 \/ loop = "free" /\ phase \in {"timer", "listener"}
              /\ WorkerIdle
              /\ sending = {}

(* A callback of the loop is about to end: no sendMessage of it is open. *)
CallbackOver == InUserCode /\ creating = <<>>

(* On the JVM a handler stays registered for good: remove hands unregister  *)
(* the ZmqSocket, and register was handed the raw socket inside it.         *)
Closed     == {s \in Sockets : sock[s] = "closed"}
Registered == Held \cup shadowed \cup Closed
Stale      == IF Platform = "native" THEN {} ELSE Closed

(* What poll polls: on native the list made before it, the pong socket      *)
(* first; on the JVM the sockets with a handler, which have no order.       *)
Polled == IF Platform = "native"
          THEN <<Pong>> \o [i \in DOMAIN forwardSockets |-> forwardSockets[i].socket]
          ELSE [x \in {Pong} \cup Registered |-> x]

CanRead(x) == IF x = Pong THEN pipe > 0 ELSE inbox[x] > 0

(* The keys at which poll finds something to read. *)
Readable == {i \in DOMAIN Polled : CanRead(Polled[i])}

(* The key of ready handled next: zmq_poll's array is walked in order; *)
(* ZPoller promises no order.                                              *)
Turn(i) == /\ i \in DOMAIN ready
           /\ Platform = "native" => \A j \in DOMAIN ready : i <= j
ReadyBut(i) == [j \in DOMAIN ready \ {i} |-> ready[j]]

Without(s, i) == SubSeq(s, 1, i - 1) \o SubSeq(s, i + 1, Len(s))

CInit == /\ Init
         /\ phase = "setup"
         /\ forwardSockets = <<>>
         /\ sock = [s \in Sockets |-> "unused"]
         /\ creating = <<>>
         /\ lost = {}
         /\ shadowed = {}
         /\ sending = {}
         /\ hearing = {}
         /\ outbox = [s \in Sockets |-> 0]
         /\ inbox = [s \in Sockets |-> 0]
         /\ ready = <<>>
         /\ scheduled = {}
         /\ fired = {}
         /\ now = 0
         /\ currentTime = 0

-----------------------------------------------------------------------------
(* The iteration *)

LConnect == Connect /\ UNCHANGED lvars

(* loopStateProducer returns: the scope is made. *)
Start ==
    /\ loop = "free" /\ phase = "setup"
    /\ phase' = "top"
    /\ UNCHANGED <<qvars, ready, hearing, sockvars, timevars>>

(* while (!isStopped): the clock is read once per iteration. *)
Iterate ==
    /\ loop = "free" /\ phase = "top"
    /\ ~isStopped
    /\ currentTime' = now
    /\ phase' = "timers"
    /\ UNCHANGED <<qvars, ready, hearing, sockvars, scheduled, fired, now>>

LLoopExit == /\ phase = "top"
             /\ LoopExit
             /\ UNCHANGED lvars

(* Fault: the time of the block is not looked at. *)
RunScheduled_Early ==
    /\ loop = "free" /\ phase = "timers"
    /\ \E e \in scheduled :
          /\ Earliest(e)
          /\ scheduled' = scheduled \ {e}
          /\ fired' = fired \cup {e.block}
    /\ phase' = "timer"
    /\ UNCHANGED <<qvars, ready, hearing, sockvars, now, currentTime>>

(* The earliest scheduled block is due: it is removed and begins. *)
RunScheduled ==
    /\ loop = "free" /\ phase = "timers"
    /\ \E e \in scheduled :
          /\ Earliest(e)
          /\ e.time <= currentTime
          /\ scheduled' = scheduled \ {e}
          /\ fired' = fired \cup {e.block}
    /\ phase' = "timer"
    /\ UNCHANGED <<qvars, ready, hearing, sockvars, now, currentTime>>

ScheduledDone ==
    /\ CallbackOver /\ phase = "timer"
    /\ phase' = "timers"
    /\ UNCHANGED <<qvars, ready, hearing, sockvars, timevars>>

(* None is due: on to poll, with the sockets managed at this moment. *)
TimersDrained ==
    /\ loop = "free" /\ phase = "timers"
    /\ NothingDue
    /\ phase' = "poll"
    /\ UNCHANGED <<qvars, ready, hearing, sockvars, timevars>>

(* poll returns with what is readable; what it makes of a closed socket is  *)
(* not defined.                                                             *)
PollReady ==
    /\ loop = "free" /\ phase = "poll"
    /\ \E more \in SUBSET Stale :
          LET found == Readable \cup more IN
          /\ found # {}
          /\ ready' = [i \in found |-> Polled[i]]
    /\ phase' = "dispatch"
    /\ UNCHANGED <<qvars, hearing, sockvars, timevars>>

(* Fault: the timeout of poll is forgotten. *)
PollTimeout_Never == FALSE /\ UNCHANGED cvars

(* poller.poll(1000L) gives up; zmq_poll(..., -1) never does. *)
PollTimeout ==
    /\ loop = "free" /\ phase = "poll"
    /\ Platform = "jvm"
    /\ Readable = {} \/ Stale # {}
    /\ phase' = "top"
    /\ UNCHANGED <<qvars, ready, hearing, sockvars, timevars>>

(* A closed socket among the polled ones may make poll throw. *)
PollThrows ==
    /\ loop = "free" /\ phase = "poll"
    /\ Stale # {}
    /\ loop' = "crashed"
    /\ UNCHANGED <<queue, pipe, call, disposed, isStopped, log, started, lvars>>

(* Fault: handlePongSocket without the recv. *)
DispatchPong_NoRecv ==
    /\ loop = "free" /\ phase = "dispatch"
    /\ \E i \in DOMAIN ready : /\ Turn(i) /\ ready[i] = Pong
                               /\ ready' = ReadyBut(i)
    /\ loop' = "taking"
    /\ UNCHANGED <<queue, pipe, call, disposed, isStopped, log, started,
                   phase, hearing, sockvars, timevars>>

(* The pong socket's turn: one ping is received for handlePongSocket. *)
DispatchPong ==
    /\ phase = "dispatch"
    /\ RecvPong
    /\ \E i \in DOMAIN ready : /\ Turn(i) /\ ready[i] = Pong
                               /\ ready' = ReadyBut(i)
    /\ UNCHANGED <<phase, hearing, sockvars, timevars>>

(* Fault: a socket has its turn until it has nothing more to read. *)
DispatchForward_Drain ==
    /\ loop = "free" /\ phase = "dispatch"
    /\ \E i \in DOMAIN ready :
          LET s == ready[i] IN
          /\ Turn(i) /\ s # Pong /\ sock[s] = "open"
          /\ IF inbox[s] > 0
             THEN /\ inbox' = [inbox EXCEPT ![s] = @ - 1]
                  /\ phase' = "listener" /\ hearing' = {s}
                  /\ UNCHANGED ready
             ELSE ready' = ReadyBut(i) /\ UNCHANGED <<inbox, phase, hearing>>
    /\ UNCHANGED <<qvars, mapvars, sending, outbox, timevars>>

(* A forward socket's turn: its listener is called with one message.  If    *)
(* user code closed the socket since it was polled, recv yields null and    *)
(* the !! throws; on the JVM a message may still be found there.            *)
DispatchForward ==
    /\ loop = "free" /\ phase = "dispatch"
    /\ \E i \in DOMAIN ready :
          LET s == ready[i] IN
          /\ Turn(i) /\ s # Pong
          /\ ready' = ReadyBut(i)
          /\ \/ /\ sock[s] = "open" \/ Platform = "jvm"
                /\ inbox' = [inbox EXCEPT ![s] = IF sock[s] = "open" THEN @ - 1 ELSE @]
                /\ phase' = "listener"
                /\ hearing' = {s}
                /\ UNCHANGED loop
             \/ /\ sock[s] = "closed"
                /\ loop' = "crashed"
                /\ UNCHANGED <<inbox, phase, hearing>>
    /\ UNCHANGED <<queue, pipe, call, disposed, isStopped, log, started,
                   mapvars, sending, outbox, timevars>>

ListenerDone ==
    /\ CallbackOver /\ phase = "listener"
    /\ phase' = "dispatch"
    /\ hearing' = {}
    /\ UNCHANGED <<qvars, ready, sockvars, timevars>>

DispatchDone ==
    /\ loop = "free" /\ phase = "dispatch"
    /\ DOMAIN ready = {}
    /\ phase' = "top"
    /\ UNCHANGED <<qvars, ready, hearing, sockvars, timevars>>

LTakeQuery   == TakeQuery /\ UNCHANGED lvars
LTakeRefused == TakeRefused /\ UNCHANGED lvars
LBlockDone   == CallbackOver /\ BlockDone /\ UNCHANGED lvars
LUserThrow   == (phase = "setup" \/ CallbackOver) /\ UserThrow /\ UNCHANGED lvars

-----------------------------------------------------------------------------
(* What user code does with the scope *)

(* sendMessage: the send on the socket of the address begins; if it has     *)
(* none, one is created and connected, and socketStateProducer begins.      *)
SendMessage(a) ==
    /\ InUserCode
    /\ \/ /\ a \in Managed
          /\ sending' = {EntryOf(a).socket}
          /\ UNCHANGED <<sock, creating>>
       \/ /\ a \notin Managed
          /\ \E s \in Sockets :
                /\ sock[s] = "unused"
                /\ sock' = [sock EXCEPT ![s] = "open"]
                /\ creating' = Append(creating, [address |-> a, socket |-> s])
          /\ UNCHANGED sending
    /\ UNCHANGED <<qvars, phase, ready, hearing, forwardSockets, lost, shadowed,
                   outbox, inbox, timevars>>

(* The producer returns: the socket goes into the map, in place of one that *)
(* the producer itself caused to be there, and the send on it begins.       *)
Produced ==
    /\ InUserCode /\ creating # <<>>
    /\ forwardSockets' = Put(Innermost)
    /\ shadowed' = shadowed \cup {e.socket : e \in
                       {d \in Elements(forwardSockets) : d.address = Innermost.address}}
    /\ sending' = {Innermost.socket}
    /\ Return
    /\ UNCHANGED <<qvars, phase, ready, hearing, sock, lost, outbox, inbox, timevars>>

(* The producer throws, into the user code that called sendMessage. *)
ProducerThrows ==
    /\ MayThrow
    /\ InUserCode /\ creating # <<>>
    /\ lost' = lost \cup {Innermost.socket}
    /\ Return
    /\ UNCHANGED <<qvars, phase, ready, hearing, forwardSockets, sock, shadowed,
                   sending, outbox, inbox, timevars>>

(* Fault: the send does not wait for room. *)
Sent_NoWait == \E s \in sending :
    /\ outbox' = [outbox EXCEPT ![s] = @ + 1]
    /\ sending' = {}
    /\ UNCHANGED <<qvars, phase, ready, hearing, mapvars, inbox, timevars>>

(* msg.send(socket) returns; it blocks while the socket holds SndHWM. *)
Sent == \E s \in sending :
    /\ outbox[s] < SndHWM
    /\ outbox' = [outbox EXCEPT ![s] = @ + 1]
    /\ sending' = {}
    /\ UNCHANGED <<qvars, phase, ready, hearing, mapvars, inbox, timevars>>

(* Fault: the socket is not closed. *)
Remove_NoClose(a) ==
    /\ InUserCode
    /\ \E i \in DOMAIN forwardSockets :
          /\ forwardSockets[i].address = a
          /\ forwardSockets' = Without(forwardSockets, i)
    /\ UNCHANGED <<qvars, phase, ready, hearing, sock, creating, lost, shadowed,
                   sending, outbox, inbox, timevars>>

(* remove: the entry leaves the map and its socket is closed; what it had   *)
(* not read is lost, what it had not sent no longer blocks the loop.  On    *)
(* the JVM its handler stays: see Registered.                               *)
Remove(a) ==
    /\ InUserCode
    /\ \E i \in DOMAIN forwardSockets :
          LET s == forwardSockets[i].socket IN
          /\ forwardSockets[i].address = a
          /\ forwardSockets' = Without(forwardSockets, i)
          /\ sock' = [sock EXCEPT ![s] = "closed"]
          /\ outbox' = [outbox EXCEPT ![s] = 0]
          /\ inbox' = [inbox EXCEPT ![s] = 0]
    /\ UNCHANGED <<qvars, phase, ready, hearing, creating, lost, shadowed, sending,
                   timevars>>

InvokeAfterTimeout(d, b) ==
    /\ InUserCode
    /\ b \notin Armed
    /\ now + d <= MaxTime
    /\ scheduled' = scheduled \cup {[time |-> now + d, block |-> b]}
    /\ UNCHANGED <<qvars, phase, ready, hearing, sockvars, fired, now, currentTime>>

(* invokeSafe and stopSafe, from user threads and from the callbacks. *)
LInvokeSafe(t, b) ==
    (t = Worker => InUserCode) /\ InvokeSafe(t, b) /\ UNCHANGED lvars
LPingSent(t) == PingSent(t) /\ UNCHANGED lvars
LStopSafe(t) == (t = Worker => InUserCode) /\ StopSafe(t) /\ UNCHANGED lvars
LDispose(t) == Dispose(t) /\ UNCHANGED lvars
LAccessRefused(t) ==
    (t = Worker => InUserCode) /\ AccessRefused(t) /\ UNCHANGED lvars

-----------------------------------------------------------------------------
(* The world outside *)

Tick == /\ now < MaxTime
        /\ now' = now + 1
        /\ UNCHANGED <<qvars, phase, ready, hearing, sockvars, scheduled, fired, currentTime>>

(* The peer takes a message and may answer it. *)
PeerTakes(s) ==
    /\ sock[s] = "open" /\ outbox[s] > 0
    /\ outbox' = [outbox EXCEPT ![s] = @ - 1]
    /\ \/ UNCHANGED inbox
       \/ inbox[s] < RcvHWM /\ inbox' = [inbox EXCEPT ![s] = @ + 1]
    /\ UNCHANGED <<qvars, phase, ready, hearing, mapvars, sending, timevars>>

-----------------------------------------------------------------------------
LoopStep == \/ LConnect \/ Start \/ Iterate \/ LLoopExit
            \/ RunScheduled \/ ScheduledDone \/ TimersDrained
            \/ PollReady \/ PollTimeout \/ PollThrows
            \/ DispatchPong \/ DispatchForward \/ ListenerDone \/ DispatchDone
            \/ LTakeQuery \/ LTakeRefused \/ LBlockDone \/ LUserThrow

UserStep == \/ \E a \in Addresses : SendMessage(a) \/ Remove(a)
            \/ Produced \/ ProducerThrows \/ Sent
            \/ \E d \in Delays, b \in Timers : InvokeAfterTimeout(d, b)

CallStep == \E t \in Callers :
               \/ LPingSent(t) \/ LStopSafe(t) \/ LDispose(t) \/ LAccessRefused(t)
               \/ \E b \in Blocks : LInvokeSafe(t, b)

CNext == \/ LoopStep \/ UserStep \/ CallStep
         \/ Tick
         \/ \E s \in Sockets : PeerTakes(s)

CSpec == CInit /\ [][CNext]_cvars

(* One step of the loop's own code is enabled at a time, so the thread's    *)
(* scheduling is weak fairness of their disjunction. *)
LoopProgress == \/ LConnect \/ Start \/ Iterate \/ LLoopExit
                \/ RunScheduled \/ TimersDrained
                \/ PollReady \/ PollTimeout \/ PollThrows \/ DispatchPong \/ DispatchForward
                \/ DispatchDone \/ LTakeQuery \/ LTakeRefused

(* Callbacks end, however many calls they make. *)
CallbackEnds == ScheduledDone \/ ListenerDone \/ LBlockDone

(* Nothing is asked of the peers: a send may find its socket full for ever. *)
CFairness ==
    /\ WF_cvars(LoopProgress)
    /\ SF_cvars(CallbackEnds) /\ SF_cvars(Produced)
    /\ WF_cvars(Sent) /\ WF_cvars(Tick)
    /\ \A t \in Callers : WF_cvars(LPingSent(t)) /\ WF_cvars(LDispose(t))

CFairSpec == CSpec /\ CFairness

-----------------------------------------------------------------------------
(* Properties *)

Dead == loop \in {"stopped", "crashed"}

(* A sendMessage waits for a socket whose peer does not read. *)
Blocked == \E s \in sending : outbox[s] = SndHWM

(* No socket leaks unseen and none is shared, whatever mix of sendMessage   *)
(* and remove the callbacks and producers made: the open sockets are those  *)
(* of the map's entries and of the sendMessages in progress, and two kinds  *)
(* that nothing will close, left by a producer that threw and by an entry   *)
(* that a producer's own sendMessage had put there before.                  *)
SocketsAccounted ==
    /\ {s \in Sockets : sock[s] = "open"} = Held \cup InCalls \cup lost \cup shadowed
    /\ Held \cap (InCalls \cup lost \cup shadowed) = {}
    /\ \A i, j \in DOMAIN forwardSockets :
          (\/ forwardSockets[i].address = forwardSockets[j].address
           \/ forwardSockets[i].socket = forwardSockets[j].socket) => i = j

(* The loop goes to sleep in poll only when no scheduled block was due at   *)
(* the top of the iteration, even if blocks that ran scheduled others.      *)
SleepsWithNothingDue ==
    phase = "poll" => \A e \in scheduled : e.time > currentTime

(* Scheduled blocks run no earlier than asked, and before every block that  *)
(* is scheduled for a later time ("Timeout is NOT exact": late is allowed). *)
TimersInOrder ==
    [][\A e \in scheduled \ scheduled' :
          /\ e.time <= now
          /\ \A f \in scheduled' : e.time <= f.time]_cvars

(* The loop as a whole uses the queue as QueryQueue says; what throws in    *)
(* its own code is, for the queue, one more exception in user code.         *)
Q == INSTANCE QueryQueue WITH MayThrow <- TRUE
ImplementsQueue == Q!Spec

(* The !! after recv: no exception but those of user code ends the loop. *)
LoopSurvives == loop # "crashed"

(* Only a remove can make the loop throw of itself: without one, every turn *)
(* finds its message and every ping its query.                              *)
SurvivesUnlessRemoved == Closed = {} => loop # "crashed"

(* "Invokes the lambda in event loop thread after timeout": a scheduled     *)
(* block runs, unless the loop ends first or a send blocks it for ever.     *)
ScheduledBlocksRun ==
    \/ <>[]Blocked
    \/ \A b \in Timers : (b \in Armed) ~> (b \in fired \/ Dead)

(* A message waiting on a registered socket gets its listener called,       *)
(* however much arrives elsewhere, unless the loop ends or a send blocks it *)
(* for ever; or, on the JVM, some socket was removed.                       *)
MessagesHeard ==
    \/ <>[]Blocked
    \/ \A s \in Sockets :
          (inbox[s] > 0) ~> (hearing = {s} \/ sock[s] = "closed" \/ Dead \/ Stale # {})

(* A block accepted before any stop query runs, however many messages its   *)
(* peers send, with the same exceptions.                                    *)
ClientRunsBlocks ==
    \/ <>[]Blocked
    \/ \A b \in Blocks :
          AcceptedBeforeStop(b) ~> (b \in Elements(started) \/ Dead \/ Stale # {})

(* "stop and close all managed sockets": a stopped loop has none open. *)
StopClosesSockets == loop = "stopped" => \A s \in Sockets : sock[s] # "open"
=============================================================================
