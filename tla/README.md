# TLA+ models and proofs for khala-internal

khala-internal is the Kotlin Multiplatform core of Khala RPC: event loops over
ZeroMQ for Kotlin/Native (Linux, Windows), the JVM, Node and the browser, a
serialization layer, and an events API that is still stubs. This directory holds
TLA+ modules that model it, TLC configurations that check them, and proofs that
TLAPS checks. Source paths below are short for
`src/src/<set>Main/kotlin/khala/internal/...`.

## 1. The system

| Part | State it keeps | Operations | Interacts through |
|---|---|---|---|
| Client loop, native and JVM (`zmq/client`) | `forwardSockets` (address to socket and state), `scheduledBlocks`, `isStopped`, the query deque, the ping and pong sockets | `invokeSafe`, `stopSafe` from any thread; `sendMessage`, `remove`, `invokeAfterTimeout` from callbacks and from `socketStateProducer`; `clientLoopJob`, `handlePongSocket` in the loop's thread | the isolate (`IsolateState.access`), inproc pings, dealer sockets, callbacks |
| Server loop, native and JVM (`zmq/server`) | the same with one router socket | the same, `sendMessage(msg)` on the router | the same |
| Poller (native `ZmqPoller.kt`, JVM `ZPoller`) | the list of sockets of this poll | `poll` | `zmq_poll`, then one message per readable socket |
| Priority queue (native) | a list kept sorted | `add`, `peek`, `poll`, `isNotEmpty` | the loops' scheduled blocks |
| JavaScript loops (`jsCommonMain`) | `forwardSockets`, `isStopped` | the same API, run at once in the only thread | socket events, `setTimeout` |
| Node and browser sockets | bind in progress, queue of binds, deferred close | `connect`, `bind`, `close` | zeromq.js and jszmq callbacks |
| Messages (`ZmqMsg`) | frames, and on native a `zmsg_t` that is owned | `addBytes`, `addString`, `popBytes`, `popString`, `send`, `recv`, `close` | czmq, JeroMQ, JavaScript arrays |
| Serialization | output buffer, ids of local functions and streams | binary and JSON writers and readers | kotlinx.io, JSON libraries |
| Events API | declared, not implemented | `TODO` | |

What is hard, and what would make each part correct:

- *The query queue* (shared by the client and server loops, native and JVM). A
  call from another thread is two things, an element of a deque in an isolate and
  a ping on a socket, made inside one access; the loop takes the ping first and
  the element in a later access. Correct means: no ping without its query and no
  query without its ping, queries obeyed in the order of the accesses, each once,
  none after a stop; what was accepted is run; a stop stops.
- *The client loop.* User code runs in the middle of an iteration and changes the
  map, the sockets and the schedule that the iteration works on. Correct means:
  no socket leaks or is shared, no recv on a closed socket, scheduled blocks run
  in order, not early, and do run; every readable socket is heard; a stop closes
  the sockets.
- *The server loop.* As the client loop, with one socket that outlives all
  callbacks. Correct means: a reply goes to the client whose request it answers,
  also when it is sent long after the request's message was closed; clients that
  do not read, or leave, hold up neither the loop nor each other.
- *The priority queue.* Correct means: the list stays sorted through any mix of
  `add` and `poll`, and the search brackets the place.
- *JavaScript.* No threads, but callbacks of sockets and timers after a stop, an
  asynchronous bind racing with `close`, and a `socketStateProducer` that can
  re-enter the loop before the new socket is in the map. Correct means: a raw
  socket is not touched while a bind is under way, no bind is lost or reordered,
  a deferred close happens, and no open socket is forgotten.
- *Messages.* On native, what is popped from a `zmsg_t` lives on and what is not
  is freed by `close`; nothing is read after it is freed.
- *Serialization.* The bytes carry no kinds: the reader must stay in step with
  the writer, and the number of a local function must name that function.

The full list of hazards, each at its line, is in `PROJECT.json`.

## 2. Modules

| Module | Models |
|---|---|
| `Mailbox` | what the comments of the expect classes promise: an abstract mailbox |
| `QueryQueue` | `invokeSafe`, `stopSafe`, `handlePongSocket` and the start and end of the loop, the same code in four files |
| `MCQueryQueue` | symmetry for TLC |
| `QueryQueueProofs` | TLAPS proofs about `QueryQueue`, and that it implements `Mailbox` |
| `ClientLoop` | the client's event loop on top of `QueryQueue` (EXTENDS it) |
| `MCClientLoop` | symmetry for TLC |
| `ClientLoopProofs` | TLAPS proofs about `ClientLoop`: its own invariants, and that it implements `QueryQueue` and `Mailbox` |
| `ServerLoop` | the native server's event loop on top of `QueryQueue` (EXTENDS it), its requests in memory and its clients |
| `MCServerLoop`, `ServerLoopProofs` | the instance for TLC; TLAPS proofs about `ServerLoop` |
| `Schedule` | what the loops take a queue of scheduled blocks to be: an abstract specification |
| `PriorityQueue`, `PriorityQueueProofs` | the native priority queue; TLAPS proofs, and that it implements `Schedule` |
| `BinaryPayload`, `BinaryPayloadProofs` | the binary writer and reader; TLAPS proofs |
| `MCAlgorithms` | runs `PriorityQueue` or `BinaryPayload`, on all small inputs |
| `NodeSocket` | the sockets of the JavaScript builds |
| `JsLoop` | both JavaScript loops on top of `NodeSocket` (EXTENDS it) |
| `MCJsLoop`, `JsLoopProofs` | the instance for TLC; TLAPS proofs about `JsLoop` and `NodeSocket` |

### QueryQueue

`queue` is the ArrayDeque in the `IsolateState`; `pipe` counts the pings between
the ping and the pong socket (their content is an empty string, so a number is
all there is); `call[t]` says how far thread `t` is in a call; `disposed` records
`IsolateState.dispose`; `loop` is where the loop's thread is. `log` and `started`
are histories: every query ever put in the deque, every block ever started. A
block of the model stands for one call of `invokeSafe`.

| Action | Code |
|---|---|
| `InvokeSafe(t, b)` then `PingSent(t)` | one `access` of `invokeSafe`: `addLast`, then `send`, which waits for a connected peer and for room. Between the two steps the isolate's thread is busy (`Pinging`) and every other access waits |
| `StopSafe(t)` then `Dispose(t)` | the access of `stopSafe`, whose message has no frame and is not sent at all (`Delivered`), then `dispose` |
| `AccessRefused(t)` | an access after `dispose` that throws in its caller |
| `Connect` | creation of the pong socket |
| `RecvPong` | the poll hands a ping to `handlePongSocket` |
| `TakeQuery`, `TakeRefused` | its access: `removeFirst`, then run the block or set `isStopped`; or the access throws |
| `BlockDone`, `UserThrow`, `LoopExit` | the block returns; user code throws and nothing catches; the `while` ends |

`Callers` may contain the loop's own thread (`Worker`): callbacks that call
`invokeSafe` or `stopSafe` themselves. stately and czmq are not under `src/`:
`access` runs one block at a time, what it does after `dispose` differs by
platform and is the constant `DisposedAccess`; `zmsg_send` is modelled by the
vendored header's words (`zmsg.h:60-63`).

### ClientLoop

It adds the phase of the iteration, `forwardSockets` (a LinkedHashMap: entries in
insertion order), the state of every dealer socket, its `outbox` and `inbox`, the
`sendMessage`s that are inside `socketStateProducer` (`creating`, a stack), the
socket being sent on (`sending`: `send` blocks at the high-water mark), the socket
whose listener runs (`hearing`), what the last poll found readable and is not
handled yet (`ready`, by its key in what was polled, `Polled`), the scheduled
blocks, the clock and the reading of the clock made at the top of the iteration.
`lost` and `shadowed` are histories: sockets whose producer threw, and sockets
whose entry was overwritten by the `sendMessage` that had created another one
meanwhile. Every action is a step of `QueryQueue` (those whose name starts with
`L`, and `DispatchPong`) or leaves its variables alone; only `DispatchForward` (the
`!!` after `recv`) and `PollThrows` end the loop by themselves.

| Action | Code |
|---|---|
| `Start`, `Iterate`, `LLoopExit` | `loopStateProducer` and the scope; the `while` |
| `RunScheduled`, `ScheduledDone`, `TimersDrained` | the drain of the scheduled blocks |
| `PollReady`, `PollTimeout`, `PollThrows`, `DispatchPong`, `DispatchForward`, `DispatchDone` | the poll, and its callback for each readable socket |
| `SendMessage(a)` then `Produced` or `ProducerThrows` | creation of the socket; the producer's end, with the insertion into the map and the registration. In between the producer may do whatever callbacks do |
| `Sent` | `msg.send(socket)` returns |
| `Remove(a)`, `InvokeAfterTimeout(d, b)` | the scope's functions |
| `Tick`, `PeerTakes(s)` | the clock and the peers: external |

A callback is a sequence of `SendMessage`, `Remove`, `InvokeAfterTimeout`,
`LInvokeSafe`, `LStopSafe` and what follows from them, of any length, closed by
`LBlockDone`, `ListenerDone` or `ScheduledDone`. `Platform` selects between the two
polls. Native makes a list of the map's sockets, walks the array of `zmq_poll` in
order and never times out. The JVM's `ZPoller` gives up after 1000 ms and handles
the ready sockets in no particular order; and it keeps the handler of every socket
ever registered, as `remove` hands `unregister` the `ZmqSocket` where `register` was
handed the raw socket inside it. So a socket that was removed stays among the
polled ones (`Stale`), closed: JeroMQ is not under `src/`, and what its poll makes
of a closed socket is left open (it may report it or not, return early, or throw),
as is whether the handler's `recv` returns a message or null. Messages are
counted, not told apart; a peer may take a message and may answer it with one.
Times are small numbers and the clock only goes forward.

### ServerLoop

The composition of the query queue, the router and its clients. `phase` and
`ready` are those of `ClientLoop`; `bound` is what `zmq_bind` achieved and nobody
looked at; `inbox[c]` and `outbox[c]` are the router's pipes from and to a client;
`hearing` and `frames` are the message in the listener's hands. `heap[r]` says
which parts of a received request are allocated: the `zmsg_t`, its two frames, the
C string of `popString`; a part that is allocated and that nothing refers to any
more is left out, as nobody can ever free it. `kept` holds the requests whose
identity user code has popped and still has (`Forget` drops one): a `BinaryData` is
a pointer into the popped frame, not a copy, so
`SendMessage` asks the heap where it points (`Addressee`): to the asker if the
frame is allocated, to anybody if it is not.

| Action | Code |
|---|---|
| `BindRouter`, `Iterate`, `RunScheduled`, `TimersDrained`, `PollReady`, `DispatchPong`, `DispatchRouter` (`Hear(c)` for one of the clients), `ListenerDone`, `DispatchDone`, `SLoopExit` | `serverLoopJob` and the native poll |
| `PopIdentity`, `PopString`, `CloseMsg` | `popBytes` (`zmsg_pop`: the frame is given away and never destroyed), `popString` (`zmsg_popstr`: the frame is destroyed, the copy is not), `close` |
| `SendMessage`, `InvokeAfterTimeout`, `S` + an action of `QueryQueue` | the scope's functions and the loop's API, from any callback |
| `Arrives`, `TakeAnswer`, `Disconnect` | the clients: external |

A router never blocks: a reply to a client that is gone or behind by `PeerHWM`
replies is dropped, which is a `SendMessage` that changes nothing. A request of the
model that was heard and is not kept may be sent again, so `MaxRequests` bounds
how many a client has at a time and not how many it ever sends.

### PriorityQueue and Schedule

`list` is `naiveList`; `adding`, `low` and `high` are the locals of `add` and of
the library's binary search, whose every round is a step (`Probe`), so that its
invariant can be stated. `NotFound` is the
`-(low + 1)` that `add` turns back into `low`. `Schedule` is a set from which an
element that falls due first is taken.

### BinaryPayload

A field of the writer is a value or a text, and the buffer a sequence of chunks
with the bytes they take. A text is two numbers, its UTF-16 units and its bytes
in UTF-8. `writeString` writes the first in front of the second, and the reader
passes it to `readUtf8String` of kotlinx.io, which is not under `src/`: whether
that counts characters or bytes is left open (`counting`). `putLocalFunction`
returns the number that stands for a function; `getTheirFunction` is a TODO, so a
reader stops there.

### NodeSocket and JsLoop

`sk[s]` is the record of a wrapper's fields (`bindFinished`, `bindQueue`,
`shouldClose`) and of the raw socket (`ready`, `busy` from a bind to its callback,
`closed`). `Bound`, `Closed` and `BindCalledBack` are the wrapper's functions, each
from one record to the next; a socket of `WebSockets` is a jszmq socket, whose
bind ends at once or throws. `isClosed` is never set in the code, so nothing
refuses a call after `close`.

`JsLoop` adds the map of the client loop, a stack of the `sendMessage`s that are
inside `socketStateProducer` (`creating`: user code in the middle of the loop's own
code), and the server loop, whose constructor starts the bind of its router
and fails if `loopStateProducer` throws (`StartServer`): nobody has the router then.
Messages, timers and `invokeSafe` all start user code at a turn of the event loop,
and user code may do any of the actions, so they need no actions of their own:
what a stopped loop does is then part of the model too, as nothing in the code
looks at `isStopped`.

### Faults

`Name_Fault` definitions beside the actions are the code with one plausible bug
(a dropped guard, `removeLast` for `removeFirst`, a close forgotten): they are not
part of any specification, and each shows that a property can fail.

## 3. Runs

All runs turn deadlock checking off, because the system does stop: the loop ends
by a stop query or an exception, a native poll may wait for ever, and every block
of an instance is invoked at most once.

| Run | Expected | Shows |
|---|---|---|
| `queue_safety` | pass | `TypeOK`, `PingBalance`, `NoEmptyTake`, `RunsInOrder`, and `ImplementsMailbox` (the hand-over as a whole is the abstract mailbox), over all interleavings of two user threads, callbacks and the loop, with user code that throws and access after dispose served or refused |
| `queue_full_pipe` | violation | `AcceptedBlocksRun` fails when more pings are outstanding than the pipe and the loop's hand hold |
| `queue_stop` | violation | `StopTakesEffect`: `stopSafe` alone never stops the loop |
| `client_safety` | pass | `CTypeOK`, `SocketsAccounted` (no socket leaks or is shared, but for the two kinds it names), `SleepsWithNothingDue`, `TimersInOrder`, `ImplementsQueue`, native, with producers that re-enter or throw |
| `client_liveness` | pass | `SurvivesUnlessRemoved` (nothing but user code ends a loop that has removed no socket), and, while no send blocks for ever, `ScheduledBlocksRun`, `MessagesHeard`, `ClientRunsBlocks` (the last two until a stale handler is in the way), JVM |
| `client_native_timer` | violation | `ScheduledBlocksRun` fails on native, whose poll has no timeout |
| `client_remove` | violation | `LoopSurvives` fails on native when a callback removes a socket of the same poll round |
| `client_stop_sockets` | violation | `StopClosesSockets`: a stopped loop leaves its sockets open |
| `server` | pass | `RepliesReachAsker`, `MessagesFreed`, `RequestsHeard`, `ServerRunsBlocks`: two clients that come, ask without end, stay behind or leave, callbacks and a user thread that call the loop |
| `server_leak` | violation | `PoppedDestroyed`: what was popped is still allocated when user code is done with it |
| `algorithms` | pass | `Sorted`, `Bracketed` and `ImplementsSchedule` of the priority queue; `ReadsBack` and `FunctionsResolve` of the binary payload |
| `js` | pass | `FlagsAgree`, `BindsInOrder`, `ClosesLast` (no close overtakes a queued bind or is forgotten), `CloseHappens`, `SocketsTracked`, `StopClosesManaged`, `StopClosesRouter`: a client loop with a TCP and a WebSocket dealer beside a server loop on TCP |

Bounds, and why they are enough to see the interesting cases:

- Three blocks, three callers and two stop queries: a ping in the pipe, one being
  sent and one being handled at once, a stop query before, between and after
  blocks, a block accepted between a stop query and its `dispose`. `HWM` 2 in
  `queue_safety` lets the pipe fill up; 1 with three blocks in `queue_full_pipe`, the smallest
  instance of "one more than fits" (ZeroMQ's default marks are in the thousands,
  and the shape of the counterexample does not depend on the number).
- Two addresses, two sockets, one message each way per socket: two sockets
  readable in one round, one removed by the other's listener, an address used
  again with a new socket, a send that blocks. A socket of the model is never
  used again after `close`, so `Sockets` bounds how many are created; two are what it
  takes for a producer to send to the address it is producing for, or to another.
  Two blocks in `client_liveness`, so that one waits behind the other and both
  behind messages that need not end, as peers answer and callbacks send again.
- Two scheduled blocks, delays 0 and 1, a clock of two values: equal times,
  a block scheduled during the drain and due at once, one due only later.
- `server`: two clients with one request at a time and any number of them over
  time: one client's may starve the other's, or the queries, if the loop let them.
  A request is heard while the reply to another is outstanding, and a client leaves with a reply on its way;
  one reply in flight per client, so that the second is dropped; one block and
  one scheduled block, which can both send the reply later; a place in the pipe
  for every ping, as the full pipe is the subject of `queue_full_pipe`.
- `algorithms`: every order of adding and handing out six scheduled blocks with
  three due times, so two with each time: all lists up to six, three rounds of the
  search, ties in every place. Every payload of three fields, texts of one
  character in one or two bytes, two functions: a function after any two fields,
  a field after a text that is cut short.
- `js`: three sockets, one of each kind, and three calls of bind in all, so one
  under way, one queued and one asked for after a close; two addresses, so that
  a `sendMessage` runs inside the producer of another, for another address or
  the same one.

Fairness. `FairSpec`, `CFairSpec` and `SFairSpec` let each thread be scheduled (weak
fairness of the loop's own code, of pings and sends that can go out, of `dispose`),
the clock tick, and blocks, listeners and producers end (the comments of
`LocalFunction.kt` and of the listeners forbid long work in the loop's thread;
strong fairness, as a callback is disabled from ending while a call of its own is
in progress). The router hands over the requests of its peers in turn (strong
fairness of `Hear(c)`: libzmq's fair queueing). Nothing forces a user to call
anything, a message to arrive, or a poll without timeout to return, and nothing is
asked of peers: a client of `ServerLoop` need not read or stay, and a peer of
`ClientLoop` need not read, which is why its properties name a send that blocks for
ever (`Blocked`) as an outcome. `client_liveness` sets `MayThrow` to FALSE: after an
exception in user code the loop is gone, and nothing is promised; `server` leaves
it TRUE and its properties name the end of the loop as an outcome. `JFairSpec` lets
a `socketStateProducer` end and every bind callback get its turn, which zeromq.js
promises; no user code is obliged to do anything. The queries of an instance are
finitely many, its messages are not: that queries starve messages is not tried,
that messages starve queries and each other is.

## 4. Findings

Each is a counterexample of a "violation" run; the quotes are in `PROJECT.json`.

1. `stopSafe` sends a message without frames, which czmq and JeroMQ do not send:
   the loop is not woken and never takes the stop query, unless a later
   `invokeSafe` pings; then that ping takes the stop query and the block is lost.
2. `invokeSafe` sends its ping inside the isolate's access: with a full pipe the
   isolate's thread, every other caller and the loop wait for each other.
3. The native `zmq_poll` waits without timeout: a scheduled block runs only if
   something else wakes the loop after it falls due.
4. On native, removing an address whose socket was found readable in the same
   round ends the loop by the `!!` in the poller. On the JVM every `remove` leaves the
   handler of the closed socket registered, and its `!!` may throw in any later poll.
5. A loop that stops closes none of its forward sockets.
6. On native nothing destroys the frame that `popBytes` takes or the string that
   `popString` is given, which czmq's header asks of the caller. (`RepliesReachAsker`
   shows why `popBytes` may not do so at once: the `BinaryData` points into the frame.)

The server loop has the code of 1 to 3, and after its `while` it leaves its
router open. The properties name as exceptions the other limits of the code on
which no comment or test was found to say anything. A `sendMessage` whose
`socketStateProducer` throws, or itself sends to the same address, leaves an open
socket that nothing will close (`lost` and `shadowed`, in `SocketsAccounted` on
native and the JVM and in `SocketsTracked` on JavaScript); there the router of a
server whose `loopStateProducer` threw is lost in the same way, and a WebSocket
whose bind threw keeps `bindFinished` false, so its close is deferred for ever
(`FlagsAgree`). A text beyond ASCII is read back only if `readUtf8String` counts
characters (`ReadsBack`). A router whose bind fails hears nobody and reports
nothing (`bound`).

## 5. Proofs

`QueryQueueProofs`, from the named assumptions of `QueryQueue` (a stop query is
not a block, the pipe holds at least one message), for any sets of callers and
blocks:

- `TypeCorrect`, `WakeUpsBalance`, `TakesAreFed`, `InOrder`: the invariants of
  `queue_safety`; `QueueIsMailbox`: `Spec => ImplementsMailbox`.
- The inductive invariant `IInv` adds to the types: `OneHolder` (one caller at a
  time is inside an access; without it the end of a send says nothing about the
  pings under way), `Suffix` (the deque is the tail of the history), `Prefix` (the
  blocks started are its head; short by one when a stop query was taken),
  `StopIsLast` (after a stop query the loop is not waiting for a query, which is
  why at most one is ever taken) and `PingBalance`. `PingBalance` is what shows
  that the deque is not empty when `removeFirst` runs; `Suffix` then says which
  query is removed, and `Prefix` that it is the next of the history. The number
  of stop queries is a cardinality: `StopsAppend` gives how it grows.
- `QueueSurvives`: where user code throws nothing and access after dispose is
  served, nothing in the hand-over ends the loop's thread (`Alive`). The two
  hypotheses exclude the actions in which somebody else's code throws; what is
  left is `removeFirst`, which `PingBalance` feeds. The step (`NextSurvives`) is
  what the client's and the server's theorems of the kind use.

`ClientLoopProofs`, from the same assumptions and those of `ClientLoop` (the
delays and the bound of the clock are natural numbers, callbacks may call the
loop's own API), for any sets of addresses, sockets, blocks and callers:

- `ClientTypes` (`CTypeOK`), `NoSocketLeaks`, `SleepsInTime`, `TimersRunInOrder`:
  four properties of `client_safety`.
- `OnlyRemoveEnds` (`SurvivesUnlessRemoved`), for both platforms, where user code
  throws nothing and access after dispose is served: before the first `remove` the
  loop's own code throws nothing. It rests on `PingBalance`, as a query taken from an
  empty deque would throw, and on `ReadyOK` below. `SparingSurvives` is the
  other half of finding 4, for native: `LoopSurvives` holds of every behaviour in
  which no step closes a socket whose turn is still to come (`SparesReady`).
  That removal is the only cause of the `!!` there; callbacks may remove anything
  else, at any time. On the JVM it is not so, as any removed socket stays polled.
- `ClientUsesQueue`: `CSpec => ImplementsQueue`. `ClientIsMailbox`: `CSpec =>
  ImplementsMailbox`, the promise for the loop as a whole, also when its own `!!`
  ends it.
- The inductive invariant `CIInv` is `IInv` and eight more parts. `Nesting` says
  where a call made by the loop's own thread, or a producer, can be: it is why the loop is in no
  call of its own when the `!!` throws, and why nobody schedules while the loop
  is in poll. `ClockOK` keeps the reading of the clock behind the clock, so what
  is due by the reading is due. `MapOK`, `CallsOK` and `SocketsAccounted` go together:
  a created socket was unused, so it is in no entry and in no other call; when its
  producer returns, the entry it gets is new or takes the place of one whose
  socket is then `shadowed`; and the entry taken out by a `remove` takes its socket
  with it (`WithoutOne`).
  `SleepsWithNothingDue` needs that a nonempty schedule has an earliest entry
  (`LeastTime`, from the well-foundedness of inclusion on finite sets).
  `Contents` bounds what is on its way in either direction, and needs `ReadyOK`:
  a key of `ready` names a socket that has been opened, no two name the same,
  and if the socket is still open it still has the message that made it
  readable. That is why the recv of a listener's turn takes a message that is
  there, after any mix of sends and removes in the turns before it.
- `QueueOrCrash` splits the steps: a step of `QueryQueue`, one that leaves its
  variables alone, or the exception of the loop's own code, which changes nothing
  but `loop`. The lemmas about `QueryQueue` then apply as they are.

`ServerLoopProofs`, from the same assumptions and those of `ServerLoop` (a router
holds at least one reply for a client), for any sets of clients, blocks, timers
and callers:

- `ServerTypes`, `AnswersGoHome` (`RepliesReachAsker`), `ClosedIsFreed`
  (`MessagesFreed`); `ServerIsMailbox`: `SSpec => ImplementsMailbox`; `ServerSurvives`: what `QueueSurvives` says, of the
  whole loop, as the server's own code throws nothing.
- The invariant `SIInv` is `Waiting`, `Hands`, `MessagesFreed` and `Replies`.
  `Waiting` says that a request in an inbox is there once, and neither in the
  listener's hands nor kept: it is why receiving one allocates memory that nothing
  refers to yet, though names of requests come back. `Hands` ties the frames left to the message in the listener's
  hands. `MessagesFreed` then keeps the identity of every kept request allocated,
  so `Addressee` is the asker, and the reply preserves `Replies`.

`PriorityQueueProofs`, for any set of scheduled blocks with integer times:
`QueueTypes`, `ListSorted`, `SearchBrackets`, and `QueueIsSchedule`:
`PSpec => ImplementsSchedule`. `Sorted` is inductive only with `Bracketed`: that
everything before `low` is earlier and everything after `high` later is what a
round of the search keeps, by `Sorted`, and what makes the insertion sorted. `Distinct`
(no element is in the list twice) is what makes a `poll` of the list one `Poll` of
the set.

`JsLoopProofs`, for any sets of sockets and addresses and any bounds:

- `JsTypes`, `BusyLeftAlone` (`FlagsAgree`), `BindsKeepOrder` (`BindsInOrder`),
  `NoSocketLost` (`SocketsTracked`), `StopCloses` (`StopClosesManaged`), all from
  `LoopsInductive`: the invariant `JInv`. `CloseIsLast`: `JSpec => ClosesLast`, an
  action property, from `SocketsAdvance`: every step of the program lets every
  created socket `Advance`.
- Its socket part says of each record alone that its types, its flags and its
  history are right. One lemma per function of the wrapper shows that it keeps
  them and that the record `Advances`: an open socket whose close was asked for
  stays so or is closed, and a socket is closed with no bind in its queue. `SkStep`
  says this of all sockets at once, and is what the steps of both loops have in
  common. The loop part gives the types of the map and of the stack of calls
  (`Places`) and says that the loops name only sockets that were created
  (`Created`): without it a `sendMessage` might create a socket that a stop has
  recorded already.

`BinaryPayloadProofs`, for payloads of any length over any texts, and either way
of counting:

- `PayloadTypes` (`BTypeOK`), `FieldsReadBack` (`ReadsBack`), `FunctionsFound`
  (`FunctionsResolve`).
- The chunk at which a field begins is a sum over the fields before it, which the
  provers cannot compute by induction. The invariant `BInv` does not compute it:
  `InStep` says that there is a function `start` from the fields to the chunks
  that agrees with the buffer (`Layout`: each field begins where the one before
  ends, and its chunks are there, `At`), and that a reader that has not failed is
  where `start` says. A call of the writer extends the function by one place; a
  call of the reader moves to the next. `Layout` also keeps, of a local function,
  that its number is the index of that function in the list so far, and an append
  to the list changes no index.

Only model-checked: all liveness (`ScheduledBlocksRun`,
`MessagesHeard`, `ClientRunsBlocks`, `RequestsHeard`, `ServerRunsBlocks`, `CloseHappens`,
`StopClosesRouter`), as fairness is out of the prover's reach.

## 6. Not modelled

- The events API (functions, streams, `KhalaClient`, `KhalaServer`) is stubs: its
  methods are TODO or empty. The ids of streams are in the same place:
  `putSendingStream` has no caller.
- JSON writers and readers are conversions over third-party libraries without
  state; the payload factories choose a class.
- The C headers under `mingwX64Main/resources/include` are the declarations of
  third-party libraries (czmq, zmq, json-c, msgpack) that the Windows build links
  to. They are most of the lines of the repository, and no part of its logic; their comments are used
  where the Kotlin code relies on them, as for `zmsg_send`.
- The JVM's server loop differs from `ServerLoop` by its poll, which is in
  `ClientLoop`, and by messages that are garbage-collected.
- A message that user code closes twice or uses after `close` on native: the
  wrapper keeps the pointer it destroyed, so nothing is promised. `ServerLoop`'s
  listeners follow the pattern of the loop test, one close and nothing after it.
- Wording, logging, socket identities, and contexts, which are thin calls.
- The wall clock may jump backwards in reality (`getTimeMillis`); the model's does
  not.

## 7. Plan

1. Done: `Mailbox`, `QueryQueue`, `ClientLoop`, `ServerLoop`, `PriorityQueue` with
   `Schedule`, `BinaryPayload`, `NodeSocket`, `JsLoop`; every safety property of the
   passing runs is proved.
2. Next, proofs: the safety part of what the liveness runs rest on (a ping on its way
   keeps the loop from sleeping; a bind under way has its callback to come).
3. `Rpc`, a client's dealers and the router in one model, for the order of
   messages of one socket across both loops.
4. The JVM's server loop, as a `Platform` of `ServerLoop`.
5. Times in `ServerLoop`.
6. The events API, once it is written.
