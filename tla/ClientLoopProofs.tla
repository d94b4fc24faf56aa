-------------------------- MODULE ClientLoopProofs --------------------------
(***************************************************************************)
(* Proofs about ClientLoop, for any sets of addresses, sockets, blocks and *)
(* callers and any capacities: it uses the query queue as QueryQueue says, *)
(* it loses sockets in two ways only, it runs what is scheduled in order   *)
(* and before it sleeps, and it throws nothing itself unless a remove has  *)
(* closed a socket.                                                        *)
(***************************************************************************)
EXTENDS ClientLoop, QueryQueueProofs, WellFoundedInduction

(* Where a call of the loop's own thread can be: in user code, or nowhere.  *)
(* The queue is touched only in the dispatch phase.                         *)
Nesting == /\ call \in [Callers -> CallState]
           /\ loop \in {"taking", "running"} => phase = "dispatch"
           /\ \/ WorkerIdle
              \/ loop \in {"running", "crashed"}
              \/ loop = "free" /\ phase \in {"timer", "listener"}

(* The times: the reading of the clock is not ahead of the clock. *)
ClockOK == /\ scheduled \in SUBSET Timed
           /\ now \in 0..MaxTime
           /\ currentTime \in 0..now

MapOK == /\ forwardSockets \in Seq(Entry)
         /\ sock \in [Sockets -> {"unused", "open", "closed"}]

(* The sendMessages in progress have a socket each, which nobody else has.  *)
CallsOK == /\ creating \in Seq(Entry)
           /\ lost \in SUBSET Sockets /\ shadowed \in SUBSET Sockets
           /\ \A i, j \in DOMAIN creating :
                 creating[i].socket = creating[j].socket => i = j
           /\ InCalls \cap (lost \cup shadowed) = {}

(* What CTypeOK says and the conjuncts above do not. *)
Contents == /\ phase \in {"setup", "top", "timers", "timer", "poll", "dispatch", "listener"}
            /\ sending \in SUBSET Sockets
            /\ hearing \in SUBSET Sockets
            /\ outbox \in [Sockets -> 0..SndHWM]
            /\ inbox \in [Sockets -> 0..RcvHWM]
            /\ fired \in SUBSET Timers

(* A socket found readable has its turn once, and unless it was removed     *)
(* since, the message that made it readable is still there.                 *)
ReadyOK == /\ ready \in [DOMAIN ready -> Sockets \cup {Pong}]
           /\ DOMAIN ready \subseteq IF Platform = "native" THEN Nat \ {0}
                                    ELSE Sockets \cup {Pong}
           /\ \A i \in DOMAIN ready : ready[i] # Pong =>
                 /\ sock[ready[i]] # "unused"
                 /\ sock[ready[i]] = "open" => inbox[ready[i]] > 0
           /\ \A i, j \in DOMAIN ready :
                 ready[i] # Pong /\ ready[i] = ready[j] => i = j

(* No socket that still has its turn has been removed. *)
ReadyOpen == \A i \in DOMAIN ready : ready[i] # Pong => sock[ready[i]] = "open"

(* What every reachable state satisfies: the invariant of the queue too.    *)
CIInv == /\ IInv /\ Nesting /\ ClockOK /\ SleepsWithNothingDue
         /\ MapOK /\ CallsOK /\ SocketsAccounted /\ Contents /\ ReadyOK

-----------------------------------------------------------------------------
(* The map of sockets *)

(* What holds of the sockets depends on these variables only. *)
LEMMA MapUnchanged ==
    ASSUME MapOK, CallsOK, SocketsAccounted, UNCHANGED mapvars
    PROVE  MapOK' /\ CallsOK' /\ SocketsAccounted'
<1>1. UNCHANGED <<forwardSockets, sock, creating, lost, shadowed>>
  BY DEF mapvars
<1>2. Held' = Held /\ InCalls' = InCalls
  BY <1>1 DEF Held, InCalls, Elements
<1> QED  BY <1>1, <1>2 DEF MapOK, CallsOK, SocketsAccounted

LEMMA SubsetSockets ==
    ASSUME MapOK, CallsOK
    PROVE  Held \subseteq Sockets /\ InCalls \subseteq Sockets
<1>1. \A e \in Elements(forwardSockets) \cup Elements(creating) : e \in Entry
  BY DEF MapOK, CallsOK, Elements
<1> QED  BY <1>1 DEF Held, InCalls, Entry

(* sendMessage to an address without a socket: the new socket is nobody's.  *)
LEMMA NewSocket ==
    ASSUME MapOK, CallsOK, SocketsAccounted,
           NEW a \in Addresses, NEW s \in Sockets, sock[s] = "unused",
           sock' = [sock EXCEPT ![s] = "open"],
           creating' = Append(creating, [address |-> a, socket |-> s]),
           UNCHANGED <<forwardSockets, lost, shadowed>>
    PROVE  MapOK' /\ CallsOK' /\ SocketsAccounted'
<1> DEFINE n == Len(creating)
           e == [address |-> a, socket |-> s]
<1>1. e \in Entry /\ e.socket = s
  BY DEF Entry
<1>2. n \in Nat /\ DOMAIN creating = 1..n
  BY DEF CallsOK
<1>3. /\ creating' \in Seq(Entry)
      /\ DOMAIN creating' = 1..(n + 1)
      /\ creating'[n + 1] = e
      /\ \A i \in 1..n : creating'[i] = creating[i]
  BY <1>1, AppendProperties DEF CallsOK
<1> HIDE DEF n, e
<1>4. \A i : i \in 1..(n + 1) <=> i \in 1..n \/ i = n + 1
  BY <1>2
<1>5. InCalls' = InCalls \cup {s}
  <2>1. /\ InCalls = {creating[i].socket : i \in 1..n}
        /\ InCalls' = {creating'[i].socket : i \in 1..(n + 1)}
    BY <1>2, <1>3 DEF InCalls, Elements
  <2>2. creating'[n + 1].socket = s /\ n + 1 \in 1..(n + 1)
    BY <1>1, <1>2, <1>3
  <2>3. \A i \in 1..n : creating'[i].socket = creating[i].socket /\ i \in 1..(n + 1)
    BY <1>3, <1>4
  <2>4. InCalls' \subseteq InCalls \cup {s}
    BY <1>4, <2>1, <2>2, <2>3
  <2>5. InCalls \cup {s} \subseteq InCalls'
    BY <2>1, <2>2, <2>3
  <2> QED  BY <2>4, <2>5
<1>6. s \notin Held \cup InCalls \cup lost \cup shadowed
  BY DEF SocketsAccounted
<1>7. \A i \in 1..n : creating[i].socket # s
  BY <1>2, <1>6 DEF InCalls, Elements
<1>8. CallsOK'
  <2>1. \A i, j \in 1..(n + 1) : creating'[i].socket = creating'[j].socket => i = j
    BY <1>1, <1>2, <1>3, <1>4, <1>7 DEF CallsOK
  <2> QED  BY <1>3, <1>5, <1>6, <2>1 DEF CallsOK
<1>9. MapOK'
  BY DEF MapOK
<1>10. {x \in Sockets : sock'[x] = "open"} = {x \in Sockets : sock[x] = "open"} \cup {s}
  BY DEF MapOK
<1>11. Held' = Held
  BY DEF Held, Elements
<1> QED  BY <1>5, <1>6, <1>8, <1>9, <1>10, <1>11 DEF SocketsAccounted

(* The innermost sendMessage ends: its socket is no other one's. *)
LEMMA Ended ==
    ASSUME CallsOK, creating # <<>>, Return
    PROVE  /\ creating' \in Seq(Entry)
           /\ Innermost \in Entry /\ Innermost.socket \in InCalls
           /\ InCalls' = InCalls \ {Innermost.socket}
           /\ \A i, j \in DOMAIN creating' :
                 creating'[i].socket = creating'[j].socket => i = j
<1> DEFINE n == Len(creating)
<1>1. n \in Nat /\ n >= 1 /\ n \in 1..n /\ DOMAIN creating = 1..n
      /\ creating \in Seq(Entry)
  BY EmptySeq DEF CallsOK
<1>2. /\ creating' \in Seq(Entry) /\ DOMAIN creating' = 1..(n - 1)
      /\ \A i \in 1..(n - 1) : creating'[i] = creating[i]
  <2>1. creating' = SubSeq(creating, 1, n - 1)
    BY DEF Return
  <2>2. \A i \in 1..(n - 1) : i \in 1..n /\ creating[i] \in Entry
    BY <1>1
  <2>3. SubSeq(creating, 1, n - 1) = [i \in 1..(n - 1) |-> creating[i]]
    BY <1>1
  <2> QED  BY <1>1, <2>1, <2>2, <2>3
<1>3. \A i : i \in 1..n <=> i \in 1..(n - 1) \/ i = n
  BY <1>1
<1>4. n \notin 1..(n - 1)
  BY <1>1
<1>5. Innermost = creating[n] /\ Innermost \in Entry
  BY <1>1 DEF Innermost
<1> HIDE DEF n
<1>6. \A i, j \in 1..n : creating[i].socket = creating[j].socket => i = j
  BY <1>1 DEF CallsOK
<1>7. \A i \in 1..(n - 1) : creating'[i].socket # Innermost.socket
  BY <1>1, <1>2, <1>3, <1>4, <1>5, <1>6
<1>8. InCalls = {creating[i].socket : i \in 1..n}
      /\ InCalls' = {creating'[i].socket : i \in 1..(n - 1)}
  BY <1>1, <1>2 DEF InCalls, Elements
<1>9. InCalls' = InCalls \ {Innermost.socket}
  <2>1. \A i \in 1..(n - 1) : /\ i \in 1..n
                              /\ creating'[i].socket = creating[i].socket
                              /\ creating'[i].socket # Innermost.socket
    BY <1>2, <1>3, <1>7
  <2>2. InCalls' \subseteq InCalls \ {Innermost.socket}
    BY <1>8, <2>1
  <2>3. InCalls \ {Innermost.socket} \subseteq InCalls'
    BY <1>3, <1>5, <1>8, <2>1
  <2> QED  BY <2>2, <2>3
<1>10. \A i, j \in 1..(n - 1) : creating'[i].socket = creating'[j].socket => i = j
  BY <1>2, <1>3, <1>6
<1> QED  BY <1>1, <1>2, <1>5, <1>8, <1>9, <1>10

(* A producer that throws leaves its socket, open, to nobody. *)
LEMMA LostSocket ==
    ASSUME MapOK, CallsOK, SocketsAccounted, ProducerThrows
    PROVE  MapOK' /\ CallsOK' /\ SocketsAccounted'
<1> DEFINE s == Innermost.socket
<1>1. /\ creating # <<>> /\ Return /\ lost' = lost \cup {s}
      /\ UNCHANGED <<forwardSockets, sock, shadowed>>
  BY DEF ProducerThrows
<1>2. /\ creating' \in Seq(Entry) /\ s \in InCalls /\ InCalls' = InCalls \ {s}
      /\ \A i, j \in DOMAIN creating' :
            creating'[i].socket = creating'[j].socket => i = j
  BY <1>1, Ended
<1> HIDE DEF s
<1>3. s \in Sockets
  BY <1>2, SubsetSockets
<1>4. Held' = Held
  BY <1>1 DEF Held, Elements
<1>5. CallsOK'
  BY <1>1, <1>2, <1>3 DEF CallsOK
<1>6. MapOK'
  BY <1>1 DEF MapOK
<1> QED  BY <1>1, <1>2, <1>4, <1>5, <1>6 DEF SocketsAccounted

(* The map with a new entry under its key: the other entries are as they    *)
(* were, the one with the same key, if there is one, is gone.               *)
LEMMA PutEntry ==
    ASSUME MapOK, SocketsAccounted, NEW e \in Entry, e.socket \notin Held,
           forwardSockets' = Put(e)
    PROVE  LET old == {d.socket : d \in {c \in Elements(forwardSockets) :
                                           c.address = e.address}}
           IN  /\ forwardSockets' \in Seq(Entry)
               /\ Held' = (Held \ old) \cup {e.socket} /\ old \subseteq Held
               /\ \A i, j \in DOMAIN forwardSockets' :
                     (\/ forwardSockets'[i].address = forwardSockets'[j].address
                      \/ forwardSockets'[i].socket = forwardSockets'[j].socket) => i = j
<1> DEFINE fs  == forwardSockets
           n   == Len(forwardSockets)
           old == {d.socket : d \in {c \in Elements(fs) : c.address = e.address}}
<1>1. /\ n \in Nat /\ DOMAIN fs = 1..n /\ fs \in Seq(Entry)
      /\ \A i \in 1..n : fs[i] \in Entry
  BY DEF MapOK
<1>2. Held = {fs[i].socket : i \in 1..n}
  BY <1>1 DEF Held, Elements
<1>3. old = {fs[i].socket : i \in {k \in 1..n : fs[k].address = e.address}}
  BY <1>1 DEF Elements
<1>4. \A i, j \in 1..n :
         (fs[i].address = fs[j].address \/ fs[i].socket = fs[j].socket) => i = j
  BY <1>1 DEF SocketsAccounted
<1>5. \A i \in 1..n : fs[i].socket # e.socket
  BY <1>2
<1>6. e.address \in Managed <=> \E i \in 1..n : fs[i].address = e.address
  BY <1>1 DEF Managed, Elements
<1> HIDE DEF n, old
<1>7. CASE e.address \in Managed
  <2>1. fs' = [i \in 1..n |-> IF fs[i].address = e.address THEN e ELSE fs[i]]
    BY <1>1, <1>7 DEF Put
  <2>2. fs' \in Seq(Entry) /\ DOMAIN fs' = 1..n
    <3>1. \A i \in 1..n : (IF fs[i].address = e.address THEN e ELSE fs[i]) \in Entry
      BY <1>1
    <3> QED  BY <1>1, <2>1, <3>1, SeqDef
  <2>3. \A i \in 1..n : fs'[i] = IF fs[i].address = e.address THEN e ELSE fs[i]
    BY <2>1
  <2>4. Held' = {fs'[i].socket : i \in 1..n}
    BY <2>2 DEF Held, Elements
  <2>5. PICK k \in 1..n : fs[k].address = e.address
    BY <1>6, <1>7
  <2>6. \A i \in 1..n : fs[i].address = e.address <=> i = k
    BY <1>4, <2>5
  <2>7. old = {fs[k].socket}
    BY <1>3, <2>5, <2>6
  <2>8. Held' = (Held \ old) \cup {e.socket}
    <3>1. \A i \in 1..n : fs'[i].socket \in (Held \ old) \cup {e.socket}
      BY <1>2, <1>4, <2>3, <2>5, <2>6, <2>7
    <3>2. \A x \in (Held \ old) \cup {e.socket} : \E i \in 1..n : x = fs'[i].socket
      <4>1. e.socket = fs'[k].socket
        BY <2>3, <2>5
      <4>2. \A i \in 1..n : fs[i].socket \notin old => fs'[i].socket = fs[i].socket
        BY <2>3, <2>6, <2>7
      <4> QED  BY <1>2, <2>5, <4>1, <4>2
    <3> QED  BY <2>4, <3>1, <3>2
  <2>9. \A i, j \in 1..n :
           (fs'[i].address = fs'[j].address \/ fs'[i].socket = fs'[j].socket) => i = j
    BY <1>4, <1>5, <2>3, <2>5, <2>6
  <2>10. old \subseteq Held
    BY <1>2, <2>5, <2>7
  <2> QED  BY <2>2, <2>8, <2>9, <2>10 DEF old
<1>8. CASE e.address \notin Managed
  <2>1. fs' = Append(fs, e)
    BY <1>8 DEF Put
  <2>2. /\ fs' \in Seq(Entry) /\ DOMAIN fs' = 1..(n + 1)
        /\ fs'[n + 1] = e /\ \A i \in 1..n : fs'[i] = fs[i]
    BY <1>1, <2>1, AppendProperties DEF n
  <2>3. \A i : i \in 1..(n + 1) <=> i \in 1..n \/ i = n + 1
    BY <1>1
  <2>4. old = {}
    BY <1>3, <1>6, <1>8
  <2>5. Held' = {fs'[i].socket : i \in 1..(n + 1)}
    BY <2>2 DEF Held, Elements
  <2>6. Held' = Held \cup {e.socket}
    BY <1>2, <2>2, <2>3, <2>5, Zenon
  <2>7. \A i, j \in 1..(n + 1) :
           (fs'[i].address = fs'[j].address \/ fs'[i].socket = fs'[j].socket) => i = j
    BY <1>4, <1>5, <1>6, <1>8, <2>2, <2>3
  <2> QED  BY <2>2, <2>4, <2>6, <2>7 DEF old
<1> QED  BY <1>7, <1>8

(* The producer's socket goes into the map, and the one it replaces is      *)
(* remembered.                                                              *)
LEMMA ProducedSocket ==
    ASSUME MapOK, CallsOK, SocketsAccounted, Produced
    PROVE  MapOK' /\ CallsOK' /\ SocketsAccounted'
<1> DEFINE e   == Innermost
           s   == Innermost.socket
           old == {d.socket : d \in {c \in Elements(forwardSockets) :
                                       c.address = e.address}}
<1>1. /\ creating # <<>> /\ Return /\ UNCHANGED <<sock, lost>>
      /\ forwardSockets' = Put(e) /\ shadowed' = shadowed \cup old
  BY DEF Produced
<1>2. /\ creating' \in Seq(Entry) /\ e \in Entry /\ s \in InCalls
      /\ InCalls' = InCalls \ {s}
      /\ \A i, j \in DOMAIN creating' :
            creating'[i].socket = creating'[j].socket => i = j
  BY <1>1, Ended
<1>3. s \notin Held
  BY <1>2 DEF SocketsAccounted
<1>4. /\ forwardSockets' \in Seq(Entry)
      /\ Held' = (Held \ old) \cup {s} /\ old \subseteq Held
      /\ \A i, j \in DOMAIN forwardSockets' :
            (\/ forwardSockets'[i].address = forwardSockets'[j].address
             \/ forwardSockets'[i].socket = forwardSockets'[j].socket) => i = j
  BY <1>1, <1>2, <1>3, PutEntry
<1> HIDE DEF e, s, old
<1>5. MapOK'
  BY <1>1, <1>4 DEF MapOK
<1>6. CallsOK'
  BY <1>1, <1>2, <1>4, SubsetSockets DEF CallsOK, SocketsAccounted
<1>7. Held' \cap (InCalls' \cup lost' \cup shadowed') = {}
  BY <1>1, <1>2, <1>3, <1>4 DEF SocketsAccounted, CallsOK
<1>8. Held' \cup InCalls' \cup lost' \cup shadowed'
         = Held \cup InCalls \cup lost \cup shadowed
  BY <1>1, <1>2, <1>4
<1> QED  BY <1>1, <1>4, <1>5, <1>6, <1>7, <1>8 DEF SocketsAccounted

(* What is left of a sequence without one of its elements: the elements     *)
(* before it where they were, those after it one place earlier.             *)
LEMMA WithoutOne ==
    ASSUME NEW S, NEW s \in Seq(S), NEW i \in DOMAIN s
    PROVE  /\ Without(s, i) \in Seq(S)
           /\ Len(Without(s, i)) = Len(s) - 1
           /\ \A k \in 1..(Len(s) - 1) :
                 Without(s, i)[k] = IF k < i THEN s[k] ELSE s[k + 1]
<1> DEFINE n == Len(s)
           l == SubSeq(s, 1, i - 1)
           r == SubSeq(s, i + 1, n)
<1>1. n \in Nat /\ i \in 1..n /\ \A k \in 1..n : s[k] \in S
  OBVIOUS
<1>2. /\ l \in Seq(S) /\ Len(l) = i - 1
      /\ \A k \in 1..(i - 1) : l[k] = s[k]
  <2>1. \A k \in 1..(i - 1) : s[k] \in S
    BY <1>1
  <2>2. /\ l \in Seq(S)
        /\ Len(l) = IF 1 <= i - 1 THEN i - 1 - 1 + 1 ELSE 0
        /\ \A k \in 1..(i - 1 - 1 + 1) : l[k] = s[1 + k - 1]
    BY <1>1, <2>1, SubSeqProperties
  <2> QED  BY <1>1, <2>2
<1>3. /\ r \in Seq(S) /\ Len(r) = n - i
      /\ \A k \in 1..(n - i) : r[k] = s[k + i]
  <2>1. \A k \in (i + 1)..n : s[k] \in S
    BY <1>1
  <2>2. /\ r \in Seq(S)
        /\ Len(r) = IF i + 1 <= n THEN n - (i + 1) + 1 ELSE 0
        /\ \A k \in 1..(n - (i + 1) + 1) : r[k] = s[(i + 1) + k - 1]
    BY <1>1, <2>1, SubSeqProperties
  <2> QED  BY <1>1, <2>2
<1>4. /\ l \o r \in Seq(S)
      /\ Len(l \o r) = Len(l) + Len(r)
      /\ \A k \in 1..(Len(l) + Len(r)) :
            (l \o r)[k] = IF k <= Len(l) THEN l[k] ELSE r[k - Len(l)]
  BY <1>2, <1>3, ConcatProperties
<1>5. Without(s, i) = l \o r
  BY DEF Without
<1> HIDE DEF n, l, r
<1>6. Len(l \o r) = n - 1
  BY ONLY <1>1, <1>2, <1>3, <1>4
<1>7. \A k \in 1..(n - 1) :
         (l \o r)[k] = IF k <= i - 1 THEN l[k] ELSE r[k - (i - 1)]
  <2>1. Len(l) + Len(r) = n - 1 /\ Len(l) = i - 1
    BY ONLY <1>1, <1>2, <1>3
  <2> QED  BY ONLY <1>4, <2>1
<1>8. ASSUME NEW k \in 1..(n - 1)
      PROVE  (l \o r)[k] = IF k < i THEN s[k] ELSE s[k + 1]
  <2>1. CASE k < i
    <3>1. k <= i - 1 /\ k \in 1..(i - 1)
      BY ONLY <1>1, <2>1, k \in 1..(n - 1)
    <3> QED  BY ONLY <1>2, <1>7, <2>1, <3>1, k \in 1..(n - 1)
  <2>2. CASE ~(k < i)
    <3>1. k - (i - 1) \in 1..(n - i) /\ k - (i - 1) + i = k + 1
      BY ONLY <1>1, <2>2, k \in 1..(n - 1)
    <3>2. (l \o r)[k] = r[k - (i - 1)]
      <4>1. ~(k <= i - 1)
        BY ONLY <1>1, <2>2, k \in 1..(n - 1)
      <4> QED  BY ONLY <1>7, <4>1, k \in 1..(n - 1)
    <3> QED  BY ONLY <1>3, <2>2, <3>1, <3>2
  <2> QED  BY ONLY <2>1, <2>2
<1> QED  BY <1>4, <1>5, <1>6, <1>8 DEF n

(* remove: the socket closed is that of the entry taken out, and of no      *)
(* other.                                                                   *)
LEMMA RemovedSocket ==
    ASSUME MapOK, CallsOK, SocketsAccounted, NEW i \in DOMAIN forwardSockets,
           forwardSockets' = Without(forwardSockets, i),
           sock' = [sock EXCEPT ![forwardSockets[i].socket] = "closed"],
           UNCHANGED <<creating, lost, shadowed>>
    PROVE  MapOK' /\ CallsOK' /\ SocketsAccounted'
<1> DEFINE fs == forwardSockets
           n  == Len(forwardSockets)
           s  == forwardSockets[i].socket
           old == [k \in 1..(n - 1) |-> IF k < i THEN k ELSE k + 1]
<1>1. /\ n \in Nat /\ DOMAIN fs = 1..n /\ i \in 1..n
      /\ \A k \in 1..n : fs[k] \in Entry
  BY DEF MapOK
<1>2. s \in Sockets
  BY <1>1 DEF Entry
<1>3. /\ fs' \in Seq(Entry)
      /\ Len(fs') = n - 1
      /\ \A k \in 1..(n - 1) : fs'[k] = IF k < i THEN fs[k] ELSE fs[k + 1]
  BY WithoutOne DEF MapOK
<1>4. DOMAIN fs' = 1..(n - 1)
  BY <1>3
<1>5. MapOK'
  BY <1>2, <1>3 DEF MapOK
<1>6. \A j, k \in 1..n :
         (fs[j].address = fs[k].address \/ fs[j].socket = fs[k].socket) => j = k
  BY <1>1 DEF SocketsAccounted
<1>7. {x \in Sockets : sock'[x] = "open"} = {x \in Sockets : sock[x] = "open"} \ {s}
  BY <1>2 DEF MapOK
<1> HIDE DEF n, s
<1>8. \A k \in 1..(n - 1) : /\ old[k] \in 1..n /\ old[k] # i
                            /\ fs'[k] = fs[old[k]]
  BY <1>1, <1>3
<1>9. \A j, k \in 1..(n - 1) : old[j] = old[k] => j = k
  BY <1>1
<1>10. \A m \in 1..n : m # i => \E k \in 1..(n - 1) : old[k] = m
  <2> SUFFICES ASSUME NEW m \in 1..n, m # i
               PROVE  \E k \in 1..(n - 1) : old[k] = m
    OBVIOUS
  <2>1. CASE m < i
    <3>1. m \in 1..(n - 1) /\ old[m] = m
      BY <1>1, <2>1
    <3> QED  BY <3>1
  <2>2. CASE ~(m < i)
    <3>1. m - 1 \in 1..(n - 1) /\ old[m - 1] = m
      BY <1>1, <2>2
    <3> QED  BY <3>1
  <2> QED  BY <2>1, <2>2
<1> HIDE DEF old
<1>11. Held' = Held \ {s} /\ s \in Held
  <2>1. ASSUME NEW k \in 1..(n - 1)
        PROVE  fs'[k].socket \in Held \ {s}
    <3>1. old[k] \in 1..n /\ old[k] # i /\ fs'[k] = fs[old[k]]
      BY <1>8
    <3>2. fs[old[k]].socket # s
      BY <1>1, <1>6, <3>1 DEF s
    <3>3. fs[old[k]] \in Elements(fs)
      BY <1>1, <3>1 DEF Elements
    <3> QED  BY <3>1, <3>2, <3>3 DEF Held
  <2>2. ASSUME NEW m \in 1..n, fs[m].socket # s
        PROVE  fs[m].socket \in Held'
    <3>1. m # i
      BY <2>2 DEF s
    <3>2. PICK k \in 1..(n - 1) : old[k] = m
      BY <1>10, <3>1
    <3> QED  BY <1>4, <1>8, <3>2 DEF Elements, Held
  <2>3. s \in Held
    BY <1>1 DEF Elements, Held, s
  <2>4. /\ Held = {fs[m].socket : m \in 1..n}
        /\ Held' = {fs'[k].socket : k \in 1..(n - 1)}
    BY <1>1, <1>4 DEF Elements, Held
  <2>5. Held' \subseteq Held \ {s}
    BY <2>1, <2>4
  <2>6. Held \ {s} \subseteq Held'
    BY <2>2, <2>4
  <2> QED  BY <2>3, <2>5, <2>6
<1>12. ASSUME NEW j \in DOMAIN fs', NEW k \in DOMAIN fs',
              \/ fs'[j].address = fs'[k].address
              \/ fs'[j].socket = fs'[k].socket
       PROVE  j = k
  <2>1. j \in 1..(n - 1) /\ k \in 1..(n - 1)
    BY <1>4
  <2>2. /\ old[j] \in 1..n /\ fs'[j] = fs[old[j]]
        /\ old[k] \in 1..n /\ fs'[k] = fs[old[k]]
    BY <1>8, <2>1
  <2>3. old[j] = old[k]
    BY <1>6, <1>12, <2>2
  <2> QED  BY <1>9, <2>1, <2>3
<1>13. CallsOK' /\ InCalls' = InCalls
  BY DEF CallsOK, InCalls, Elements
<1> QED  BY <1>5, <1>7, <1>11, <1>12, <1>13 DEF SocketsAccounted

-----------------------------------------------------------------------------
(* The schedule *)

(* peek finds something: a nonempty schedule has an earliest entry.  The    *)
(* intervals up to the times are ordered by inclusion as the times are.     *)
LEMMA LeastTime ==
    ASSUME scheduled \in SUBSET Timed, scheduled # {}
    PROVE  \E e \in scheduled : Earliest(e)
<1> DEFINE M      == 0..MaxTime
           upTo   == {0..e.time : e \in scheduled}
<1>1. \A e \in scheduled : e.time \in M
  BY DEF Timed
<1>2. M \subseteq Nat
  BY DelaysAssumption
<1>3. ASSUME NEW e \in scheduled
      PROVE  0..e.time \in SUBSET M /\ IsFiniteSet(0..e.time)
  <2>1. 0..e.time \subseteq M
    BY <1>1, DelaysAssumption
  <2>2. e.time \in Int
    BY <1>1
  <2> QED  BY <2>1, <2>2, FS_Interval
<1>4. upTo \subseteq FiniteSubsetsOf(M) /\ upTo # {}
  BY <1>3 DEF FiniteSubsetsOf
<1>5. PICK X \in upTo : \A Y \in upTo : <<Y, X>> \notin StrictSubsetOrdering(M)
  BY <1>4, WFMin, FS_StrictSubsetOrderingWellFounded
<1>6. PICK e \in scheduled : X = 0..e.time
  OBVIOUS
<1>7. ASSUME NEW f \in scheduled, ~(e.time <= f.time)
      PROVE  FALSE
  <2>1. f.time \in Nat /\ e.time \in Nat /\ f.time < e.time
    BY <1>1, <1>2, <1>7
  <2>2. 0..f.time \subseteq 0..e.time /\ e.time \in 0..e.time /\ e.time \notin 0..f.time
    BY <2>1
  <2>3. <<0..f.time, 0..e.time>> \in StrictSubsetOrdering(M)
    BY <1>3, <2>2 DEF StrictSubsetOrdering
  <2> QED  BY <1>5, <1>6, <2>3
<1> QED  BY <1>7 DEF Earliest

-----------------------------------------------------------------------------
(* The initial states *)

LEMMA CInitInv == CInit => CIInv
<1> SUFFICES ASSUME CInit
             PROVE  CIInv
  OBVIOUS
<1>1. Nesting
  BY DEF CInit, Init, Nesting, CallState, WorkerIdle
<1>2. ClockOK /\ SleepsWithNothingDue
  BY DelaysAssumption DEF CInit, ClockOK, SleepsWithNothingDue
<1>3. MapOK
  BY EmptySeq DEF CInit, MapOK
<1>4. CallsOK /\ SocketsAccounted
  <2>1. DOMAIN forwardSockets = {} /\ DOMAIN creating = {}
    BY DEF CInit
  <2>2. Held = {} /\ InCalls = {}
    BY <2>1 DEF Elements, Held, InCalls
  <2>3. {s \in Sockets : sock[s] = "open"} = {} /\ lost = {} /\ shadowed = {}
    BY DEF CInit
  <2>4. creating \in Seq(Entry)
    BY EmptySeq DEF CInit
  <2> QED  BY <2>1, <2>2, <2>3, <2>4 DEF CallsOK, SocketsAccounted
<1>5. IInv
  BY InitInv DEF CInit
<1>6. Contents
  BY SocketHwmAssumption DEF CInit, Contents
<1>7. ReadyOK
  <2>1. ready = <<>> /\ DOMAIN ready = {}
    BY DEF CInit
  <2> QED  BY <2>1 DEF ReadyOK
<1> QED  BY <1>1, <1>2, <1>3, <1>4, <1>5, <1>6, <1>7 DEF CIInv

-----------------------------------------------------------------------------
(* Where the worker's calls are *)

LEMMA NestingStep == Nesting /\ [CNext]_cvars => Nesting'
<1> SUFFICES ASSUME Nesting, [CNext]_cvars
             PROVE  Nesting'
  OBVIOUS
<1> USE DEF Nesting
<1>1. CASE LoopStep
  <2>1. CASE LConnect
    BY <2>1 DEF LConnect, Connect, lvars, WorkerIdle
  <2>2. CASE Start \/ Iterate \/ TimersDrained \/ PollReady \/ PollTimeout \/ DispatchDone
    BY <2>2 DEF Start, Iterate, TimersDrained, PollReady, PollTimeout, DispatchDone,
                qvars, WorkerIdle
  <2>3. CASE LLoopExit
    BY <2>3 DEF LLoopExit, LoopExit, lvars, WorkerIdle
  <2>4. CASE RunScheduled
    BY <2>4 DEF RunScheduled, qvars, WorkerIdle
  <2>5. CASE ScheduledDone \/ ListenerDone
    BY <2>5 DEF ScheduledDone, ListenerDone, CallbackOver, InUserCode, qvars, WorkerIdle
  <2>6. CASE DispatchPong
    BY <2>6 DEF DispatchPong, RecvPong, WorkerIdle
  <2>7. CASE DispatchForward
    <3>1. call' = call /\ (phase' = phase \/ phase' = "listener")
      BY <2>7 DEF DispatchForward
    <3>2. loop = "free" /\ (loop' = "free" \/ loop' = "crashed")
      BY <2>7 DEF DispatchForward
    <3>3. WorkerIdle' = WorkerIdle
      BY <3>1 DEF WorkerIdle
    <3>4. phase = "dispatch"
      BY <2>7 DEF DispatchForward
    <3> QED  BY <3>1, <3>2, <3>3, <3>4
  <2>8. CASE LTakeQuery
    <3>1. /\ UNCHANGED <<call, phase>> /\ loop = "taking"
          /\ loop' \in {"crashed", "running", "free"}
      BY <2>8 DEF LTakeQuery, TakeQuery, Obey, lvars
    <3> QED  BY <3>1 DEF WorkerIdle
  <2>9. CASE LTakeRefused
    BY <2>9 DEF LTakeRefused, TakeRefused, lvars, WorkerIdle
  <2>10. CASE LBlockDone
    BY <2>10 DEF LBlockDone, BlockDone, lvars, WorkerIdle
  <2>11. CASE LUserThrow
    BY <2>11 DEF LUserThrow, UserThrow, lvars, WorkerIdle
  <2>12. CASE PollThrows
    BY <2>12 DEF PollThrows, lvars, WorkerIdle
  <2> QED  BY <1>1, <2>1, <2>2, <2>3, <2>4, <2>5, <2>6, <2>7, <2>8, <2>9, <2>10,
              <2>11, <2>12 DEF LoopStep
<1>2. CASE UserStep
  BY <1>2 DEF UserStep, SendMessage, Remove, Produced, ProducerThrows, Sent,
              InvokeAfterTimeout, qvars, WorkerIdle
<1>3. CASE CallStep
  <2>1. PICK t \in Callers :
           \/ LPingSent(t) \/ LStopSafe(t) \/ LDispose(t) \/ LAccessRefused(t)
           \/ \E b \in Blocks : LInvokeSafe(t, b)
    BY <1>3 DEF CallStep
  <2>2. PICK c \in CallState : call' = [call EXCEPT ![t] = c]
    BY <2>1 DEF LPingSent, PingSent, LStopSafe, StopSafe, LDispose, Dispose,
                LAccessRefused, AccessRefused, LInvokeSafe, InvokeSafe, CallState
  <2>3. call' \in [Callers -> CallState]
    BY <2>2
  <2>4. /\ phase' = phase
        /\ loop' = loop \/ loop' = "crashed"
    BY <2>1 DEF LPingSent, PingSent, LStopSafe, StopSafe, LDispose, Dispose,
                LAccessRefused, AccessRefused, LInvokeSafe, InvokeSafe, lvars
  <2>5. CASE t # Worker
    <3>1. call'[Worker] = call[Worker]
      BY <2>2, <2>5, WorkerCallsAssumption
    <3> QED  BY <2>3, <2>4, <3>1 DEF WorkerIdle
  <2>6. CASE t = Worker
    <3>1. CASE LPingSent(t) \/ LDispose(t)
      <4>1. call'[Worker] = "none"
        BY <2>6, <3>1, WorkerCallsAssumption
           DEF LPingSent, PingSent, LDispose, Dispose
      <4> QED  BY <2>3, <2>4, <4>1 DEF WorkerIdle
    <3>2. CASE ~(LPingSent(t) \/ LDispose(t))
      <4>1. InUserCode
        BY <2>1, <2>6, <3>2 DEF LStopSafe, LAccessRefused, LInvokeSafe
      <4> QED  BY <2>3, <2>4, <4>1 DEF InUserCode
    <3> QED  BY <3>1, <3>2
  <2> QED  BY <2>5, <2>6
<1>4. CASE Tick \/ \E s \in Sockets : PeerTakes(s)
  BY <1>4 DEF Tick, PeerTakes, qvars, WorkerIdle
<1>5. CASE UNCHANGED cvars
  BY <1>5 DEF cvars, lvars, qvars, WorkerIdle
<1> QED  BY <1>1, <1>2, <1>3, <1>4, <1>5 DEF CNext

-----------------------------------------------------------------------------
(* The clock and the schedule *)

(* Which steps change the clock or the schedule. *)
LEMMA OtherTimes ==
    [CNext]_cvars => \/ UNCHANGED timevars
                     \/ Iterate \/ RunScheduled \/ Tick
                     \/ \E d \in Delays, b \in Timers : InvokeAfterTimeout(d, b)
<1> SUFFICES ASSUME [CNext]_cvars,
                    ~Iterate, ~RunScheduled, ~Tick,
                    ~\E d \in Delays, b \in Timers : InvokeAfterTimeout(d, b)
             PROVE  UNCHANGED timevars
  OBVIOUS
<1>1. CASE LoopStep
  BY <1>1 DEF LoopStep, LConnect, Start, PollThrows, LLoopExit, ScheduledDone, TimersDrained,
              PollReady, PollTimeout, DispatchPong, DispatchForward, ListenerDone,
              DispatchDone, LTakeQuery, LTakeRefused, LBlockDone, LUserThrow, lvars
<1>2. CASE UserStep
  BY <1>2 DEF UserStep, SendMessage, Remove, Produced, ProducerThrows, Sent
<1>3. CASE CallStep
  BY <1>3 DEF CallStep, LPingSent, LStopSafe, LDispose, LAccessRefused,
              LInvokeSafe, lvars
<1>4. CASE \E s \in Sockets : PeerTakes(s)
  BY <1>4 DEF PeerTakes
<1>5. CASE UNCHANGED cvars
  BY <1>5 DEF cvars, lvars
<1> QED  BY <1>1, <1>2, <1>3, <1>4, <1>5 DEF CNext

(* How a step can leave the loop in poll. *)
LEMMA PollUntouched ==
    ASSUME [CNext]_cvars, phase' = "poll", InUserCode => phase # "poll"
    PROVE  TimersDrained \/ (phase = "poll" /\ UNCHANGED <<scheduled, currentTime>>)
<1>1. CASE LoopStep
  BY <1>1 DEF LoopStep, LConnect, Start, PollThrows, LLoopExit, Iterate, RunScheduled, ScheduledDone,
              PollReady, PollTimeout, DispatchPong, DispatchForward, ListenerDone,
              DispatchDone, LTakeQuery, LTakeRefused, LBlockDone, LUserThrow,
              lvars, timevars
<1>2. CASE UserStep
  BY <1>2 DEF UserStep, SendMessage, Remove, Produced, ProducerThrows, Sent, InvokeAfterTimeout, timevars
<1>3. CASE CallStep
  BY <1>3 DEF CallStep, LPingSent, LStopSafe, LDispose, LAccessRefused,
              LInvokeSafe, lvars, timevars
<1>4. CASE Tick \/ \E s \in Sockets : PeerTakes(s)
  BY <1>4 DEF Tick, PeerTakes, timevars
<1>5. CASE UNCHANGED cvars
  BY <1>5 DEF cvars, lvars, timevars
<1> QED  BY <1>1, <1>2, <1>3, <1>4, <1>5 DEF CNext

(* Time stays in its bounds and the reading of the clock behind the clock. *)
LEMMA ClockStep == ClockOK /\ [CNext]_cvars => ClockOK'
<1> SUFFICES ASSUME ClockOK, [CNext]_cvars
             PROVE  ClockOK'
  OBVIOUS
<1>1. MaxTime \in Nat /\ now \in Nat /\ currentTime \in Nat
  BY DelaysAssumption DEF ClockOK
<1>2. CASE UNCHANGED timevars
  BY <1>2 DEF timevars, ClockOK
<1>3. CASE Iterate
  BY <1>1, <1>3 DEF Iterate, ClockOK
<1>4. CASE RunScheduled
  BY <1>4 DEF RunScheduled, ClockOK
<1>5. CASE Tick
  BY <1>1, <1>5 DEF Tick, ClockOK
<1>6. ASSUME NEW d \in Delays, NEW b \in Timers, InvokeAfterTimeout(d, b)
      PROVE  ClockOK'
  <2>1. now + d \in 0..MaxTime
    BY <1>1, <1>6, DelaysAssumption DEF InvokeAfterTimeout
  <2>2. [time |-> now + d, block |-> b] \in Timed
    BY <2>1 DEF Timed
  <2> QED  BY <1>6, <2>2 DEF InvokeAfterTimeout, ClockOK
<1> QED  BY <1>2, <1>3, <1>4, <1>5, <1>6, OtherTimes

(* The loop enters poll from the drain only; while it is in poll nobody     *)
(* schedules, and the reading of the clock stays what it was.               *)
LEMMA SleepStep ==
    Nesting /\ ClockOK /\ SleepsWithNothingDue /\ [CNext]_cvars
       => SleepsWithNothingDue'
<1> SUFFICES ASSUME Nesting, ClockOK, SleepsWithNothingDue, [CNext]_cvars,
                    phase' = "poll"
             PROVE  \A e \in scheduled' : e.time > currentTime'
  BY DEF SleepsWithNothingDue
<1>1. CASE TimersDrained
  <2>1. /\ UNCHANGED <<scheduled, currentTime>>
        /\ \A e \in scheduled : Earliest(e) => e.time > currentTime
    BY <1>1 DEF TimersDrained, timevars, NothingDue
  <2>2. ASSUME NEW e \in scheduled
        PROVE  e.time > currentTime
    <3>1. PICK f \in scheduled : Earliest(f)
      BY LeastTime DEF ClockOK
    <3>2. f.time > currentTime /\ f.time <= e.time
      BY <2>1, <3>1 DEF Earliest
    <3>3. f.time \in Int /\ e.time \in Int /\ currentTime \in Int
      BY DelaysAssumption DEF ClockOK, Timed
    <3> QED  BY <3>2, <3>3
  <2> QED  BY <2>1, <2>2
<1>2. CASE phase = "poll" /\ UNCHANGED <<scheduled, currentTime>>
  BY <1>2 DEF SleepsWithNothingDue
<1>3. ASSUME InUserCode
      PROVE  phase # "poll"
  BY <1>3 DEF InUserCode, Nesting
<1> QED  BY <1>1, <1>2, <1>3, PollUntouched

-----------------------------------------------------------------------------
(* The map and its sockets *)

(* Which steps change them: those of sendMessage, and remove. *)
LEMMA OtherSockets ==
    [CNext]_cvars => \/ UNCHANGED mapvars
                     \/ \E a \in Addresses : SendMessage(a) \/ Remove(a)
                     \/ Produced \/ ProducerThrows
<1> SUFFICES ASSUME [CNext]_cvars,
                    ~\E a \in Addresses : SendMessage(a) \/ Remove(a),
                    ~Produced, ~ProducerThrows
             PROVE  UNCHANGED mapvars
  OBVIOUS
<1>1. CASE LoopStep
  BY <1>1 DEF LoopStep, LConnect, Start, PollThrows, LLoopExit, Iterate, RunScheduled,
              ScheduledDone, TimersDrained, PollReady, PollTimeout, DispatchPong,
              DispatchForward, ListenerDone, DispatchDone, LTakeQuery, LTakeRefused,
              LBlockDone, LUserThrow, lvars, sockvars
<1>2. CASE UserStep
  BY <1>2 DEF UserStep, Sent, InvokeAfterTimeout, sockvars
<1>3. CASE CallStep
  BY <1>3 DEF CallStep, LPingSent, LStopSafe, LDispose, LAccessRefused,
              LInvokeSafe, lvars, sockvars
<1>4. CASE Tick \/ \E s \in Sockets : PeerTakes(s)
  BY <1>4 DEF Tick, PeerTakes, sockvars
<1>5. CASE UNCHANGED cvars
  BY <1>5 DEF cvars, lvars, sockvars
<1> QED  BY <1>1, <1>2, <1>3, <1>4, <1>5 DEF CNext

LEMMA MapStep ==
    MapOK /\ CallsOK /\ SocketsAccounted /\ [CNext]_cvars
       => MapOK' /\ CallsOK' /\ SocketsAccounted'
<1> SUFFICES ASSUME MapOK, CallsOK, SocketsAccounted, [CNext]_cvars
             PROVE  MapOK' /\ CallsOK' /\ SocketsAccounted'
  OBVIOUS
<1>1. CASE UNCHANGED mapvars
  BY <1>1, MapUnchanged
<1>2. ASSUME NEW a \in Addresses, SendMessage(a)
      PROVE  MapOK' /\ CallsOK' /\ SocketsAccounted'
  <2>1. CASE a \in Managed
    BY <1>1, <1>2, <2>1 DEF SendMessage, mapvars
  <2>2. CASE a \notin Managed
    <3>1. PICK s \in Sockets :
             /\ sock[s] = "unused"
             /\ sock' = [sock EXCEPT ![s] = "open"]
             /\ creating' = Append(creating, [address |-> a, socket |-> s])
      BY <1>2, <2>2 DEF SendMessage
    <3>2. UNCHANGED <<forwardSockets, lost, shadowed>>
      BY <1>2 DEF SendMessage
    <3> QED  BY <3>1, <3>2, NewSocket
  <2> QED  BY <2>1, <2>2
<1>3. ASSUME NEW a \in Addresses, Remove(a)
      PROVE  MapOK' /\ CallsOK' /\ SocketsAccounted'
  <2>1. PICK i \in DOMAIN forwardSockets :
           /\ forwardSockets' = Without(forwardSockets, i)
           /\ sock' = [sock EXCEPT ![forwardSockets[i].socket] = "closed"]
    BY <1>3 DEF Remove
  <2>2. UNCHANGED <<creating, lost, shadowed>>
    BY <1>3 DEF Remove
  <2> QED  BY <2>1, <2>2, RemovedSocket
<1> QED  BY <1>1, <1>2, <1>3, ProducedSocket, LostSocket, OtherSockets

-----------------------------------------------------------------------------
(* What poll found, and what the sockets hold *)

(* A step that leaves the sockets and the turns alone. *)
LEMMA CalmStep ==
    ASSUME Contents, ReadyOK,
           UNCHANGED <<ready, sock, sending, outbox, inbox>>,
           phase' \in {phase, "top", "timers", "timer", "poll", "dispatch"},
           hearing' = hearing \/ hearing' = {},
           fired' \in SUBSET Timers
    PROVE  Contents' /\ ReadyOK'
<1>1. Contents'
  BY DEF Contents
<1>2. ReadyOK'
  BY DEF ReadyOK
<1> QED  BY <1>1, <1>2

(* The steps that do not. *)
LEMMA OtherContents ==
    ClockOK /\ Contents /\ ReadyOK /\ [CNext]_cvars =>
       \/ Contents' /\ ReadyOK'
       \/ PollReady \/ DispatchPong \/ DispatchForward
       \/ \E a \in Addresses : SendMessage(a) \/ Remove(a)
       \/ Produced \/ ProducerThrows
       \/ Sent \/ \E s \in Sockets : PeerTakes(s)
<1> SUFFICES ASSUME ClockOK, Contents, ReadyOK, [CNext]_cvars,
                    ~PollReady, ~DispatchPong, ~DispatchForward,
                    ~\E a \in Addresses : SendMessage(a) \/ Remove(a),
                    ~Produced, ~ProducerThrows, ~Sent, ~\E s \in Sockets : PeerTakes(s)
             PROVE  Contents' /\ ReadyOK'
  OBVIOUS
<1>0. fired \in SUBSET Timers
  BY DEF Contents
<1>1. CASE RunScheduled
  <2>1. /\ UNCHANGED <<ready, sock, sending, outbox, inbox, hearing>>
        /\ phase' = "timer"
    BY <1>1 DEF RunScheduled, sockvars, mapvars
  <2>2. PICK e \in scheduled : fired' = fired \cup {e.block}
    BY <1>1 DEF RunScheduled
  <2>3. e.block \in Timers
    BY DEF ClockOK, Timed
  <2> QED  BY <1>0, <2>1, <2>2, <2>3, CalmStep
<1>2. CASE LoopStep /\ ~RunScheduled
  <2>1. /\ UNCHANGED <<ready, sock, sending, outbox, inbox, fired>>
        /\ phase' \in {phase, "top", "timers", "timer", "poll", "dispatch"}
        /\ hearing' = hearing \/ hearing' = {}
    BY <1>2 DEF LoopStep, LConnect, Start, PollThrows, LLoopExit, Iterate, ScheduledDone,
                TimersDrained, PollTimeout, ListenerDone, DispatchDone, LTakeQuery,
                LTakeRefused, LBlockDone, LUserThrow, lvars, sockvars, mapvars, timevars
  <2> QED  BY <1>0, <2>1, CalmStep
<1>3. CASE UserStep
  <2>1. UNCHANGED <<ready, sock, sending, outbox, inbox, hearing, phase, fired>>
    BY <1>3 DEF UserStep, InvokeAfterTimeout, sockvars, mapvars
  <2> QED  BY <1>0, <2>1, CalmStep
<1>4. CASE CallStep
  <2>1. UNCHANGED <<ready, sock, sending, outbox, inbox, hearing, phase, fired>>
    BY <1>4 DEF CallStep, LPingSent, LStopSafe, LDispose, LAccessRefused,
                LInvokeSafe, lvars, sockvars, mapvars, timevars
  <2> QED  BY <1>0, <2>1, CalmStep
<1>5. CASE Tick
  <2>1. UNCHANGED <<ready, sock, sending, outbox, inbox, hearing, phase, fired>>
    BY <1>5 DEF Tick, sockvars, mapvars
  <2> QED  BY <1>0, <2>1, CalmStep
<1>6. CASE UNCHANGED cvars
  <2>1. UNCHANGED <<ready, sock, sending, outbox, inbox, hearing, phase, fired>>
    BY <1>6 DEF cvars, lvars, sockvars, mapvars, timevars
  <2> QED  BY <1>0, <2>1, CalmStep
<1> QED  BY <1>1, <1>2, <1>3, <1>4, <1>5, <1>6 DEF CNext

(* A socket with an entry is open, in its one place in the map.             *)
LEMMA PolledNative ==
    ASSUME MapOK, SocketsAccounted, Platform = "native"
    PROVE  /\ DOMAIN Polled \subseteq Nat \ {0}
           /\ \A i \in DOMAIN Polled :
                 Polled[i] # Pong => Polled[i] \in Sockets /\ sock[Polled[i]] = "open"
           /\ \A i, j \in DOMAIN Polled :
                 Polled[i] # Pong /\ Polled[i] = Polled[j] => i = j
<1> DEFINE n == Len(forwardSockets)
           p == <<Pong>>
           f == [i \in DOMAIN forwardSockets |-> forwardSockets[i].socket]
<1>1. /\ n \in Nat /\ DOMAIN forwardSockets = 1..n
      /\ \A i \in 1..n : forwardSockets[i] \in Entry
  BY DEF MapOK
<1>2. \A i \in 1..n : /\ forwardSockets[i].socket \in Sockets
                      /\ forwardSockets[i].socket \in Held
  BY <1>1 DEF Entry, Held, Elements
<1>3. f \in Seq(Sockets \cup {Pong}) /\ Len(f) = n
  <2>1. f \in [1..n -> Sockets \cup {Pong}]
    BY <1>1, <1>2
  <2> QED  BY <1>1, <2>1, SeqDef
<1>4. p \in Seq(Sockets \cup {Pong}) /\ Len(p) = 1 /\ p[1] = Pong
  OBVIOUS
<1>5. \A i \in 1..n : f[i] = forwardSockets[i].socket
  BY <1>1
<1> DEFINE T == Sockets \cup {Pong}
<1> HIDE DEF f, p, n, T
<1>6. /\ p \o f \in Seq(T)
      /\ Len(p \o f) = 1 + n
      /\ \A i \in 1..(1 + n) : (p \o f)[i] = IF i <= 1 THEN p[i] ELSE f[i - 1]
  <2>1. f \in Seq(T) /\ p \in Seq(T)
    BY <1>3, <1>4 DEF T
  <2>2. /\ p \o f \in Seq(T)
        /\ Len(p \o f) = Len(p) + Len(f)
        /\ \A i \in 1..(Len(p) + Len(f)) :
              (p \o f)[i] = IF i <= Len(p) THEN p[i] ELSE f[i - Len(p)]
    BY <2>1, ConcatProperties
  <2> QED  BY <1>3, <1>4, <2>2
<1>7. Polled = p \o f
  BY DEF Polled, p, f
<1>8. /\ DOMAIN Polled = 1..(n + 1) /\ Polled[1] = Pong
      /\ \A i \in 1..(n + 1) : i # 1 =>
            i - 1 \in 1..n /\ Polled[i] = forwardSockets[i - 1].socket
  <2>1. DOMAIN Polled = 1..(n + 1)
    BY <1>1, <1>6, <1>7
  <2>2. Polled[1] = Pong
    BY <1>1, <1>4, <1>6, <1>7
  <2>3. ASSUME NEW i \in 1..(n + 1), i # 1
        PROVE  i - 1 \in 1..n /\ Polled[i] = forwardSockets[i - 1].socket
    <3>1. i - 1 \in 1..n /\ ~(i <= 1) /\ i \in 1..(1 + n)
      BY <1>1, <2>3
    <3> QED  BY <1>5, <1>6, <1>7, <3>1
  <2> QED  BY <2>1, <2>2, <2>3
<1>9. \A i \in 1..n : sock[forwardSockets[i].socket] = "open"
  BY <1>2 DEF SocketsAccounted
<1>10. \A i \in 1..(n + 1) :
          Polled[i] # Pong => Polled[i] \in Sockets /\ sock[Polled[i]] = "open"
  BY <1>2, <1>8, <1>9
<1>11. ASSUME NEW i \in 1..(n + 1), NEW j \in 1..(n + 1),
              Polled[i] # Pong, Polled[i] = Polled[j]
       PROVE  i = j
  <2>1. i # 1 /\ j # 1
    BY <1>8, <1>11
  <2>2. i - 1 = j - 1
    BY <1>1, <1>8, <1>11, <2>1 DEF SocketsAccounted
  <2> QED  BY <1>1, <2>2
<1> QED  BY <1>1, <1>8, <1>10, <1>11

(* What the JVM polls is or was open. *)
LEMMA PolledJvm ==
    ASSUME MapOK, CallsOK, SocketsAccounted, Platform # "native"
    PROVE  /\ DOMAIN Polled = {Pong} \cup Registered
           /\ \A x \in DOMAIN Polled : Polled[x] = x
           /\ Registered \subseteq Sockets
           /\ \A s \in Registered : sock[s] = "open" \/ s \in Stale
<1>1. Polled = [x \in {Pong} \cup Registered |-> x]
  BY DEF Polled
<1>2. Held \subseteq Sockets /\ shadowed \subseteq Sockets /\ Closed \subseteq Sockets
  BY SubsetSockets DEF CallsOK, Closed
<1>3. \A s \in Held \cup shadowed : sock[s] = "open"
  BY DEF SocketsAccounted
<1> QED  BY <1>1, <1>2, <1>3 DEF Registered, Stale

(* The turns that poll hands out: one for each socket, with a message for   *)
(* it if the socket is open.                                                *)
LEMMA PollContents ==
    ASSUME MapOK, CallsOK, SocketsAccounted, Contents, PollReady
    PROVE  Contents' /\ ReadyOK' /\ (Platform = "native" => ReadyOpen')
<1>1. /\ UNCHANGED <<sock, sending, outbox, inbox, hearing, fired>>
      /\ phase' = "dispatch"
  BY DEF PollReady, sockvars, mapvars, timevars
<1>2. PICK more \in SUBSET Stale :
         ready' = [i \in Readable \cup more |-> Polled[i]]
  BY DEF PollReady
<1>3. DOMAIN ready' = Readable \cup more
      /\ \A i \in Readable \cup more : ready'[i] = Polled[i]
  BY <1>2
<1>4. Contents'
  BY <1>1 DEF Contents
<1>5. CASE Platform = "native"
  <2>1. more = {}
    BY <1>5 DEF Stale
  <2>2. \A i \in Readable : i \in DOMAIN Polled /\ CanRead(Polled[i])
    BY DEF Readable
  <2>3. ready' \in [DOMAIN ready' -> Sockets \cup {Pong}]
        /\ DOMAIN ready' \subseteq Nat \ {0}
    BY <1>2, <1>3, <1>5, <2>1, <2>2, PolledNative
  <2>4. \A i \in DOMAIN ready' : ready'[i] # Pong =>
           sock'[ready'[i]] = "open" /\ inbox'[ready'[i]] > 0
    BY <1>1, <1>3, <1>5, <2>1, <2>2, PolledNative DEF CanRead
  <2>5. \A i, j \in DOMAIN ready' : ready'[i] # Pong /\ ready'[i] = ready'[j] => i = j
    BY <1>3, <1>5, <2>1, <2>2, PolledNative
  <2> QED  BY <1>4, <1>5, <2>3, <2>4, <2>5 DEF ReadyOK, ReadyOpen
<1>6. CASE Platform # "native"
  <2>1. \A x \in Readable : x \in {Pong} \cup Registered /\ CanRead(x)
    BY <1>6, PolledJvm DEF Readable
  <2>2. more \subseteq Stale /\ Stale \subseteq Registered
    BY <1>6 DEF Stale, Registered
  <2>3. \A x \in Readable \cup more : /\ x \in {Pong} \cup Registered
                                     /\ ready'[x] = x
    BY <1>3, <1>6, <2>1, <2>2, PolledJvm
  <2>4. ready' \in [DOMAIN ready' -> Sockets \cup {Pong}]
        /\ DOMAIN ready' \subseteq Sockets \cup {Pong}
    BY <1>2, <1>3, <1>6, <2>3, PolledJvm
  <2>5. ASSUME NEW x \in DOMAIN ready', ready'[x] # Pong
        PROVE  /\ sock'[ready'[x]] # "unused"
               /\ sock'[ready'[x]] = "open" => inbox'[ready'[x]] > 0
    <3>1. ready'[x] = x /\ x \in Registered /\ x # Pong
      BY <1>3, <2>3, <2>5
    <3>2. sock[x] = "open" \/ x \in Stale
      BY <1>6, <3>1, PolledJvm
    <3>3. \A y \in Stale : sock[y] = "closed"
      BY <1>6 DEF Stale, Closed
    <3>4. sock[x] = "open" => inbox[x] > 0
      <4>1. sock[x] = "open" => x \in Readable
        BY <1>3, <2>2, <3>3
      <4> QED  BY <2>1, <3>1, <4>1 DEF CanRead
    <3> QED  BY <1>1, <3>1, <3>2, <3>3, <3>4
  <2>6. \A i, j \in DOMAIN ready' : ready'[i] # Pong /\ ready'[i] = ready'[j] => i = j
    BY <1>3, <2>3
  <2> QED  BY <1>4, <1>6, <2>4, <2>5, <2>6 DEF ReadyOK
<1> QED  BY <1>5, <1>6

(* A turn that is taken leaves the others as they were. *)
LEMMA TurnTaken ==
    ASSUME ReadyOK, NEW i \in DOMAIN ready, ready' = ReadyBut(i)
    PROVE  /\ DOMAIN ready' = DOMAIN ready \ {i}
           /\ \A j \in DOMAIN ready' : ready'[j] = ready[j]
           /\ ready' \in [DOMAIN ready' -> Sockets \cup {Pong}]
           /\ DOMAIN ready' \subseteq IF Platform = "native" THEN Nat \ {0}
                                      ELSE Sockets \cup {Pong}
<1>1. ready' = [j \in DOMAIN ready \ {i} |-> ready[j]]
  BY DEF ReadyBut
<1>2. \A j \in DOMAIN ready : ready[j] \in Sockets \cup {Pong}
  BY DEF ReadyOK
<1> QED  BY <1>1, <1>2 DEF ReadyOK

LEMMA PongContents ==
    ASSUME Contents, ReadyOK, DispatchPong
    PROVE  Contents' /\ ReadyOK'
<1>1. UNCHANGED <<phase, sock, sending, outbox, inbox, hearing, fired>>
  BY DEF DispatchPong, sockvars, mapvars, timevars
<1>2. PICK i \in DOMAIN ready : ready' = ReadyBut(i)
  BY DEF DispatchPong
<1>3. Contents'
  BY <1>1 DEF Contents
<1>4. /\ DOMAIN ready' = DOMAIN ready \ {i}
      /\ \A j \in DOMAIN ready' : ready'[j] = ready[j]
      /\ ready' \in [DOMAIN ready' -> Sockets \cup {Pong}]
      /\ DOMAIN ready' \subseteq IF Platform = "native" THEN Nat \ {0}
                                 ELSE Sockets \cup {Pong}
  BY <1>2, TurnTaken
<1>5. ReadyOK'
  <2>1. \A j \in DOMAIN ready' : j \in DOMAIN ready /\ ready'[j] = ready[j]
    BY <1>4
  <2> QED  BY <1>1, <1>4, <2>1 DEF ReadyOK
<1> QED  BY <1>3, <1>5

(* A forward socket's turn takes the message that made it readable; if the  *)
(* socket is closed, there is none to take, whatever the JVM makes of it.   *)
LEMMA ForwardContents ==
    ASSUME Contents, ReadyOK, DispatchForward
    PROVE  Contents' /\ ReadyOK'
<1>1. UNCHANGED <<sock, sending, outbox, fired>> /\ phase = "dispatch"
  BY DEF DispatchForward, mapvars, timevars
<1>2. PICK i \in DOMAIN ready :
         /\ ready[i] # Pong /\ ready' = ReadyBut(i)
         /\ \/ /\ inbox' = [inbox EXCEPT ![ready[i]] = IF sock[ready[i]] = "open"
                                                       THEN @ - 1 ELSE @]
               /\ phase' = "listener" /\ hearing' = {ready[i]}
            \/ UNCHANGED <<inbox, phase, hearing>>
  BY DEF DispatchForward
<1> DEFINE s == ready[i]
<1>3. s \in Sockets
  BY <1>2 DEF ReadyOK
<1>4. /\ DOMAIN ready' = DOMAIN ready \ {i}
      /\ \A j \in DOMAIN ready' : ready'[j] = ready[j]
      /\ ready' \in [DOMAIN ready' -> Sockets \cup {Pong}]
      /\ DOMAIN ready' \subseteq IF Platform = "native" THEN Nat \ {0}
                                 ELSE Sockets \cup {Pong}
  BY <1>2, TurnTaken
<1>5. CASE UNCHANGED <<inbox, phase, hearing>>
  <2>1. Contents'
    BY <1>1, <1>5 DEF Contents
  <2> QED  BY <1>1, <1>4, <1>5, <2>1 DEF ReadyOK
<1>6. CASE /\ inbox' = [inbox EXCEPT ![s] = IF sock[s] = "open" THEN inbox[s] - 1
                                            ELSE inbox[s]]
           /\ phase' = "listener" /\ hearing' = {s}
  <2>1. inbox[s] \in 0..RcvHWM /\ (sock[s] = "open" => inbox[s] > 0)
    BY <1>2, <1>3 DEF ReadyOK, Contents
  <2>2. (IF sock[s] = "open" THEN inbox[s] - 1 ELSE inbox[s]) \in 0..RcvHWM
    BY <2>1, SocketHwmAssumption
  <2>3. Contents'
    BY <1>1, <1>3, <1>6, <2>2 DEF Contents
  <2>4. ASSUME NEW j \in DOMAIN ready', ready'[j] # Pong
        PROVE  inbox'[ready'[j]] = inbox[ready[j]]
    <3>1. j \in DOMAIN ready /\ j # i /\ ready'[j] = ready[j]
      BY <1>4
    <3>2. ready[j] # s /\ ready[j] \in Sockets
      BY <1>2, <2>4, <3>1 DEF ReadyOK
    <3> QED  BY <1>6, <3>1, <3>2 DEF Contents
  <2> QED  BY <1>1, <1>4, <2>3, <2>4 DEF ReadyOK
<1> QED  BY <1>2, <1>5, <1>6

(* A socket that is created was not there when poll looked. *)
LEMMA SendContents ==
    ASSUME MapOK, Contents, ReadyOK, NEW a \in Addresses, SendMessage(a)
    PROVE  Contents' /\ ReadyOK'
<1>1. UNCHANGED <<phase, ready, hearing, outbox, inbox, fired>>
  BY DEF SendMessage, timevars
<1>2. CASE a \in Managed
  <2>1. sending' = {EntryOf(a).socket} /\ sock' = sock
    BY <1>2 DEF SendMessage
  <2>2. \E e \in Elements(forwardSockets) : e.address = a
    BY <1>2 DEF Managed
  <2>3. EntryOf(a) \in Elements(forwardSockets)
    BY <2>2 DEF EntryOf
  <2>4. EntryOf(a).socket \in Sockets
    <3>1. EntryOf(a) \in Entry
      BY <2>3 DEF Elements, MapOK
    <3> QED  BY <3>1 DEF Entry
  <2>5. Contents'
    BY <1>1, <2>1, <2>4 DEF Contents
  <2> QED  BY <1>1, <2>1, <2>5 DEF ReadyOK
<1>3. CASE a \notin Managed
  <2>1. sending' = sending
    BY <1>3 DEF SendMessage
  <2>2. PICK s \in Sockets : /\ sock[s] = "unused"
                             /\ sock' = [sock EXCEPT ![s] = "open"]
    BY <1>3 DEF SendMessage
  <2>3. Contents'
    BY <1>1, <2>1 DEF Contents
  <2>4. ASSUME NEW i \in DOMAIN ready, ready[i] # Pong
        PROVE  sock'[ready[i]] = sock[ready[i]]
    <3>1. ready[i] \in Sockets /\ ready[i] # s
      BY <2>2, <2>4 DEF ReadyOK
    <3> QED  BY <2>2, <3>1 DEF MapOK
  <2> QED  BY <1>1, <2>3, <2>4 DEF ReadyOK
<1> QED  BY <1>2, <1>3

(* What ends a producer leaves the turns and the messages alone. *)
LEMMA ProducerContents ==
    ASSUME CallsOK, Contents, ReadyOK, Produced \/ ProducerThrows
    PROVE  Contents' /\ ReadyOK'
<1>1. UNCHANGED <<phase, ready, sock, hearing, outbox, inbox, fired>>
  BY DEF Produced, ProducerThrows, timevars
<1>2. sending' \in SUBSET Sockets
  <2>1. CASE Produced
    <3>1. creating # <<>> /\ Return /\ sending' = {Innermost.socket}
      BY <2>1 DEF Produced
    <3>2. Innermost.socket \in Sockets
      BY <3>1, Ended DEF Entry
    <3> QED  BY <3>1, <3>2
  <2>2. CASE ProducerThrows
    BY <2>2 DEF ProducerThrows, Contents
  <2> QED  BY <2>1, <2>2
<1>3. Contents'
  BY <1>1, <1>2 DEF Contents
<1> QED  BY <1>1, <1>3 DEF ReadyOK

LEMMA RemoveContents ==
    ASSUME MapOK, Contents, ReadyOK, NEW a \in Addresses, Remove(a)
    PROVE  Contents' /\ ReadyOK'
<1>1. UNCHANGED <<phase, ready, hearing, sending, fired>>
  BY DEF Remove, timevars
<1>2. PICK i \in DOMAIN forwardSockets :
         /\ sock' = [sock EXCEPT ![forwardSockets[i].socket] = "closed"]
         /\ outbox' = [outbox EXCEPT ![forwardSockets[i].socket] = 0]
         /\ inbox' = [inbox EXCEPT ![forwardSockets[i].socket] = 0]
  BY DEF Remove
<1> DEFINE s == forwardSockets[i].socket
<1>3. s \in Sockets
  <2>1. forwardSockets[i] \in Entry
    BY DEF MapOK
  <2> QED  BY <2>1 DEF Entry
<1> HIDE DEF s
<1>4. /\ sock' = [sock EXCEPT ![s] = "closed"]
      /\ outbox' = [outbox EXCEPT ![s] = 0] /\ inbox' = [inbox EXCEPT ![s] = 0]
  BY <1>2 DEF s
<1>5. 0 \in 0..SndHWM /\ 0 \in 0..RcvHWM
  BY SocketHwmAssumption
<1>6. Contents'
  BY <1>1, <1>3, <1>4, <1>5 DEF Contents
<1>7. ASSUME NEW j \in DOMAIN ready, ready[j] # Pong
      PROVE  LET r == ready[j]
             IN  /\ sock'[r] # "unused"
                 /\ sock'[r] = "open" => inbox'[r] > 0
  <2>1. ready[j] \in Sockets
    BY <1>7 DEF ReadyOK
  <2>2. CASE ready[j] = s
    BY <1>3, <1>4, <2>2 DEF MapOK
  <2>3. CASE ready[j] # s
    <3>1. /\ sock'[ready[j]] = sock[ready[j]]
          /\ inbox'[ready[j]] = inbox[ready[j]]
      BY <1>4, <2>1, <2>3 DEF MapOK, Contents
    <3> QED  BY <1>7, <3>1 DEF ReadyOK
  <2> QED  BY <2>2, <2>3
<1> QED  BY <1>1, <1>6, <1>7 DEF ReadyOK

LEMMA SentContents ==
    ASSUME Contents, ReadyOK, Sent
    PROVE  Contents' /\ ReadyOK'
<1>1. UNCHANGED <<phase, ready, sock, hearing, inbox, fired>> /\ sending' = {}
  BY DEF Sent, mapvars, timevars
<1>2. PICK s \in Sockets : outbox[s] < SndHWM /\ outbox' = [outbox EXCEPT ![s] = @ + 1]
  BY DEF Sent, Contents
<1>3. outbox[s] + 1 \in 0..SndHWM
  BY <1>2, SocketHwmAssumption DEF Contents
<1>4. Contents'
  BY <1>1, <1>2, <1>3 DEF Contents
<1> QED  BY <1>1, <1>4 DEF ReadyOK

LEMMA PeerContents ==
    ASSUME Contents, ReadyOK, NEW s \in Sockets, PeerTakes(s)
    PROVE  Contents' /\ ReadyOK'
<1>1. /\ UNCHANGED <<phase, ready, sock, hearing, sending, fired>>
      /\ outbox[s] > 0 /\ outbox' = [outbox EXCEPT ![s] = @ - 1]
      /\ \/ UNCHANGED inbox
         \/ inbox[s] < RcvHWM /\ inbox' = [inbox EXCEPT ![s] = @ + 1]
  BY DEF PeerTakes, mapvars, timevars
<1>2. outbox[s] - 1 \in 0..SndHWM
  BY <1>1, SocketHwmAssumption DEF Contents
<1>3. inbox' \in [Sockets -> 0..RcvHWM] /\ \A r \in Sockets : inbox'[r] >= inbox[r]
  <2>1. \A r \in Sockets : inbox[r] \in Nat
    BY SocketHwmAssumption DEF Contents
  <2>2. CASE UNCHANGED inbox
    BY <2>1, <2>2 DEF Contents
  <2>3. CASE inbox[s] < RcvHWM /\ inbox' = [inbox EXCEPT ![s] = @ + 1]
    <3>1. inbox[s] + 1 \in 0..RcvHWM
      BY <2>1, <2>3, SocketHwmAssumption
    <3>2. inbox'[s] = inbox[s] + 1 /\ \A r \in Sockets : r # s => inbox'[r] = inbox[r]
      BY <2>3 DEF Contents
    <3> QED  BY <2>1, <2>3, <3>1, <3>2 DEF Contents
  <2> QED  BY <1>1, <2>2, <2>3
<1>4. Contents'
  BY <1>1, <1>2, <1>3 DEF Contents
<1>5. ASSUME NEW i \in DOMAIN ready, ready[i] # Pong, inbox[ready[i]] > 0
      PROVE  inbox'[ready[i]] > 0
  <2>1. ready[i] \in Sockets
    BY <1>5 DEF ReadyOK
  <2>2. inbox[ready[i]] \in Int /\ inbox'[ready[i]] \in Int
    BY <1>3, <2>1, SocketHwmAssumption DEF Contents
  <2> QED  BY <1>3, <1>5, <2>1, <2>2
<1> QED  BY <1>1, <1>4, <1>5 DEF ReadyOK

LEMMA ContentsStep ==
    ClockOK /\ MapOK /\ CallsOK /\ SocketsAccounted /\ Contents /\ ReadyOK /\ [CNext]_cvars
       => Contents' /\ ReadyOK'
<1> SUFFICES ASSUME ClockOK, MapOK, CallsOK, SocketsAccounted, Contents, ReadyOK,
                    [CNext]_cvars
             PROVE  Contents' /\ ReadyOK'
  OBVIOUS
<1>1. ASSUME NEW a \in Addresses, SendMessage(a) \/ Remove(a)
      PROVE  Contents' /\ ReadyOK'
  BY <1>1, SendContents, RemoveContents
<1>2. ASSUME NEW s \in Sockets, PeerTakes(s)
      PROVE  Contents' /\ ReadyOK'
  BY <1>2, PeerContents
<1>3. PollReady => Contents' /\ ReadyOK'
  BY PollContents
<1>4. DispatchPong => Contents' /\ ReadyOK'
  BY PongContents
<1>5. DispatchForward => Contents' /\ ReadyOK'
  BY ForwardContents
<1>6. Sent => Contents' /\ ReadyOK'
  BY SentContents
<1>7. Produced \/ ProducerThrows => Contents' /\ ReadyOK'
  BY ProducerContents
<1> QED  BY <1>1, <1>2, <1>3, <1>4, <1>5, <1>6, <1>7, OtherContents

-----------------------------------------------------------------------------
(* The query queue inside the loop *)

(* The loop ends by an exception of its own code: the !! after recv, or poll *)
(* itself.                                                                  *)
Crash == /\ loop = "free" /\ WorkerIdle
         /\ loop' = "crashed"
         /\ UNCHANGED <<queue, pipe, call, disposed, isStopped, log, started>>

(* Every other step of the client loop is one of the queue's, or none. *)
LEMMA QueueOrForward ==
    [CNext]_cvars => [Next]_qvars \/ DispatchForward \/ PollThrows
<1> SUFFICES ASSUME [CNext]_cvars
             PROVE  Next \/ UNCHANGED qvars \/ DispatchForward \/ PollThrows
  OBVIOUS
<1>1. CASE LoopStep
  <2>1. CASE \/ LConnect \/ LLoopExit \/ LTakeQuery \/ LTakeRefused
             \/ LBlockDone \/ LUserThrow
    BY <2>1 DEF LConnect, LLoopExit, LTakeQuery, LTakeRefused, LBlockDone,
                LUserThrow, Next
  <2>2. CASE \/ Start \/ Iterate \/ RunScheduled \/ ScheduledDone \/ TimersDrained
             \/ PollReady \/ PollTimeout \/ ListenerDone \/ DispatchDone
    BY <2>2 DEF Start, Iterate, RunScheduled, ScheduledDone, TimersDrained, PollReady,
                PollTimeout, ListenerDone, DispatchDone
  <2>3. CASE DispatchPong
    BY <2>3 DEF DispatchPong, Next
  <2> QED  BY <1>1, <2>1, <2>2, <2>3 DEF LoopStep
<1>2. CASE UserStep
  BY <1>2 DEF UserStep, SendMessage, Remove, Produced, ProducerThrows, Sent, InvokeAfterTimeout
<1>3. CASE CallStep
  BY <1>3 DEF CallStep, LPingSent, LStopSafe, LDispose, LAccessRefused,
              LInvokeSafe, Next
<1>4. CASE Tick \/ \E s \in Sockets : PeerTakes(s)
  BY <1>4 DEF Tick, PeerTakes
<1>5. CASE UNCHANGED cvars
  BY <1>5 DEF cvars
<1> QED  BY <1>1, <1>2, <1>3, <1>4, <1>5 DEF CNext

(* What the poll and a listener's turn do to the queue: nothing, or the     *)
(* exception.                                                               *)
LEMMA QueueOrCrash == Nesting /\ [CNext]_cvars => [Next]_qvars \/ Crash
<1>1. ASSUME Nesting, DispatchForward
      PROVE  UNCHANGED qvars \/ Crash
  <2>1. /\ loop = "free"
        /\ loop' = loop \/ loop' = "crashed"
        /\ UNCHANGED <<queue, pipe, call, disposed, isStopped, log, started>>
    BY <1>1 DEF DispatchForward
  <2>2. WorkerIdle
    BY <1>1 DEF DispatchForward, Nesting
  <2> QED  BY <2>1, <2>2 DEF qvars, Crash
<1>2. ASSUME Nesting, PollThrows
      PROVE  Crash
  BY <1>2 DEF PollThrows, Nesting, Crash
<1> QED  BY QueueOrForward, <1>1, <1>2

(* The exception leaves the queue as it was. *)
LEMMA CrashInv == IInv /\ Crash => IInv'
<1> SUFFICES ASSUME IInv, Crash
             PROVE  IInv'
  OBVIOUS
<1>1. TypeOK'
  BY DEF IInv, TypeOK, Crash, LoopState
<1>2. Suffix' /\ Prefix'
  BY Quiet DEF IInv, Crash, history
<1>3. OneHolder' /\ StopIsLast' /\ PingBalance'
  BY DEF IInv, OneHolder, StopIsLast, PingBalance, Crash
<1> QED  BY <1>1, <1>2, <1>3 DEF IInv

LEMMA QueueInvStep == IInv /\ Nesting /\ [CNext]_cvars => IInv'
BY QueueOrCrash, NextInv, CrashInv

-----------------------------------------------------------------------------
(* The invariant *)

THEOREM ClientInductive == CSpec => []CIInv
<1>1. CIInv /\ [CNext]_cvars => CIInv'
  BY QueueInvStep, NestingStep, ClockStep, SleepStep, MapStep, ContentsStep DEF CIInv
<1> QED  BY CInitInv, <1>1, PTL DEF CSpec

(* Every variable keeps its type.  Of inbox it says that recv on an open    *)
(* socket that has its turn always finds a message.                         *)
THEOREM ClientTypes == CSpec => []CTypeOK
<1>1. CIInv => CTypeOK
  <2> SUFFICES ASSUME CIInv
               PROVE  CTypeOK
    OBVIOUS
  <2>1. TypeOK
    BY DEF CIInv, IInv
  <2>2. currentTime \in 0..MaxTime
    BY DelaysAssumption DEF CIInv, ClockOK
  <2> QED  BY <2>1, <2>2 DEF CIInv, ClockOK, MapOK, CallsOK, Contents, ReadyOK, CTypeOK
<1> QED  BY ClientInductive, <1>1, PTL

(* Whatever the callbacks and the producers do with sendMessage and remove, *)
(* and wherever a producer throws, each open socket is in the map under one *)
(* address, is being created, or was left over in one of the two ways.      *)
THEOREM NoSocketLeaks == CSpec => []SocketsAccounted
BY ClientInductive, PTL DEF CIInv

(* The drain of the schedule ends with nothing due, also when the blocks it *)
(* ran scheduled others.                                                    *)
THEOREM SleepsInTime == CSpec => []SleepsWithNothingDue
BY ClientInductive, PTL DEF CIInv

(* The step that takes a scheduled block out takes the earliest, when due. *)
LEMMA TimerStep ==
    ClockOK /\ [CNext]_cvars =>
       [\A e \in scheduled \ scheduled' :
           /\ e.time <= now
           /\ \A f \in scheduled' : e.time <= f.time]_cvars
<1> SUFFICES ASSUME ClockOK, [CNext]_cvars, NEW e \in scheduled \ scheduled'
             PROVE  /\ e.time <= now
                    /\ \A f \in scheduled' : e.time <= f.time
  OBVIOUS
<1>1. RunScheduled
  BY OtherTimes DEF timevars, Iterate, Tick, InvokeAfterTimeout
<1>2. PICK d \in scheduled : /\ Earliest(d) /\ d.time <= currentTime
                             /\ scheduled' = scheduled \ {d}
  BY <1>1 DEF RunScheduled
<1>3. d = e
  BY <1>2
<1>4. e.time \in Int /\ currentTime \in Int /\ now \in Int /\ currentTime <= now
  BY DelaysAssumption DEF ClockOK, Timed
<1> QED  BY <1>2, <1>3, <1>4 DEF Earliest

(* Scheduled blocks run in the order of their times, none early. *)
THEOREM TimersRunInOrder == CSpec => TimersInOrder
<1>1. CIInv => ClockOK
  BY DEF CIInv
<1> QED  BY ClientInductive, TimerStep, <1>1, PTL DEF CSpec, TimersInOrder

-----------------------------------------------------------------------------
(* What ends the loop *)

(* A closed socket stays closed. *)
LEMMA StayClosed == MapOK /\ [CNext]_cvars => Closed \subseteq Closed'
<1> SUFFICES ASSUME MapOK, [CNext]_cvars
             PROVE  Closed \subseteq Closed'
  OBVIOUS
<1>1. CASE UNCHANGED mapvars
  BY <1>1 DEF mapvars, Closed
<1>2. ASSUME NEW a \in Addresses, SendMessage(a)
      PROVE  Closed \subseteq Closed'
  <2>1. \/ sock' = sock
        \/ \E s \in Sockets : sock[s] = "unused" /\ sock' = [sock EXCEPT ![s] = "open"]
    BY <1>2 DEF SendMessage
  <2> QED  BY <2>1 DEF MapOK, Closed
<1>3. ASSUME NEW a \in Addresses, Remove(a)
      PROVE  Closed \subseteq Closed'
  <2>1. PICK s : sock' = [sock EXCEPT ![s] = "closed"]
    BY <1>3 DEF Remove
  <2> QED  BY <2>1 DEF MapOK, Closed
<1>4. Produced \/ ProducerThrows => sock' = sock
  BY DEF Produced, ProducerThrows
<1> QED  BY <1>1, <1>2, <1>3, <1>4, OtherSockets DEF Closed

(* As long as no socket was removed, poll finds open sockets only, and each *)
(* has its message when its turn comes; a ping has its query.  So nothing   *)
(* in the loop's own code throws, on either platform.                       *)
THEOREM OnlyRemoveEnds ==
    ASSUME ~MayThrow, "refuse" \notin DisposedAccess
    PROVE  CSpec => []SurvivesUnlessRemoved
<1>1. CInit => SurvivesUnlessRemoved
  BY DEF CInit, Init, SurvivesUnlessRemoved
<1>2. CIInv /\ SurvivesUnlessRemoved /\ [CNext]_cvars => SurvivesUnlessRemoved'
  <2> SUFFICES ASSUME CIInv, SurvivesUnlessRemoved, [CNext]_cvars, Closed' = {}
               PROVE  loop' # "crashed"
    BY DEF SurvivesUnlessRemoved
  <2>1. Closed = {} /\ loop # "crashed"
    BY StayClosed DEF CIInv, SurvivesUnlessRemoved
  <2>2. \A s \in Sockets : sock[s] # "closed"
    BY <2>1 DEF Closed
  <2>3. CASE DispatchForward
    <3>1. PICK i \in DOMAIN ready :
             /\ ready[i] # Pong
             /\ loop' = loop \/ sock[ready[i]] = "closed"
      BY <2>3 DEF DispatchForward
    <3>2. ready[i] \in Sockets
      BY <3>1 DEF CIInv, ReadyOK
    <3> QED  BY <2>1, <2>2, <3>1, <3>2
  <2>4. CASE PollThrows
    BY <2>1, <2>4 DEF PollThrows, Stale
  <2>5. CASE [Next]_qvars
    BY <2>1, <2>5, NextSurvives DEF CIInv, Alive
  <2> QED  BY QueueOrForward, <2>3, <2>4, <2>5
<1> QED  BY ClientInductive, <1>1, <1>2, PTL DEF CSpec

(* A step that closes no socket whose turn is still to come: callbacks may  *)
(* remove any address but those.                                            *)
SparesReady == \A i \in DOMAIN ready :
    ready[i] # Pong /\ sock[ready[i]] = "open" => sock'[ready[i]] = "open"

(* Only poll adds turns, and on native it adds those of open sockets. *)
LEMMA ReadyOpenStep ==
    ASSUME Platform = "native"
    PROVE  CIInv /\ ReadyOpen /\ [CNext]_cvars /\ [SparesReady]_cvars => ReadyOpen'
<1> SUFFICES ASSUME CIInv, ReadyOpen, [CNext]_cvars, [SparesReady]_cvars
             PROVE  ReadyOpen'
  OBVIOUS
<1>1. CASE UNCHANGED ready
  <2>1. CASE SparesReady
    BY <1>1, <2>1 DEF SparesReady, ReadyOpen
  <2>2. CASE UNCHANGED cvars
    BY <2>2 DEF cvars, lvars, sockvars, mapvars, ReadyOpen
  <2> QED  BY <2>1, <2>2
<1>2. CASE PollReady
  BY <1>2, PollContents DEF CIInv
<1>3. CASE DispatchPong \/ DispatchForward
  <2>1. UNCHANGED sock /\ \E i \in DOMAIN ready : ready' = ReadyBut(i)
    BY <1>3 DEF DispatchPong, DispatchForward, sockvars, mapvars
  <2>2. \A j \in DOMAIN ready' : j \in DOMAIN ready /\ ready'[j] = ready[j]
    BY <2>1, TurnTaken DEF CIInv
  <2> QED  BY <2>1, <2>2 DEF ReadyOpen
<1>4. UNCHANGED ready \/ PollReady \/ DispatchPong \/ DispatchForward
  <2>1. CASE LoopStep
    BY <2>1 DEF LoopStep, LConnect, Start, PollThrows, Iterate, LLoopExit, RunScheduled,
                ScheduledDone, TimersDrained, PollTimeout, ListenerDone, DispatchDone,
                LTakeQuery, LTakeRefused, LBlockDone, LUserThrow, lvars
  <2>2. CASE UserStep
    BY <2>2 DEF UserStep, SendMessage, Remove, Produced, ProducerThrows, Sent,
                InvokeAfterTimeout
  <2>3. CASE CallStep
    BY <2>3 DEF CallStep, LPingSent, LStopSafe, LDispose, LAccessRefused, LInvokeSafe,
                lvars
  <2>4. CASE Tick \/ \E s \in Sockets : PeerTakes(s)
    BY <2>4 DEF Tick, PeerTakes
  <2>5. CASE UNCHANGED cvars
    BY <2>5 DEF cvars, lvars
  <2> QED  BY <2>1, <2>2, <2>3, <2>4, <2>5 DEF CNext
<1> QED  BY <1>1, <1>2, <1>3, <1>4

(* On native, where poll takes its list from the map, the !! after recv     *)
(* throws for one reason only: a callback removed a socket that poll had    *)
(* found readable, before its turn.  Removing anything else, at any moment, *)
(* does the loop no harm there.                                             *)
THEOREM SparingSurvives ==
    ASSUME Platform = "native", ~MayThrow, "refuse" \notin DisposedAccess
    PROVE  CSpec /\ [][SparesReady]_cvars => []LoopSurvives
<1>1. CInit => ReadyOpen /\ LoopSurvives
  BY DEF CInit, Init, ReadyOpen, LoopSurvives
<1>2. CIInv /\ ReadyOpen /\ LoopSurvives /\ [CNext]_cvars => LoopSurvives'
  <2> SUFFICES ASSUME CIInv, ReadyOpen, loop # "crashed", [CNext]_cvars
               PROVE  loop' # "crashed"
    BY DEF LoopSurvives
  <2>1. CASE DispatchForward
    BY <2>1 DEF DispatchForward, ReadyOpen
  <2>2. CASE PollThrows
    BY <2>2 DEF PollThrows, Stale
  <2>3. CASE [Next]_qvars
    BY <2>3, NextSurvives DEF CIInv, Alive
  <2> QED  BY QueueOrForward, <2>1, <2>2, <2>3
<1> QED  BY ClientInductive, ReadyOpenStep, <1>1, <1>2, PTL DEF CSpec

-----------------------------------------------------------------------------
(* Refinement *)

(* The steps of QueryQueue are steps of its instance where code may throw. *)
LEMMA QueueMayThrow == Next => Q!Next
<1>1. /\ Q!Pinging = Pinging /\ Q!Served = Served /\ Q!Refused = Refused
      /\ Q!WorkerIdle = WorkerIdle
      /\ \A t : Q!CanCall(t) = CanCall(t)
      /\ \A n : Q!Delivered(n) = Delivered(n)
  BY DEF Q!Pinging, Pinging, Q!Served, Served, Q!Refused, Refused,
         Q!WorkerIdle, WorkerIdle, Q!CanCall, CanCall, Q!Delivered, Delivered
<1>2. Connect => Q!Connect
  BY DEF Connect, Q!Connect
<1>3. RecvPong => Q!RecvPong
  BY <1>1 DEF RecvPong, Q!RecvPong
<1>4. TakeQuery => Q!TakeQuery
  BY <1>1 DEF TakeQuery, Q!TakeQuery, Obey, Q!Obey
<1>5. TakeRefused => Q!TakeRefused
  BY <1>1 DEF TakeRefused, Q!TakeRefused
<1>6. BlockDone => Q!BlockDone
  BY <1>1 DEF BlockDone, Q!BlockDone
<1>7. UserThrow => Q!UserThrow
  BY <1>1 DEF UserThrow, Q!UserThrow
<1>8. LoopExit => Q!LoopExit
  BY <1>1 DEF LoopExit, Q!LoopExit
<1>9. ASSUME NEW t \in Callers
      PROVE  /\ PingSent(t) => Q!PingSent(t)
             /\ Dispose(t) => Q!Dispose(t)
             /\ AccessRefused(t) => Q!AccessRefused(t)
  BY <1>1 DEF PingSent, Q!PingSent, Dispose, Q!Dispose, AccessRefused, Q!AccessRefused
<1>10. ASSUME NEW t \in Callers, StopSafe(t)
       PROVE  Q!StopSafe(t)
  <2>1. Q!StopsIn(log) = StopsIn(log)
    BY DEF Q!StopsIn, StopsIn
  <2>2. Q!Cardinality(StopsIn(log)) = Cardinality(StopsIn(log))
    BY DEF Q!Cardinality, Cardinality
  <2>3. Q!Cardinality(Q!StopsIn(log)) < MaxStops
    BY <1>10, <2>1, <2>2 DEF StopSafe
  <2> QED  BY <1>1, <1>10, <2>3 DEF StopSafe, Q!StopSafe
<1>11. ASSUME NEW t \in Callers, NEW b \in Blocks, InvokeSafe(t, b)
       PROVE  Q!InvokeSafe(t, b)
  <2>1. Q!Elements(log) = Elements(log)
    BY DEF Q!Elements, Elements
  <2> QED  BY <1>1, <1>11, <2>1 DEF InvokeSafe, Q!InvokeSafe
<1> QED  BY <1>2, <1>3, <1>4, <1>5, <1>6, <1>7, <1>8, <1>9, <1>10, <1>11
         DEF Next, Q!Next

(* The exception of the loop's own code is, to the queue, one of user code. *)
LEMMA CrashIsUserThrow == Crash => Q!UserThrow
<1>1. Q!WorkerIdle = WorkerIdle
  BY DEF Q!WorkerIdle, WorkerIdle
<1> QED  BY <1>1 DEF Crash, Q!UserThrow

(* The loop hands over queries as QueryQueue says, in the midst of all that *)
(* an iteration and its callbacks do.                                       *)
THEOREM ClientUsesQueue == CSpec => ImplementsQueue
<1>1. CInit => Q!Init
  BY DEF CInit, Init, Q!Init
<1>2. CIInv /\ [CNext]_cvars => [Q!Next]_Q!qvars
  <2>1. Crash => Q!Next
    BY CrashIsUserThrow DEF Q!Next
  <2>2. [Next]_qvars => [Q!Next]_Q!qvars
    BY QueueMayThrow DEF qvars, Q!qvars
  <2> QED  BY QueueOrCrash, <2>1, <2>2 DEF CIInv
<1> QED  BY ClientInductive, <1>1, <1>2, PTL
         DEF CSpec, ImplementsQueue, Q!Spec

(* And so the client as a whole is the mailbox that its users are promised, *)
(* even if it ends by an exception.                                         *)
THEOREM ClientIsMailbox == CSpec => ImplementsMailbox
<1>1. CInit => Promise!Init
  BY InitImplements DEF CInit
<1>2. CIInv /\ [CNext]_cvars => [Promise!Next]_Promise!mvars
  <2>1. Crash => UNCHANGED Promise!mvars
    BY DEF Crash, Promise!mvars
  <2> QED  BY QueueOrCrash, StepImplements, <2>1 DEF CIInv
<1> QED  BY ClientInductive, <1>1, <1>2, PTL
         DEF CSpec, ImplementsMailbox, Promise!Spec
=============================================================================
