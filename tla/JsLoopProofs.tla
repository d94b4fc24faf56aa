---------------------------- MODULE JsLoopProofs ----------------------------
(***************************************************************************)
(* Proofs about NodeSocket and JsLoop, for any sets of sockets and         *)
(* addresses and any bounds: a busy raw socket is left alone, binds happen *)
(* in order, the loops lose no socket but those the properties name, and a *)
(* stop closes what was managed.                                           *)
(***************************************************************************)
EXTENDS JsLoop, SequenceTheorems, TLAPS

-----------------------------------------------------------------------------
(* One socket *)

Flags(k, web) == /\ k.raw = "busy" => ~k.bindFinished
                 /\ ~k.bindFinished => web \/ k.raw \in {"busy", "closed"}
                 /\ k.shouldClose \/ k.bindQueue # <<>> => ~k.bindFinished

Order(k) == /\ \A i \in 1..Len(k.bound) : k.bound[i] = i
            /\ \A i \in 1..Len(k.bindQueue) : k.bindQueue[i] = Len(k.bound) + i

SockOK(k, web) == k \in ZmqSocket /\ Binds(k) <= MaxBinds /\ Flags(k, web) /\ Order(k)

(* What no function of the wrapper takes back. *)
Advances(k, l) ==
    /\ k.raw # "none" => l.raw # "none"
    /\ k.raw = "closed" => l.raw = "closed"
    /\ k.failed => l.failed
    /\ k.shouldClose => l.shouldClose \/ l.raw = "closed" \/ l.failed
    /\ k.raw # "closed" /\ l.raw = "closed" => l.bindQueue = <<>>

(* A list of endpoints with one more at its end. *)
LEMMA OneMore ==
    ASSUME NEW q \in Seq(Endpoint), NEW e \in Endpoint
    PROVE  /\ Append(q, e) \in Seq(Endpoint)
           /\ Len(q) \in Nat /\ Len(Append(q, e)) = Len(q) + 1
           /\ \A i \in 1..Len(q) : Append(q, e)[i] = q[i]
           /\ Append(q, e)[Len(q) + 1] = e
           /\ \A i \in 1..(Len(q) + 1) : i \in 1..Len(q) \/ i = Len(q) + 1
BY AppendProperties

LEMMA Fields ==
    ASSUME NEW k \in ZmqSocket
    PROVE  /\ k.raw \in {"none", "ready", "busy", "closed"}
           /\ k.bindFinished \in BOOLEAN /\ k.shouldClose \in BOOLEAN
           /\ k.failed \in BOOLEAN
           /\ k.bindQueue \in Seq(Endpoint) /\ k.bound \in Seq(Endpoint)
BY DEF ZmqSocket

LEMMA Sums ==
    ASSUME NEW a \in Nat, NEW b \in Nat
    PROVE  /\ a + b \in Nat
           /\ (a + 1) + b = (a + b) + 1 /\ a + (b + 1) = (a + b) + 1
           /\ a + (b + 1) = (a + 1) + b
           /\ \A m \in Nat : a + b < m => (a + b) + 1 \in 1..m /\ (a + b) + 1 <= m
           /\ \A m \in Nat : (a + b) + 1 <= m => (a + 1) + b <= m /\ a + (b + 1) <= m
OBVIOUS

LEMMA Lengths ==
    ASSUME NEW k \in ZmqSocket
    PROVE  /\ Len(k.bound) \in Nat /\ Len(k.bindQueue) \in Nat
           /\ Binds(k) = Len(k.bound) + Len(k.bindQueue) /\ Binds(k) \in Nat
<1>1. Len(k.bound) \in Nat /\ Len(k.bindQueue) \in Nat
  BY Fields
<1>2. Binds(k) = Len(k.bound) + Len(k.bindQueue)
  BY DEF Binds
<1>3. Len(k.bound) + Len(k.bindQueue) \in Nat
  BY ONLY <1>1, Sums
<1> QED  BY <1>1, <1>2, <1>3, Zenon

LEMMA UncreatedOK == \A web : SockOK(Uncreated, web)
<1> SUFFICES ASSUME NEW web PROVE SockOK(Uncreated, web)
  OBVIOUS
<1>1. Uncreated \in ZmqSocket
  BY EmptySeq DEF Uncreated, ZmqSocket
<1>2. Binds(Uncreated) <= MaxBinds
  BY MaxBindsAssumption DEF Uncreated, Binds
<1>3. Flags(Uncreated, web) /\ Order(Uncreated)
  BY DEF Uncreated, Flags, Order
<1> QED  BY <1>1, <1>2, <1>3 DEF SockOK

LEMMA ConnectedOK ==
    \A web : SockOK(Connected(Uncreated), web) /\ Connected(Uncreated).raw = "ready"
<1> SUFFICES ASSUME NEW web
             PROVE  SockOK(Connected(Uncreated), web) /\ Connected(Uncreated).raw = "ready"
  OBVIOUS
<1> DEFINE l == Connected(Uncreated)
<1>1. l \in ZmqSocket
  BY EmptySeq DEF Uncreated, Connected, ZmqSocket
<1>2. /\ l.raw = "ready" /\ l.bindFinished /\ ~l.shouldClose
      /\ l.bound = <<>> /\ l.bindQueue = <<>>
  BY DEF Uncreated, Connected
<1> HIDE DEF l
<1>3. Binds(l) <= MaxBinds
  BY <1>2, MaxBindsAssumption DEF Binds
<1>4. Flags(l, web) /\ Order(l)
  BY <1>2 DEF Flags, Order
<1> QED  BY <1>1, <1>2, <1>3, <1>4 DEF SockOK, l

(* A raw bind begins on a socket whose queue is empty, or behind it. *)
LEMMA StartBindOK ==
    ASSUME NEW k \in ZmqSocket, NEW web, k.raw # "none",
           NEW e \in Endpoint, e = Len(k.bound) + 1,
           Binds(k) + 1 <= MaxBinds,
           \A i \in 1..Len(k.bound) : k.bound[i] = i,
           \A i \in 1..Len(k.bindQueue) : k.bindQueue[i] = e + i
    PROVE  SockOK(StartBind(k, e), web) /\ Advances(k, StartBind(k, e))
<1> DEFINE l == StartBind(k, e)
<1>1. /\ l.bindFinished = FALSE
      /\ l.raw = IF k.raw = "ready" THEN "busy" ELSE k.raw
      /\ l.bound = Append(k.bound, e)
      /\ l.bindQueue = k.bindQueue /\ l.shouldClose = k.shouldClose
      /\ l.failed = k.failed
  BY DEF StartBind, ZmqSocket
<1>2. l \in ZmqSocket
  BY Fields, OneMore DEF StartBind, ZmqSocket
<1> HIDE DEF l
<1>3. /\ k.bound \in Seq(Endpoint) /\ k.bindQueue \in Seq(Endpoint)
      /\ Len(k.bindQueue) \in Nat
  BY Fields
<1>4. /\ Len(k.bound) \in Nat /\ Len(l.bound) = Len(k.bound) + 1
      /\ \A i \in 1..Len(k.bound) : l.bound[i] = k.bound[i]
      /\ l.bound[Len(k.bound) + 1] = e
      /\ \A i \in 1..(Len(k.bound) + 1) : i \in 1..Len(k.bound) \/ i = Len(k.bound) + 1
  BY <1>1, <1>3, OneMore
<1>5. Binds(l) <= MaxBinds
  <2>1. Binds(l) = (Len(k.bound) + 1) + Len(k.bindQueue)
    BY <1>1, <1>4 DEF Binds
  <2>2. (Len(k.bound) + Len(k.bindQueue)) + 1 <= MaxBinds
    BY DEF Binds
  <2>3. (Len(k.bound) + 1) + Len(k.bindQueue) <= MaxBinds
    BY ONLY <1>3, <1>4, <2>2, MaxBindsAssumption, Sums
  <2> QED  BY <2>1, <2>3
<1>6. Flags(l, web)
  BY <1>1, Fields DEF Flags
<1>7. Order(l)
  BY <1>1, <1>4 DEF Order
<1>8. Advances(k, l)
  BY <1>1 DEF Advances
<1> QED  BY <1>2, <1>5, <1>6, <1>7, <1>8 DEF SockOK, l

LEMMA BoundOK ==
    ASSUME NEW k, NEW web \in BOOLEAN, SockOK(k, web), k.raw # "none",
           Binds(k) < MaxBinds, NEW throws \in BOOLEAN, throws => web
    PROVE  /\ SockOK(Bound(k, web, Binds(k) + 1, throws), web)
           /\ Advances(k, Bound(k, web, Binds(k) + 1, throws))
<1> DEFINE e == Binds(k) + 1
           l == Bound(k, web, e, throws)
<1>1. k \in ZmqSocket /\ Flags(k, web) /\ Order(k)
  BY DEF SockOK
<1>2. /\ k.bound \in Seq(Endpoint) /\ k.bindQueue \in Seq(Endpoint)
      /\ Len(k.bound) \in Nat /\ Len(k.bindQueue) \in Nat
  BY <1>1, Fields
<1>3. Binds(k) = Len(k.bound) + Len(k.bindQueue) /\ Binds(k) \in Nat
  BY <1>1, Lengths
<1>7. e = (Len(k.bound) + Len(k.bindQueue)) + 1
  BY <1>3
<1>4. e \in Endpoint /\ e <= MaxBinds
  <2>1. Len(k.bound) + Len(k.bindQueue) < MaxBinds
    BY <1>3
  <2> HIDE DEF e
  <2> QED  BY <1>2, <1>7, <2>1, MaxBindsAssumption, Sums, Zenon DEF Endpoint
<1> HIDE DEF e
<1>5. CASE ~k.bindFinished
  <2>1. l = [k EXCEPT !.bindQueue = Append(@, e)]
    BY <1>5 DEF Bound
  <2> HIDE DEF l
  <2>2. /\ l.bindQueue = Append(k.bindQueue, e)
        /\ l.raw = k.raw /\ l.bindFinished = k.bindFinished /\ l.bound = k.bound
        /\ l.shouldClose = k.shouldClose /\ l.failed = k.failed
    BY <1>1, <2>1 DEF ZmqSocket
  <2>3. /\ Append(k.bindQueue, e) \in Seq(Endpoint)
        /\ Len(l.bindQueue) = Len(k.bindQueue) + 1
        /\ \A i \in 1..Len(k.bindQueue) : l.bindQueue[i] = k.bindQueue[i]
        /\ l.bindQueue[Len(k.bindQueue) + 1] = e
        /\ \A i \in 1..(Len(k.bindQueue) + 1) :
              i \in 1..Len(k.bindQueue) \/ i = Len(k.bindQueue) + 1
    BY <1>2, <1>4, <2>2, OneMore
  <2>4. l \in ZmqSocket
    BY <1>1, <2>1, <2>3 DEF ZmqSocket
  <2>5. Binds(l) <= MaxBinds
    <3>1. Binds(l) = Len(k.bound) + (Len(k.bindQueue) + 1)
      BY <2>2, <2>3 DEF Binds
    <3>2. Len(k.bound) + (Len(k.bindQueue) + 1) <= MaxBinds
      BY ONLY <1>2, <1>4, <1>7, MaxBindsAssumption, Sums
    <3> QED  BY <3>1, <3>2
  <2>6. Flags(l, web)
    BY <1>1, <1>5, <2>2 DEF Flags
  <2>7. Len(k.bound) + (Len(k.bindQueue) + 1) = e
    BY <1>2, <1>7, Sums, Zenon
  <2>8. Order(l)
    BY <1>1, <2>2, <2>3, <2>7 DEF Order
  <2>9. Advances(k, l)
    BY <2>2 DEF Advances
  <2> QED  BY <2>4, <2>5, <2>6, <2>8, <2>9 DEF SockOK, l, e
<1>6. CASE k.bindFinished
  <2>1. k.bindQueue = <<>> /\ ~k.shouldClose
    BY <1>1, <1>6, Fields DEF Flags
  <2>2. Len(k.bindQueue) = 0 /\ e = Len(k.bound) + 1
    <3>1. Len(k.bindQueue) = 0
      BY <2>1
    <3> QED  BY ONLY <1>2, <1>7, <3>1
  <2>9. Binds(k) + 1 <= MaxBinds
    BY <1>4 DEF e
  <2>3. CASE ~web
    <3>1. l = StartBind(k, e)
      BY <1>6, <2>3 DEF Bound
    <3>2. SockOK(StartBind(k, e), web) /\ Advances(k, StartBind(k, e))
      <4>1. \A i \in 1..Len(k.bindQueue) : k.bindQueue[i] = e + i
        BY <2>2
      <4>2. \A i \in 1..Len(k.bound) : k.bound[i] = i
        BY <1>1 DEF Order
      <4> QED  BY <1>1, <1>4, <2>2, <2>9, <4>1, <4>2, StartBindOK
    <3> QED  BY <3>1, <3>2 DEF l, e
  <2>4. CASE web
    <3>1. l = BindAtOnce(k, e, throws)
      BY <1>6, <2>4 DEF Bound
    <3> HIDE DEF l
    <3>2. /\ l.bound = Append(k.bound, e) /\ l.bindFinished = ~throws
          /\ l.raw = k.raw /\ l.bindQueue = k.bindQueue
          /\ l.shouldClose = k.shouldClose /\ l.failed = k.failed
      BY <1>1, <3>1 DEF BindAtOnce, ZmqSocket
    <3>3. /\ Append(k.bound, e) \in Seq(Endpoint)
          /\ Len(l.bound) = Len(k.bound) + 1
          /\ \A i \in 1..Len(k.bound) : l.bound[i] = k.bound[i]
          /\ l.bound[Len(k.bound) + 1] = e
          /\ \A i \in 1..(Len(k.bound) + 1) :
                i \in 1..Len(k.bound) \/ i = Len(k.bound) + 1
      BY <1>2, <1>4, <3>2, OneMore
    <3>4. l \in ZmqSocket
      BY <1>1, <3>1, <3>3 DEF BindAtOnce, ZmqSocket
    <3>5. Binds(l) <= MaxBinds
      <4>1. Binds(l) = (Len(k.bound) + 1) + Len(k.bindQueue)
        BY <3>2, <3>3 DEF Binds
      <4>2. (Len(k.bound) + 1) + Len(k.bindQueue) <= MaxBinds
        BY ONLY <1>2, <1>4, <1>7, MaxBindsAssumption, Sums
      <4> QED  BY <4>1, <4>2
    <3>6. Flags(l, web)
      BY <1>1, <1>6, <2>1, <2>4, <3>2 DEF Flags
    <3>7. Order(l)
      BY <1>1, <2>2, <3>2, <3>3 DEF Order
    <3>8. Advances(k, l)
      BY <3>2 DEF Advances
    <3> QED  BY <3>4, <3>5, <3>6, <3>7, <3>8 DEF SockOK, l, e
  <2> QED  BY <2>3, <2>4
<1> QED  BY <1>1, <1>5, <1>6, Fields

(* A close takes effect, is deferred, or threw. *)
LEMMA ClosedOK ==
    ASSUME NEW k, NEW web \in BOOLEAN, SockOK(k, web), k.raw # "none",
           NEW throws \in BOOLEAN
    PROVE  LET l == Closed(k, throws) IN
           /\ SockOK(l, web) /\ Advances(k, l)
           /\ l.raw = "closed" \/ l.shouldClose \/ l.failed
<1> DEFINE l == Closed(k, throws)
<1>1. k \in ZmqSocket /\ Flags(k, web) /\ Order(k) /\ Binds(k) <= MaxBinds
  BY DEF SockOK
<1>2. /\ l \in ZmqSocket
      /\ l.bound = k.bound /\ l.bindQueue = k.bindQueue
      /\ l.bindFinished = k.bindFinished
  BY <1>1, Fields DEF Closed, ZmqSocket
<1>3. CASE ~k.bindFinished
  <2>1. l.shouldClose /\ l.raw = k.raw /\ l.failed = k.failed
    BY <1>1, <1>3 DEF Closed, ZmqSocket
  <2>2. Flags(l, web)
    BY <1>1, <1>2, <1>3, <2>1 DEF Flags
  <2> QED  BY <1>1, <1>2, <2>1, <2>2 DEF SockOK, Advances, Binds, Order
<1>4. CASE k.bindFinished
  <2>1. k.raw # "busy" /\ ~k.shouldClose /\ k.bindQueue = <<>>
    BY <1>1, <1>4, Fields DEF Flags
  <2>2. /\ l.shouldClose = FALSE
        /\ l.raw = IF throws THEN k.raw ELSE "closed"
        /\ l.failed = (k.failed \/ throws)
    BY <1>1, <1>4, <2>1 DEF Closed, ZmqSocket
  <2> HIDE DEF l
  <2>3. Flags(l, web)
    BY <1>1, <1>2, <1>4, <2>1, <2>2 DEF Flags
  <2>4. Advances(k, l)
    BY <1>2, <2>1, <2>2 DEF Advances
  <2>5. l.raw = "closed" \/ l.failed
    BY <2>2
  <2> QED  BY <1>1, <1>2, <2>3, <2>4, <2>5 DEF SockOK, Binds, Order, l
<1> QED  BY <1>1, <1>3, <1>4, Fields

(* The callback: the next bind, the deferred close, or neither. *)
LEMMA CalledBackOK ==
    ASSUME NEW k, NEW web \in BOOLEAN, SockOK(k, web), k.raw = "busy"
    PROVE  SockOK(BindCalledBack(k), web) /\ Advances(k, BindCalledBack(k))
<1> DEFINE free == [k EXCEPT !.raw = "ready", !.bindFinished = TRUE]
           q    == k.bindQueue
<1>1. k \in ZmqSocket /\ Flags(k, web) /\ Order(k) /\ Binds(k) <= MaxBinds
  BY DEF SockOK
<1>2. /\ free \in ZmqSocket /\ free.raw = "ready" /\ free.bindFinished
      /\ free.bound = k.bound /\ free.bindQueue = q
      /\ free.shouldClose = k.shouldClose /\ free.failed = k.failed
  BY <1>1 DEF ZmqSocket
<1>3. /\ k.bound \in Seq(Endpoint) /\ q \in Seq(Endpoint)
      /\ Len(k.bound) \in Nat /\ Len(q) \in Nat
  BY <1>1, Fields
<1>4. CASE q # <<>>
  <2> DEFINE next == [free EXCEPT !.bindQueue = Tail(@)]
  <2>1. BindCalledBack(k) = StartBind(next, Head(q))
    BY <1>4 DEF BindCalledBack
  <2>2. /\ Head(q) = q[1] /\ Head(q) \in Endpoint
        /\ Tail(q) \in Seq(Endpoint) /\ Len(Tail(q)) = Len(q) - 1
        /\ \A i \in 1..(Len(q) - 1) : Tail(q)[i] = q[i + 1]
        /\ Len(q) >= 1
    BY <1>3, <1>4, HeadTailProperties
  <2>3. /\ next \in ZmqSocket /\ next.raw = "ready"
        /\ next.bound = k.bound /\ next.bindQueue = Tail(q)
        /\ next.shouldClose = k.shouldClose /\ next.failed = k.failed
    BY <1>2, <2>2 DEF ZmqSocket
  <2> HIDE DEF free, next
  <2>4. \A i \in 1..Len(q) : q[i] = Len(k.bound) + i
    BY <1>1 DEF Order
  <2>5. Head(q) = Len(k.bound) + 1
    <3>1. 1 \in 1..Len(q)
      BY <1>3, <2>2
    <3> QED  BY <2>2, <2>4, <3>1
  <2>6. ASSUME NEW i \in 1..(Len(q) - 1)
        PROVE  Tail(q)[i] = Head(q) + i
    <3>1. i + 1 \in 1..Len(q)
      BY <1>3
    <3>2. Tail(q)[i] = Len(k.bound) + (i + 1)
      BY <2>2, <2>4, <3>1
    <3>3. Len(k.bound) + (i + 1) = (Len(k.bound) + 1) + i
      <4>1. i \in Nat
        BY <1>3
      <4> QED  BY <1>3, <4>1, Sums, Zenon
    <3> QED  BY <2>5, <3>2, <3>3, Zenon
  <2>7. Binds(next) + 1 <= MaxBinds
    <3>1. Binds(next) = Len(k.bound) + (Len(q) - 1)
      BY <2>2, <2>3 DEF Binds
    <3>2. Len(k.bound) + Len(q) <= MaxBinds
      BY <1>1 DEF Binds
    <3> HIDE DEF q
    <3> QED  BY ONLY <1>3, <3>1, <3>2, MaxBindsAssumption
  <2>8. \A i \in 1..Len(k.bound) : k.bound[i] = i
    BY <1>1 DEF Order
  <2>9. SockOK(StartBind(next, Head(q)), web) /\ Advances(next, StartBind(next, Head(q)))
    BY <2>2, <2>3, <2>5, <2>6, <2>7, <2>8, StartBindOK
  <2>10. Advances(k, StartBind(next, Head(q)))
    BY <2>3, <2>9 DEF Advances
  <2> QED  BY <2>1, <2>9, <2>10
<1>5. CASE q = <<>> /\ k.shouldClose
  <2>1. BindCalledBack(k) = Closed(free, FALSE)
    BY <1>5 DEF BindCalledBack
  <2> DEFINE l == Closed(free, FALSE)
  <2>2. free.failed \in BOOLEAN
    BY <1>2, Fields
  <2> HIDE DEF free
  <2>3. /\ l \in ZmqSocket /\ l.raw = "closed" /\ l.bindFinished
        /\ l.bound = k.bound /\ l.bindQueue = q /\ l.failed = k.failed
        /\ l.shouldClose = FALSE
    BY <1>2, <2>2 DEF Closed, ZmqSocket
  <2> HIDE DEF l
  <2>4. Flags(l, web) /\ Order(l) /\ Binds(l) <= MaxBinds
    BY <1>1, <1>5, <2>3 DEF Flags, Order, Binds
  <2> QED  BY <1>5, <2>1, <2>3, <2>4 DEF SockOK, Advances, l
<1>6. CASE q = <<>> /\ ~k.shouldClose
  <2>1. BindCalledBack(k) = free
    BY <1>6 DEF BindCalledBack
  <2> HIDE DEF free
  <2>2. Flags(free, web) /\ Order(free) /\ Binds(free) <= MaxBinds
    BY <1>1, <1>2, <1>6 DEF Flags, Order, Binds
  <2> QED  BY <1>2, <1>6, <2>1, <2>2 DEF SockOK, Advances
<1> QED  BY <1>1, <1>4, <1>5, <1>6, Fields

-----------------------------------------------------------------------------
(* All the sockets *)

(* Every socket is sound, and one that is not created yet is as it began. *)
AllOK == /\ sk \in [Sockets -> ZmqSocket]
         /\ \A s \in Sockets : SockOK(sk[s], s \in WebSockets)
         /\ \A s \in Sockets : sk[s].raw = "none" => sk[s] = Uncreated

(* A step of the sockets: those that exist advance. *)
SkStep == /\ AllOK'
          /\ \A s \in Sockets : sk[s].raw # "none" => Advances(sk[s], sk'[s])

NoneNew == \A s \in Sockets : sk[s].raw = "none" => sk'[s].raw = "none"

LEMMA Reflexive == ASSUME NEW k PROVE Advances(k, k)
BY DEF Advances

LEMMA SkUnchanged == AllOK /\ UNCHANGED sk => SkStep /\ NoneNew
BY Reflexive DEF AllOK, SkStep, NoneNew

(* One socket changes. *)
LEMMA OneSocket ==
    ASSUME AllOK, NEW s \in Sockets, NEW l, sk' = [sk EXCEPT ![s] = l],
           SockOK(l, s \in WebSockets), l.raw # "none",
           sk[s].raw # "none" => Advances(sk[s], l)
    PROVE  SkStep /\ sk'[s] = l
           /\ \A t \in Sockets \ {s} : sk'[t] = sk[t]
<1>1. l \in ZmqSocket
  BY DEF SockOK
<1>2. sk' \in [Sockets -> ZmqSocket] /\ sk'[s] = l
      /\ \A t \in Sockets \ {s} : sk'[t] = sk[t]
  BY <1>1 DEF AllOK
<1>3. AllOK'
  <2>1. \A t \in Sockets : SockOK(sk'[t], t \in WebSockets)
    <3> SUFFICES ASSUME NEW t \in Sockets PROVE SockOK(sk'[t], t \in WebSockets)
      OBVIOUS
    <3>1. CASE t = s
      BY <1>2, <3>1
    <3>2. CASE t # s
      BY <1>2, <3>2 DEF AllOK
    <3> QED  BY <3>1, <3>2
  <2>2. \A t \in Sockets : sk'[t].raw = "none" => sk'[t] = Uncreated
    BY <1>2 DEF AllOK
  <2> QED  BY <1>2, <2>1, <2>2 DEF AllOK
<1>4. \A t \in Sockets : sk[t].raw # "none" => Advances(sk[t], sk'[t])
  BY <1>2, Reflexive
<1> QED  BY <1>2, <1>3, <1>4 DEF SkStep

LEMMA BindStep ==
    ASSUME AllOK, NEW s \in Sockets, Bind(s)
    PROVE  SkStep /\ NoneNew
<1> PICK throws \in BOOLEAN :
       /\ throws => s \in WebSockets
       /\ sk' = [sk EXCEPT ![s] = Bound(@, s \in WebSockets, Binds(@) + 1, throws)]
  BY DEF Bind
<1> DEFINE l == Bound(sk[s], s \in WebSockets, Binds(sk[s]) + 1, throws)
<1>1. SockOK(sk[s], s \in WebSockets) /\ sk[s].raw # "none" /\ Binds(sk[s]) < MaxBinds
  BY DEF AllOK, Bind
<1>2. SockOK(l, s \in WebSockets) /\ Advances(sk[s], l)
  <2> DEFINE web == s \in WebSockets
  <2>1. web \in BOOLEAN /\ SockOK(sk[s], web) /\ (throws => web)
    BY <1>1
  <2> HIDE DEF web
  <2>2. LET m == Bound(sk[s], web, Binds(sk[s]) + 1, throws)
        IN  SockOK(m, web) /\ Advances(sk[s], m)
    BY <1>1, <2>1, BoundOK
  <2> QED  BY <2>2 DEF web
<1>3. l.raw # "none"
  BY <1>1, <1>2 DEF Advances
<1>4. sk' = [sk EXCEPT ![s] = l]
  BY DEF AllOK
<1> HIDE DEF l
<1> QED  BY <1>1, <1>2, <1>3, <1>4, OneSocket DEF NoneNew

LEMMA CallbackStep ==
    ASSUME AllOK, NEW s \in Sockets, BindCallback(s)
    PROVE  SkStep /\ NoneNew
<1> DEFINE l == BindCalledBack(sk[s])
<1>1. SockOK(sk[s], s \in WebSockets) /\ sk[s].raw = "busy"
  BY DEF AllOK, BindCallback
<1>2. SockOK(l, s \in WebSockets) /\ Advances(sk[s], l)
  <2> DEFINE web == s \in WebSockets
  <2>1. web \in BOOLEAN /\ SockOK(sk[s], web)
    BY <1>1
  <2> HIDE DEF web
  <2>2. SockOK(l, web) /\ Advances(sk[s], l)
    BY <1>1, <2>1, CalledBackOK
  <2> QED  BY <2>2 DEF web
<1>3. l.raw # "none"
  BY <1>1, <1>2 DEF Advances
<1>4. sk' = [sk EXCEPT ![s] = l]
  BY DEF AllOK, BindCallback
<1> HIDE DEF l
<1> QED  BY <1>1, <1>2, <1>3, <1>4, OneSocket DEF NoneNew

(* A close leaves each of its sockets closed or with a close asked for. *)
LEMMA CloseStep ==
    ASSUME AllOK, NEW S \in SUBSET Sockets, \A s \in S : sk[s].raw # "none", Close(S)
    PROVE  /\ SkStep /\ NoneNew
           /\ \A s \in S : Open(s)' => CloseAsked(s)'
<1> PICK early \in SUBSET (S \cap WebSockets) :
       sk' = [s \in Sockets |-> IF s \in S THEN Closed(sk[s], s \in early) ELSE sk[s]]
  BY DEF Close
<1>1. ASSUME NEW s \in S
      PROVE  /\ sk'[s] = Closed(sk[s], s \in early)
             /\ SockOK(sk'[s], s \in WebSockets) /\ Advances(sk[s], sk'[s])
             /\ sk'[s].raw # "none"
             /\ sk'[s].raw = "closed" \/ sk'[s].shouldClose \/ sk'[s].failed
  <2>1. SockOK(sk[s], s \in WebSockets) /\ sk[s].raw # "none"
    BY DEF AllOK
  <2>2. sk'[s] = Closed(sk[s], s \in early)
    OBVIOUS
  <2>3. LET l == Closed(sk[s], s \in early) IN
        /\ SockOK(l, s \in WebSockets) /\ Advances(sk[s], l)
        /\ l.raw = "closed" \/ l.shouldClose \/ l.failed
    <3> DEFINE web == s \in WebSockets
               throws == s \in early
    <3>1. web \in BOOLEAN /\ throws \in BOOLEAN /\ SockOK(sk[s], web)
      BY <2>1
    <3> HIDE DEF web, throws
    <3>2. LET l == Closed(sk[s], throws) IN
          /\ SockOK(l, web) /\ Advances(sk[s], l)
          /\ l.raw = "closed" \/ l.shouldClose \/ l.failed
      BY <2>1, <3>1, ClosedOK
    <3> QED  BY <3>2 DEF web, throws
  <2> QED  BY <2>1, <2>2, <2>3 DEF Advances
<1>2. \A s \in Sockets \ S : sk'[s] = sk[s]
  OBVIOUS
<1>3. AllOK'
  <2>1. \A s \in Sockets : SockOK(sk'[s], s \in WebSockets)
    BY <1>1, <1>2 DEF AllOK
  <2>2. sk' \in [Sockets -> ZmqSocket]
    BY <2>1 DEF SockOK
  <2>3. \A s \in Sockets : sk'[s].raw = "none" => sk'[s] = Uncreated
    BY <1>1, <1>2 DEF AllOK
  <2> QED  BY <2>1, <2>2, <2>3 DEF AllOK
<1>4. SkStep
  BY <1>1, <1>2, <1>3, Reflexive DEF SkStep
<1>5. NoneNew
  BY <1>1, <1>2 DEF NoneNew
<1>6. \A s \in S : Open(s)' => CloseAsked(s)'
  BY <1>1 DEF Open, CloseAsked
<1> QED  BY <1>4, <1>5, <1>6

(* A socket of its own is created, for a sendMessage or for the server. *)
LEMMA CreateStep ==
    ASSUME AllOK, NEW s \in Sockets, sk[s].raw = "none",
           sk' = [sk EXCEPT ![s] = Connected(@)]
    PROVE  SkStep /\ sk'[s].raw # "none"
           /\ \A t \in Sockets \ {s} : sk'[t] = sk[t]
<1> DEFINE l == Connected(Uncreated)
<1>1. sk[s] = Uncreated
  BY DEF AllOK
<1>2. SockOK(l, s \in WebSockets) /\ l.raw # "none"
  BY ConnectedOK
<1>3. sk' = [sk EXCEPT ![s] = l]
  BY <1>1 DEF AllOK
<1> HIDE DEF l
<1> QED  BY <1>2, <1>3, OneSocket

LEMMA RouterStep ==
    ASSUME AllOK, sk[Router].raw = "none", MaxBinds > 0,
           NEW throws \in BOOLEAN, throws => Router \in WebSockets,
           sk' = [sk EXCEPT ![Router] =
                    Bound(Connected(@), Router \in WebSockets, 1, throws)]
    PROVE  SkStep /\ sk'[Router].raw # "none"
           /\ \A t \in Sockets \ {Router} : sk'[t] = sk[t]
<1> DEFINE k == Connected(Uncreated)
           web == Router \in WebSockets
           l == Bound(k, web, Binds(k) + 1, throws)
<1>1. sk[Router] = Uncreated
  BY RouterAssumption DEF AllOK
<1>2. SockOK(k, web) /\ k.raw = "ready"
  BY ConnectedOK
<1>3. Binds(k) = 0
  BY DEF Binds, Connected, Uncreated
<1>4. Binds(k) < MaxBinds /\ Binds(k) + 1 = 1
  BY <1>3
<1> HIDE DEF k
<1>5. SockOK(l, web) /\ Advances(k, l)
  <2>1. web \in BOOLEAN /\ (throws => web)
    OBVIOUS
  <2> HIDE DEF web
  <2> QED  BY <1>2, <1>4, <2>1, BoundOK DEF l
<1>6. l.raw # "none"
  BY <1>2, <1>5 DEF Advances
<1>7. sk' = [sk EXCEPT ![Router] = l]
  BY <1>1, <1>4, RouterAssumption DEF AllOK, k
<1> HIDE DEF l
<1> QED  BY <1>1, <1>5, <1>6, <1>7, OneSocket, RouterAssumption DEF Uncreated

-----------------------------------------------------------------------------
(* The loops *)

Places == /\ forwardSockets \in [Addresses -> Sockets \cup {NoSocket}]
          /\ creating \in Seq(Call)
          /\ lost \subseteq Sockets /\ shadowed \subseteq Sockets
          /\ stopped \subseteq Sockets
          /\ server \in {"none", "running", "stopped", "failed"}

(* The loops name only sockets that exist, and the server's comes with it. *)
Created == /\ \A s \in Managed \cup InCalls \cup stopped : sk[s].raw # "none"
           /\ server = "none" <=> sk[Router].raw = "none"

JInv == AllOK /\ Places /\ Created /\ SocketsTracked /\ StopClosesManaged

LEMMA Subsets == Places => Managed \subseteq Sockets /\ InCalls \subseteq Sockets
<1> SUFFICES ASSUME Places PROVE Managed \subseteq Sockets /\ InCalls \subseteq Sockets
  OBVIOUS
<1>1. Managed \subseteq Sockets
  BY DEF Places, Managed
<1>2. InCalls \subseteq Sockets
  <2>1. \A i \in DOMAIN creating : creating[i] \in Call
    BY DEF Places
  <2> QED  BY <2>1 DEF InCalls, Call
<1> QED  BY <1>1, <1>2

(* A sendMessage begins, or the innermost one ends. *)
LEMMA Begun ==
    ASSUME Places, NEW c \in Call, creating' = Append(creating, c)
    PROVE  creating' \in Seq(Call) /\ InCalls' = InCalls \cup {c.socket}
<1>1. /\ creating' \in Seq(Call) /\ Len(creating) \in Nat
      /\ DOMAIN creating = 1..Len(creating)
      /\ DOMAIN creating' = 1..(Len(creating) + 1)
      /\ \A i \in 1..Len(creating) : creating'[i] = creating[i]
      /\ creating'[Len(creating) + 1] = c
  BY AppendProperties DEF Places
<1>2. \A i : i \in 1..(Len(creating) + 1) <=> i \in 1..Len(creating) \/ i = Len(creating) + 1
  BY <1>1
<1> QED  BY <1>1, <1>2, Zenon DEF InCalls

LEMMA Ended ==
    ASSUME Places, creating # <<>>, Return
    PROVE  /\ creating' \in Seq(Call) /\ Innermost \in Call
           /\ Innermost.socket \in InCalls
           /\ InCalls' \subseteq InCalls
           /\ InCalls \subseteq InCalls' \cup {Innermost.socket}
<1> DEFINE n == Len(creating)
<1>1. n \in Nat /\ n >= 1 /\ n \in 1..n /\ DOMAIN creating = 1..n
      /\ creating \in Seq(Call)
  BY EmptySeq DEF Places
<1>2. /\ creating' \in Seq(Call) /\ DOMAIN creating' = 1..(n - 1)
      /\ \A i \in 1..(n - 1) : creating'[i] = creating[i]
  <2>1. creating' = SubSeq(creating, 1, n - 1)
    BY DEF Return
  <2>2. \A i \in 1..(n - 1) : i \in 1..n /\ creating[i] \in Call
    BY <1>1
  <2>3. SubSeq(creating, 1, n - 1) = [i \in 1..(n - 1) |-> creating[i]]
    BY <1>1
  <2> QED  BY <1>1, <2>1, <2>2, <2>3
<1>3. \A i : i \in 1..n <=> i \in 1..(n - 1) \/ i = n
  BY <1>1
<1>4. Innermost = creating[n] /\ Innermost \in Call
  BY <1>1 DEF Innermost
<1> HIDE DEF n
<1> QED  BY <1>1, <1>2, <1>3, <1>4, Zenon DEF InCalls

(* What a step must show of the sockets it makes and of those it lets go.   *)
LEMMA Tracks ==
    ASSUME JInv, SkStep,
           lost \subseteq lost', shadowed \subseteq shadowed',
           Served \subseteq Served',
           \A s \in Sockets : sk[s].raw = "none" /\ Open(s)' =>
              s \in Managed' \cup InCalls' \cup Served' \cup lost',
           \A s \in Managed \cup InCalls : Open(s)' =>
              \/ s \in Managed' \cup InCalls' \cup lost' \cup shadowed'
              \/ CloseAsked(s)'
    PROVE  SocketsTracked'
<1> SUFFICES ASSUME NEW s \in Sockets, Open(s)'
             PROVE  \/ s \in Managed' \cup InCalls' \cup Served'
                    \/ CloseAsked(s)'
                    \/ s \in lost' \cup shadowed'
  BY DEF SocketsTracked
<1>1. CASE sk[s].raw = "none"
  BY <1>1
<1>2. CASE sk[s].raw # "none"
  <2>1. Advances(sk[s], sk'[s])
    BY <1>2 DEF SkStep
  <2>2. Open(s)
    <3>1. sk[s].raw \in {"none", "ready", "busy", "closed"}
      BY Fields DEF JInv, AllOK
    <3> QED  BY <1>2, <2>1, <3>1 DEF Advances, Open
  <2>3. CASE CloseAsked(s)
    BY <2>1, <2>3 DEF Advances, Open, CloseAsked
  <2> QED  BY <2>2, <2>3 DEF JInv, SocketsTracked
<1> QED  BY <1>1, <1>2

LEMMA Stops ==
    ASSUME JInv, SkStep, stopped' \subseteq Sockets,
           \A s \in stopped' \ stopped : Open(s)' => CloseAsked(s)'
    PROVE  StopClosesManaged'
<1> SUFFICES ASSUME NEW s \in stopped, Open(s)'
             PROVE  CloseAsked(s)'
  BY DEF StopClosesManaged
<1>1. s \in Sockets /\ sk[s].raw # "none"
  BY DEF JInv, Places, Created
<1>2. Advances(sk[s], sk'[s])
  BY <1>1 DEF SkStep
<1>3. Open(s)
  <2>1. sk[s].raw \in {"none", "ready", "busy", "closed"}
    BY <1>1, Fields DEF JInv, AllOK
  <2> QED  BY <1>1, <1>2, <2>1 DEF Advances, Open
<1>4. CloseAsked(s)
  BY <1>3 DEF JInv, StopClosesManaged
<1> QED  BY <1>2, <1>4 DEF Advances, Open, CloseAsked

(* Created, when no socket is made. *)
LEMMA Names ==
    ASSUME JInv, SkStep, NoneNew,
           Managed' \cup InCalls' \cup stopped' \subseteq Managed \cup InCalls \cup stopped,
           server = "none" <=> server' = "none"
    PROVE  Created'
<1>1. Managed \cup InCalls \cup stopped \subseteq Sockets
  BY Subsets DEF JInv, Places
<1>2. \A s \in Managed \cup InCalls \cup stopped : sk'[s].raw # "none"
  BY <1>1 DEF JInv, Created, SkStep, Advances
<1>3. sk[Router].raw = "none" <=> sk'[Router].raw = "none"
  BY RouterAssumption DEF SkStep, NoneNew, Advances
<1> QED  BY <1>2, <1>3 DEF Created, JInv

LEMMA Beginning == JInit => JInv
<1> SUFFICES ASSUME JInit PROVE JInv
  OBVIOUS
<1>1. AllOK
  BY UncreatedOK DEF JInit, AllOK, SockOK
<1>2. Managed = {} /\ InCalls = {}
  BY DEF JInit, Managed, InCalls
<1>3. Places
  BY EmptySeq DEF JInit, Places
<1>4. \A s \in Sockets : sk[s].raw = "none"
  BY DEF JInit, Uncreated
<1>5. Created
  BY <1>2, <1>4, RouterAssumption DEF JInit, Created
<1>6. SocketsTracked /\ StopClosesManaged
  BY <1>4 DEF JInit, SocketsTracked, StopClosesManaged, Open
<1> QED  BY <1>1, <1>3, <1>5, <1>6 DEF JInv

-----------------------------------------------------------------------------
(* The steps *)

(* A step that only binds or closes sockets, the loops' variables aside. *)
LEMMA Quiet ==
    ASSUME JInv, SkStep, NoneNew, UNCHANGED clientvars, Places',
           server = "none" <=> server' = "none", Served' = Served
    PROVE  JInv'
<1>1. Managed' = Managed /\ InCalls' = InCalls /\ stopped' = stopped
      /\ lost' = lost /\ shadowed' = shadowed
  BY DEF clientvars, Managed, InCalls
<1>2. Created'
  BY <1>1, Names
<1>3. \A s \in Sockets : ~(sk[s].raw = "none" /\ Open(s)')
  BY DEF NoneNew, Open
<1>4. SocketsTracked'
  BY <1>1, <1>3, Tracks
<1>5. StopClosesManaged'
  BY <1>1, Stops DEF JInv, Places
<1> QED  BY <1>2, <1>4, <1>5 DEF JInv, SkStep

LEMMA SendKeeps ==
    ASSUME JInv, NEW a \in Addresses, SendMessage(a)
    PROVE  JInv'
<1> PICK s \in Sockets \ {Router} :
       /\ sk[s].raw = "none"
       /\ sk' = [sk EXCEPT ![s] = Connected(@)]
       /\ creating' = Append(creating, [address |-> a, socket |-> s])
  BY DEF SendMessage
<1>1. AllOK /\ Places
  BY DEF JInv
<1>2. SkStep /\ sk'[s].raw # "none" /\ \A t \in Sockets \ {s} : sk'[t] = sk[t]
  BY <1>1, CreateStep
<1>3. [address |-> a, socket |-> s] \in Call
  BY DEF Call
<1>4. creating' \in Seq(Call) /\ InCalls' = InCalls \cup {s}
  BY <1>1, <1>3, Begun
<1>5. /\ Managed' = Managed /\ stopped' = stopped /\ lost' = lost
      /\ shadowed' = shadowed /\ server' = server /\ forwardSockets' = forwardSockets
      /\ Served' = Served
  BY DEF SendMessage, Managed, Served
<1>6. Places'
  BY <1>1, <1>4, <1>5 DEF Places
<1>7. Created'
  <2>1. Managed \cup InCalls \cup stopped \subseteq Sockets
    BY <1>1, Subsets DEF Places
  <2>2. \A t \in Managed \cup InCalls \cup stopped : sk'[t].raw # "none"
    BY <1>2, <2>1 DEF JInv, Created
  <2>3. sk'[Router] = sk[Router]
    BY <1>2, RouterAssumption
  <2> QED  BY <1>2, <1>4, <1>5, <2>2, <2>3 DEF JInv, Created
<1>8. \A t \in Sockets : sk[t].raw = "none" /\ Open(t)' => t = s
  BY <1>2 DEF Open
<1>9. SocketsTracked'
  BY <1>2, <1>4, <1>5, <1>8, Tracks
<1>10. StopClosesManaged'
  BY <1>1, <1>2, <1>5, Stops DEF Places
<1> QED  BY <1>2, <1>6, <1>7, <1>9, <1>10 DEF JInv, SkStep

(* The socket the producer was run for goes into the map, and one that it   *)
(* replaces is remembered.                                                  *)
LEMMA ProducedKeeps == JInv /\ Produced => JInv'
<1> SUFFICES ASSUME JInv, Produced PROVE JInv'
  OBVIOUS
<1> DEFINE a == Innermost.address
           s == Innermost.socket
           old == forwardSockets[a]
<1>1. AllOK /\ Places /\ creating # <<>> /\ Return
  BY DEF JInv, Produced
<1>2. /\ creating' \in Seq(Call) /\ Innermost \in Call /\ s \in InCalls
      /\ InCalls' \subseteq InCalls /\ InCalls \subseteq InCalls' \cup {s}
  BY <1>1, Ended
<1>3. a \in Addresses /\ s \in Sockets
  BY <1>2 DEF Call
<1>4. /\ forwardSockets' = [forwardSockets EXCEPT ![a] = s]
      /\ shadowed' = shadowed \cup ({old} \ {NoSocket})
      /\ sk' = sk /\ lost' = lost /\ stopped' = stopped /\ server' = server
      /\ Served' = Served
  BY DEF Produced, Served
<1> HIDE DEF a, s
<1>5. /\ \A b \in Addresses \ {a} : forwardSockets'[b] = forwardSockets[b]
      /\ forwardSockets'[a] = s
      /\ forwardSockets' \in [Addresses -> Sockets \cup {NoSocket}]
  BY <1>1, <1>3, <1>4 DEF Places
<1>6. /\ Managed' \subseteq Managed \cup {s}
      /\ s \in Managed' /\ Managed \subseteq Managed' \cup {old}
  <2>1. s # NoSocket
    BY <1>3, NoSocketAssumption
  <2>2. s \in Managed'
    BY <1>3, <1>5, <2>1 DEF Managed
  <2>3. \A t \in Managed' : t \in Managed \cup {s}
    BY <1>5 DEF Managed
  <2>4. \A t \in Managed : t \in Managed' \cup {old}
    BY <1>5 DEF Managed
  <2> QED  BY <2>2, <2>3, <2>4
<1>7. Managed \subseteq Managed' \cup shadowed'
  BY <1>4, <1>6 DEF Managed
<1>8. SkStep /\ NoneNew
  BY <1>1, <1>4, SkUnchanged
<1>9. Places'
  <2>1. old \in Sockets \cup {NoSocket}
    BY <1>1, <1>3 DEF Places
  <2> QED  BY <1>1, <1>2, <1>4, <1>5, <2>1 DEF Places
<1>10. Created'
  BY <1>2, <1>4, <1>6, <1>8, Names
<1>11. \A t \in Sockets : ~(sk[t].raw = "none" /\ Open(t)')
  BY <1>4 DEF Open
<1>12. SocketsTracked'
  BY <1>2, <1>4, <1>6, <1>7, <1>8, <1>11, Tracks
<1>13. StopClosesManaged'
  BY <1>1, <1>4, <1>8, Stops DEF Places
<1> QED  BY <1>8, <1>9, <1>10, <1>12, <1>13 DEF JInv, SkStep

LEMMA ThrowsKeeps == JInv /\ ProducerThrows => JInv'
<1> SUFFICES ASSUME JInv, ProducerThrows PROVE JInv'
  OBVIOUS
<1> DEFINE s == Innermost.socket
<1>1. AllOK /\ Places /\ creating # <<>> /\ Return
  BY DEF JInv, ProducerThrows
<1>2. /\ creating' \in Seq(Call) /\ Innermost \in Call /\ s \in InCalls
      /\ InCalls' \subseteq InCalls /\ InCalls \subseteq InCalls' \cup {s}
  BY <1>1, Ended
<1>3. s \in Sockets
  BY <1>2 DEF Call
<1>4. /\ lost' = lost \cup {s} /\ sk' = sk /\ forwardSockets' = forwardSockets
      /\ shadowed' = shadowed /\ stopped' = stopped /\ server' = server
      /\ Managed' = Managed /\ Served' = Served
  BY DEF ProducerThrows, Managed, Served
<1> HIDE DEF s
<1>5. SkStep /\ NoneNew
  BY <1>1, <1>4, SkUnchanged
<1>6. Places'
  BY <1>1, <1>2, <1>3, <1>4 DEF Places
<1>7. Created'
  BY <1>2, <1>4, <1>5, Names
<1>8. \A t \in Sockets : ~(sk[t].raw = "none" /\ Open(t)')
  BY <1>4 DEF Open
<1>9. SocketsTracked'
  BY <1>2, <1>4, <1>5, <1>8, Tracks
<1>10. StopClosesManaged'
  BY <1>1, <1>4, <1>5, Stops DEF Places
<1> QED  BY <1>5, <1>6, <1>7, <1>9, <1>10 DEF JInv, SkStep

(* What leaves the map is closed, or its close is asked for. *)
LEMMA RemoveKeeps ==
    ASSUME JInv, NEW a \in Addresses, Remove(a)
    PROVE  JInv'
<1> PICK s \in Managed : s = forwardSockets[a]
  BY DEF Remove, Managed
<1>1. AllOK /\ Places /\ Close({s})
  BY DEF JInv, Remove
<1>2. s \in Sockets /\ sk[s].raw # "none"
  BY <1>1, Subsets DEF JInv, Created
<1>3. /\ creating' = creating /\ stopped' = stopped /\ lost' = lost
      /\ shadowed' = shadowed /\ server' = server /\ InCalls' = InCalls
      /\ forwardSockets' = [forwardSockets EXCEPT ![a] = NoSocket]
      /\ Served' = Served
  BY DEF Remove, InCalls, Served
<1>4. SkStep /\ NoneNew /\ (Open(s)' => CloseAsked(s)')
  <2>1. {s} \in SUBSET Sockets /\ \A t \in {s} : sk[t].raw # "none"
    BY <1>2
  <2> QED  BY <1>1, <2>1, CloseStep
<1>5. /\ \A b \in Addresses \ {a} : forwardSockets'[b] = forwardSockets[b]
      /\ forwardSockets'[a] = NoSocket
      /\ forwardSockets' \in [Addresses -> Sockets \cup {NoSocket}]
  BY <1>1, <1>3 DEF Places
<1>6. Managed' \subseteq Managed /\ Managed \subseteq Managed' \cup {s}
  <2>1. \A t \in Managed' : t \in Managed
    BY <1>5 DEF Managed
  <2>2. \A t \in Managed : t \in Managed' \cup {s}
    BY <1>5 DEF Managed
  <2> QED  BY <2>1, <2>2
<1>7. Places'
  BY <1>1, <1>3, <1>5 DEF Places
<1>8. Created'
  BY <1>3, <1>4, <1>6, Names
<1>9. \A t \in Sockets : ~(sk[t].raw = "none" /\ Open(t)')
  BY <1>4 DEF NoneNew, Open
<1>10. SocketsTracked'
  <2>1. \A t \in Managed \cup InCalls : Open(t)' =>
           \/ t \in Managed' \cup InCalls' \cup lost' \cup shadowed'
           \/ CloseAsked(t)'
    BY <1>3, <1>4, <1>6
  <2> QED  BY <1>3, <1>4, <1>9, <2>1, Tracks
<1>11. StopClosesManaged'
  BY <1>1, <1>3, <1>4, Stops DEF Places
<1> QED  BY <1>4, <1>7, <1>8, <1>10, <1>11 DEF JInv, SkStep

LEMMA StopKeeps == JInv /\ StopClient => JInv'
<1> SUFFICES ASSUME JInv, StopClient PROVE JInv'
  OBVIOUS
<1>1. AllOK /\ Places /\ Close(Managed)
  BY DEF JInv, StopClient
<1>2. /\ creating' = creating /\ stopped' = stopped \cup Managed /\ lost' = lost
      /\ shadowed' = shadowed /\ server' = server /\ forwardSockets' = forwardSockets
      /\ Managed' = Managed /\ InCalls' = InCalls /\ Served' = Served
  BY DEF StopClient, Managed, InCalls, Served
<1>3. Managed \in SUBSET Sockets /\ \A t \in Managed : sk[t].raw # "none"
  BY <1>1, Subsets DEF JInv, Created
<1>4. SkStep /\ NoneNew /\ \A t \in Managed : Open(t)' => CloseAsked(t)'
  BY <1>1, <1>3, CloseStep
<1>5. Places'
  BY <1>1, <1>2, <1>3 DEF Places
<1>6. Created'
  BY <1>2, <1>4, Names
<1>7. \A t \in Sockets : ~(sk[t].raw = "none" /\ Open(t)')
  BY <1>4 DEF NoneNew, Open
<1>8. SocketsTracked'
  BY <1>2, <1>4, <1>7, Tracks
<1>9. StopClosesManaged'
  BY <1>2, <1>4, <1>5, Stops DEF Places
<1> QED  BY <1>4, <1>5, <1>6, <1>8, <1>9 DEF JInv, SkStep

LEMMA StartKeeps == JInv /\ StartServer => JInv'
<1> SUFFICES ASSUME JInv, StartServer PROVE JInv'
  OBVIOUS
<1> PICK throws \in BOOLEAN :
       /\ throws => Router \in WebSockets
       /\ sk' = [sk EXCEPT ![Router] =
                   Bound(Connected(@), Router \in WebSockets, 1, throws)]
       /\ server' \in IF throws THEN {"failed"} ELSE {"running", "failed"}
  BY DEF StartServer
<1>1. AllOK /\ Places /\ server = "none" /\ MaxBinds > 0
  BY DEF JInv, StartServer
<1>2. sk[Router].raw = "none"
  BY <1>1 DEF JInv, Created
<1>3. SkStep /\ sk'[Router].raw # "none"
      /\ \A t \in Sockets \ {Router} : sk'[t] = sk[t]
  BY <1>1, <1>2, RouterStep
<1>4. /\ creating' = creating /\ stopped' = stopped
      /\ shadowed' = shadowed /\ forwardSockets' = forwardSockets
      /\ Managed' = Managed /\ InCalls' = InCalls
      /\ server' \in {"running", "failed"}
  BY DEF StartServer, Managed, InCalls
<1>10. /\ lost \subseteq lost' /\ lost' \subseteq lost \cup {Router}
       /\ Served \subseteq Served' /\ Router \in Served' \cup lost'
  BY <1>1, <1>4 DEF StartServer, Served
<1>5. Places'
  BY <1>1, <1>4, <1>10, RouterAssumption DEF Places
<1>6. Created'
  <2>1. Managed \cup InCalls \cup stopped \subseteq Sockets
    BY <1>1, Subsets DEF Places
  <2>2. \A t \in Managed \cup InCalls \cup stopped : sk'[t].raw # "none"
    BY <1>3, <2>1 DEF JInv, Created
  <2> QED  BY <1>3, <1>4, <2>2 DEF Created
<1>7. \A t \in Sockets : sk[t].raw = "none" /\ Open(t)' => t = Router
  BY <1>3 DEF Open
<1>8. SocketsTracked'
  BY <1>3, <1>4, <1>7, <1>10, Tracks
<1>9. StopClosesManaged'
  BY <1>1, <1>3, <1>4, Stops DEF Places
<1> QED  BY <1>3, <1>5, <1>6, <1>8, <1>9 DEF JInv, SkStep

LEMMA StopServerKeeps == JInv /\ StopServer => JInv'
<1> SUFFICES ASSUME JInv, StopServer PROVE JInv'
  OBVIOUS
<1>1. /\ AllOK /\ Places /\ Close({Router}) /\ UNCHANGED clientvars
      /\ server \in {"running", "stopped"} /\ server' = "stopped"
  BY DEF JInv, StopServer
<1>2. sk[Router].raw # "none"
  BY <1>1 DEF JInv, Created
<1>3. SkStep /\ NoneNew
  BY <1>1, <1>2, CloseStep, RouterAssumption
<1>4. Places'
  BY <1>1 DEF Places, clientvars
<1>5. Served' = Served
  BY <1>1 DEF Served
<1> QED  BY <1>1, <1>3, <1>4, <1>5, Quiet

(* User code and the callbacks touch only sockets that exist. *)
LEMMA UserKeeps ==
    ASSUME JInv, NEW s \in Sockets, UserBind(s) \/ UserClose(s) \/ BindEnds(s)
    PROVE  JInv'
<1>1. AllOK /\ UNCHANGED <<clientvars, server>>
  BY DEF JInv, UserBind, UserClose, BindEnds
<1>2. Places'
  BY <1>1 DEF JInv, Places, clientvars
<1>3. SkStep /\ NoneNew
  <2>1. CASE UserBind(s)
    BY <1>1, <2>1, BindStep DEF UserBind
  <2>2. CASE UserClose(s)
    <3>1. Close({s}) /\ sk[s].raw # "none"
      BY <2>2 DEF UserClose, Handed
    <3> QED  BY <1>1, <3>1, CloseStep
  <2>3. CASE BindEnds(s)
    BY <1>1, <2>3, CallbackStep DEF BindEnds
  <2> QED  BY <2>1, <2>2, <2>3
<1>4. Served' = Served
  BY <1>1 DEF Served
<1> QED  BY <1>1, <1>2, <1>3, <1>4, Quiet

-----------------------------------------------------------------------------
(* The theorems *)

LEMMA JStep == JInv /\ [JNext]_jvars => JInv'
<1> SUFFICES ASSUME JInv, [JNext]_jvars PROVE JInv'
  OBVIOUS
<1>1. CASE \E a \in Addresses : SendMessage(a)
  BY <1>1, SendKeeps
<1>2. CASE \E a \in Addresses : Remove(a)
  BY <1>2, RemoveKeeps
<1>3. CASE Produced
  BY <1>3, ProducedKeeps
<1>4. CASE ProducerThrows
  BY <1>4, ThrowsKeeps
<1>5. CASE StopClient
  BY <1>5, StopKeeps
<1>6. CASE StartServer
  BY <1>6, StartKeeps
<1>7. CASE StopServer
  BY <1>7, StopServerKeeps
<1>8. CASE \E s \in Sockets : UserBind(s) \/ UserClose(s) \/ BindEnds(s)
  BY <1>8, UserKeeps
<1>9. CASE UNCHANGED jvars
  <2>1. UNCHANGED <<sk, clientvars, server>>
    BY <1>9 DEF jvars
  <2>2. AllOK /\ Places' /\ (server = "none" <=> server' = "none")
    BY <2>1 DEF JInv, Places, clientvars
  <2>3. SkStep /\ NoneNew
    BY <2>1, <2>2, SkUnchanged
  <2>4. Served' = Served
    BY <2>1 DEF Served
  <2> QED  BY <2>1, <2>2, <2>3, <2>4, Quiet
<1> QED  BY <1>1, <1>2, <1>3, <1>4, <1>5, <1>6, <1>7, <1>8, <1>9 DEF JNext

(* The invariant of the JavaScript loops: every socket is sound, the loops  *)
(* name only sockets that exist, none is lost but in the two named ways,    *)
(* and a stop has closed or asked to close what was managed.                *)
THEOREM LoopsInductive == JSpec => []JInv
<1>1. JInit => JInv
  BY Beginning
<1>2. JInv /\ [JNext]_jvars => JInv'
  BY JStep
<1> QED  BY <1>1, <1>2, PTL DEF JSpec

(* Every variable of the loops and every field of a socket keeps its type.  *)
THEOREM JsTypes == JSpec => []JTypeOK
<1>1. JInv => SocketsOK
  BY DEF JInv, AllOK, SockOK, SocketsOK
<1>2. JInv => JTypeOK
  BY <1>1 DEF JInv, Places, JTypeOK
<1> QED  BY <1>2, LoopsInductive, PTL

(* A busy raw socket is never bound or closed by the wrapper, and what is   *)
(* queued or deferred has a bind to wait for (ZmqSocket.bind and close).    *)
THEOREM BusyLeftAlone == JSpec => []FlagsAgree
<1>1. JInv => FlagsAgree
  BY DEF JInv, AllOK, SockOK, Flags, FlagsAgree
<1> QED  BY <1>1, LoopsInductive, PTL

(* Every step of the loops leaves the sockets that exist as they were or    *)
(* advances them.                                                           *)
LEMMA SocketsAdvance == JInv /\ [JNext]_jvars => AllOK /\ SkStep
<1> SUFFICES ASSUME JInv, [JNext]_jvars PROVE SkStep
  BY DEF JInv
<1>0. /\ AllOK /\ Places /\ Managed \subseteq Sockets
      /\ \A s \in Managed : sk[s].raw # "none"
      /\ server = "none" <=> sk[Router].raw = "none"
  BY Subsets DEF JInv, Created
<1>1. ASSUME NEW a \in Addresses, SendMessage(a)
      PROVE  SkStep
  <2>1. PICK s \in Sockets : /\ sk[s].raw = "none"
                             /\ sk' = [sk EXCEPT ![s] = Connected(@)]
    BY <1>1 DEF SendMessage
  <2> QED  BY <1>0, <2>1, CreateStep
<1>2. ASSUME NEW a \in Addresses, Remove(a)
      PROVE  SkStep
  <2>1. Close({forwardSockets[a]}) /\ forwardSockets[a] \in Managed
    BY <1>2 DEF Remove, Managed
  <2> QED  BY <1>0, <2>1, CloseStep
<1>3. CASE StopClient
  <2>1. Close(Managed)
    BY <1>3 DEF StopClient
  <2> QED  BY <1>0, <2>1, CloseStep
<1>4. CASE StartServer
  <2>1. MaxBinds > 0 /\ sk[Router].raw = "none"
    BY <1>0, <1>4 DEF StartServer
  <2>2. PICK throws \in BOOLEAN :
           /\ throws => Router \in WebSockets
           /\ sk' = [sk EXCEPT ![Router] =
                       Bound(Connected(@), Router \in WebSockets, 1, throws)]
    BY <1>4 DEF StartServer
  <2> QED  BY <1>0, <2>1, <2>2, RouterStep
<1>5. CASE StopServer
  <2>1. Close({Router}) /\ sk[Router].raw # "none"
    BY <1>0, <1>5 DEF StopServer
  <2> QED  BY <1>0, <2>1, CloseStep, RouterAssumption
<1>6. ASSUME NEW s \in Sockets, UserBind(s) \/ UserClose(s) \/ BindEnds(s)
      PROVE  SkStep
  <2>1. CASE UserBind(s)
    BY <1>0, <2>1, BindStep DEF UserBind
  <2>2. CASE UserClose(s)
    <3>1. Close({s}) /\ sk[s].raw # "none"
      BY <2>2 DEF UserClose, Handed
    <3> QED  BY <1>0, <3>1, CloseStep
  <2>3. CASE BindEnds(s)
    BY <1>0, <2>3, CallbackStep DEF BindEnds
  <2> QED  BY <1>6, <2>1, <2>2, <2>3
<1>7. CASE Produced \/ ProducerThrows \/ UNCHANGED jvars
  <2>1. UNCHANGED sk
    BY <1>7 DEF Produced, ProducerThrows, jvars
  <2> QED  BY <1>0, <2>1, SkUnchanged
<1> QED  BY <1>1, <1>2, <1>3, <1>4, <1>5, <1>6, <1>7 DEF JNext

(* A deferred close is never forgotten, it comes after the binds that were  *)
(* queued before or behind it, and nothing that is called later opens the   *)
(* socket again.                                                            *)
THEOREM CloseIsLast == JSpec => ClosesLast
<1>1. JInv /\ [JNext]_jvars =>
        [\A s \in Sockets :
            /\ sk[s].raw \in {"ready", "busy"} /\ sk'[s].raw = "closed" =>
                  sk'[s].bindQueue = <<>>
            /\ sk[s].raw = "closed" => sk'[s].raw = "closed"
            /\ sk[s].shouldClose => \/ sk'[s].shouldClose
                                    \/ sk'[s].raw = "closed" \/ sk'[s].failed]_sk
  <2> SUFFICES ASSUME JInv, [JNext]_jvars, NEW s \in Sockets
               PROVE  /\ sk[s].raw \in {"ready", "busy"} /\ sk'[s].raw = "closed" =>
                            sk'[s].bindQueue = <<>>
                      /\ sk[s].raw = "closed" => sk'[s].raw = "closed"
                      /\ sk[s].shouldClose => \/ sk'[s].shouldClose
                                              \/ sk'[s].raw = "closed" \/ sk'[s].failed
    OBVIOUS
  <2>1. AllOK /\ SkStep
    BY SocketsAdvance
  <2>2. CASE sk[s].raw # "none"
    BY <2>1, <2>2 DEF SkStep, Advances
  <2>3. CASE sk[s].raw = "none"
    <3>1. sk[s] = Uncreated
      BY <2>1, <2>3 DEF AllOK
    <3>2. ~sk[s].shouldClose
      BY <3>1 DEF Uncreated
    <3> QED  BY <2>3, <3>2
  <2> QED  BY <2>2, <2>3
<1> QED  BY <1>1, LoopsInductive, PTL DEF JSpec, ClosesLast

(* No bind is lost, repeated or overtaken on its way to the raw socket.     *)
THEOREM BindsKeepOrder == JSpec => []BindsInOrder
<1>1. ASSUME NEW k, k \in ZmqSocket, Order(k)
      PROVE  \A i \in DOMAIN (k.bound \o k.bindQueue) : (k.bound \o k.bindQueue)[i] = i
  <2> DEFINE b == k.bound
             q == k.bindQueue
  <2>1. /\ b \in Seq(Endpoint) /\ q \in Seq(Endpoint)
        /\ Len(b) \in Nat /\ Len(q) \in Nat
    BY <1>1, Fields
  <2>2. /\ \A i \in 1..Len(b) : b[i] = i
        /\ \A i \in 1..Len(q) : q[i] = Len(b) + i
    BY <1>1 DEF Order
  <2> HIDE DEF b, q
  <2>3. /\ b \o q \in Seq(Endpoint) /\ Len(b \o q) = Len(b) + Len(q)
        /\ \A i \in 1..(Len(b) + Len(q)) :
              (b \o q)[i] = IF i <= Len(b) THEN b[i] ELSE q[i - Len(b)]
    BY <2>1, ConcatProperties
  <2>4. DOMAIN (b \o q) = 1..(Len(b) + Len(q))
    BY <2>1, <2>3
  <2>5. ASSUME NEW i \in 1..(Len(b) + Len(q))
        PROVE  (b \o q)[i] = i
    <3>1. CASE i <= Len(b)
      <4>1. i \in 1..Len(b)
        BY <2>1, <3>1
      <4> QED  BY <2>2, <2>3, <3>1, <4>1
    <3>2. CASE ~(i <= Len(b))
      <4>1. i - Len(b) \in 1..Len(q) /\ Len(b) + (i - Len(b)) = i
        BY <2>1, <3>2
      <4>2. (b \o q)[i] = q[i - Len(b)]
        BY <2>3, <3>2
      <4> QED  BY <2>2, <4>1, <4>2
    <3> QED  BY <3>1, <3>2
  <2> QED  BY <2>4, <2>5 DEF b, q
<1>2. JInv => BindsInOrder
  <2> SUFFICES ASSUME JInv, NEW s \in Sockets
               PROVE  \A i \in DOMAIN (sk[s].bound \o sk[s].bindQueue) :
                         (sk[s].bound \o sk[s].bindQueue)[i] = i
    BY DEF BindsInOrder
  <2>1. sk[s] \in ZmqSocket /\ Order(sk[s])
    BY DEF JInv, AllOK, SockOK
  <2> QED  BY <1>1, <2>1
<1> QED  BY <1>2, LoopsInductive, PTL

(* Whatever the mix of sends, removes, stops and binds, a socket that is    *)
(* open and asked by nobody to close is in the map, on its way there, that  *)
(* of a server loop that exists, or one that a throwing or overtaken        *)
(* sendMessage or a throwing constructor left.                              *)
THEOREM NoSocketLost == JSpec => []SocketsTracked
<1>1. JInv => SocketsTracked
  BY DEF JInv
<1> QED  BY <1>1, LoopsInductive, PTL

(* A stop closes every socket that was managed, at once or behind its bind. *)
THEOREM StopCloses == JSpec => []StopClosesManaged
<1>1. JInv => StopClosesManaged
  BY DEF JInv
<1> QED  BY <1>1, LoopsInductive, PTL
=============================================================================
