-------------------------- MODULE QueryQueueProofs --------------------------
(***************************************************************************)
(* Proofs about QueryQueue, for any number of callers and blocks and any   *)
(* capacity of the pipe: the hand-over keeps its types, every wake-up has  *)
(* its query, blocks run in the order of the accesses, and the whole is a  *)
(* mailbox.                                                                *)
(***************************************************************************)
EXTENDS QueryQueue, FiniteSetTheorems, SequenceTheorems, TLAPS

(* One access at a time: only one caller is sending a ping. *)
OneHolder == \A t, u \in Callers : call[t] = "ping" /\ call[u] = "ping" => t = u

(* How many queries the loop has removed. *)
Removed == Len(log) - Len(queue)

(* The deque holds the youngest queries of the history, in its order. *)
Suffix == /\ Len(queue) <= Len(log)
          /\ \A i \in 1..Len(queue) : queue[i] = log[Removed + i]

(* The blocks started are the oldest queries of the history, in its order;  *)
(* only a stop query can have been removed without being started.           *)
Prefix == /\ Len(started) = IF isStopped THEN Removed - 1 ELSE Removed
          /\ \A i \in 1..Len(started) : started[i] = log[i]

(* Once a stop query has been handled, none is taken any more. *)
StopIsLast == isStopped => loop \notin {"starting", "taking", "running"}

(* No exception has ended the loop's thread. *)
Alive == loop # "crashed"

IInv == TypeOK /\ OneHolder /\ Suffix /\ Prefix /\ StopIsLast /\ PingBalance

-----------------------------------------------------------------------------
(* Lemmas *)

(* Putting a query in the history adds a stop query's position, or none. *)
LEMMA StopsAppend ==
    ASSUME NEW s \in Seq(Query), NEW q \in Query
    PROVE  /\ Cardinality(StopsIn(s)) \in Nat
           /\ Cardinality(StopsIn(Append(s, q))) =
                 Cardinality(StopsIn(s)) + (IF q = StopQuery THEN 1 ELSE 0)
<1> DEFINE n == Len(s)
<1>1. n \in Nat /\ DOMAIN s = 1..n
  OBVIOUS
<1>2. IsFiniteSet(StopsIn(s))
  <2>1. IsFiniteSet(1..n)
    BY <1>1, FS_Interval
  <2>2. StopsIn(s) \subseteq 1..n
    BY <1>1 DEF StopsIn
  <2> QED  BY <2>1, <2>2, FS_Subset
<1>3. Cardinality(StopsIn(s)) \in Nat
  BY <1>2, FS_CardinalityType
<1>4. n + 1 \notin StopsIn(s)
  BY <1>1 DEF StopsIn
<1>5. /\ DOMAIN Append(s, q) = 1..(n + 1)
      /\ Append(s, q)[n + 1] = q
      /\ \A i \in 1..n : Append(s, q)[i] = s[i]
  BY <1>1
<1>6. CASE q = StopQuery
  <2>1. StopsIn(Append(s, q)) = StopsIn(s) \cup {n + 1}
    BY <1>1, <1>5, <1>6 DEF StopsIn
  <2> QED  BY <1>2, <1>3, <1>4, <1>6, <2>1, FS_AddElement
<1>7. CASE q # StopQuery
  <2>1. StopsIn(Append(s, q)) = StopsIn(s)
    BY <1>1, <1>5, <1>7 DEF StopsIn
  <2> QED  BY <1>3, <1>7, <2>1
<1> QED  BY <1>6, <1>7

(* Before a query is put in the history there is none. *)
LEMMA NoStops == Cardinality(StopsIn(<<>>)) = 0
<1>1. StopsIn(<<>>) = {}
  BY DEF StopsIn
<1> QED  BY <1>1, FS_EmptySet

(* The message of stopSafe is not delivered, that of invokeSafe is. *)
LEMMA Deliveries == Delivered(0) = 0 /\ Delivered(1) = 1
BY DEF Delivered

-----------------------------------------------------------------------------
(* Types *)

LEMMA InitType == Init => TypeOK
<1> SUFFICES ASSUME Init PROVE TypeOK
  OBVIOUS
<1> USE DEF Init
<1>1. queue \in Seq(Query) /\ log \in Seq(Query) /\ started \in Seq(Blocks)
  OBVIOUS
<1>2. pipe \in 0..HWM
  BY HwmAssumption
<1>3. call \in [Callers -> CallState] /\ loop \in LoopState
  BY DEF CallState, LoopState
<1>4. disposed \in BOOLEAN /\ isStopped \in BOOLEAN
  OBVIOUS
<1> QED  BY <1>1, <1>2, <1>3, <1>4 DEF TypeOK

LEMMA NextType == TypeOK /\ [Next]_qvars => TypeOK'
<1> SUFFICES ASSUME TypeOK, [Next]_qvars
             PROVE  TypeOK'
  OBVIOUS
<1> USE HwmAssumption DEF TypeOK, CallState, LoopState
<1>1. CASE Connect
  BY <1>1 DEF Connect
<1>2. CASE RecvPong
  BY <1>2 DEF RecvPong
<1>3. CASE TakeQuery
  <2>1. CASE queue = <<>>
    BY <1>3, <2>1 DEF TakeQuery
  <2>2. CASE queue # <<>>
    <3>1. queue' = Tail(queue) /\ Obey(Head(queue))
      BY <1>3, <2>2 DEF TakeQuery
    <3>2. Head(queue) \in Query /\ Tail(queue) \in Seq(Query)
      BY <2>2
    <3>3. loop' \in LoopState
      BY <3>1 DEF Obey
    <3>4. isStopped' \in BOOLEAN
      BY ONLY TypeOK, <3>1 DEF TypeOK, Obey
    <3>5. \/ started' = started
          \/ \E q \in Blocks : started' = Append(started, q)
      BY <3>1 DEF Obey
    <3>6. started' \in Seq(Blocks)
      <4>1. started \in Seq(Blocks)
        OBVIOUS
      <4>2. ASSUME NEW q \in Blocks PROVE Append(started, q) \in Seq(Blocks)
        BY ONLY <4>1, AppendProperties
      <4> QED  BY ONLY <3>5, <4>1, <4>2
    <3> QED  BY <1>3, <3>1, <3>2, <3>3, <3>4, <3>6 DEF TakeQuery
  <2> QED  BY <2>1, <2>2
<1>4. CASE TakeRefused
  BY <1>4 DEF TakeRefused
<1>5. CASE BlockDone
  BY <1>5 DEF BlockDone
<1>6. CASE UserThrow
  BY <1>6 DEF UserThrow
<1>7. CASE LoopExit
  BY <1>7 DEF LoopExit
<1>8. ASSUME NEW t \in Callers, PingSent(t)
      PROVE  TypeOK'
  BY <1>8, Deliveries DEF PingSent
<1>9. ASSUME NEW t \in Callers, StopSafe(t)
      PROVE  TypeOK'
  BY <1>9, Deliveries DEF StopSafe, Query
<1>10. ASSUME NEW t \in Callers, Dispose(t)
       PROVE  TypeOK'
  BY <1>10 DEF Dispose
<1>11. ASSUME NEW t \in Callers, AccessRefused(t)
       PROVE  TypeOK'
  BY <1>11 DEF AccessRefused
<1>12. ASSUME NEW t \in Callers, NEW b \in Blocks, InvokeSafe(t, b)
       PROVE  TypeOK'
  BY <1>12 DEF InvokeSafe, Query
<1>13. CASE UNCHANGED qvars
  BY <1>13 DEF qvars
<1> QED
  BY <1>1, <1>2, <1>3, <1>4, <1>5, <1>6, <1>7, <1>8, <1>9, <1>10, <1>11, <1>12,
     <1>13 DEF Next

(* Types: every variable of the queue keeps its type, for every set of      *)
(* callers and blocks and every capacity of the pipe.                       *)
THEOREM TypeCorrect == Spec => []TypeOK
BY InitType, NextType, PTL DEF Spec

-----------------------------------------------------------------------------
(* One access at a time *)

LEMMA NextHolder == TypeOK /\ OneHolder /\ [Next]_qvars => OneHolder'
<1> SUFFICES ASSUME TypeOK, OneHolder, [Next]_qvars
             PROVE  OneHolder'
  OBVIOUS
<1> USE DEF OneHolder
<1>0. call \in [Callers -> CallState]
  BY DEF TypeOK
<1>1. CASE UNCHANGED call
  BY <1>1
<1>2. ASSUME NEW t \in Callers,
             \E c \in CallState \ {"ping"} : call' = [call EXCEPT ![t] = c]
      PROVE  OneHolder'
  BY <1>0, <1>2
<1>3. ASSUME NEW t \in Callers, NEW b \in Blocks, InvokeSafe(t, b)
      PROVE  OneHolder'
  BY <1>0, <1>3 DEF InvokeSafe, Pinging
<1>4. Connect \/ RecvPong \/ TakeQuery \/ TakeRefused \/ BlockDone \/ UserThrow
      \/ LoopExit \/ UNCHANGED qvars => UNCHANGED call
  BY DEF Connect, RecvPong, TakeQuery, TakeRefused, BlockDone, UserThrow,
         LoopExit, qvars
<1>5. ASSUME NEW t \in Callers,
             PingSent(t) \/ StopSafe(t) \/ Dispose(t) \/ AccessRefused(t)
      PROVE  \E c \in CallState \ {"ping"} : call' = [call EXCEPT ![t] = c]
  BY <1>5 DEF PingSent, StopSafe, Dispose, AccessRefused, CallState
<1> QED  BY <1>1, <1>2, <1>3, <1>4, <1>5 DEF Next

-----------------------------------------------------------------------------
(* The history *)

(* The queue, its history and what was started, as one value. *)
history == <<queue, log, isStopped, started>>

(* A query put in the deque goes to the end of the history too. *)
LEMMA Enqueue ==
    ASSUME TypeOK, Suffix, Prefix, NEW q \in Query,
           queue' = Append(queue, q), log' = Append(log, q),
           UNCHANGED <<isStopped, started>>
    PROVE  Suffix' /\ Prefix'
<1> DEFINE m == Len(queue)
           n == Len(log)
<1>1. /\ m \in Nat /\ Len(queue') = m + 1
      /\ queue'[m + 1] = q
      /\ \A i \in 1..m : queue'[i] = queue[i]
  BY AppendProperties DEF TypeOK
<1>2. /\ n \in Nat /\ Len(log') = n + 1
      /\ log'[n + 1] = q
      /\ \A i \in 1..n : log'[i] = log[i]
  BY AppendProperties DEF TypeOK
<1>3. m <= n /\ \A i \in 1..m : queue[i] = log[n - m + i]
  BY DEF Suffix, Removed
<1> HIDE DEF m, n
<1>4. Removed' = n - m
  BY <1>1, <1>2 DEF Removed
<1>5. Suffix'
  <2>1. ASSUME NEW i \in 1..(m + 1)
        PROVE  queue'[i] = log'[n - m + i]
    <3>1. CASE i = m + 1
      <4>1. n - m + i = n + 1
        BY ONLY <1>1, <1>2, <3>1
      <4> QED  BY ONLY <1>1, <1>2, <3>1, <4>1
    <3>2. CASE i \in 1..m
      <4>1. n - m + i \in 1..n
        BY ONLY <1>1, <1>2, <1>3, <3>2
      <4>2. log'[n - m + i] = log[n - m + i]
        BY ONLY <1>2, <4>1
      <4>3. queue'[i] = queue[i] /\ queue[i] = log[n - m + i]
        BY ONLY <1>1, <1>3, <3>2
      <4> QED  BY ONLY <4>2, <4>3
    <3> QED  BY ONLY <1>1, <2>1, <3>1, <3>2
  <2>2. Len(queue') <= Len(log')
    BY ONLY <1>1, <1>2, <1>3
  <2>3. ASSUME NEW i \in 1..Len(queue')
        PROVE  queue'[i] = log'[Removed' + i]
    BY ONLY <1>1, <1>4, <2>1, <2>3
  <2> QED  BY <2>2, <2>3 DEF Suffix
<1>6. Prefix'
  <2>1. Len(started) = IF isStopped THEN n - m - 1 ELSE n - m
    BY DEF Prefix, Removed, m, n
  <2>2. Len(started) \in Nat
    BY DEF TypeOK
  <2>3. ASSUME NEW i \in 1..Len(started)
        PROVE  started[i] = log'[i]
    <3>1. i \in 1..n
      BY <1>1, <1>2, <2>1, <2>2
    <3> QED  BY <1>2, <3>1 DEF Prefix
  <2> QED  BY <1>4, <2>1, <2>3 DEF Prefix
<1> QED  BY <1>5, <1>6

(* The oldest query of the deque is the oldest one not handled. *)
LEMMA Oldest ==
    ASSUME TypeOK, Suffix, queue # <<>>
    PROVE  /\ Removed \in Nat /\ Removed + 1 \in 1..Len(log)
           /\ Head(queue) = log[Removed + 1]
           /\ Head(queue) \in Query
           /\ Len(Tail(queue)) = Len(queue) - 1
<1>1. Len(queue) \in Nat \ {0} /\ Len(log) \in Nat
  BY EmptySeq DEF TypeOK
<1>2. Head(queue) = queue[1]
  BY DEF TypeOK
<1>3. Head(queue) \in Query /\ Len(Tail(queue)) = Len(queue) - 1
  BY HeadTailProperties DEF TypeOK
<1> QED  BY <1>1, <1>2, <1>3 DEF Suffix, Removed

(* Removing that query leaves the younger ones where the history has them. *)
LEMMA Dequeue ==
    ASSUME TypeOK, Suffix, queue # <<>>,
           queue' = Tail(queue), log' = log
    PROVE  Suffix' /\ Removed' = Removed + 1
<1>1. /\ Len(queue) \in Nat \ {0} /\ Len(log) \in Nat
      /\ Len(queue') = Len(queue) - 1
      /\ \A i \in 1..Len(queue') : queue'[i] = queue[i + 1]
  BY EmptySeq, HeadTailProperties DEF TypeOK
<1>2. Removed' = Removed + 1
  BY <1>1 DEF Removed
<1>3. ASSUME NEW i \in 1..Len(queue')
      PROVE  queue'[i] = log[Removed' + i]
  <2>1. i + 1 \in 1..Len(queue)
    BY <1>1
  <2>2. queue[i + 1] = log[Removed + (i + 1)]
    BY <2>1 DEF Suffix
  <2> QED  BY <1>1, <1>2, <2>2 DEF Removed
<1> QED  BY <1>1, <1>2, <1>3 DEF Suffix

(* The block that the loop starts is the next of the history. *)
LEMMA StartBlock ==
    ASSUME TypeOK, Suffix, Prefix, queue # <<>>, ~isStopped, log' = log,
           queue' = Tail(queue), Head(queue) \in Blocks,
           started' = Append(started, Head(queue)), UNCHANGED isStopped
    PROVE  Prefix'
<1> DEFINE k == Len(started)
<1>1. /\ k \in Nat /\ Len(started') = k + 1
      /\ started'[k + 1] = Head(queue)
      /\ \A i \in 1..k : started'[i] = started[i]
  BY AppendProperties DEF TypeOK
<1>2. k = Removed /\ \A i \in 1..k : started[i] = log[i]
  BY DEF Prefix
<1>3. Removed' = Removed + 1
  BY Dequeue
<1>4. Head(queue) = log[Removed + 1]
  BY Oldest
<1> HIDE DEF k
<1>5. \A i \in 1..(k + 1) : i = k + 1 \/ i \in 1..k
  BY <1>1
<1>6. \A i \in 1..(k + 1) : started'[i] = log'[i]
  BY <1>1, <1>2, <1>4, <1>5
<1>7. ~isStopped'
  OBVIOUS
<1> QED  BY <1>1, <1>2, <1>3, <1>6, <1>7 DEF Prefix

(* A stop query is removed and nothing is started. *)
LEMMA TakeStop ==
    ASSUME TypeOK, Suffix, Prefix, queue # <<>>, ~isStopped, log' = log,
           queue' = Tail(queue), UNCHANGED started, isStopped'
    PROVE  Prefix'
<1>1. Removed' = Removed + 1 /\ Removed \in Nat
  BY Dequeue, Oldest
<1> QED  BY <1>1 DEF Prefix

(* A step that changes no query leaves the history as it was. *)
LEMMA Quiet == Suffix /\ Prefix /\ UNCHANGED history => Suffix' /\ Prefix'
BY DEF Suffix, Prefix, Removed, history

(* The states between which a step of the history can go wrong. *)
HInv == TypeOK /\ Suffix /\ Prefix /\ StopIsLast /\ NoEmptyTake

LEMMA NextHistory == HInv /\ [Next]_qvars => Suffix' /\ Prefix' /\ StopIsLast'
<1> SUFFICES ASSUME HInv, [Next]_qvars
             PROVE  Suffix' /\ Prefix' /\ StopIsLast'
  OBVIOUS
<1> USE DEF HInv
<1>1. CASE TakeQuery
  <2>1. /\ loop = "taking" /\ queue # <<>> /\ ~isStopped
        /\ queue' = Tail(queue) /\ log' = log
        /\ Obey(Head(queue))
    BY <1>1 DEF TakeQuery, NoEmptyTake, StopIsLast
  <2>2. Suffix'
    BY <2>1, Dequeue
  <2>3. CASE Head(queue) \in Blocks
    <3>1. /\ started' = Append(started, Head(queue))
          /\ UNCHANGED isStopped
      BY <2>1, <2>3, BlocksAssumption DEF Obey
    <3>2. Prefix'
      BY <2>1, <2>3, <3>1, StartBlock
    <3> QED  BY <2>1, <2>2, <3>1, <3>2 DEF StopIsLast
  <2>4. CASE Head(queue) = StopQuery
    <3>1. UNCHANGED started /\ isStopped' /\ loop' = "free"
      BY <2>1, <2>4, BlocksAssumption DEF Obey
    <3>2. Prefix'
      BY <2>1, <3>1, TakeStop
    <3> QED  BY <2>2, <3>1, <3>2 DEF StopIsLast
  <2> QED  BY <2>1, <2>3, <2>4, Oldest DEF Query
<1>2. ASSUME NEW t \in Callers, NEW b \in Blocks, InvokeSafe(t, b)
      PROVE  Suffix' /\ Prefix' /\ StopIsLast'
  <2>1. Suffix' /\ Prefix'
    BY <1>2, Enqueue DEF InvokeSafe, Query
  <2> QED  BY <1>2, <2>1 DEF InvokeSafe, StopIsLast
<1>3. ASSUME NEW t \in Callers, StopSafe(t)
      PROVE  Suffix' /\ Prefix' /\ StopIsLast'
  <2>1. Suffix' /\ Prefix'
    BY <1>3, Enqueue DEF StopSafe, Query
  <2> QED  BY <1>3, <2>1 DEF StopSafe, StopIsLast
<1>4. CASE Connect
  BY <1>4, Quiet DEF Connect, StopIsLast, history
<1>5. CASE RecvPong
  BY <1>5, Quiet DEF RecvPong, StopIsLast, history
<1>6. CASE TakeRefused
  BY <1>6, Quiet DEF TakeRefused, StopIsLast, history
<1>7. CASE BlockDone
  BY <1>7, Quiet DEF BlockDone, StopIsLast, history
<1>8. CASE UserThrow
  BY <1>8, Quiet DEF UserThrow, StopIsLast, history
<1>9. CASE LoopExit
  BY <1>9, Quiet DEF LoopExit, StopIsLast, history
<1>10. ASSUME NEW t \in Callers, PingSent(t) \/ Dispose(t) \/ AccessRefused(t)
       PROVE  Suffix' /\ Prefix' /\ StopIsLast'
  <2>1. UNCHANGED history /\ loop' \in {loop, "crashed"}
    BY <1>10 DEF PingSent, Dispose, AccessRefused, history
  <2> QED  BY <2>1, Quiet DEF StopIsLast, history
<1>11. CASE UNCHANGED qvars
  BY <1>11, Quiet DEF qvars, StopIsLast, history
<1> QED
  BY <1>1, <1>2, <1>3, <1>4, <1>5, <1>6, <1>7, <1>8, <1>9, <1>10, <1>11 DEF Next

-----------------------------------------------------------------------------
(* Wake-ups *)

(* A ping being handled has its query in the deque. *)
LEMMA BalanceFeedsTake == TypeOK /\ PingBalance => NoEmptyTake
<1> SUFFICES ASSUME TypeOK, PingBalance, loop = "taking"
             PROVE  queue # <<>>
  BY DEF NoEmptyTake
<1>1. Cardinality(StopsIn(log)) \in Nat
  BY StopsAppend DEF TypeOK, Query
<1>2. pipe \in Nat
  BY HwmAssumption DEF TypeOK
<1>3. Len(queue) >= 1
  BY <1>1, <1>2 DEF PingBalance
<1> QED  BY <1>3

(* The pings under way, and the ping being handled. *)
Sending == IF Pinging THEN 1 ELSE 0
Taking  == IF loop = "taking" THEN 1 ELSE 0

LEMMA NextBalance ==
    TypeOK /\ OneHolder /\ PingBalance /\ [Next]_qvars => PingBalance'
<1> SUFFICES ASSUME TypeOK, OneHolder, PingBalance, [Next]_qvars, loop' # "crashed"
             PROVE  Len(queue') = pipe' + Sending' + Taking'
                                        + Cardinality(StopsIn(log'))
  BY DEF PingBalance, Sending, Taking
<1> DEFINE c == Cardinality(StopsIn(log))
           m == Len(queue)
<1>1. /\ pipe \in Nat /\ m \in Nat /\ c \in Nat
      /\ call \in [Callers -> CallState]
  <2>1. c \in Nat
    BY StopsAppend DEF TypeOK, Query
  <2>2. Len(queue) \in Nat
    BY DEF TypeOK
  <2> QED  BY <2>1, <2>2, HwmAssumption DEF TypeOK
<1>2. loop # "crashed" => m = pipe + Sending + Taking + c
  BY DEF PingBalance, Sending, Taking
<1>3. UNCHANGED log => Cardinality(StopsIn(log')) = c
  OBVIOUS
<1>4. UNCHANGED queue => Len(queue') = m
  OBVIOUS
<1>5. UNCHANGED call => Sending' = Sending
  BY DEF Sending, Pinging
<1> HIDE DEF c, m
<1>6. CASE TakeQuery
  <2>1. loop = "taking" /\ UNCHANGED <<pipe, call, log>>
    BY <1>6 DEF TakeQuery
  <2>2. queue # <<>> /\ queue' = Tail(queue) /\ Obey(Head(queue))
    BY <1>6, BalanceFeedsTake DEF TakeQuery, NoEmptyTake
  <2>3. Len(queue') = m - 1
    BY <2>2, HeadTailProperties DEF TypeOK, m
  <2>4. loop' # "taking"
    BY <2>2 DEF Obey
  <2>5. Taking = 1 /\ Taking' = 0
    BY <2>1, <2>4 DEF Taking
  <2>6. Sending \in {0, 1}
    BY DEF Sending
  <2> QED  BY <1>1, <1>2, <1>3, <1>5, <2>1, <2>3, <2>5, <2>6
<1>7. CASE RecvPong
  <2>1. /\ loop = "free" /\ pipe' = pipe - 1 /\ loop' = "taking"
        /\ UNCHANGED <<queue, call, log>>
    BY <1>7 DEF RecvPong
  <2>2. Taking = 0 /\ Taking' = 1
    BY <2>1 DEF Taking
  <2>3. Sending \in {0, 1}
    BY DEF Sending
  <2> QED  BY <1>1, <1>2, <1>3, <1>4, <1>5, <2>1, <2>2, <2>3
<1>8. ASSUME NEW t \in Callers, NEW b \in Blocks, InvokeSafe(t, b)
      PROVE  Len(queue') = pipe' + Sending' + Taking'
                                 + Cardinality(StopsIn(log'))
  <2>1. /\ ~Pinging /\ UNCHANGED <<pipe, loop>>
        /\ queue' = Append(queue, b) /\ log' = Append(log, b)
        /\ call' = [call EXCEPT ![t] = "ping"]
    BY <1>8 DEF InvokeSafe
  <2>2. Sending = 0 /\ Sending' = 1
    BY <1>1, <2>1 DEF Sending, Pinging
  <2>3. Len(queue') = m + 1
    BY <2>1, AppendProperties DEF TypeOK, Query, m
  <2>4. Cardinality(StopsIn(log')) = c
    <3>1. b \in Query /\ b # StopQuery
      BY BlocksAssumption DEF Query
    <3>2. log \in Seq(Query)
      BY DEF TypeOK
    <3>3. Cardinality(StopsIn(Append(log, b))) = Cardinality(StopsIn(log)) + 0
      BY ONLY <3>1, <3>2, StopsAppend
    <3> QED  BY ONLY <1>1, <2>1, <3>3 DEF c
  <2>5. Taking' = Taking /\ Taking \in {0, 1}
    BY <2>1 DEF Taking
  <2>6. loop # "crashed"
    BY <2>1
  <2> QED  BY <1>1, <1>2, <2>1, <2>2, <2>3, <2>4, <2>5, <2>6
<1>9. ASSUME NEW t \in Callers, StopSafe(t)
      PROVE  Len(queue') = pipe' + Sending' + Taking'
                                 + Cardinality(StopsIn(log'))
  <2>1. /\ ~Pinging /\ UNCHANGED loop /\ pipe' = pipe + Delivered(0)
        /\ queue' = Append(queue, StopQuery) /\ log' = Append(log, StopQuery)
        /\ call' = [call EXCEPT ![t] = "dispose"]
    BY <1>9 DEF StopSafe
  <2>2. Sending = 0 /\ Sending' = 0
    BY <1>1, <2>1 DEF Sending, Pinging
  <2>3. Len(queue') = m + 1
    BY <2>1, AppendProperties DEF TypeOK, Query, m
  <2>4. Cardinality(StopsIn(log')) = c + 1
    BY <1>1, <2>1, StopsAppend DEF TypeOK, Query, c
  <2>5. Taking' = Taking /\ Taking \in {0, 1}
    BY <2>1 DEF Taking
  <2>6. loop # "crashed" /\ pipe' = pipe
    BY <1>1, <2>1, Deliveries
  <2> QED  BY <1>1, <1>2, <2>2, <2>3, <2>4, <2>5, <2>6
<1>10. ASSUME NEW t \in Callers, PingSent(t)
       PROVE  Len(queue') = pipe' + Sending' + Taking'
                                  + Cardinality(StopsIn(log'))
  <2>1. /\ call[t] = "ping" /\ pipe' = pipe + 1 /\ UNCHANGED <<queue, loop, log>>
        /\ call' = [call EXCEPT ![t] = "none"]
    BY <1>10, Deliveries DEF PingSent
  <2>2. Sending = 1 /\ Sending' = 0
    BY <1>1, <2>1 DEF Sending, Pinging, OneHolder
  <2>3. Taking' = Taking /\ Taking \in {0, 1} /\ loop # "crashed"
    BY <2>1 DEF Taking
  <2> QED  BY <1>1, <1>2, <1>3, <1>4, <2>1, <2>2, <2>3
<1>11. ASSUME NEW t \in Callers, Dispose(t) \/ AccessRefused(t)
       PROVE  Len(queue') = pipe' + Sending' + Taking'
                                  + Cardinality(StopsIn(log'))
  <2>1. /\ UNCHANGED <<queue, pipe, log>> /\ loop' = loop
        /\ call[t] # "ping"
        /\ \E d \in CallState \ {"ping"} : call' = [call EXCEPT ![t] = d]
    BY <1>11 DEF Dispose, AccessRefused, CanCall, CallState
  <2>2. Sending' = Sending
    BY <1>1, <2>1 DEF Sending, Pinging
  <2>3. Taking' = Taking /\ loop # "crashed"
    BY <2>1 DEF Taking
  <2> QED  BY <1>2, <1>3, <1>4, <2>1, <2>2, <2>3
<1>12. CASE Connect \/ BlockDone \/ LoopExit \/ UNCHANGED qvars
  <2>1. /\ UNCHANGED <<queue, pipe, call, log>> /\ loop # "crashed"
        /\ loop = "taking" <=> loop' = "taking"
    BY <1>12 DEF Connect, BlockDone, LoopExit, qvars
  <2>2. Taking' = Taking
    BY <2>1 DEF Taking
  <2> QED  BY <1>2, <1>3, <1>4, <1>5, <2>1, <2>2
<1>13. ~TakeRefused /\ ~UserThrow
  BY DEF TakeRefused, UserThrow
<1> QED
  BY <1>6, <1>7, <1>8, <1>9, <1>10, <1>11, <1>12, <1>13 DEF Next

-----------------------------------------------------------------------------
(* The inductive invariant *)

LEMMA InitInv == Init => IInv
<1> SUFFICES ASSUME Init PROVE IInv
  OBVIOUS
<1>1. TypeOK
  BY InitType
<1>2. OneHolder /\ StopIsLast
  BY DEF Init, OneHolder, StopIsLast
<1>3. Suffix /\ Prefix
  BY DEF Init, Suffix, Prefix, Removed
<1>4. PingBalance
  <2>1. ~Pinging
    BY DEF Init, Pinging
  <2> QED  BY <2>1, NoStops DEF Init, PingBalance
<1> QED  BY <1>1, <1>2, <1>3, <1>4 DEF IInv

LEMMA NextInv == IInv /\ [Next]_qvars => IInv'
BY NextType, NextHolder, NextHistory, NextBalance, BalanceFeedsTake DEF IInv, HInv

THEOREM Inductive == Spec => []IInv
BY InitInv, NextInv, PTL DEF Spec

(* Wake-ups balance, in every reachable state: no query sits in the deque   *)
(* without its ping and no ping comes without its query.                    *)
THEOREM WakeUpsBalance == Spec => []PingBalance
BY Inductive, PTL DEF IInv

(* handlePongSocket never calls removeFirst on an empty deque. *)
THEOREM TakesAreFed == Spec => []NoEmptyTake
<1>1. IInv => NoEmptyTake
  BY BalanceFeedsTake DEF IInv
<1> QED  BY <1>1, Inductive, PTL

(* A step that could throw is one that takes a query, and the deque has one *)
(* for every ping; or it is user code's, or an access of a disposed isolate.*)
LEMMA NextSurvives ==
    ASSUME ~MayThrow, "refuse" \notin DisposedAccess
    PROVE  IInv /\ Alive /\ [Next]_qvars => Alive'
<1> SUFFICES ASSUME IInv, loop # "crashed", [Next]_qvars
             PROVE  loop' # "crashed"
  BY DEF Alive
<1>1. CASE UNCHANGED qvars
  BY <1>1 DEF qvars
<1>2. CASE TakeQuery
  <2>1. queue # <<>>
    BY <1>2, BalanceFeedsTake DEF IInv, NoEmptyTake, TakeQuery
  <2> QED  BY <1>2, <2>1 DEF TakeQuery, Obey
<1>3. CASE UserThrow \/ TakeRefused \/ \E t \in Callers : AccessRefused(t)
  BY <1>3 DEF UserThrow, TakeRefused, AccessRefused, Refused
<1>4. CASE Connect \/ RecvPong \/ BlockDone \/ LoopExit
  BY <1>4 DEF Connect, RecvPong, BlockDone, LoopExit
<1>5. CASE \E t \in Callers :
             \/ PingSent(t) \/ StopSafe(t) \/ Dispose(t)
             \/ \E b \in Blocks : InvokeSafe(t, b)
  BY <1>5 DEF PingSent, StopSafe, Dispose, InvokeSafe
<1> QED  BY <1>1, <1>2, <1>3, <1>4, <1>5 DEF Next

(* The hand-over never ends the loop's thread by an exception of its own,   *)
(* where a disposed isolate still serves and user code throws nothing.      *)
THEOREM QueueSurvives ==
    ASSUME ~MayThrow, "refuse" \notin DisposedAccess
    PROVE  Spec => []Alive
<1>1. Init => Alive
  BY DEF Init, Alive
<1>2. IInv /\ Alive /\ [Next]_qvars => Alive'
  BY NextSurvives
<1> QED  BY <1>1, <1>2, Inductive, PTL DEF Spec

(* Blocks start in the order of the accesses, each once, none after a stop  *)
(* query: for every number of threads and blocks.                           *)
THEOREM InOrder == Spec => []RunsInOrder
<1>1. IInv => RunsInOrder
  <2> SUFFICES ASSUME IInv PROVE RunsInOrder
    OBVIOUS
  <2>1. Len(queue) \in Nat /\ Len(log) \in Nat /\ Len(started) \in Nat
    BY DEF IInv, TypeOK
  <2> QED  BY <2>1 DEF IInv, Prefix, Removed, RunsInOrder
<1> QED  BY <1>1, Inductive, PTL

-----------------------------------------------------------------------------
(* The mailbox *)

(* A step of the queue is a step of the mailbox or leaves it alone. *)
LEMMA StepImplements == IInv /\ [Next]_qvars => [Promise!Next]_Promise!mvars
<1> SUFFICES ASSUME IInv, [Next]_qvars
             PROVE  [Promise!Next]_Promise!mvars
  OBVIOUS
<1> USE DEF Promise!Next, Promise!mvars
<1>1. TypeOK /\ Suffix /\ StopIsLast /\ NoEmptyTake
  BY BalanceFeedsTake DEF IInv
<1>2. ASSUME NEW q \in Query,
             queue' = Append(queue, q), log' = Append(log, q), UNCHANGED isStopped
      PROVE  Promise!Accept(q)
  <2>1. Len(queue') = Len(queue) + 1 /\ Len(queue) \in Nat
    BY <1>1, <1>2, AppendProperties DEF TypeOK
  <2>2. Len(log') = Len(log) + 1 /\ Len(log) \in Nat
    BY <1>1, <1>2, AppendProperties DEF TypeOK
  <2> QED  BY <1>2, <2>1, <2>2 DEF Promise!Accept
<1>3. CASE TakeQuery
  <2>1. /\ queue # <<>> /\ ~isStopped /\ queue' = Tail(queue) /\ log' = log
        /\ Obey(Head(queue))
    BY <1>1, <1>3 DEF TakeQuery, NoEmptyTake, StopIsLast
  <2>2. Removed' = Removed + 1
    BY <1>1, <2>1, Dequeue
  <2>3. Head(queue) = log[Removed + 1] /\ Removed < Len(log)
    BY <1>1, <2>1, Oldest
  <2>4. ~isStopped' <=> log[Removed + 1] # StopQuery
    BY <2>1, <2>3, BlocksAssumption DEF Obey
  <2>5. (~isStopped)' = (log[Removed + 1] # StopQuery)
    BY <2>4
  <2>6. Promise!Handle
    <3>1. Promise!Handle <=> /\ ~isStopped
                             /\ Removed < Len(log)
                             /\ Removed' = Removed + 1
                             /\ (~isStopped)' = (log[Removed'] # StopQuery)
                             /\ UNCHANGED log
      BY DEF Promise!Handle, Removed
    <3>2. (~isStopped)' = (log[Removed'] # StopQuery)
      BY <2>2, <2>5
    <3> QED  BY <2>1, <2>2, <2>3, <3>1, <3>2
  <2> QED  BY <2>6
<1>4. ASSUME NEW t \in Callers, NEW b \in Blocks, InvokeSafe(t, b)
      PROVE  Promise!Next
  BY <1>2, <1>4 DEF InvokeSafe, Query
<1>5. ASSUME NEW t \in Callers, StopSafe(t)
      PROVE  Promise!Next
  BY <1>2, <1>5 DEF StopSafe, Query
<1>6. CASE UNCHANGED history
  BY <1>6 DEF history
<1>7. \/ Connect \/ RecvPong \/ TakeRefused \/ BlockDone \/ UserThrow \/ LoopExit
      \/ UNCHANGED qvars
      \/ \E t \in Callers : PingSent(t) \/ Dispose(t) \/ AccessRefused(t)
      => UNCHANGED history
  BY DEF Connect, RecvPong, TakeRefused, BlockDone, UserThrow, LoopExit, qvars,
         PingSent, Dispose, AccessRefused, history
<1> QED  BY <1>3, <1>4, <1>5, <1>6, <1>7 DEF Next

LEMMA InitImplements == Init => Promise!Init
<1> SUFFICES ASSUME Init PROVE Promise!Init
  OBVIOUS
<1>1. log = <<>> /\ Len(log) - Len(queue) = 0
  BY DEF Init
<1>2. (~isStopped) = TRUE
  BY DEF Init
<1> QED  BY <1>1, <1>2 DEF Promise!Init

(* The hand-over implements the mailbox: the code's queue, ping and access  *)
(* amount to a queue whose queries are handled one at a time, oldest first. *)
THEOREM QueueIsMailbox == Spec => ImplementsMailbox
BY InitImplements, StepImplements, Inductive, PTL
   DEF Spec, ImplementsMailbox, Promise!Spec
=============================================================================
