-------------------------- MODULE ServerLoopProofs --------------------------
(***************************************************************************)
(* Proofs about ServerLoop, for any sets of clients, blocks and callers and*)
(* any bounds: it is the mailbox that QueryQueue promises, its replies go  *)
(* to whom they answer, and close frees what was not popped and no more.   *)
(***************************************************************************)
EXTENDS ServerLoop, QueryQueueProofs

(* A request that waits in the router waits once, and in no other place.    *)
Waiting ==
    /\ inbox \in [Clients -> Seq(Request)]
    /\ \A c \in Clients :
          /\ \A i \in 1..Len(inbox[c]) : /\ inbox[c][i].client = c
                                         /\ inbox[c][i] \notin kept \cup hearing
          /\ \A i, j \in 1..Len(inbox[c]) : inbox[c][i] = inbox[c][j] => i = j

(* What the listener's hands hold: of one request, the frames not popped    *)
(* yet; the identity is popped exactly when it is kept, the body copied.    *)
Hands ==
    /\ heap \in [Request -> SUBSET Parts]
    /\ hearing \in SUBSET Request
    /\ kept \in SUBSET Request
    /\ frames \in {<<>>, <<"body">>, <<"identity", "body">>}
    /\ \A r, s \in hearing : r = s
    /\ \A r \in hearing : "message" \in heap[r] =>
          /\ r \in kept <=> "identity" \notin Elements(frames)
          /\ "body" \in heap[r] <=> "body" \in Elements(frames)

(* The replies on their way to a client. *)
Replies == /\ outbox \in [Clients -> Seq(Request)]
           /\ \A c \in Clients : \A i \in 1..Len(outbox[c]) : outbox[c][i].client = c

SIInv == Waiting /\ Hands /\ MessagesFreed /\ Replies

-----------------------------------------------------------------------------
(* The query queue inside the loop *)

LEMMA QueueStep == [SNext]_svars => [Next]_qvars
<1> SUFFICES ASSUME [SNext]_svars
             PROVE  Next \/ UNCHANGED qvars
  OBVIOUS
<1>1. CASE LoopStep
  <2>1. CASE \/ SConnect \/ SLoopExit \/ STakeQuery \/ STakeRefused
             \/ SBlockDone \/ SUserThrow \/ DispatchPong
    BY <2>1 DEF SConnect, SLoopExit, STakeQuery, STakeRefused, SBlockDone,
                SUserThrow, DispatchPong, Next
  <2>2. CASE \/ BindRouter \/ Iterate \/ RunScheduled \/ ScheduledDone
             \/ TimersDrained \/ PollReady \/ DispatchRouter \/ ListenerDone
             \/ DispatchDone
    BY <2>2 DEF BindRouter, Iterate, RunScheduled, ScheduledDone, TimersDrained,
                PollReady, DispatchRouter, Hear, ListenerDone, DispatchDone
  <2> QED  BY <1>1, <2>1, <2>2 DEF LoopStep
<1>2. CASE UserStep
  BY <1>2 DEF UserStep, PopIdentity, PopString, CloseMsg, SendMessage, Forget,
              InvokeAfterTimeout
<1>3. CASE CallStep
  BY <1>3 DEF CallStep, SPingSent, SStopSafe, SDispose, SAccessRefused,
              SInvokeSafe, Next
<1>4. CASE PeerStep
  BY <1>4 DEF PeerStep, Arrives, TakeAnswer, Disconnect
<1>5. CASE UNCHANGED svars
  BY <1>5 DEF svars
<1> QED  BY <1>1, <1>2, <1>3, <1>4, <1>5 DEF SNext

(* So what QueryQueueProofs proves of the queue, it proves of the server. *)
LEMMA ServerIsQueue == SSpec => Spec
<1>1. SInit => Init
  BY DEF SInit
<1> QED  BY <1>1, QueueStep, PTL DEF SSpec, Spec

(* Where user code throws nothing and a disposed isolate serves, nothing    *)
(* ends the server but a stop: its own code throws nothing, whatever its    *)
(* clients send and however they go.                                        *)
THEOREM ServerSurvives ==
    ASSUME ~MayThrow, "refuse" \notin DisposedAccess
    PROVE  SSpec => []Alive
BY ServerIsQueue, QueueSurvives, PTL

(* And so it is the mailbox that its users are promised: its requests and   *)
(* replies in between lose, double or reorder no query.                     *)
THEOREM ServerIsMailbox == SSpec => ImplementsMailbox
BY ServerIsQueue, QueueIsMailbox, PTL

-----------------------------------------------------------------------------
(* What the steps do to messages and replies *)

LEMMA ServerInit == SInit => SIInv
<1> SUFFICES ASSUME SInit
             PROVE  SIInv
  OBVIOUS
<1>1. Waiting
  BY EmptySeq, RouterAssumption DEF SInit, Waiting
<1>2. Hands /\ MessagesFreed
  BY DEF SInit, Hands, MessagesFreed
<1>3. Replies
  BY EmptySeq DEF SInit, Replies
<1> QED  BY <1>1, <1>2, <1>3 DEF SIInv

(* Every other step leaves them alone. *)
LEMMA OtherMessages ==
    [SNext]_svars =>
       \/ UNCHANGED <<inbox, outbox, msgvars>>
       \/ DispatchRouter \/ ListenerDone \/ PeerStep
       \/ \E r \in Request : \/ PopIdentity(r) \/ PopString(r) \/ CloseMsg(r)
                             \/ SendMessage(r) \/ Forget(r)
<1> SUFFICES ASSUME [SNext]_svars,
                    ~DispatchRouter, ~ListenerDone, ~PeerStep,
                    ~\E r \in Request : \/ PopIdentity(r) \/ PopString(r) \/ CloseMsg(r)
                                        \/ SendMessage(r) \/ Forget(r)
             PROVE  UNCHANGED <<inbox, outbox, msgvars>>
  OBVIOUS
<1>1. CASE LoopStep
  BY <1>1 DEF LoopStep, SConnect, BindRouter, Iterate, SLoopExit, RunScheduled,
              ScheduledDone, TimersDrained, PollReady, DispatchPong, DispatchDone,
              STakeQuery, STakeRefused, SBlockDone, SUserThrow, lvars, peervars
<1>2. CASE UserStep
  BY <1>2 DEF UserStep, InvokeAfterTimeout, peervars
<1>3. CASE CallStep
  BY <1>3 DEF CallStep, SPingSent, SStopSafe, SDispose, SAccessRefused,
              SInvokeSafe, lvars, peervars
<1>4. CASE UNCHANGED svars
  BY <1>4 DEF svars, lvars, peervars
<1> QED  BY <1>1, <1>2, <1>3, <1>4 DEF SNext

LEMMA Unmoved ==
    SIInv /\ UNCHANGED <<inbox, outbox, msgvars>> => SIInv'
<1> SUFFICES ASSUME SIInv, UNCHANGED <<inbox, outbox, msgvars>>
             PROVE  SIInv'
  OBVIOUS
<1>1. Waiting'
  BY DEF SIInv, Waiting, msgvars
<1>2. Hands'
  BY DEF SIInv, Hands, Elements, msgvars
<1>3. MessagesFreed'
  BY DEF SIInv, MessagesFreed, Elements, msgvars
<1>4. Replies'
  BY DEF SIInv, Replies
<1> QED  BY <1>1, <1>2, <1>3, <1>4 DEF SIInv

(* A request is taken from the router: nothing of it was in use before.     *)
LEMMA HearStep == SIInv /\ DispatchRouter => SIInv'
<1> SUFFICES ASSUME SIInv, NEW c \in Clients, Hear(c)
             PROVE  SIInv'
  BY DEF DispatchRouter
<1> USE DEF SIInv
<1>1. /\ inbox[c] # <<>>
      /\ inbox' = [inbox EXCEPT ![c] = Tail(@)]
      /\ hearing' = {Head(inbox[c])}
      /\ heap' = [heap EXCEPT ![Head(inbox[c])] = {"message"} \cup Frames]
  BY DEF Hear
<1>2. UNCHANGED <<outbox, kept>> /\ frames' = <<"identity", "body">>
  BY DEF Hear
<1> DEFINE q == inbox[c]
           n == Len(inbox[c])
           r == Head(inbox[c])
<1>3. /\ q \in Seq(Request) /\ q # <<>> /\ n \in Nat \ {0}
      /\ r = q[1] /\ r \in Request
      /\ Tail(q) \in Seq(Request) /\ Len(Tail(q)) = n - 1
      /\ \A i \in 1..(n - 1) : Tail(q)[i] = q[i + 1]
  BY <1>1, HeadTailProperties DEF Waiting
<1>4. \A d \in Clients : inbox'[d] = IF d = c THEN Tail(q) ELSE inbox[d]
  BY <1>1 DEF Waiting
<1>5. /\ \A i \in 1..n : q[i].client = c /\ q[i] \notin kept \cup hearing
      /\ \A i, j \in 1..n : q[i] = q[j] => i = j
  BY DEF Waiting
<1>6. r.client = c /\ r \notin kept \cup hearing
  <2>1. 1 \in 1..n
    BY <1>3
  <2> QED  BY <1>3, <1>5, <2>1
<1>7. inbox' \in [Clients -> Seq(Request)]
  BY <1>1, <1>3 DEF Waiting
<1> HIDE DEF q, n, r
<1>8. Waiting'
  <2>1. ASSUME NEW d \in Clients
        PROVE  /\ \A i \in 1..Len(inbox'[d]) : /\ inbox'[d][i].client = d
                                               /\ inbox'[d][i] \notin kept \cup {r}
               /\ \A i, j \in 1..Len(inbox'[d]) : inbox'[d][i] = inbox'[d][j] => i = j
    <3>1. CASE d = c
      <4>1. \A i \in 1..(n - 1) : i + 1 \in 1..n /\ i + 1 # 1 /\ Tail(q)[i] = q[i + 1]
        BY <1>3
      <4>2. \A i \in 1..(n - 1) : Tail(q)[i].client = c /\ Tail(q)[i] \notin kept \cup {r}
        <5>1. 1 \in 1..n
          BY <1>3
        <5> QED  BY <1>3, <1>5, <4>1, <5>1
      <4>3. ASSUME NEW i \in 1..(n - 1), NEW j \in 1..(n - 1), Tail(q)[i] = Tail(q)[j]
            PROVE  i = j
        <5>1. i + 1 = j + 1
          BY <1>5, <4>1, <4>3
        <5> QED  BY <1>3, <5>1
      <4>4. inbox'[d] = Tail(q) /\ Len(inbox'[d]) = n - 1
        BY <1>3, <1>4, <3>1
      <4>5. \A i, j \in 1..(n - 1) : Tail(q)[i] = Tail(q)[j] => i = j
        BY <4>3
      <4> HIDE DEF q, n
      <4>6. \A i \in 1..(n - 1) : /\ inbox'[d][i].client = d
                                   /\ inbox'[d][i] \notin kept \cup {r}
        BY <3>1, <4>2, <4>4
      <4>7. \A i, j \in 1..(n - 1) : inbox'[d][i] = inbox'[d][j] => i = j
        BY <4>4, <4>5
      <4> QED  BY <4>4, <4>6, <4>7
    <3>2. CASE d # c
      BY <1>4, <1>6, <3>2 DEF Waiting
    <3> QED  BY <3>1, <3>2
  <2> QED  BY <1>1, <1>2, <1>7, <2>1 DEF Waiting, r
<1>9. /\ heap' \in [Request -> SUBSET Parts]
      /\ heap'[r] = {"message"} \cup Frames
      /\ \A s \in Request \ {r} : heap'[s] = heap[s]
  BY <1>1, <1>3 DEF Hands, Parts, Frames, r
<1>10. Elements(frames') = Frames
  BY <1>2 DEF Elements, Frames
<1>11. hearing' = {r}
  BY <1>1 DEF r
<1>12. Hands'
  BY <1>2, <1>3, <1>6, <1>9, <1>10, <1>11 DEF Hands, Frames
<1>13. MessagesFreed'
  BY <1>2, <1>3, <1>6, <1>9, <1>10, <1>11 DEF MessagesFreed, Hands
<1>14. Replies'
  BY <1>2 DEF Replies
<1> QED  BY <1>8, <1>12, <1>13, <1>14

(* The listener returns: what it kept is all that is still referred to. *)
LEMMA HeardStep == SIInv /\ ListenerDone => SIInv'
<1> SUFFICES ASSUME SIInv, ListenerDone
             PROVE  SIInv'
  OBVIOUS
<1> USE DEF SIInv
<1>1. /\ UNCHANGED <<inbox, outbox, kept>>
      /\ hearing' = {} /\ frames' = <<>>
      /\ heap' = [r \in Request |-> IF r \in kept THEN heap[r] \cap {"identity"} ELSE {}]
  BY DEF ListenerDone, peervars
<1>2. heap' \in [Request -> SUBSET Parts]
  BY <1>1 DEF Parts, Frames
<1>3. Waiting' /\ Replies'
  BY <1>1 DEF Waiting, Replies
<1>4. Hands'
  BY <1>1, <1>2 DEF Hands
<1>5. MessagesFreed'
  BY <1>1 DEF MessagesFreed, Hands
<1> QED  BY <1>3, <1>4, <1>5

(* A kept identity is dropped. *)
LEMMA ForgetStep ==
    ASSUME SIInv, NEW r \in Request, Forget(r)
    PROVE  SIInv'
<1> USE DEF SIInv
<1>1. /\ UNCHANGED <<inbox, outbox, hearing, frames>>
      /\ r \notin hearing /\ kept' = kept \ {r}
      /\ heap' = [heap EXCEPT ![r] = {}]
  BY DEF Forget, peervars
<1>2. /\ heap' \in [Request -> SUBSET Parts] /\ heap'[r] = {}
      /\ \A s \in Request \ {r} : heap'[s] = heap[s]
  BY <1>1 DEF Hands
<1>3. Waiting' /\ Replies'
  BY <1>1 DEF Waiting, Replies
<1>4. Hands'
  BY <1>1, <1>2 DEF Hands
<1>5. Elements(frames') = Elements(frames)
  BY <1>1
<1>6. MessagesFreed'
  BY <1>1, <1>2, <1>5 DEF MessagesFreed, Hands
<1> QED  BY <1>3, <1>4, <1>6

(* The listener pops a frame or closes the message it holds. *)
LEMMA HandsStep ==
    ASSUME SIInv, NEW r \in Request, PopIdentity(r) \/ PopString(r) \/ CloseMsg(r)
    PROVE  SIInv'
<1> USE DEF SIInv
<1>1. r \in hearing /\ "message" \in heap[r] /\ UNCHANGED <<inbox, outbox, hearing>>
  BY DEF PopIdentity, PopString, CloseMsg, Holds, peervars
<1>2. \A s \in hearing : s = r
  BY <1>1 DEF Hands
<1>3. kept' \subseteq kept \cup {r}
  BY DEF PopIdentity, PopString, CloseMsg
<1>4. Waiting' /\ Replies'
  BY <1>1, <1>3 DEF Waiting, Replies
<1>5. /\ Elements(<<>>) = {}
      /\ Elements(<<"body">>) = {"body"}
      /\ Elements(<<"identity", "body">>) = Frames
  BY DEF Elements, Frames
<1>6. CASE PopIdentity(r)
  <2>1. frames = <<"identity", "body">> /\ frames' = <<"body">>
    <3>1. frames # <<>> /\ Head(frames) = "identity" /\ frames' = Tail(frames)
      BY <1>6 DEF PopIdentity
    <3>2. CASE frames = <<"body">>
      BY <3>1, <3>2
    <3>3. CASE frames = <<"identity", "body">>
      BY <3>1, <3>3
    <3> QED  BY <3>1, <3>2, <3>3 DEF Hands
  <2>2. kept' = kept \cup {r} /\ heap' = heap
    BY <1>6 DEF PopIdentity
  <2>3. Hands'
    BY <1>1, <1>2, <1>5, <2>1, <2>2 DEF Hands, Frames
  <2>4. "identity" \in heap[r]
    BY <1>1, <1>5, <2>1 DEF MessagesFreed, Frames
  <2>5. MessagesFreed'
    BY <1>1, <1>2, <1>5, <2>1, <2>2, <2>4 DEF MessagesFreed, Frames
  <2> QED  BY <1>4, <2>3, <2>5
<1>7. CASE PopString(r)
  <2>1. frames = <<"body">> /\ frames' = <<>>
    BY <1>7 DEF PopString, Hands
  <2>2. kept' = kept /\ heap' = [heap EXCEPT ![r] = (@ \ {"body"}) \cup {"string"}]
    BY <1>7 DEF PopString
  <2>3. /\ heap' \in [Request -> SUBSET Parts]
        /\ heap'[r] = (heap[r] \ {"body"}) \cup {"string"}
        /\ \A s \in Request \ {r} : heap'[s] = heap[s]
    BY <2>2 DEF Hands, Parts, Frames
  <2>4. Hands'
    BY <1>1, <1>2, <1>5, <2>1, <2>2, <2>3 DEF Hands, Frames
  <2>5. MessagesFreed'
    BY <1>1, <1>2, <1>5, <2>1, <2>2, <2>3 DEF MessagesFreed, Hands
  <2> QED  BY <1>4, <2>4, <2>5
<1>8. CASE CloseMsg(r)
  <2>1. frames' = <<>> /\ kept' = kept
    BY <1>8 DEF CloseMsg
  <2>2. heap' = [heap EXCEPT ![r] = @ \ ({"message"} \cup Elements(frames))]
    BY <1>8 DEF CloseMsg
  <2>3. /\ heap' \in [Request -> SUBSET Parts]
        /\ heap'[r] = heap[r] \ ({"message"} \cup Elements(frames))
        /\ \A s \in Request \ {r} : heap'[s] = heap[s]
    BY <2>2 DEF Hands
  <2>4. "message" \notin heap'[r]
    BY <2>3
  <2>5. Hands'
    BY <1>1, <1>2, <2>1, <2>3, <2>4 DEF Hands
  <2>6. /\ r \in kept => "identity" \in heap'[r]
        /\ heap'[r] \subseteq {"string"} \cup (IF r \in kept THEN {"identity"} ELSE {})
    BY <1>1, <2>3 DEF Hands, MessagesFreed, Parts, Frames
  <2>7. MessagesFreed'
    BY <1>1, <1>2, <2>1, <2>3, <2>4, <2>6 DEF MessagesFreed, Hands
  <2> QED  BY <1>4, <2>5, <2>7
<1> QED  BY <1>6, <1>7, <1>8

(* A reply: the identity that is kept is not freed, so it names the asker. *)
LEMMA ReplyStep ==
    ASSUME SIInv, NEW r \in Request, SendMessage(r)
    PROVE  SIInv'
<1> USE DEF SIInv
<1>1. UNCHANGED <<inbox, msgvars>> /\ r \in kept
  BY DEF SendMessage
<1>2. PICK c \in Addressee(r) : outbox' = [outbox EXCEPT ![c] = Append(@, r)]
  BY DEF SendMessage
<1>3. c = r.client /\ c \in Clients
  BY <1>1, <1>2 DEF Addressee, MessagesFreed, Request
<1>4. Waiting' /\ Hands' /\ MessagesFreed'
  BY <1>1 DEF Waiting, Hands, MessagesFreed, Elements, msgvars
<1>5. /\ outbox[c] \in Seq(Request) /\ Len(outbox[c]) \in Nat
      /\ Append(outbox[c], r) \in Seq(Request)
      /\ Len(Append(outbox[c], r)) = Len(outbox[c]) + 1
      /\ Append(outbox[c], r)[Len(outbox[c]) + 1] = r
      /\ \A i \in 1..Len(outbox[c]) : Append(outbox[c], r)[i] = outbox[c][i]
  BY <1>3, AppendProperties DEF Replies
<1>6. /\ outbox' \in [Clients -> Seq(Request)]
      /\ \A d \in Clients : outbox'[d] = IF d = c THEN Append(outbox[c], r) ELSE outbox[d]
  BY <1>2, <1>3, <1>5 DEF Replies
<1>7. ASSUME NEW i \in 1..(Len(outbox[c]) + 1)
      PROVE  Append(outbox[c], r)[i].client = c
  <2>1. i \in 1..Len(outbox[c]) \/ i = Len(outbox[c]) + 1
    BY <1>5
  <2> QED  BY <1>3, <1>5, <2>1 DEF Replies
<1>8. ASSUME NEW d \in Clients, NEW i \in 1..Len(outbox'[d])
      PROVE  outbox'[d][i].client = d
  <2>1. CASE d = c
    BY <1>5, <1>6, <1>7, <2>1
  <2>2. CASE d # c
    BY <1>6, <2>2 DEF Replies
  <2> QED  BY <2>1, <2>2
<1>9. Replies'
  BY <1>6, <1>8 DEF Replies
<1> QED  BY <1>4, <1>9

(* The clients: a request arrives as the last, a reply is taken or lost. *)
LEMMA ClientStep == SIInv /\ PeerStep => SIInv'
<1> SUFFICES ASSUME SIInv, NEW c \in Clients,
                    Arrives(c) \/ TakeAnswer(c) \/ Disconnect(c)
             PROVE  SIInv'
  BY DEF PeerStep
<1> USE DEF SIInv
<1>1. UNCHANGED msgvars
  BY DEF Arrives, TakeAnswer, Disconnect
<1>2. Hands' /\ MessagesFreed'
  BY <1>1 DEF Hands, MessagesFreed, Elements, msgvars
<1>3. CASE Arrives(c)
  <2> DEFINE q == inbox[c]
  <2>1. PICK r \in Request :
           /\ r.client = c /\ r \notin Elements(q) \cup hearing \cup kept
           /\ inbox' = [inbox EXCEPT ![c] = Append(q, r)]
    BY <1>3 DEF Arrives
  <2>2. UNCHANGED outbox
    BY <1>3 DEF Arrives
  <2>3. /\ q \in Seq(Request) /\ Len(q) \in Nat /\ DOMAIN q = 1..Len(q)
        /\ \A i \in 1..Len(q) : q[i].client = c /\ q[i] \notin kept \cup hearing
        /\ \A i, j \in 1..Len(q) : q[i] = q[j] => i = j
    BY DEF Waiting
  <2>4. inbox' \in [Clients -> Seq(Request)]
        /\ \A d \in Clients : inbox'[d] = IF d = c THEN Append(q, r) ELSE inbox[d]
    <3>1. Append(q, r) \in Seq(Request)
      BY <2>3, AppendProperties
    <3> QED  BY <2>1, <3>1 DEF Waiting
  <2> HIDE DEF q
  <2>5. /\ Len(Append(q, r)) = Len(q) + 1
        /\ Append(q, r)[Len(q) + 1] = r
        /\ \A i \in 1..Len(q) : Append(q, r)[i] = q[i]
    BY <2>3, AppendProperties
  <2>6. \A i \in 1..Len(q) : q[i] # r
    BY <2>1, <2>3 DEF Elements
  <2>7. \A i : i \in 1..(Len(q) + 1) <=> i \in 1..Len(q) \/ i = Len(q) + 1
    BY <2>3
  <2>8. ASSUME NEW d \in Clients
        PROVE  /\ \A i \in 1..Len(inbox'[d]) : /\ inbox'[d][i].client = d
                                               /\ inbox'[d][i] \notin kept \cup hearing
               /\ \A i, j \in 1..Len(inbox'[d]) : inbox'[d][i] = inbox'[d][j] => i = j
    <3>1. CASE d = c
      <4>1. inbox'[d] = Append(q, r)
        BY <2>4, <3>1
      <4>2. \A i \in 1..(Len(q) + 1) : /\ Append(q, r)[i].client = c
                                       /\ Append(q, r)[i] \notin kept \cup hearing
        BY <2>1, <2>3, <2>5, <2>7
      <4>3. \A i, j \in 1..(Len(q) + 1) : Append(q, r)[i] = Append(q, r)[j] => i = j
        BY <2>3, <2>5, <2>6, <2>7
      <4> QED  BY <2>5, <3>1, <4>1, <4>2, <4>3
    <3>2. CASE d # c
      BY <2>4, <3>2 DEF Waiting
    <3> QED  BY <3>1, <3>2
  <2>9. Waiting'
    BY <1>1, <2>4, <2>8 DEF Waiting, msgvars
  <2>10. Replies'
    BY <2>2 DEF Replies
  <2> QED  BY <1>2, <2>9, <2>10
<1>4. CASE TakeAnswer(c) \/ Disconnect(c)
  <2>1. Waiting'
    BY <1>1, <1>4 DEF TakeAnswer, Disconnect, Waiting, msgvars
  <2>2. CASE Disconnect(c)
    <3>1. Replies'
      BY <2>2, EmptySeq DEF Disconnect, Replies
    <3> QED  BY <1>2, <2>1, <3>1
  <2>3. CASE TakeAnswer(c)
    <3>1. outbox[c] # <<>> /\ outbox' = [outbox EXCEPT ![c] = Tail(@)]
      BY <2>3 DEF TakeAnswer
    <3>2. /\ outbox[c] \in Seq(Request) /\ Len(outbox[c]) \in Nat
          /\ Tail(outbox[c]) \in Seq(Request)
          /\ Len(Tail(outbox[c])) = Len(outbox[c]) - 1
          /\ \A i \in 1..(Len(outbox[c]) - 1) : Tail(outbox[c])[i] = outbox[c][i + 1]
      BY <3>1, HeadTailProperties DEF Replies
    <3>3. ASSUME NEW i \in 1..(Len(outbox[c]) - 1)
          PROVE  Tail(outbox[c])[i].client = c
      <4>1. i + 1 \in 1..Len(outbox[c])
        BY <3>2
      <4> QED  BY <3>2, <4>1 DEF Replies
    <3>4. /\ outbox' \in [Clients -> Seq(Request)]
          /\ \A d \in Clients : outbox'[d] = IF d = c THEN Tail(outbox[c]) ELSE outbox[d]
      BY <3>1, <3>2 DEF Replies
    <3> QED  BY <1>1, <1>2, <2>1, <3>2, <3>3, <3>4 DEF Replies
  <2> QED  BY <1>2, <1>4, <2>1, <2>2, <2>3
<1> QED  BY <1>3, <1>4

-----------------------------------------------------------------------------
THEOREM ServerInductive == SSpec => []SIInv
<1>1. SIInv /\ [SNext]_svars => SIInv'
  BY OtherMessages, Unmoved, HearStep, HeardStep, HandsStep, ReplyStep, ForgetStep,
     ClientStep
<1> QED  BY ServerInit, <1>1, PTL DEF SSpec

(* A reply goes to the client whose request it answers. *)
THEOREM AnswersGoHome == SSpec => []RepliesReachAsker
<1>1. SIInv => RepliesReachAsker
  <2> SUFFICES ASSUME SIInv, NEW c \in Clients, NEW r \in Elements(outbox[c])
               PROVE  r.client = c
    BY DEF RepliesReachAsker
  <2>1. PICK i \in DOMAIN outbox[c] : r = outbox[c][i]
    BY DEF Elements
  <2>2. DOMAIN outbox[c] = 1..Len(outbox[c])
    BY DEF SIInv, Replies
  <2> QED  BY <2>1, <2>2 DEF SIInv, Replies
<1> QED  BY ServerInductive, <1>1, PTL

(* close frees all that is left in a message and nothing that was popped of *)
(* it, so an identity that was kept stays readable.                         *)
THEOREM ClosedIsFreed == SSpec => []MessagesFreed
BY ServerInductive, PTL DEF SIInv

-----------------------------------------------------------------------------
(* The types *)

Phases == {"setup", "top", "timers", "timer", "poll", "dispatch", "listener"}
Lists  == {<<>>, <<"pong">>, <<"router">>, <<"pong", "router">>}

Places == /\ phase \in Phases
          /\ ready \in Lists
          /\ bound \in BOOLEAN
          /\ clients \in [Clients -> {"new", "up", "gone"}]
          /\ scheduled \in SUBSET Timers
          /\ fired \in SUBSET Timers

(* The router holds no more replies for a client than it may. *)
Bounded == \A c \in Clients : Len(outbox[c]) <= PeerHWM

LEMMA ListSteps ==
    ASSUME NEW q \in Lists, q # <<>>
    PROVE  Tail(q) \in Lists
<1>1. CASE q = <<"pong">>
  <2>1. Tail(q) = <<>>
    BY <1>1
  <2> QED  BY <2>1 DEF Lists
<1>2. CASE q = <<"router">>
  <2>1. Tail(q) = <<>>
    BY <1>2
  <2> QED  BY <2>1 DEF Lists
<1>3. CASE q = <<"pong", "router">>
  <2>1. Tail(q) = <<"router">>
    BY <1>3
  <2> QED  BY <2>1 DEF Lists
<1> QED  BY <1>1, <1>2, <1>3 DEF Lists

LEMMA Pair ==
    \A e, f : <<e>> \o <<f>> = <<e, f>>
<1> SUFFICES ASSUME NEW e, NEW f PROVE <<e>> \o <<f>> = <<e, f>>
  OBVIOUS
<1> DEFINE S == {e, f}
           s == <<e>>
           t == <<f>>
           p == <<e, f>>
<1>1. /\ s \in Seq(S) /\ Len(s) = 1 /\ s[1] = e
      /\ t \in Seq(S) /\ Len(t) = 1 /\ t[1] = f
      /\ p \in Seq(S) /\ Len(p) = 2 /\ p[1] = e /\ p[2] = f
  <2>1. e \in S /\ f \in S
    OBVIOUS
  <2> HIDE DEF S
  <2> QED  BY <2>1
<1> HIDE DEF S, s, t, p
<1>2. /\ s \o t \in Seq(S) /\ Len(s \o t) = Len(s) + Len(t)
      /\ \A i \in 1..(Len(s) + Len(t)) :
            (s \o t)[i] = IF i <= Len(s) THEN s[i] ELSE t[i - Len(s)]
  BY ONLY <1>1, ConcatProperties
<1>3. /\ Len(s \o t) = 2
      /\ \A i \in 1..2 : (s \o t)[i] = IF i <= 1 THEN s[i] ELSE t[i - 1]
  BY ONLY <1>1, <1>2
<1>4. \A i \in 1..2 : i = 1 \/ i = 2
  OBVIOUS
<1>5. (s \o t)[1] = p[1] /\ (s \o t)[2] = p[2]
  BY ONLY <1>1, <1>3
<1>6. \A i \in 1..Len(s \o t) : (s \o t)[i] = p[i]
  BY ONLY <1>3, <1>4, <1>5
<1>7. s \o t = p
  BY ONLY <1>1, <1>2, <1>3, <1>6, SeqEqual
<1> QED  BY <1>7 DEF s, t, p

LEMMA ReadableInLists == Readable \in Lists
<1> DEFINE a == IF pipe > 0 THEN <<"pong">> ELSE <<>>
           b == IF \E c \in Clients : inbox[c] # <<>> THEN <<"router">> ELSE <<>>
<1>1. a \in {<<>>, <<"pong">>} /\ b \in {<<>>, <<"router">>} /\ Readable = a \o b
  BY DEF Readable
<1> HIDE DEF a, b
<1>2. CASE a = <<>> /\ b = <<>>
  BY <1>1, <1>2 DEF Lists
<1>3. CASE a = <<"pong">> /\ b = <<>>
  BY <1>1, <1>3 DEF Lists
<1>4. CASE a = <<>> /\ b = <<"router">>
  BY <1>1, <1>4 DEF Lists
<1>5. CASE a = <<"pong">> /\ b = <<"router">>
  <2>1. <<"pong">> \o <<"router">> = <<"pong", "router">>
    BY Pair
  <2> QED  BY <1>1, <1>5, <2>1 DEF Lists
<1> QED  BY <1>1, <1>2, <1>3, <1>4, <1>5

LEMMA PlacesStep == Places /\ [SNext]_svars => Places'
<1> SUFFICES ASSUME Places, [SNext]_svars
             PROVE  Places'
  OBVIOUS
<1> USE DEF Places
<1>1. CASE LoopStep
  <2>1. CASE \/ SConnect \/ SLoopExit \/ STakeQuery \/ STakeRefused
             \/ SBlockDone \/ SUserThrow
    BY <2>1 DEF SConnect, SLoopExit, STakeQuery, STakeRefused, SBlockDone,
                SUserThrow, lvars, peervars, timevars
  <2>2. CASE \/ BindRouter \/ Iterate \/ ScheduledDone
             \/ TimersDrained \/ ListenerDone \/ DispatchDone
    BY <2>2 DEF BindRouter, Iterate, ScheduledDone, TimersDrained,
                ListenerDone, DispatchDone, peervars, timevars, Phases
  <2>3. CASE RunScheduled
    BY <2>3 DEF RunScheduled, peervars, Phases
  <2>4. CASE PollReady
    BY <2>4, ReadableInLists DEF PollReady, peervars, timevars, Phases
  <2>5. CASE DispatchPong
    <3>1. ready' \in Lists
      BY <2>5, ListSteps DEF DispatchPong
    <3> QED  BY <2>5, <3>1 DEF DispatchPong, peervars, timevars
  <2>6. CASE DispatchRouter
    <3>1. ready' \in Lists
      BY <2>6, ListSteps DEF DispatchRouter, Hear
    <3> QED  BY <2>6, <3>1 DEF DispatchRouter, Hear, timevars, Phases
  <2> QED  BY <1>1, <2>1, <2>2, <2>3, <2>4, <2>5, <2>6 DEF LoopStep
<1>2. CASE UserStep
  BY <1>2 DEF UserStep, PopIdentity, PopString, CloseMsg, SendMessage, Forget,
              InvokeAfterTimeout, peervars, timevars
<1>3. CASE CallStep
  BY <1>3 DEF CallStep, SPingSent, SStopSafe, SDispose, SAccessRefused,
              SInvokeSafe, lvars, peervars, timevars
<1>4. CASE PeerStep
  BY <1>4 DEF PeerStep, Arrives, TakeAnswer, Disconnect, timevars
<1>5. CASE UNCHANGED svars
  BY <1>5 DEF svars, lvars, peervars, timevars
<1> QED  BY <1>1, <1>2, <1>3, <1>4, <1>5 DEF SNext

(* A reply that would be one too many is dropped. *)
LEMMA BoundedStep == Bounded /\ Replies /\ [SNext]_svars => Bounded'
<1> SUFFICES ASSUME Bounded, Replies, [SNext]_svars
             PROVE  Bounded'
  OBVIOUS
<1>1. \A c \in Clients : outbox[c] \in Seq(Request) /\ Len(outbox[c]) \in Nat
  BY DEF Replies
<1>2. CASE UNCHANGED outbox
  BY <1>2 DEF Bounded
<1>3. CASE \E r \in Request : SendMessage(r)
  <2>0. PICK r \in Request : SendMessage(r)
    BY <1>3
  <2>1. PICK c \in Addressee(r) :
           /\ Len(outbox[c]) < PeerHWM
           /\ outbox' = [outbox EXCEPT ![c] = Append(@, r)]
    BY <2>0 DEF SendMessage
  <2> SUFFICES ASSUME NEW d \in Clients PROVE Len(outbox'[d]) <= PeerHWM
    BY DEF Bounded
  <2>2. CASE d = c
    <3>1. /\ Len(Append(outbox[c], r)) = Len(outbox[c]) + 1
          /\ outbox'[d] = Append(outbox[c], r)
      BY <1>1, <2>1, <2>2, AppendProperties DEF Replies
    <3> QED  BY <1>1, <2>1, <2>2, <3>1, RouterAssumption
  <2>3. CASE d # c
    BY <2>1, <2>3 DEF Bounded, Replies
  <2> QED  BY <2>2, <2>3
<1>4. CASE PeerStep
  <2>1. PICK c \in Clients : Arrives(c) \/ TakeAnswer(c) \/ Disconnect(c)
    BY <1>4 DEF PeerStep
  <2>2. CASE Arrives(c)
    BY <1>2, <2>2 DEF Arrives
  <2> SUFFICES ASSUME NEW d \in Clients, ~Arrives(c) PROVE Len(outbox'[d]) <= PeerHWM
    BY <2>2 DEF Bounded
  <2>3. CASE d # c
    BY <2>1, <2>3 DEF Bounded, TakeAnswer, Disconnect, Replies
  <2>4. CASE d = c /\ TakeAnswer(c)
    <3>1. outbox[c] # <<>> /\ outbox'[d] = Tail(outbox[c])
      BY <2>4 DEF TakeAnswer, Replies
    <3>2. Len(Tail(outbox[c])) = Len(outbox[c]) - 1
      BY <1>1, <3>1, HeadTailProperties
    <3>3. Len(outbox[c]) <= PeerHWM
      BY DEF Bounded
    <3> QED  BY <1>1, <3>1, <3>2, <3>3, RouterAssumption
  <2>5. CASE d = c /\ Disconnect(c)
    <3>1. outbox'[d] = <<>>
      BY <2>5 DEF Disconnect, Replies
    <3> QED  BY <3>1, RouterAssumption
  <2> QED  BY <2>1, <2>3, <2>4, <2>5
<1>5. \/ UNCHANGED outbox \/ PeerStep \/ \E r \in Request : SendMessage(r)
  <2>1. CASE DispatchRouter \/ ListenerDone
    BY <2>1 DEF DispatchRouter, Hear, ListenerDone, peervars
  <2>2. CASE \E r \in Request : PopIdentity(r) \/ PopString(r) \/ CloseMsg(r) \/ Forget(r)
    BY <2>2 DEF PopIdentity, PopString, CloseMsg, Forget, peervars
  <2> QED  BY <2>1, <2>2, OtherMessages
<1> QED  BY <1>2, <1>3, <1>4, <1>5

(* Every variable of the server's loop keeps its type. *)
THEOREM ServerTypes == SSpec => []STypeOK
<1>1. SInit => Places /\ Bounded
  <2> SUFFICES ASSUME SInit PROVE Places /\ Bounded
    OBVIOUS
  <2>1. Places
    BY DEF SInit, Places, Phases, Lists
  <2>2. \A c \in Clients : outbox[c] = <<>>
    BY DEF SInit
  <2>3. Len(<<>>) <= PeerHWM
    BY RouterAssumption
  <2> QED  BY <2>1, <2>2, <2>3 DEF Bounded
<1>2. Places /\ Bounded /\ SIInv /\ [SNext]_svars => (Places /\ Bounded)'
  BY PlacesStep, BoundedStep DEF SIInv
<1>3. SSpec => [](Places /\ Bounded)
  BY <1>1, <1>2, ServerInductive, PTL DEF SSpec
<1>4. SSpec => []TypeOK
  BY ServerIsQueue, TypeCorrect, PTL
<1>5. TypeOK /\ Places /\ Bounded /\ SIInv => STypeOK
  <2> SUFFICES ASSUME TypeOK, Places, Bounded, SIInv
               PROVE  STypeOK
    OBVIOUS
  <2>1. ready \in Seq({"pong", "router"}) /\ Len(ready) <= 2
    <3> DEFINE S == {"pong", "router"}
    <3>1. "pong" \in S /\ "router" \in S
      OBVIOUS
    <3> HIDE DEF S
    <3>2. /\ <<>> \in Seq(S) /\ <<"pong">> \in Seq(S) /\ <<"router">> \in Seq(S)
          /\ <<"pong", "router">> \in Seq(S)
      BY <3>1
    <3>3. /\ Len(<<>>) <= 2 /\ Len(<<"pong">>) <= 2 /\ Len(<<"router">>) <= 2
          /\ Len(<<"pong", "router">>) <= 2
      OBVIOUS
    <3> QED  BY <3>2, <3>3, Zenon DEF Places, Lists, S
  <2>2. frames \in Seq(Frames)
    <3>1. "body" \in Frames /\ "identity" \in Frames
      BY DEF Frames
    <3>2. /\ <<>> \in Seq(Frames) /\ <<"body">> \in Seq(Frames)
          /\ <<"identity", "body">> \in Seq(Frames)
      BY <3>1
    <3> QED  BY <3>2, Zenon DEF SIInv, Hands
  <2>3. \A c \in Clients : outbox[c] \in Seq(Request) /\ Len(outbox[c]) <= PeerHWM
    BY DEF SIInv, Replies, Bounded
  <2> QED  BY <2>1, <2>2, <2>3 DEF STypeOK, Places, Phases, SIInv, Waiting, Hands
<1> QED  BY <1>3, <1>4, <1>5, ServerInductive, PTL
=============================================================================
