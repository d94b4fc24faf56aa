------------------------- MODULE PriorityQueueProofs -------------------------
(***************************************************************************)
(* Proofs about PriorityQueue, for any set of scheduled blocks with        *)
(* integer times: the binary search finds the place that keeps the list    *)
(* sorted, and the sorted list implements the schedule that the loops rely *)
(* on.                                                                     *)
(***************************************************************************)
EXTENDS PriorityQueue, SequenceTheorems, TLAPS

(* No element is in the list twice, and the one being added is not in it. *)
Distinct == /\ \A i, j \in DOMAIN list : list[i] = list[j] => i = j
            /\ adding # <<>> => adding[1] \notin Elements(list)

(* Between two calls of add the search is at rest. *)
AtRest == adding = <<>> => low = 0 /\ high = -1

PInv == PTypeOK /\ AtRest /\ Distinct /\ Sorted /\ Bracketed

-----------------------------------------------------------------------------
(* Facts about insertion *)

(* What an insertion returns: one element more, at its place, between those *)
(* that were before and behind it. *)
LEMMA InsertedShape ==
    ASSUME NEW s \in Seq(Scheduled), NEW idx \in 0..Len(s), NEW e \in Scheduled
    PROVE  /\ Inserted(s, idx, e) \in Seq(Scheduled)
           /\ Len(Inserted(s, idx, e)) = Len(s) + 1
           /\ DOMAIN Inserted(s, idx, e) = 1..(Len(s) + 1)
           /\ Inserted(s, idx, e)[idx + 1] = e
           /\ \A k \in 1..idx : Inserted(s, idx, e)[k] = s[k]
           /\ \A k \in (idx + 2)..(Len(s) + 1) : Inserted(s, idx, e)[k] = s[k - 1]
<1> DEFINE t == Inserted(s, idx, e)
<1>0. Len(s) \in Nat /\ DOMAIN s = 1..Len(s) /\ \A k \in 1..Len(s) : s[k] \in Scheduled
  OBVIOUS
<1>1. t = [k \in 1..(Len(s) + 1) |-> IF k <= idx THEN s[k]
                                     ELSE IF k = idx + 1 THEN e ELSE s[k - 1]]
  BY DEF Inserted
<1>2. \A k \in 1..(Len(s) + 1) : t[k] \in Scheduled
  BY <1>0, <1>1
<1>3. t \in [1..(Len(s) + 1) -> Scheduled]
  BY <1>1, <1>2
<1>4. t \in Seq(Scheduled) /\ Len(t) = Len(s) + 1
  BY <1>0, <1>3
<1>5. t[idx + 1] = e
  BY <1>0, <1>1
<1>6. \A k \in 1..idx : t[k] = s[k]
  BY <1>0, <1>1
<1>7. \A k \in (idx + 2)..(Len(s) + 1) : t[k] = s[k - 1]
  BY <1>0, <1>1
<1> QED
  BY <1>1, <1>4, <1>5, <1>6, <1>7

(* An insertion adds its element to the others. *)
LEMMA InsertedElements ==
    ASSUME NEW s \in Seq(Scheduled), NEW idx \in 0..Len(s), NEW e \in Scheduled
    PROVE  Elements(Inserted(s, idx, e)) = Elements(s) \cup {e}
<1> DEFINE t == Inserted(s, idx, e)
<1>0. Len(s) \in Nat /\ DOMAIN s = 1..Len(s)
  OBVIOUS
<1>1. /\ DOMAIN t = 1..(Len(s) + 1)
      /\ t[idx + 1] = e
      /\ \A k \in 1..idx : t[k] = s[k]
      /\ \A k \in (idx + 2)..(Len(s) + 1) : t[k] = s[k - 1]
  BY InsertedShape
<1> HIDE DEF t
<1>2. ASSUME NEW k \in 1..(Len(s) + 1)
      PROVE  t[k] \in Elements(s) \cup {e}
  <2>1. CASE k <= idx
    <3>1. t[k] = s[k] /\ k \in 1..Len(s)
      BY <1>0, <1>1, <2>1
    <3> QED
      BY <1>0, <3>1 DEF Elements
  <2>2. CASE k = idx + 1
    BY <1>1, <2>2
  <2>3. CASE k > idx + 1
    <3>1. t[k] = s[k - 1] /\ k - 1 \in 1..Len(s)
      BY <1>0, <1>1, <2>3
    <3> QED
      BY <1>0, <3>1 DEF Elements
  <2> QED
    BY <1>0, <2>1, <2>2, <2>3
<1>3. ASSUME NEW k \in 1..Len(s)
      PROVE  s[k] \in Elements(t)
  <2>1. CASE k <= idx
    <3>1. t[k] = s[k] /\ k \in 1..(Len(s) + 1)
      BY <1>0, <1>1, <2>1
    <3> QED
      BY <1>1, <3>1 DEF Elements
  <2>2. CASE k > idx
    <3>1. k + 1 \in (idx + 2)..(Len(s) + 1) /\ (k + 1) - 1 = k /\ k + 1 \in 1..(Len(s) + 1)
      BY <1>0, <2>2
    <3>2. t[k + 1] = s[k]
      BY <1>1, <3>1
    <3> QED
      BY <1>1, <3>1, <3>2 DEF Elements
  <2> QED
    BY <1>0, <2>1, <2>2
<1>4. e \in Elements(t)
  <2>1. idx + 1 \in 1..(Len(s) + 1)
    BY <1>0
  <2> QED
    BY <1>1, <2>1 DEF Elements
<1>5. Elements(t) \subseteq Elements(s) \cup {e}
  BY <1>1, <1>2 DEF Elements
<1>6. Elements(s) \subseteq Elements(t)
  BY <1>0, <1>3 DEF Elements
<1> QED
  BY <1>4, <1>5, <1>6 DEF t

(* Where an insertion between smaller and larger keeps a list sorted. *)
LEMMA InsertedSorted ==
    ASSUME NEW s \in Seq(Scheduled), NEW idx \in 0..Len(s), NEW e \in Scheduled,
           \A i, j \in DOMAIN s : i < j => s[i].time <= s[j].time,
           \A k \in DOMAIN s : k <= idx => s[k].time <= e.time,
           \A k \in DOMAIN s : k > idx => s[k].time >= e.time
    PROVE  LET t == Inserted(s, idx, e)
           IN  \A i, j \in DOMAIN t : i < j => t[i].time <= t[j].time
<1> DEFINE t == Inserted(s, idx, e)
<1>0. Len(s) \in Nat /\ DOMAIN s = 1..Len(s)
  OBVIOUS
<1>1. /\ DOMAIN t = 1..(Len(s) + 1)
      /\ t[idx + 1] = e
      /\ \A k \in 1..idx : t[k] = s[k]
      /\ \A k \in (idx + 2)..(Len(s) + 1) : t[k] = s[k - 1]
  BY InsertedShape
<1>2. \A k \in DOMAIN s : s[k].time \in Int
  BY <1>0, ScheduledAssumption
<1>3. e.time \in Int
  BY ScheduledAssumption
<1> HIDE DEF t
<1>4. ASSUME NEW i \in DOMAIN t, NEW j \in DOMAIN t, i < j
      PROVE  t[i].time <= t[j].time
  <2>1. CASE j <= idx
    <3>1. i \in 1..idx /\ j \in 1..idx /\ i \in DOMAIN s /\ j \in DOMAIN s
      BY <1>0, <1>1, <1>4, <2>1
    <3>2. t[i] = s[i] /\ t[j] = s[j]
      BY <1>1, <3>1
    <3> QED
      BY <1>4, <3>1, <3>2
  <2>2. CASE j = idx + 1
    <3>1. i \in 1..idx /\ i \in DOMAIN s /\ i <= idx
      BY <1>0, <1>1, <1>4, <2>2
    <3>2. t[i] = s[i] /\ t[j] = e
      BY <1>1, <2>2, <3>1
    <3> QED
      BY <3>1, <3>2
  <2>3. CASE j > idx + 1
    <3>1. j \in (idx + 2)..(Len(s) + 1) /\ j - 1 \in DOMAIN s /\ j - 1 > idx
      BY <1>0, <1>1, <2>3
    <3>2. t[j] = s[j - 1]
      BY <1>1, <3>1
    <3>3. CASE i <= idx
      <4>1. i \in 1..idx /\ i \in DOMAIN s /\ i < j - 1
        BY <1>0, <1>1, <3>3, <3>1
      <4>2. t[i] = s[i]
        BY <1>1, <4>1
      <4> QED
        BY <3>1, <3>2, <4>1, <4>2
    <3>4. CASE i = idx + 1
      BY <1>1, <3>1, <3>2, <3>4
    <3>5. CASE i > idx + 1
      <4>1. i \in (idx + 2)..(Len(s) + 1) /\ i - 1 \in DOMAIN s /\ i - 1 < j - 1
        BY <1>0, <1>1, <1>4, <3>5
      <4>2. t[i] = s[i - 1]
        BY <1>1, <4>1
      <4> QED
        BY <3>1, <3>2, <4>1, <4>2
    <3> QED
      BY <1>0, <1>1, <3>3, <3>4, <3>5
  <2> QED
    BY <1>0, <1>1, <2>1, <2>2, <2>3
<1> QED
  BY <1>4 DEF t

-----------------------------------------------------------------------------
(* The inductive invariant *)

LEMMA InitPInv == PInit => PInv
<1> SUFFICES ASSUME PInit
             PROVE  PInv
  OBVIOUS
<1>1. list = <<>> /\ adding = <<>> /\ low = 0 /\ high = -1
  BY DEF PInit
<1>2. Len(list) = 0 /\ DOMAIN list = {}
  BY <1>1
<1>3. PTypeOK
  BY <1>1, <1>2 DEF PTypeOK
<1>4. AtRest /\ Distinct /\ Sorted /\ Bracketed
  BY <1>1, <1>2 DEF AtRest, Distinct, Sorted, Bracketed
<1> QED
  BY <1>3, <1>4 DEF PInv

(* The element in hand and its facts. *)
LEMMA InHand ==
    ASSUME PTypeOK, adding # <<>>
    PROVE  /\ adding[1] \in Scheduled
           /\ adding[1].time \in Int
BY ScheduledAssumption DEF PTypeOK

(* An insertion at a place with nothing later before it and nothing earlier *)
(* behind it keeps the invariant. *)
LEMMA PlacePInv ==
    ASSUME PInv, adding # <<>>, NEW idx \in 0..Len(list), Place(idx),
           \A k \in DOMAIN list : k <= idx => list[k].time <= adding[1].time,
           \A k \in DOMAIN list : k > idx => list[k].time >= adding[1].time
    PROVE  PInv'
<1> DEFINE e == adding[1]
           t == Inserted(list, idx, e)
<1>0. list \in Seq(Scheduled) /\ e \in Scheduled /\ Len(list) \in Nat /\ DOMAIN list = 1..Len(list)
  BY InHand DEF PInv, PTypeOK
<1>1. list' = t /\ adding' = <<>> /\ low' = 0 /\ high' = -1
  BY DEF Place
<1>3. \A i, j \in DOMAIN t : i < j => t[i].time <= t[j].time
  BY <1>0, InsertedSorted DEF PInv, Sorted
<1>4. \A k \in DOMAIN list : list[k] # e
  BY DEF PInv, Distinct, Elements
<1>5. \A i, j \in DOMAIN list : list[i] = list[j] => i = j
  BY DEF PInv, Distinct
<1> HIDE DEF t, e
<1>2. /\ t \in Seq(Scheduled)
      /\ Len(t) = Len(list) + 1
      /\ DOMAIN t = 1..(Len(list) + 1)
      /\ t[idx + 1] = e
      /\ \A k \in 1..idx : t[k] = list[k]
      /\ \A k \in (idx + 2)..(Len(list) + 1) : t[k] = list[k - 1]
  BY ONLY <1>0, InsertedShape DEF t
<1>6. PTypeOK'
  BY <1>0, <1>1, <1>2 DEF PTypeOK
<1>7. ASSUME NEW i \in DOMAIN t, NEW j \in DOMAIN t, t[i] = t[j]
      PROVE  i = j
  <2>1. ASSUME NEW k \in DOMAIN t
        PROVE  \/ k = idx + 1 /\ t[k] = e
               \/ k <= idx /\ k \in DOMAIN list /\ t[k] = list[k]
               \/ k > idx + 1 /\ k - 1 \in DOMAIN list /\ t[k] = list[k - 1]
    <3>1. CASE k <= idx
      BY <1>0, <1>2, <3>1
    <3>2. CASE k = idx + 1
      BY <1>2, <3>2
    <3>3. CASE k > idx + 1
      BY <1>0, <1>2, <3>3
    <3> QED
      BY <1>2, <3>1, <3>2, <3>3
  <2>2. i \in Int /\ j \in Int
    BY <1>0, <1>2
  <2> QED
    BY <1>4, <1>5, <1>7, <2>1, <2>2
<1>8. Distinct'
  BY <1>1, <1>7 DEF Distinct
<1>9. AtRest' /\ Sorted' /\ Bracketed'
  BY <1>1, <1>3 DEF AtRest, Sorted, Bracketed
<1> QED
  BY <1>6, <1>8, <1>9 DEF PInv

(* Where the middle of the search is. *)
LEMMA Middle ==
    ASSUME PInv, adding # <<>>, low <= high
    PROVE  LET mid == (low + high) \div 2
           IN  /\ mid \in low..high
               /\ mid \in 0..(Len(list) - 1)
               /\ mid + 1 \in DOMAIN list
               /\ list[mid + 1].time \in Int
<1>1. low \in Nat /\ high \in Nat /\ Len(list) \in Nat /\ high <= Len(list) - 1
      /\ DOMAIN list = 1..Len(list)
  BY DEF PInv, PTypeOK
<1>2. (low + high) \div 2 \in low..high
  BY <1>1
<1>3. (low + high) \div 2 + 1 \in DOMAIN list
  BY <1>1, <1>2
<1>4. \A k \in DOMAIN list : list[k].time \in Int
  BY ScheduledAssumption DEF PInv, PTypeOK
<1> QED
  BY <1>1, <1>2, <1>3, <1>4

LEMMA ProbePInv ==
    ASSUME PInv, Probe
    PROVE  PInv'
<1> DEFINE mid == (low + high) \div 2
           t == list[mid + 1].time
           u == adding[1].time
<1>0. adding # <<>> /\ low <= high
  BY DEF Probe
<1>1. /\ mid \in low..high /\ mid \in 0..(Len(list) - 1)
      /\ mid + 1 \in DOMAIN list /\ t \in Int
  BY <1>0, Middle
<1>2. u \in Int /\ adding[1] \in Scheduled
  BY <1>0, InHand DEF PInv
<1>3. /\ low \in Nat /\ high \in Int /\ Len(list) \in Nat
      /\ high <= Len(list) - 1 /\ low <= Len(list)
      /\ DOMAIN list = 1..Len(list)
      /\ \A k \in DOMAIN list : list[k].time \in Int
  BY ScheduledAssumption DEF PInv, PTypeOK
<1>4. \A i, j \in DOMAIN list : i < j => list[i].time <= list[j].time
  BY DEF PInv, Sorted
<1>5. \A k \in DOMAIN list : /\ k <= low => list[k].time < u
                             /\ k > high + 1 => list[k].time > u
  BY <1>0 DEF PInv, Bracketed
<1>6. \/ t < u /\ low' = mid + 1 /\ UNCHANGED <<list, adding, high>>
      \/ t > u /\ high' = mid - 1 /\ UNCHANGED <<list, adding, low>>
      \/ t = u /\ Place(mid)
  BY DEF Probe
<1> HIDE DEF mid
<1>7. CASE t < u /\ low' = mid + 1 /\ UNCHANGED <<list, adding, high>>
  <2>1. PTypeOK'
    BY <1>1, <1>3, <1>7 DEF PInv, PTypeOK
  <2>2. AtRest' /\ Distinct' /\ Sorted'
    BY <1>0, <1>7 DEF PInv, AtRest, Distinct, Sorted
  <2>3. \A k \in DOMAIN list : k <= mid + 1 => list[k].time < u
    <3> SUFFICES ASSUME NEW k \in DOMAIN list, k <= mid + 1
                 PROVE  list[k].time < u
      OBVIOUS
    <3>1. list[k].time <= t
      BY <1>1, <1>3, <1>4
    <3> QED
      BY <1>1, <1>2, <1>3, <1>7, <3>1
  <2>4. Bracketed'
    BY <1>1, <1>3, <1>5, <1>7, <2>3 DEF Bracketed
  <2> QED
    BY <2>1, <2>2, <2>4 DEF PInv
<1>8. CASE t > u /\ high' = mid - 1 /\ UNCHANGED <<list, adding, low>>
  <2>1. PTypeOK'
    BY <1>1, <1>3, <1>8 DEF PInv, PTypeOK
  <2>2. AtRest' /\ Distinct' /\ Sorted'
    BY <1>0, <1>8 DEF PInv, AtRest, Distinct, Sorted
  <2>3. \A k \in DOMAIN list : k > mid => list[k].time > u
    <3> SUFFICES ASSUME NEW k \in DOMAIN list, k > mid
                 PROVE  list[k].time > u
      OBVIOUS
    <3>1. list[k].time >= t
      <4>1. k = mid + 1 \/ mid + 1 < k
        BY <1>1, <1>3
      <4> QED
        BY <1>1, <1>3, <1>4, <4>1
    <3> QED
      BY <1>1, <1>2, <1>3, <1>8, <3>1
  <2>4. Bracketed'
    BY <1>1, <1>3, <1>5, <1>8, <2>3 DEF Bracketed
  <2> QED
    BY <2>1, <2>2, <2>4 DEF PInv
<1>9. CASE t = u /\ Place(mid)
  <2>1. \A k \in DOMAIN list : k <= mid => list[k].time <= u
    BY <1>1, <1>3, <1>4, <1>9
  <2>2. \A k \in DOMAIN list : k > mid => list[k].time >= u
    <3> SUFFICES ASSUME NEW k \in DOMAIN list, k > mid
                 PROVE  list[k].time >= u
      OBVIOUS
    <3>1. k = mid + 1 \/ mid + 1 < k
      BY <1>1, <1>3
    <3> QED
      BY <1>1, <1>2, <1>3, <1>4, <1>9, <3>1
  <2>3. mid \in 0..Len(list)
    BY <1>1, <1>3
  <2> QED
    BY <1>0, <1>9, <2>1, <2>2, <2>3, PlacePInv
<1> QED
  BY <1>6, <1>7, <1>8, <1>9

LEMMA NotFoundPInv ==
    ASSUME PInv, NotFound
    PROVE  PInv'
<1>1. adding # <<>> /\ low > high /\ Place(low)
  BY DEF NotFound
<1>2. low \in 0..Len(list) /\ high \in Int /\ low <= high + 1
  BY <1>1 DEF PInv, PTypeOK, Bracketed
<1>3. low = high + 1
  BY <1>1, <1>2
<1>4. \A k \in DOMAIN list : list[k].time \in Int
  BY ScheduledAssumption DEF PInv, PTypeOK
<1>5. adding[1].time \in Int
  BY <1>1, InHand DEF PInv
<1>6. \A k \in DOMAIN list : /\ k <= low => list[k].time < adding[1].time
                             /\ k > low => list[k].time > adding[1].time
  BY <1>1, <1>3 DEF PInv, Bracketed
<1>7. \A k \in DOMAIN list : /\ k <= low => list[k].time <= adding[1].time
                             /\ k > low => list[k].time >= adding[1].time
  BY <1>4, <1>5, <1>6
<1> QED
  BY <1>1, <1>2, <1>7, PlacePInv

LEMMA AddPInv ==
    ASSUME PInv, NEW e \in Scheduled, Add(e)
    PROVE  PInv'
<1>1. /\ adding' = <<e>> /\ low' = 0 /\ high' = Len(list) - 1 /\ list' = list
      /\ e \notin Elements(list)
  BY DEF Add
<1>2. Len(list) \in Nat /\ DOMAIN list = 1..Len(list)
  BY DEF PInv, PTypeOK
<1>3. PTypeOK'
  BY <1>1, <1>2 DEF PInv, PTypeOK
<1>4. AtRest' /\ Distinct' /\ Sorted'
  BY <1>1 DEF PInv, AtRest, Distinct, Sorted
<1>5. Bracketed'
  BY <1>1, <1>2 DEF Bracketed
<1> QED
  BY <1>3, <1>4, <1>5 DEF PInv

(* What poll leaves: the list without its head. *)
LEMMA PollShape ==
    ASSUME PTypeOK, Poll
    PROVE  /\ list' \in Seq(Scheduled)
           /\ Len(list) \in Nat \ {0}
           /\ Len(list') = Len(list) - 1
           /\ DOMAIN list = 1..Len(list)
           /\ DOMAIN list' = 1..(Len(list) - 1)
           /\ \A k \in 1..(Len(list) - 1) : list'[k] = list[k + 1]
<1>1. list \in Seq(Scheduled) /\ list # <<>> /\ list' = Tail(list)
  BY DEF PTypeOK, Poll
<1> QED
  BY ONLY <1>1, HeadTailProperties

LEMMA PollPInv ==
    ASSUME PInv, Poll
    PROVE  PInv'
<1>0. adding = <<>> /\ UNCHANGED <<adding, low, high>>
  BY DEF Poll
<1>1. /\ list' \in Seq(Scheduled)
      /\ Len(list) \in Nat \ {0}
      /\ Len(list') = Len(list) - 1
      /\ DOMAIN list = 1..Len(list)
      /\ DOMAIN list' = 1..(Len(list) - 1)
      /\ \A k \in 1..(Len(list) - 1) : list'[k] = list[k + 1]
  BY PollShape DEF PInv
<1>2. \A k \in DOMAIN list' : k + 1 \in DOMAIN list /\ list'[k] = list[k + 1]
  BY <1>1
<1>3. Sorted'
  <2> SUFFICES ASSUME NEW i \in DOMAIN list', NEW j \in DOMAIN list', i < j
               PROVE  list'[i].time <= list'[j].time
    BY DEF Sorted
  <2>1. i + 1 \in DOMAIN list /\ j + 1 \in DOMAIN list /\ i + 1 < j + 1
    BY <1>1
  <2>2. list[i + 1].time <= list[j + 1].time
    BY <2>1 DEF PInv, Sorted
  <2> QED
    BY <1>2, <2>2
<1>4. Distinct'
  <2>1. ASSUME NEW i \in DOMAIN list', NEW j \in DOMAIN list', list'[i] = list'[j]
        PROVE  i = j
    <3>1. i + 1 \in DOMAIN list /\ j + 1 \in DOMAIN list /\ list[i + 1] = list[j + 1]
      BY <1>2, <2>1
    <3>2. i + 1 = j + 1
      BY <3>1 DEF PInv, Distinct
    <3> QED
      BY <1>1, <3>2
  <2> QED
    BY <1>0, <2>1 DEF Distinct
<1>5. AtRest' /\ Bracketed'
  BY <1>0 DEF PInv, AtRest, Bracketed
<1>6. PTypeOK'
  <2>1. low = 0 /\ high = -1
    BY <1>0 DEF PInv, AtRest
  <2> QED
    BY <1>0, <1>1, <2>1 DEF PInv, PTypeOK
<1> QED
  BY <1>3, <1>4, <1>5, <1>6 DEF PInv

LEMMA StepPInv == PInv /\ [PNext]_pvars => PInv'
<1> SUFFICES ASSUME PInv, [PNext]_pvars
             PROVE  PInv'
  OBVIOUS
<1>1. CASE Probe
  BY <1>1, ProbePInv
<1>2. CASE NotFound
  BY <1>2, NotFoundPInv
<1>3. CASE Poll
  BY <1>3, PollPInv
<1>4. CASE \E e \in Scheduled : Add(e)
  BY <1>4, AddPInv
<1>5. CASE UNCHANGED pvars
  BY <1>5 DEF pvars, PInv, PTypeOK, AtRest, Distinct, Sorted, Bracketed
<1> QED
  BY <1>1, <1>2, <1>3, <1>4, <1>5 DEF PNext

LEMMA AlwaysPInv == PSpec => []PInv
BY InitPInv, StepPInv, PTL DEF PSpec

-----------------------------------------------------------------------------
(* The theorems *)

(* The list and the bounds of the search keep their types: the index that   *)
(* the search reads is always one of the list's.  PriorityQueue.add.        *)
THEOREM QueueTypes == PSpec => []PTypeOK
BY AlwaysPInv, PTL DEF PInv

(* naiveList is sorted after every add and poll, whatever the times. *)
THEOREM ListSorted == PSpec => []Sorted
BY AlwaysPInv, PTL DEF PInv

(* The binary search closes in on the place of the new element. *)
THEOREM SearchBrackets == PSpec => []Bracketed
BY AlwaysPInv, PTL DEF PInv

(* Every insertion adds its element, for the schedule. *)
LEMMA PlaceAdds ==
    ASSUME PInv, adding # <<>>, NEW idx \in 0..Len(list), Place(idx)
    PROVE  \E e \in Scheduled : Promised!Add(e)
<1> DEFINE e == adding[1]
<1>1. list \in Seq(Scheduled) /\ e \in Scheduled
  BY InHand DEF PInv, PTypeOK
<1>2. list' = Inserted(list, idx, e)
  BY DEF Place
<1>3. Elements(Inserted(list, idx, e)) = Elements(list) \cup {e}
  BY <1>1, InsertedElements
<1>4. Elements(list') = Elements(list) \cup {e}
  BY <1>2, <1>3
<1>5. e \notin Elements(list)
  BY DEF PInv, Distinct
<1>6. Elements(list)' = Elements(list')
  BY DEF Elements
<1> QED
  BY <1>1, <1>4, <1>5, <1>6 DEF Promised!Add

(* The head of a sorted list is an earliest element, and the only one that  *)
(* leaves. *)
LEMMA PollTakesEarliest ==
    ASSUME PInv, Poll
    PROVE  Promised!Poll
<1>1. /\ list' \in Seq(Scheduled)
      /\ Len(list) \in Nat \ {0}
      /\ DOMAIN list = 1..Len(list)
      /\ DOMAIN list' = 1..(Len(list) - 1)
      /\ \A k \in 1..(Len(list) - 1) : list'[k] = list[k + 1]
  BY PollShape DEF PInv
<1>2. 1 \in DOMAIN list
  BY <1>1
<1>3. list[1] \in Elements(list)
  BY <1>2 DEF Elements
<1>4. \A f \in Elements(list) : list[1].time <= f.time
  <2> SUFFICES ASSUME NEW k \in DOMAIN list
               PROVE  list[1].time <= list[k].time
    BY DEF Elements
  <2>1. list[1].time \in Int
    BY <1>2, ScheduledAssumption DEF PInv, PTypeOK
  <2>2. k = 1 \/ 1 < k
    BY <1>1
  <2> QED
    BY <1>2, <2>1, <2>2 DEF PInv, Sorted
<1>5. Elements(list') = Elements(list) \ {list[1]}
  <2>1. ASSUME NEW k \in DOMAIN list'
        PROVE  list'[k] \in Elements(list) \ {list[1]}
    <3>1. k + 1 \in DOMAIN list /\ list'[k] = list[k + 1] /\ k + 1 # 1
      BY <1>1
    <3>2. list[k + 1] # list[1]
      BY <1>2, <3>1 DEF PInv, Distinct
    <3> QED
      BY <3>1, <3>2 DEF Elements
  <2>2. ASSUME NEW k \in DOMAIN list, list[k] # list[1]
        PROVE  list[k] \in Elements(list')
    <3>1. k # 1
      BY <2>2
    <3>2. k - 1 \in DOMAIN list' /\ list'[k - 1] = list[(k - 1) + 1] /\ (k - 1) + 1 = k
      BY <1>1, <3>1
    <3>3. list'[k - 1] = list[k]
      BY <3>2
    <3>4. list'[k - 1] \in Elements(list')
      BY <3>2 DEF Elements
    <3> QED
      BY <3>3, <3>4
  <2>3. Elements(list') \subseteq Elements(list) \ {list[1]}
    BY <2>1 DEF Elements
  <2>4. Elements(list) \ {list[1]} \subseteq Elements(list')
    BY <2>2 DEF Elements
  <2> QED
    BY <2>3, <2>4
<1>6. Elements(list)' = Elements(list')
  BY DEF Elements
<1> QED
  BY <1>3, <1>4, <1>5, <1>6 DEF Promised!Poll

LEMMA StepPromised == PInv /\ [PNext]_pvars => [Promised!Next]_(Elements(list))
<1> SUFFICES ASSUME PInv, [PNext]_pvars
             PROVE  [Promised!Next]_(Elements(list))
  OBVIOUS
<1>1. CASE Probe
  <2>1. adding # <<>> /\ low <= high
    BY <1>1 DEF Probe
  <2>2. (low + high) \div 2 \in 0..Len(list)
    <3>1. (low + high) \div 2 \in 0..(Len(list) - 1) /\ Len(list) \in Nat
      BY <2>1, Middle DEF PInv, PTypeOK
    <3> QED
      BY <3>1
  <2>3. list' = list \/ Place((low + high) \div 2)
    BY <1>1 DEF Probe
  <2>4. CASE list' = list
    BY <2>4 DEF Elements
  <2>5. CASE Place((low + high) \div 2)
    BY <2>1, <2>2, <2>5, PlaceAdds DEF Promised!Next
  <2> QED
    BY <2>3, <2>4, <2>5
<1>2. CASE NotFound
  <2>1. adding # <<>> /\ Place(low) /\ low \in 0..Len(list)
    BY <1>2 DEF NotFound, PInv, PTypeOK
  <2> QED
    BY <2>1, PlaceAdds DEF Promised!Next
<1>3. CASE Poll
  BY <1>3, PollTakesEarliest DEF Promised!Next
<1>4. CASE \E e \in Scheduled : Add(e)
  BY <1>4 DEF Add, Elements
<1>5. CASE UNCHANGED pvars
  BY <1>5 DEF pvars, Elements
<1> QED
  BY <1>1, <1>2, <1>3, <1>4, <1>5 DEF PNext

(* The native PriorityQueue hands out every scheduled block once, an        *)
(* earliest one first: what the loops that use it rely on.                  *)
THEOREM QueueIsSchedule == PSpec => ImplementsSchedule
<1>1. PInit => Promised!Init
  <2> SUFFICES ASSUME PInit
               PROVE  Elements(list) = {}
    BY DEF Promised!Init
  <2>1. list = <<>> /\ DOMAIN list = {}
    BY DEF PInit
  <2> QED
    BY <2>1 DEF Elements
<1> QED
  BY <1>1, AlwaysPInv, StepPromised, PTL DEF PSpec, ImplementsSchedule, Promised!Spec
=============================================================================
