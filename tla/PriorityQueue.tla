--------------------------- MODULE PriorityQueue ---------------------------
(***************************************************************************)
(* The native PriorityQueue of scheduled blocks: a list that add keeps     *)
(* sorted by a binary search, one step per round of the search's loop, and *)
(* peek and poll at its head.  The queue belongs to the loop's thread, so  *)
(* its calls do not overlap.                                               *)
(***************************************************************************)
EXTENDS Integers, Sequences

CONSTANTS Scheduled       \* the scheduled blocks: records with a time and a block

ASSUME ScheduledAssumption == \A e \in Scheduled : e.time \in Int

VARIABLES list,     \* naiveList
          adding,   \* the element that add is placing: a sequence of one, or empty
          low, high \* the bounds of the search, counted from 0

pvars == <<list, adding, low, high>>

Elements(s) == {s[i] : i \in DOMAIN s}

PTypeOK == /\ list \in Seq(Scheduled)
           /\ adding = <<>> \/ \E e \in Scheduled : adding = <<e>>
           /\ low \in 0..Len(list)
           /\ high \in -1..(Len(list) - 1)

(* naiveList.add(idx, element), with idx counted from 0. *)
Inserted(s, idx, e) ==
    [k \in 1..(Len(s) + 1) |-> IF k <= idx THEN s[k]
                               ELSE IF k = idx + 1 THEN e ELSE s[k - 1]]

PInit == list = <<>> /\ adding = <<>> /\ low = 0 /\ high = -1

(* Fault: the search starts one past the end of the list. *)
Add_PastEnd(e) == /\ adding = <<>>
                  /\ e \notin Elements(list)
                  /\ adding' = <<e>>
                  /\ low' = 0
                  /\ high' = Len(list)
                  /\ UNCHANGED list

(* add begins: the search starts with the whole list. *)
Add(e) == /\ adding = <<>>
          /\ e \notin Elements(list)
          /\ adding' = <<e>>
          /\ low' = 0
          /\ high' = Len(list) - 1
          /\ UNCHANGED list

(* The element goes in at idx and add returns. *)
Place(idx) == /\ list' = Inserted(list, idx, adding[1])
              /\ adding' = <<>>
              /\ low' = 0
              /\ high' = -1

(* Fault: compareTo with its arguments swapped. *)
Probe_Swapped ==
    /\ adding # <<>> /\ low <= high
    /\ LET mid == (low + high) \div 2
           t == list[mid + 1].time
           u == adding[1].time IN
       \/ t > u /\ low' = mid + 1 /\ UNCHANGED <<list, adding, high>>
       \/ t < u /\ high' = mid - 1 /\ UNCHANGED <<list, adding, low>>
       \/ t = u /\ Place(mid)

(* A round of the search: one half is left, or an element with the same     *)
(* time is found and the new one goes in before it.                         *)
Probe ==
    /\ adding # <<>> /\ low <= high
    /\ LET mid == (low + high) \div 2
           t == list[mid + 1].time
           u == adding[1].time IN
       \/ t < u /\ low' = mid + 1 /\ UNCHANGED <<list, adding, high>>
       \/ t > u /\ high' = mid - 1 /\ UNCHANGED <<list, adding, low>>
       \/ t = u /\ Place(mid)

(* Fault: the search's result without the correction of its sign. *)
NotFound_OffByOne == /\ adding # <<>> /\ low > high
                     /\ Place(IF low = 0 THEN 0 ELSE low - 1)

(* The search found no equal time: binarySearch returns -(low + 1), from    *)
(* which add computes low.                                                  *)
NotFound == /\ adding # <<>> /\ low > high
            /\ Place(low)

(* Fault: removeLast for removeFirst. *)
Poll_Last == /\ adding = <<>> /\ list # <<>>
             /\ list' = SubSeq(list, 1, Len(list) - 1)
             /\ UNCHANGED <<adding, low, high>>

(* poll, which the loops call after isNotEmpty and a look at peek. *)
Poll == /\ adding = <<>>
        /\ list # <<>>
        /\ list' = Tail(list)
        /\ UNCHANGED <<adding, low, high>>

PNext == Probe \/ NotFound \/ Poll \/ \E e \in Scheduled : Add(e)

PSpec == PInit /\ [][PNext]_pvars

-----------------------------------------------------------------------------
(* Properties *)

(* naiveList is sorted by time, after any sequence of add and poll. *)
Sorted == \A i, j \in DOMAIN list : i < j => list[i].time <= list[j].time

(* The search has its place between low and high: all that is left of it    *)
(* falls due earlier than the new element, all that is right of it later.   *)
Bracketed ==
    adding # <<>> =>
        /\ low <= high + 1
        /\ \A k \in DOMAIN list : /\ k <= low => list[k].time < adding[1].time
                                  /\ k > high + 1 => list[k].time > adding[1].time

(* The sorted list is the schedule that the loops rely on: every element    *)
(* added is handed out once, an earliest one first.                         *)
Promised == INSTANCE Schedule WITH pending <- Elements(list)
ImplementsSchedule == Promised!Spec
=============================================================================
