----------------------------- MODULE EventTypes -----------------------------
(***************************************************************************)
(* The events of a notification: how epoll's mask becomes the array that   *)
(* the event-processing thread walks, and in which order it walks it.      *)
(*                                                                         *)
(* An event is its number in EHandleEvent.  std::stable_sort is modelled   *)
(* as what libstdc++ does with six elements and a buffer: it sorts both    *)
(* halves by insertion and merges them.  The comparator that it is given   *)
(* holds both ways for some pairs, so that the result depends on the       *)
(* algorithm and no specification of a sort gives it.                      *)
(***************************************************************************)
EXTENDS Naturals, Sequences, SequencesExt

NoEvent == 0      \* E_HANDLE_EVENT_NULL
In == 1
PrioIn == 2
Out == 3
Err == 4
Hup == 5
Shutdown == 6

Event == In..Shutdown
MAX_EVENTS_NO == 6

\* monitorWaitThread drops the hang-up of a descriptor that has input left.
Passed(mask) == IF In \in mask THEN mask \ {Hup} ELSE mask

\* getEventsFromMask: each event at its own place, NoEvent at the others.
getEventsFromMask(mask) == [i \in 1..MAX_EVENTS_NO |-> IF i \in mask THEN i ELSE NoEvent]

\* The comparator of sortByPriority.
Ascending(l, r) == l < r              \* mutant: the default order
Before(l, r) ==
    \/ r = Shutdown
    \/ r = Err /\ l # Shutdown
    \/ r = PrioIn /\ l \notin {Err, Shutdown}
    \/ r \notin {PrioIn, Shutdown} /\ r < l

\* Where insertion sort puts e in a sorted prefix: at the front, or behind the
\* last element that it does not come before.
Place(prefix, e) ==
    LET stays == {i \in DOMAIN prefix : ~Before(e, prefix[i])}
    IN  IF stays = {} \/ Before(e, prefix[1]) THEN 1 ELSE 1 + Max(stays)

Inserted(prefix, e) == InsertAt(prefix, Place(prefix, e), e)
InsertionSort(half) == FoldLeft(Inserted, <<>>, half)

\* The merge takes from the right only what comes before the head of the left.
Merged(left, right) ==
    LET merged[i \in 1..Len(left) + 1, j \in 1..Len(right) + 1] ==
            IF i > Len(left) THEN SubSeq(right, j, Len(right))
            ELSE IF j <= Len(right) /\ Before(right[j], left[i])
                 THEN <<right[j]>> \o merged[i, j + 1]
                 ELSE <<left[i]>> \o merged[i + 1, j]
    IN  merged[1, 1]

Half == MAX_EVENTS_NO \div 2
sortByPriority(events) ==
    Merged(InsertionSort(SubSeq(events, 1, Half)),
           InsertionSort(SubSeq(events, Half + 1, MAX_EVENTS_NO)))

\* The loop over the sorted events skips the empty places.
Delivered(mask) ==
    SelectSeq(sortByPriority(getEventsFromMask(Passed(mask))), LAMBDA e : e # NoEvent)

\* The recursive definition adds no event and drops none.  The two have no parameter, so
\* that TLC decides them.
DeliveredFromMask == \A mask \in SUBSET Event : Delivered(mask) \in Seq(mask)
DeliveredWhole == \A mask \in SUBSET Event : Passed(mask) \subseteq Range(Delivered(mask))

=============================================================================
