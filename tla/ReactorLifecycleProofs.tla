------------------------ MODULE ReactorLifecycleProofs ------------------------
(***************************************************************************)
(* Proofs about ReactorLifecycle: its safety invariants hold for any       *)
(* handles, any size of a batch and any bounds.                            *)
(*                                                                         *)
(* None of the three is inductive.  What makes them so is where each       *)
(* thread can be at every step of the owner (ThreadsByStep), that the      *)
(* event thread serves nothing unless it is in its loop (ServesInLoop),    *)
(* and that while stop waits, exactly one last event is in the queue with  *)
(* the owed notifications ahead of it, or it was consumed and nothing is   *)
(* owed (OneLastAhead).                                                    *)
(***************************************************************************)
EXTENDS ReactorLifecycle, TLAPS

Joining == {"joinMonitor", "joinWorker"}

ThreadsByStep ==
    /\ owner \in {"idle", "checkRunning"} /\ running =>
          worker = "looping" /\ monitor \in {"looping", "returned"}
    /\ owner \in {"idle", "checkRunning"} /\ ~running => worker = "none" /\ monitor = "none"
    /\ owner = "spawnWorker" => ~running /\ worker = "none" /\ monitor = "none"
    /\ owner = "spawnMonitor" => ~running /\ worker = "looping" /\ monitor = "none"
    /\ owner = "markRunning" =>
          ~running /\ worker = "looping" /\ monitor \in {"looping", "returned"}
    /\ owner = "pushLast" => running /\ worker = "looping" /\ monitor \in {"looping", "returned"}
    /\ owner = "joinMonitor" => running /\ worker # "none" /\ monitor \in {"looping", "returned"}
    /\ owner = "joinWorker" => running /\ worker # "none" /\ monitor = "none"
    /\ owner = "markStopped" => running /\ worker = "none" /\ monitor = "none"

ServesInLoop == worker # "looping" => serving = Nobody

NoLast == \A i \in 1..Len(queue) : queue[i] # Last

\* The last event is at place k and nowhere else, and k - 1 notifications are
\* ahead of it, besides the one that is being dispatched.
LastAt(k) ==
    /\ queue[k] = Last
    /\ \A i \in 1..Len(queue) : queue[i] = Last => i = k
    /\ owed = (k - 1) + (IF serving = Nobody THEN 0 ELSE 1)

OneLastAhead ==
    /\ owner \notin Joining => NoLast /\ owed = 0
    /\ owner \in Joining /\ worker = "looping" => \E k \in 1..Len(queue) : LastAt(k)
    /\ owner \in Joining /\ worker # "looping" => NoLast /\ owed = 0

LInv == TypeOK /\ ThreadsByStep /\ ServesInLoop /\ OneLastAhead

LEMMA InitLInv == Init => LInv
  <1> USE HandleAssumption, SizeAssumption
  <1>1. Init => TypeOK
    <2>1. <<>> \in Seq(Handles) /\ <<>> \in Seq(Handles \cup {Last})
      OBVIOUS
    <2>2. 0 \in 0..MaxCalls
      OBVIOUS
    <2>3. Init => /\ running \in BOOLEAN /\ monitoringEnded \in BOOLEAN
                  /\ subscribed \subseteq Handles /\ serving \in Handles \cup {Nobody}
                  /\ monitor \in ThreadStates /\ worker \in ThreadStates /\ owner \in OwnerSteps
      BY DEF Init, ThreadStates, OwnerSteps
    <2>4. Init => /\ ready \in Seq(Handles) /\ reported \in Seq(Handles)
                  /\ queue \in Seq(Handles \cup {Last})
      BY <2>1 DEF Init
    <2>5. Init => calls \in 0..MaxCalls /\ owed \in Nat
      BY <2>2 DEF Init
    <2> QED
      BY <2>3, <2>4, <2>5 DEF TypeOK
  <1>2. Init => ThreadsByStep /\ ServesInLoop
    BY DEF Init, ThreadsByStep, ServesInLoop
  <1>3. Init => OneLastAhead
    BY DEF Init, OneLastAhead, NoLast, Joining
  <1> QED
    BY <1>1, <1>2, <1>3 DEF LInv

\* start, and clear: the queue and what is served stay as they are.
LEMMA StartLInv ==
    ASSUME LInv, Start \/ SpawnWorker \/ SpawnMonitor \/ MarkRunning \/ Clear
    PROVE  LInv'
  <1> USE HandleAssumption, SizeAssumption
  <1>1. TypeOK'
    <2>1. CASE Start
      BY <2>1 DEF LInv, TypeOK, Start, flags, threads, events, OwnerSteps
    <2>2. CASE SpawnWorker \/ SpawnMonitor
      BY <2>2 DEF LInv, TypeOK, SpawnWorker, SpawnMonitor, Spawned, flags, events,
          ThreadStates, OwnerSteps
    <2>3. CASE MarkRunning
      BY <2>3 DEF LInv, TypeOK, MarkRunning, threads, events, OwnerSteps
    <2>4. CASE Clear
      BY <2>4 DEF LInv, TypeOK, Clear, threads, events
    <2> QED
      BY <2>1, <2>2, <2>3, <2>4
  <1>2. ThreadsByStep'
    BY DEF LInv, TypeOK, ThreadsByStep, Start, SpawnWorker, SpawnMonitor, MarkRunning, Clear,
        Spawned, flags, threads, events
  <1>3. ServesInLoop'
    BY DEF LInv, ThreadsByStep, ServesInLoop, Start, SpawnWorker, SpawnMonitor, MarkRunning,
        Clear, Spawned, flags, threads, events
  <1>4. OneLastAhead'
    BY DEF LInv, OneLastAhead, NoLast, Joining, Start, SpawnWorker, SpawnMonitor, MarkRunning,
        Clear, flags, threads, events
  <1> QED
    BY <1>1, <1>2, <1>3, <1>4 DEF LInv

\* stop, up to the push of the last event and after the joins.
LEMMA StopLInv ==
    ASSUME LInv, Stop \/ CheckRunning \/ JoinMonitor \/ JoinWorker \/ MarkStopped
    PROVE  LInv'
  <1> USE HandleAssumption, SizeAssumption
  <1>1. TypeOK'
    <2>1. CASE Stop
      BY <2>1 DEF LInv, TypeOK, Stop, Ends, threads, events, OwnerSteps
    <2>2. CASE CheckRunning
      BY <2>2 DEF LInv, TypeOK, CheckRunning, flags, threads, events, OwnerSteps
    <2>3. CASE JoinMonitor \/ JoinWorker
      BY <2>3 DEF LInv, TypeOK, JoinMonitor, JoinWorker, flags, events, ThreadStates, OwnerSteps
    <2>4. CASE MarkStopped
      BY <2>4 DEF LInv, TypeOK, MarkStopped, threads, events, OwnerSteps
    <2> QED
      BY <2>1, <2>2, <2>3, <2>4
  <1>2. ThreadsByStep'
    BY DEF LInv, TypeOK, ThreadsByStep, Stop, CheckRunning, JoinMonitor, JoinWorker,
        MarkStopped, Joinable, flags, threads, events
  <1>3. ServesInLoop'
    BY DEF LInv, ServesInLoop, Stop, CheckRunning, JoinMonitor, JoinWorker, MarkStopped,
        Joinable, flags, threads, events
  <1>4. OneLastAhead'
    <2>1. CASE Stop \/ CheckRunning \/ MarkStopped
      BY <2>1 DEF LInv, OneLastAhead, NoLast, Joining, Stop, CheckRunning, MarkStopped,
          flags, threads, events
    <2>2. CASE JoinMonitor
      BY <2>2 DEF LInv, OneLastAhead, NoLast, LastAt, Joining, JoinMonitor, flags, events
    <2>3. CASE JoinWorker
      BY <2>3 DEF LInv, OneLastAhead, NoLast, Joining, JoinWorker, Joinable, flags, events
    <2> QED
      BY <2>1, <2>2, <2>3
  <1> QED
    BY <1>1, <1>2, <1>3, <1>4 DEF LInv

\* The last event joins a queue that has none: it is alone, behind all others.
LEMMA PushLastLInv ==
    ASSUME LInv, PushLast
    PROVE  LInv'
  <1> USE HandleAssumption, SizeAssumption
  <1>1. queue \in Seq(Handles \cup {Last}) /\ Len(queue) \in Nat
    BY DEF LInv, TypeOK
  <1>2. queue' = Append(queue, Last)
    BY DEF PushLast, WithLast
  <1>3. Len(queue') = Len(queue) + 1 /\ queue'[Len(queue) + 1] = Last
    BY <1>1, <1>2
  <1>4. \A i \in 1..Len(queue) : queue'[i] = queue[i]
    BY <1>1, <1>2
  <1>5. NoLast
    BY DEF LInv, OneLastAhead, PushLast, Joining
  <1>6. ASSUME NEW k, k = Len(queue) + 1
        PROVE  LastAt(k)'
    <2>1. \A i \in 1..Len(queue') : queue'[i] = Last => i = k
      BY <1>1, <1>3, <1>4, <1>5, <1>6 DEF NoLast
    <2>2. owed' = (k - 1) + (IF serving' = Nobody THEN 0 ELSE 1)
      BY <1>1, <1>6 DEF PushLast
    <2> QED
      BY <1>3, <1>6, <2>1, <2>2 DEF LastAt
  <1>7. TypeOK'
    BY <1>1, <1>2 DEF LInv, TypeOK, PushLast, flags, threads, OwnerSteps
  <1>8. ThreadsByStep' /\ ServesInLoop'
    BY DEF LInv, ThreadsByStep, ServesInLoop, PushLast, flags, threads
  <1>9. OneLastAhead'
    <2>1. owner' \in Joining /\ worker' = "looping"
      BY DEF LInv, ThreadsByStep, Joining, PushLast, threads
    <2>2. \E k \in 1..Len(queue') : k = Len(queue) + 1
      BY <1>1, <1>3
    <2>3. \E k \in 1..Len(queue') : LastAt(k)'
      BY <2>2, <1>6
    <2> QED
      BY <2>1, <2>3 DEF OneLastAhead
  <1> QED
    BY <1>7, <1>8, <1>9 DEF LInv

\* The kernel's edges and the monitor's report: neither the queue nor the event
\* thread takes part.
LEMMA ReportLInv ==
    ASSUME LInv, (\E h \in Handles : Edge(h)) \/ EpollWait \/ TimeOut
    PROVE  LInv'
  <1> USE HandleAssumption, SizeAssumption
  <1>1. TypeOK'
    <2>1. CASE \E h \in Handles : Edge(h)
      BY <2>1 DEF LInv, TypeOK, Edge, flags, threads
    <2>2. CASE EpollWait
      <3>1. ready \in Seq(Handles) /\ Len(ready) \in Nat /\ Room \in 0..Len(ready)
        BY DEF LInv, TypeOK, Room
      <3>2. SubSeq(ready, 1, Room) \in Seq(Handles)
        BY <3>1
      <3>3. NotReported \in Seq(Handles)
        BY <3>1 DEF NotReported
      <3> QED
        BY <2>2, <3>2, <3>3 DEF LInv, TypeOK, EpollWait, flags, threads
    <2>3. CASE TimeOut
      BY <2>3 DEF LInv, TypeOK, TimeOut, flags, events, ThreadStates
    <2> QED
      BY <2>1, <2>2, <2>3
  <1>2. ThreadsByStep' /\ ServesInLoop'
    BY DEF LInv, ThreadsByStep, ServesInLoop, Edge, EpollWait, TimeOut, flags, threads, events
  <1>3. OneLastAhead'
    BY DEF LInv, OneLastAhead, NoLast, LastAt, Joining, Edge, EpollWait, TimeOut, threads, events
  <1> QED
    BY <1>1, <1>2, <1>3 DEF LInv

\* A notification is pushed behind whatever the queue holds, the last event too.
LEMMA PushLInv ==
    ASSUME LInv, Push
    PROVE  LInv'
  <1> USE HandleAssumption, SizeAssumption
  <1>1. /\ queue \in Seq(Handles \cup {Last}) /\ Len(queue) \in Nat
        /\ reported \in Seq(Handles) /\ reported # <<>>
    BY DEF LInv, TypeOK, Push
  <1>2. Head(reported) \in Handles /\ Tail(reported) \in Seq(Handles)
    BY <1>1
  <1>3. queue' = Append(queue, Head(reported))
    BY DEF Push
  <1>4. Len(queue') = Len(queue) + 1 /\ queue'[Len(queue) + 1] # Last
    BY <1>1, <1>2, <1>3
  <1>5. \A i \in 1..Len(queue) : queue'[i] = queue[i]
    BY <1>1, <1>3
  <1>6. TypeOK'
    BY <1>1, <1>2, <1>3 DEF LInv, TypeOK, Push, flags, threads
  <1>7. ThreadsByStep' /\ ServesInLoop'
    BY DEF LInv, ThreadsByStep, ServesInLoop, Push, flags, threads
  <1>8. NoLast => NoLast'
    BY <1>1, <1>4, <1>5 DEF NoLast
  <1>9. ASSUME NEW k \in 1..Len(queue), LastAt(k)
        PROVE  k \in 1..Len(queue') /\ LastAt(k)'
    BY <1>1, <1>4, <1>5, <1>9 DEF LastAt, Push
  <1>10. OneLastAhead'
    BY <1>8, <1>9 DEF LInv, OneLastAhead, Joining, Push, threads
  <1> QED
    BY <1>6, <1>7, <1>10 DEF LInv

\* The event thread takes the head of the queue: what is behind moves up by one.
LEMMA HeadGone ==
    ASSUME LInv, Popping, queue' = Tail(queue)
    PROVE  /\ Len(queue) \in Nat \ {0} /\ Len(queue') = Len(queue) - 1
           /\ queue' \in Seq(Handles \cup {Last})
           /\ Head(queue) = queue[1]
           /\ \A i \in 1..Len(queue') : queue'[i] = queue[i + 1]
  <1>1. queue \in Seq(Handles \cup {Last}) /\ queue # <<>>
    BY DEF LInv, TypeOK, Popping
  <1> QED
    BY <1>1

LEMMA WorkerLInv ==
    ASSUME LInv, WorkerStep
    PROVE  LInv'
  <1> USE HandleAssumption, SizeAssumption
  <1>1. CASE LeaveOnLast
    <2>1. queue' = Tail(queue) /\ Popping /\ Head(queue) = Last
      BY <1>1 DEF LeaveOnLast
    <2>2. TypeOK'
      BY <1>1, <2>1, HeadGone DEF LInv, TypeOK, LeaveOnLast, flags, ThreadStates
    <2>3. owner \in Joining
      BY <2>1, HeadGone DEF LInv, OneLastAhead, NoLast
    <2>4. PICK k \in 1..Len(queue) : LastAt(k)
      BY <2>1, <2>3 DEF LInv, OneLastAhead, Popping
    <2>5. k = 1
      BY <2>1, <2>4, HeadGone DEF LastAt
    <2>6. owed = 0 /\ NoLast'
      BY <2>1, <2>4, <2>5, HeadGone DEF LastAt, NoLast, Popping
    <2>7. ThreadsByStep' /\ ServesInLoop'
      BY <1>1, <2>1, <2>3 DEF LInv, ThreadsByStep, ServesInLoop, Joining, LeaveOnLast, Popping, flags
    <2>8. OneLastAhead'
      BY <1>1, <2>3, <2>6 DEF OneLastAhead, Joining, LeaveOnLast
    <2> QED
      BY <2>2, <2>7, <2>8 DEF LInv
  <1>2. CASE Dispatch \/ Discard
    <2>1. queue' = Tail(queue) /\ Popping /\ Head(queue) \in Handles
      BY <1>2 DEF Dispatch, Discard, LInv, TypeOK
    <2>2. TypeOK'
      BY <1>2, <2>1, HeadGone DEF LInv, TypeOK, Dispatch, Discard, Paid, flags, threads
    <2>3. ThreadsByStep' /\ ServesInLoop'
      BY <1>2, <2>1 DEF LInv, ThreadsByStep, ServesInLoop, Dispatch, Discard, Popping, flags, threads
    <2>4. NoLast => NoLast'
      BY <2>1, HeadGone DEF NoLast
    <2>5. ASSUME NEW k \in 1..Len(queue), LastAt(k)
          PROVE  k - 1 \in 1..Len(queue') /\ LastAt(k - 1)'
      <3>1. k # 1 /\ k - 1 \in 1..Len(queue')
        BY <2>1, <2>5, HeadGone DEF LastAt
      <3>2. queue'[k - 1] = Last
        BY <2>1, <2>5, <3>1, HeadGone DEF LastAt
      <3>3. \A i \in 1..Len(queue') : queue'[i] = Last => i = k - 1
        BY <2>1, <2>5, HeadGone DEF LastAt
      <3>4. owed' = (k - 2) + (IF serving' = Nobody THEN 0 ELSE 1)
        BY <1>2, <2>1, <2>5, <3>1 DEF LastAt, Dispatch, Discard, Popping, Paid, LInv, TypeOK
      <3> QED
        BY <3>1, <3>2, <3>3, <3>4 DEF LastAt
    <2>6. owed = 0 => owed' = 0
      BY <1>2 DEF Dispatch, Discard, Paid
    <2>7. OneLastAhead'
      BY <1>2, <2>4, <2>5, <2>6 DEF LInv, OneLastAhead, Dispatch, Discard, threads
    <2> QED
      BY <2>2, <2>3, <2>7 DEF LInv
  <1>3. CASE Complete
    <2>1. TypeOK'
      BY <1>3 DEF LInv, TypeOK, Complete, Paid, flags, threads
    <2>2. ThreadsByStep' /\ ServesInLoop'
      BY <1>3 DEF LInv, ThreadsByStep, ServesInLoop, Complete, flags, threads
    <2>3. ASSUME NEW k \in 1..Len(queue), LastAt(k)
          PROVE  LastAt(k)'
      BY <1>3, <2>3 DEF LInv, TypeOK, LastAt, Complete, Paid
    <2>4. OneLastAhead'
      BY <1>3, <2>3 DEF LInv, OneLastAhead, NoLast, Complete, Paid, threads
    <2> QED
      BY <2>1, <2>2, <2>4 DEF LInv
  <1> QED
    BY <1>1, <1>2, <1>3 DEF WorkerStep

LEMMA NextLInv == LInv /\ [Next]_vars => LInv'
  <1> SUFFICES ASSUME LInv, [Next]_vars PROVE LInv'
    OBVIOUS
  <1>1. CASE UNCHANGED vars
    BY <1>1 DEF vars, flags, threads, events, LInv, TypeOK, ThreadsByStep, ServesInLoop,
        OneLastAhead, NoLast, LastAt
  <1>2. CASE Next
    BY <1>2, StartLInv, StopLInv, PushLastLInv, ReportLInv, PushLInv, WorkerLInv
    DEF Next, OwnerStep, MonitorStep
  <1> QED
    BY <1>1, <1>2

\* The inductive invariant holds in every reachable state.
THEOREM LifecycleInvariant == Spec => []LInv
  BY InitLInv, NextLInv, PTL DEF Spec

\* Whatever the handles, the size of a batch and the bounds, the flags, the
\* threads' states and the queue keep their types.
THEOREM LifecycleTypeCorrect == Spec => []TypeOK
  <1>1. LInv => TypeOK
    BY DEF LInv
  <1> QED
    BY <1>1, LifecycleInvariant, PTL

\* When stop is about to return, everything that was queued or being dispatched
\* when it pushed its last event has been dispatched.
THEOREM StopDrains == Spec => []DrainedByStop
  <1>1. LInv => DrainedByStop
    BY DEF LInv, OneLastAhead, Joining, DrainedByStop
  <1> QED
    BY <1>1, LifecycleInvariant, PTL

\* Once stop has returned neither thread is alive and no handler runs, until the
\* next start.
THEOREM StopSilences == Spec => []SilentWhenStopped
  <1>1. LInv => SilentWhenStopped
    BY DEF LInv, ThreadsByStep, ServesInLoop, SilentWhenStopped
  <1> QED
    BY <1>1, LifecycleInvariant, PTL

\* At most one last event is ever queued, and none outlives its stop.
THEOREM LastEventIsConsumed == Spec => []LastEventConsumed
  <1>1. LInv => LastEventConsumed
    BY DEF LInv, TypeOK, OneLastAhead, NoLast, LastAt, Joining, LastEventConsumed
  <1> QED
    BY <1>1, LifecycleInvariant, PTL

=============================================================================
