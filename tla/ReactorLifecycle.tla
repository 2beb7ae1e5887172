-------------------------- MODULE ReactorLifecycle --------------------------
(***************************************************************************)
(* start, stop and clear of infra::Reactor, and the two threads they       *)
(* create and join: the demultiplexer's, which leaves its loop only when   *)
(* epoll_wait times out and finds m_monitoring_ended set, and the event-   *)
(* processing thread, which leaves on the notification marked last_event.  *)
(*                                                                         *)
(* One thread, the owner, calls start, stop and clear, one at a time: two  *)
(* starts at once assign to a joinable std::thread, and two stops join one *)
(* twice.  What a dispatch does in detail is Reactor's matter; here it is  *)
(* two steps, and a handle either has a subscription or not.               *)
(***************************************************************************)
EXTENDS Naturals, Sequences

CONSTANTS
    Handles,         \* the subscribed descriptors
    Last,            \* the notification with last_event set
    Nobody,          \* not a handle: nothing is being dispatched
    MaxEpollEvents,  \* MAX_EPOLL_EVENTS: edges one epoll_wait can report
    MaxQueued,       \* bound: edges that wait anywhere at a time
    MaxCalls         \* bound: calls of start, stop and clear

ASSUME HandleAssumption == Last \notin Handles /\ Nobody \notin Handles
ASSUME SizeAssumption ==
    MaxEpollEvents \in Nat \ {0} /\ MaxQueued \in Nat /\ MaxCalls \in Nat

VARIABLES
    running,          \* m_reactor_running
    monitoringEnded,  \* the demultiplexer's m_monitoring_ended
    subscribed,       \* the handles in m_subscribers_table
    monitor,          \* m_demux_wait_thread: not joinable, in its loop, or returned
    worker,           \* m_event_processing_thread, likewise
    owner,            \* where the owner is in start, stop or clear
    ready,            \* the kernel's ready list: edges not reported yet, oldest first
    reported,         \* events_list: reported by epoll_wait, not pushed yet
    queue,            \* m_event_queue
    serving,          \* the handle whose events are being dispatched
    calls,            \* spent so far of MaxCalls
    owed              \* history: notifications ahead of the last event

threads == <<monitor, worker>>
events == <<ready, reported, queue, serving>>
flags == <<running, monitoringEnded, subscribed>>
vars == <<flags, threads, owner, events, calls, owed>>

OwnerSteps == {"idle", "spawnWorker", "spawnMonitor", "markRunning",
               "checkRunning", "pushLast", "joinMonitor", "joinWorker", "markStopped"}
ThreadStates == {"none", "looping", "returned"}

-----------------------------------------------------------------------------
(* start *)

\* m_cleanup_ts is left out: it only times cleanups.
Start ==
    /\ owner = "idle"
    /\ calls < MaxCalls
    /\ calls' = calls + 1
    /\ ~running
    /\ owner' = "spawnWorker"
    /\ UNCHANGED <<flags, threads, events, owed>>

\* A thread is created unless the member still holds one.
Spawned(thread) == IF thread = "none" THEN "looping" ELSE thread

SpawnWorker ==
    /\ owner = "spawnWorker"
    /\ worker' = Spawned(worker)
    /\ owner' = "spawnMonitor"
    /\ UNCHANGED <<flags, monitor, events, calls, owed>>

SpawnMonitor ==
    /\ owner = "spawnMonitor"
    /\ monitor' = Spawned(monitor)
    /\ owner' = "markRunning"
    /\ UNCHANGED <<flags, worker, events, calls, owed>>

MarkRunning ==
    /\ owner = "markRunning"
    /\ running' = TRUE
    /\ owner' = "idle"
    /\ UNCHANGED <<monitoringEnded, subscribed, threads, events, calls, owed>>

-----------------------------------------------------------------------------
(* stop *)

EndsNothing(flag) == flag             \* mutant: stopMonitoring is not called
Ends(flag) == TRUE

\* stopMonitoring comes before m_reactor_running is looked at, and no code sets
\* m_monitoring_ended back.
Stop ==
    /\ owner = "idle"
    /\ calls < MaxCalls
    /\ calls' = calls + 1
    /\ monitoringEnded' = Ends(monitoringEnded)
    /\ owner' = "checkRunning"
    /\ UNCHANGED <<running, subscribed, threads, events, owed>>

CheckRunning ==
    /\ owner = "checkRunning"
    /\ owner' = IF running THEN "pushLast" ELSE "idle"
    /\ UNCHANGED <<flags, threads, events, calls, owed>>

JumpsTheQueue(q) == <<Last>> \o q     \* mutant: the last event overtakes
WithLast(q) == Append(q, Last)

PushLast ==
    /\ owner = "pushLast"
    /\ queue' = WithLast(queue)
    /\ owed' = Len(queue) + (IF serving = Nobody THEN 0 ELSE 1)
    /\ owner' = "joinMonitor"
    /\ UNCHANGED <<flags, threads, ready, reported, serving, calls>>

JoinMonitor ==
    /\ owner = "joinMonitor"
    /\ monitor # "looping"
    /\ monitor' = "none"
    /\ owner' = "joinWorker"
    /\ UNCHANGED <<flags, worker, events, calls, owed>>

Detached(thread) == TRUE              \* mutant: the thread is detached, not joined
Joinable(thread) == thread # "looping"

JoinWorker ==
    /\ owner = "joinWorker"
    /\ Joinable(worker)
    /\ worker' = "none"
    /\ owner' = "markStopped"
    /\ UNCHANGED <<flags, monitor, events, calls, owed>>

MarkStopped ==
    /\ owner = "markStopped"
    /\ running' = FALSE
    /\ owner' = "idle"
    /\ UNCHANGED <<monitoringEnded, subscribed, threads, events, calls, owed>>

\* clear: refused while the reactor runs.  It empties the subscribers' table
\* only: the handlers stay, and so does the interest of epoll.
Clear ==
    /\ owner = "idle"
    /\ calls < MaxCalls
    /\ calls' = calls + 1
    /\ ~running
    /\ subscribed' = {}
    /\ UNCHANGED <<running, monitoringEnded, threads, owner, events, owed>>

-----------------------------------------------------------------------------
(* The kernel and monitorWaitThread *)

In(s) == {s[i] : i \in DOMAIN s}

\* A descriptor becomes ready: it joins the kernel's ready list at its end, and a
\* second edge before the report is the same one.
Edge(h) ==
    /\ Len(ready) + Len(reported) + Len(queue) < MaxQueued
    /\ h \notin In(ready)
    /\ ready' = Append(ready, h)
    /\ UNCHANGED <<flags, threads, owner, reported, queue, serving, calls, owed>>

\* How many events one epoll_wait reports.
Room == IF Len(ready) < MaxEpollEvents THEN Len(ready) ELSE MaxEpollEvents

AllForgotten == <<>>                  \* mutant: edges beyond the batch are lost
NotReported == SubSeq(ready, Room + 1, Len(ready))

EpollWait ==
    /\ monitor = "looping"
    /\ reported = <<>>
    /\ ready # <<>>
    /\ reported' = SubSeq(ready, 1, Room)
    /\ ready' = NotReported
    /\ UNCHANGED <<flags, threads, owner, queue, serving, calls, owed>>

\* epoll_wait times out: the only place where the thread looks whether to leave.
TimeOut ==
    /\ monitor = "looping"
    /\ reported = <<>>
    /\ ready = <<>>
    /\ monitoringEnded
    /\ monitor' = "returned"
    /\ UNCHANGED <<flags, worker, owner, events, calls, owed>>

Push ==
    /\ monitor = "looping"
    /\ reported # <<>>
    /\ reported' = Tail(reported)
    /\ queue' = Append(queue, Head(reported))
    /\ UNCHANGED <<flags, threads, owner, ready, serving, calls, owed>>

-----------------------------------------------------------------------------
(* eventProcessingThread *)

Popping == worker = "looping" /\ serving = Nobody /\ queue # <<>>

LeaveOnLast ==
    /\ Popping
    /\ Head(queue) = Last
    /\ queue' = Tail(queue)
    /\ worker' = "returned"
    /\ UNCHANGED <<flags, monitor, owner, ready, reported, serving, calls, owed>>

\* One notification done; those that stop has to wait for become fewer.
Paid(n) == IF n = 0 THEN 0 ELSE n - 1

Dispatch ==
    /\ Popping
    /\ Head(queue) \in subscribed
    /\ queue' = Tail(queue)
    /\ serving' = Head(queue)
    /\ UNCHANGED <<flags, threads, owner, ready, reported, calls, owed>>

Discard ==
    /\ Popping
    /\ Head(queue) \in Handles \ subscribed
    /\ queue' = Tail(queue)
    /\ owed' = Paid(owed)
    /\ UNCHANGED <<flags, threads, owner, ready, reported, serving, calls>>

Complete ==
    /\ worker = "looping"
    /\ serving # Nobody
    /\ serving' = Nobody
    /\ owed' = Paid(owed)
    /\ UNCHANGED <<flags, threads, owner, ready, reported, queue, calls>>

-----------------------------------------------------------------------------
(* Specification: the handles are subscribed before the reactor starts *)

Init ==
    /\ running = FALSE
    /\ monitoringEnded = FALSE
    /\ subscribed = Handles
    /\ monitor = "none"
    /\ worker = "none"
    /\ owner = "idle"
    /\ ready = <<>>
    /\ reported = <<>>
    /\ queue = <<>>
    /\ serving = Nobody
    /\ calls = 0
    /\ owed = 0

OwnerStep ==
    \/ SpawnWorker \/ SpawnMonitor \/ MarkRunning
    \/ CheckRunning \/ PushLast \/ JoinMonitor \/ JoinWorker \/ MarkStopped

MonitorStep == EpollWait \/ Push \/ TimeOut

WorkerStep == LeaveOnLast \/ Dispatch \/ Discard \/ Complete

Next ==
    \/ Start \/ Stop \/ Clear \/ OwnerStep
    \/ \E h \in Handles : Edge(h)
    \/ MonitorStep
    \/ WorkerStep

Spec == Init /\ [][Next]_vars

\* The threads run as long as the process does, every handler returns, and stop
\* goes on once it is called.  Nobody has to call it, and no descriptor has to
\* become ready.
Fairness == WF_vars(OwnerStep) /\ WF_vars(MonitorStep) /\ WF_vars(WorkerStep)

FairSpec == Spec /\ Fairness

-----------------------------------------------------------------------------
(* Properties *)

\* The type of the state.
TypeOK ==
    /\ running \in BOOLEAN
    /\ monitoringEnded \in BOOLEAN
    /\ subscribed \subseteq Handles
    /\ monitor \in ThreadStates
    /\ worker \in ThreadStates
    /\ owner \in OwnerSteps
    /\ ready \in Seq(Handles)
    /\ reported \in Seq(Handles)
    /\ queue \in Seq(Handles \cup {Last})
    /\ serving \in Handles \cup {Nobody}
    /\ calls \in 0..MaxCalls
    /\ owed \in Nat

\* stop drains: when it returns, every notification that was in the queue, or
\* being dispatched, when it was called has been dispatched to its end.
DrainedByStop == owner = "markStopped" => owed = 0

\* After stop has returned and until the next start no handler runs, although
\* notifications pushed behind the last one stay in the queue: neither thread
\* outlives stop, and the table is not cleared under a dispatch.
SilentWhenStopped ==
    ~running /\ owner = "idle" => monitor = "none" /\ worker = "none" /\ serving = Nobody

\* At most one last event is under way, and only while stop waits for it: a
\* reactor started again never meets the last event of an earlier stop, which
\* would end its event thread at once.
LastEventConsumed ==
    /\ \A i, j \in DOMAIN queue : queue[i] = Last /\ queue[j] = Last => i = j
    /\ owner \notin {"joinMonitor", "joinWorker"} => \A i \in DOMAIN queue : queue[i] # Last

\* stop returns if the descriptors become quiet for good: the demultiplexer's
\* thread looks at m_monitoring_ended at an idle timeout only, so a descriptor
\* that never stays idle for one timeout holds stop up for ever.
StopReturns == <>[](ready = <<>>) => (owner = "checkRunning" ~> owner = "idle")

\* In a reactor that was never stopped every edge on a subscribed handle is
\* dispatched, also when more handles are ready than one epoll_wait reports.
EdgesDispatched ==
    \A h \in Handles :
        h \in In(ready) \cap subscribed /\ running /\ ~monitoringEnded ~> serving = h \/ monitoringEnded

=============================================================================
