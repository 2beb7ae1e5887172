------------------------------- MODULE Reactor -------------------------------
(***************************************************************************)
(* The registration and dispatch core of infra::Reactor, with its epoll    *)
(* demultiplexer, its two lookup tables and its notification queue.        *)
(*                                                                         *)
(* Three kinds of threads meet here.  Application threads call subscribe   *)
(* and unsubscribe.  The demultiplexer's thread turns what epoll_wait      *)
(* reports into notifications.  The event-processing thread pops them and  *)
(* runs the handlers, which may call subscribe and unsubscribe themselves. *)
(*                                                                         *)
(* One step per lock section: every operation of the subscribers' table    *)
(* takes that table's own mutex, every operation of the handlers' table    *)
(* takes Reactor::m_mutex, so each is atomic by itself and nothing makes   *)
(* two of them atomic together.  The one section that lasts is the scan of *)
(* cleanupExpired, which holds the subscribers' table (tableLock) while it *)
(* takes m_mutex once per entry.                                           *)
(*                                                                         *)
(* A subscriber id is the hash of its handle, and libstdc++ hashes an      *)
(* integer to itself: getKeyFor(h) is h whether or not the handle-to-id    *)
(* map holds h, so ids are handles here and that map is left out.  Event   *)
(* masks are abstracted to the number of events that a notification holds. *)
(***************************************************************************)
EXTENDS Naturals, Sequences

CONSTANTS
    Handles,      \* the file descriptors that clients subscribe
    NullHandle,   \* the descriptor 0, whose id is NULL_SUBSCRIBER_ID
    Apps,         \* the application threads
    EventThread,  \* the event-processing thread
    Free,         \* not a thread: nobody holds the subscribers' table
    Absent,       \* not a context: the table has no entry
    Disciplined,  \* TRUE: never two calls about one handle at a time
    MaxCalls,     \* bound: calls of subscribe and unsubscribe
    MaxWaits,     \* bound: times that epoll_wait reports something
    MaxEvents     \* bound: events in one notification's mask

Callers == Apps \cup {EventThread}
Ids == Handles \cup {NullHandle}
Context == [registered : BOOLEAN, expired : BOOLEAN]

ASSUME ThreadAssumption == EventThread \notin Apps /\ Free \notin Callers
ASSUME AbsentAssumption == Absent \notin Context
ASSUME BoundAssumption == MaxCalls \in Nat /\ MaxWaits \in Nat /\ MaxEvents \in Nat \ {0}

VARIABLES
    subscribers,  \* m_subscribers_table: id -> context, or Absent
    handlers,     \* m_handlers_table: id -> in_progress or not, or no entry
    tableLock,    \* who holds the subscribers' table through a scan
    removedKeys,  \* remove_if's removed_keys: static, one for all threads
    monitored,    \* the kernel's interest list of m_epoll_fd
    batch,        \* events_list: reported by epoll_wait, not pushed yet
    queue,        \* m_event_queue
    call,         \* caller -> the call it executes, with its locals
    loop,         \* the locals of eventProcessingThread
    calls, waits, \* spent so far of MaxCalls and MaxWaits
    held,         \* history: handles subscribed and not unsubscribed since
    excused       \* history: handles that one of the known windows hit

tables == <<subscribers, handlers, tableLock, removedKeys>>
kernel == <<monitored, batch, queue>>
budget == <<calls, waits>>
history == <<held, excused>>
vars == <<tables, kernel, call, loop, budget, history>>

CallSteps == {"idle", "cleanup", "scan", "iterate", "erase",
              "lookup", "checkBusy", "insert", "update", "register", "confirm",
              "rollback", "addHandler",
              "find", "unregister", "remove", "dropHandler"}
LoopSteps == {"pop", "lookup", "mark", "expire", "handling", "invalid", "finish", "tail"}

-----------------------------------------------------------------------------
(* Helpers *)

NoCall == [step |-> "idle", op |-> "none", handle |-> NullHandle, found |-> FALSE, todo |-> {}]
NoEvent == [step |-> "pop", handle |-> NullHandle, copy |-> Absent, left |-> 0]

At(p, step) == call[p].step = step
Goto(p, step) == call' = [call EXCEPT ![p].step = step]
Return(p) == call' = [call EXCEPT ![p] = NoCall]

\* The event loop itself waits while a handler it runs is inside a call.
LoopAt(step) == loop.step = step /\ At(EventThread, "idle")
LoopGoto(step) == loop' = [loop EXCEPT !.step = step]

\* The subscribers' table can be locked for one operation.
TableFree == tableLock = Free

Subscribing(p, h) == call[p].op = "subscribe" /\ call[p].handle = h
Unsubscribing(p, h) == call[p].op = "unsubscribe" /\ call[p].handle = h

\* No call about handle h is being executed.
Quiet(h) == \A p \in Callers : ~Subscribing(p, h) /\ ~Unsubscribing(p, h)

\* The contexts that subscribeImpl stores before and after registerListener.
Unconfirmed == [registered |-> FALSE, expired |-> FALSE]
UnconfirmedTwice == Unconfirmed       \* mutant: registered_to_monitor is not set
Confirmed == [registered |-> TRUE, expired |-> FALSE]

\* What cleanupExpired looks for.
Expirable(h) == subscribers[h] # Absent /\ (subscribers[h].expired \/ ~subscribers[h].registered)

\* add_or_update_mapping and remove_mapping on the subscribers' table.
Store(h, context) == TableFree /\ subscribers' = [subscribers EXCEPT ![h] = context]

\* removeHandler erases an entry that is not in progress.
RemovedAnyway(entry) == "absent"      \* mutant: in_progress is not looked at
Removed(entry) == IF entry = "busy" THEN "busy" ELSE "absent"

\* EventHandlerWrapper's assignment leaves in_progress as it was.
Reset(entry) == "idle"                \* mutant: in_progress is assigned as well
Assigned(entry) == IF entry = "absent" THEN "idle" ELSE entry

-----------------------------------------------------------------------------
(* cleanupExpired: a scan under the table's lock that drops the handlers of  *)
(* expired or unregistered contexts, then a loop that erases the contexts.   *)

CleanupBegin(p) ==
    /\ At(p, "cleanup")
    /\ TableFree
    /\ LET doomed == {h \in Ids : Expirable(h)}
       IN  IF doomed = {}
           THEN Goto(p, "iterate") /\ UNCHANGED tableLock
           ELSE /\ tableLock' = p
                /\ call' = [call EXCEPT ![p].step = "scan", ![p].todo = doomed]
    /\ UNCHANGED <<subscribers, handlers, removedKeys, kernel, loop, budget, history>>

\* removeHandler: an entry in progress is kept, and its context with it.
CleanupVisit(p, h) ==
    /\ At(p, "scan")
    /\ h \in call[p].todo
    /\ handlers' = [handlers EXCEPT ![h] = Removed(@)]
    /\ removedKeys' = IF handlers'[h] # handlers[h] THEN removedKeys \cup {h} ELSE removedKeys
    /\ call' = [call EXCEPT ![p].todo = @ \ {h}]
    /\ UNCHANGED <<subscribers, tableLock, kernel, loop, budget, history>>

LockKept(p) == p                      \* mutant: lck.unlock() is forgotten
LockReleased(p) == Free

CleanupUnlock(p) ==
    /\ At(p, "scan")
    /\ call[p].todo = {}
    /\ tableLock' = LockReleased(p)
    /\ Goto(p, "iterate")
    /\ UNCHANGED <<subscribers, handlers, removedKeys, kernel, loop, budget, history>>

\* The range-for fixes begin() and end() of the shared vector as it is now.
CleanupIterate(p) ==
    /\ At(p, "iterate")
    /\ call' = [call EXCEPT ![p].step = "erase", ![p].todo = removedKeys]
    /\ UNCHANGED <<tables, kernel, loop, budget, history>>

CleanupErase(p, h) ==
    /\ At(p, "erase")
    /\ h \in call[p].todo
    /\ Store(h, Absent)
    /\ call' = [call EXCEPT ![p].todo = @ \ {h}]
    /\ UNCHANGED <<handlers, tableLock, removedKeys, kernel, loop, budget, history>>

\* removed_keys.clear(), then whatever cleanupExpired was called from goes on.
CleanupDone(p) ==
    /\ At(p, "erase")
    /\ call[p].todo = {}
    /\ removedKeys' = {}
    /\ \/ call[p].op = "subscribe" /\ Goto(p, "lookup")
       \/ call[p].op = "unsubscribe" /\ Goto(p, "find")
       \/ call[p].op = "cleanupExpired" /\ Return(p)
    /\ UNCHANGED <<subscribers, handlers, tableLock, kernel, loop, budget, history>>

-----------------------------------------------------------------------------
(* subscribe *)

\* A thread enters subscribe or unsubscribe; a handler may, between its events.
Call(p, kind, h) ==
    /\ At(p, "idle")
    /\ p = EventThread => loop.step = "handling"
    /\ calls < MaxCalls
    /\ Disciplined => Quiet(h)
    /\ calls' = calls + 1
    /\ call' = [call EXCEPT ![p] = [NoCall EXCEPT !.step = "cleanup", !.op = kind, !.handle = h]]
    /\ UNCHANGED <<tables, kernel, loop, waits, history>>

\* The do-while over getKeyFor and value_for: an entry found has this handle.
Lookup(p) ==
    /\ At(p, "lookup")
    /\ TableFree
    /\ IF subscribers[call[p].handle] = Absent
       THEN Goto(p, "insert")
       ELSE call' = [call EXCEPT ![p].step = "checkBusy", ![p].found = TRUE]
    /\ UNCHANGED <<tables, kernel, loop, budget, history>>

\* Already subscribed: refused while the handler is in progress.
CheckBusy(p) ==
    /\ At(p, "checkBusy")
    /\ IF handlers[call[p].handle] = "busy" THEN Return(p) ELSE Goto(p, "insert")
    /\ UNCHANGED <<tables, kernel, loop, budget, history>>

\* add_or_update_mapping stores the new context in any case and says whether it
\* inserted it: on an update subscribeImpl gives up.  Doing so while the table
\* has a handler for this id already is an excused window, unless a handler does
\* it that has just unsubscribed itself, as the Connector's and the Acceptor's do.
Resubscribing(p, h) == p = EventThread /\ handlers[h] = "busy" /\ subscribers[h] = Absent

Insert(p) ==
    LET h == call[p].handle
    IN  /\ At(p, "insert")
        /\ Store(h, Unconfirmed)
        /\ IF subscribers[h] # Absent
           THEN Return(p)
           ELSE Goto(p, IF call[p].found THEN "update" ELSE "register")
        /\ excused' = IF handlers[h] = "absent" \/ Resubscribing(p, h) THEN excused
                      ELSE excused \cup {h}
        /\ UNCHANGED <<handlers, tableLock, removedKeys, kernel, loop, budget, held>>

\* subscribe looks at the id: for descriptor 0 it is NULL_SUBSCRIBER_ID.
CheckId(p) == IF call[p].handle = NullHandle THEN Return(p) ELSE Goto(p, "addHandler")

\* updateListener: EPOLL_CTL_MOD works on a monitored handle only.
Update(p) ==
    /\ At(p, "update")
    /\ IF call[p].handle \in monitored THEN CheckId(p) ELSE Return(p)
    /\ UNCHANGED <<tables, kernel, loop, budget, history>>

\* registerListener: EPOLL_CTL_ADD fails on a monitored handle, and the kernel
\* may refuse any other (EPERM, ENOMEM, ENOSPC).
Register(p) ==
    /\ At(p, "register")
    /\ \/ /\ call[p].handle \notin monitored
          /\ monitored' = monitored \cup {call[p].handle}
          /\ Goto(p, "confirm")
       \/ Goto(p, "rollback") /\ UNCHANGED monitored
    /\ UNCHANGED <<tables, batch, queue, loop, budget, history>>

Confirm(p) ==
    /\ At(p, "confirm")
    /\ Store(call[p].handle, Confirmed)
    /\ CheckId(p)
    /\ UNCHANGED <<handlers, tableLock, removedKeys, kernel, loop, budget, history>>

Rollback(p) ==
    /\ At(p, "rollback")
    /\ Store(call[p].handle, Absent)
    /\ Return(p)
    /\ UNCHANGED <<handlers, tableLock, removedKeys, kernel, loop, budget, history>>

\* addHandlerInTable: assigning to an entry leaves its in_progress as it was.
AddHandler(p) ==
    /\ At(p, "addHandler")
    /\ handlers' = [handlers EXCEPT ![call[p].handle] = Assigned(@)]
    /\ held' = held \cup {call[p].handle}
    /\ Return(p)
    /\ UNCHANGED <<subscribers, tableLock, removedKeys, kernel, loop, budget, excused>>

-----------------------------------------------------------------------------
(* unsubscribe *)

MonitoredUnlessLive(context) == context.registered /\ context.expired  \* mutant
MustUnregister(context) == context.registered

Find(p) ==
    /\ At(p, "find")
    /\ TableFree
    /\ LET context == subscribers[call[p].handle]
       IN  IF context = Absent
           THEN Return(p)
           ELSE Goto(p, IF MustUnregister(context) THEN "unregister" ELSE "remove")
    /\ UNCHANGED <<tables, kernel, loop, budget, history>>

\* unregisterListener: EPOLL_CTL_DEL.
Unregister(p) ==
    /\ At(p, "unregister")
    /\ monitored' = monitored \ {call[p].handle}
    /\ Goto(p, "remove")
    /\ UNCHANGED <<tables, batch, queue, loop, budget, history>>

\* mutant: the context is not erased

RemoveMapping(p) ==
    /\ At(p, "remove")
    /\ Store(call[p].handle, Absent)
    /\ Goto(p, "dropHandler")
    /\ UNCHANGED <<handlers, tableLock, removedKeys, kernel, loop, budget, history>>

\* removeHandler; its result is ignored, so an entry in progress stays behind.
DropHandler(p) ==
    /\ At(p, "dropHandler")
    /\ handlers' = [handlers EXCEPT ![call[p].handle] = Removed(@)]
    /\ held' = held \ {call[p].handle}
    /\ Return(p)
    /\ UNCHANGED <<subscribers, tableLock, removedKeys, kernel, loop, budget, excused>>

-----------------------------------------------------------------------------
(* monitorWaitThread *)

\* epoll_wait returns: the monitored handles in ready have had an edge.
EpollWait(ready) ==
    /\ batch = {}
    /\ ready # {}
    /\ ready \subseteq monitored
    /\ waits < MaxWaits
    /\ waits' = waits + 1
    /\ batch' = ready
    /\ UNCHANGED <<tables, monitored, queue, call, loop, calls, history>>

PushNotification(h) ==
    /\ h \in batch
    /\ batch' = batch \ {h}
    /\ queue' = Append(queue, h)
    /\ UNCHANGED <<tables, monitored, call, loop, budget, history>>

-----------------------------------------------------------------------------
(* eventProcessingThread *)

Pop ==
    /\ LoopAt("pop")
    /\ queue # <<>>
    /\ queue' = Tail(queue)
    /\ \E n \in 1..MaxEvents :
          loop' = [NoEvent EXCEPT !.step = "lookup", !.handle = Head(queue), !.left = n]
    /\ UNCHANGED <<tables, monitored, batch, call, budget, history>>

ServableIfExpired(context) == context # Absent /\ context.expired  \* mutant: inverted test
Servable(context) == context # Absent /\ ~context.expired

\* value_for, into a copy that later steps write back.
LoopLookup ==
    /\ LoopAt("lookup")
    /\ TableFree
    /\ LET context == subscribers[loop.handle]
       IN  IF Servable(context)
           THEN loop' = [loop EXCEPT !.step = "mark", !.copy = context]
           ELSE LoopGoto("tail")
    /\ UNCHANGED <<tables, kernel, call, budget, history>>

HandlerAssumed(h) == TRUE             \* mutant: operator[] in place of find
HasHandler(h) == handlers[h] # "absent"

\* setHandlerInProgress(id, true).  Finding no handler is an excused window.
Mark ==
    /\ LoopAt("mark")
    /\ IF HasHandler(loop.handle)
       THEN /\ LoopGoto("handling")
            /\ handlers' = [handlers EXCEPT ![loop.handle] = "busy"]
            /\ UNCHANGED excused
       ELSE /\ LoopGoto("expire")
            /\ excused' = excused \cup {loop.handle}
            /\ UNCHANGED handlers
    /\ UNCHANGED <<subscribers, tableLock, removedKeys, kernel, call, budget, held>>

\* The copy goes back with expired set, whatever the table holds by now.
WriteBack ==
    /\ Store(loop.handle, [loop.copy EXCEPT !.expired = TRUE])
    /\ UNCHANGED <<handlers, tableLock, removedKeys, kernel, call, budget, history>>

\* No handler: the notification is dropped ("continue").
ExpireUnhandled == LoopAt("expire") /\ WriteBack /\ loop' = NoEvent

LastEvent == loop.left = 1

\* One call of handleEvent; INVALID_REFERENCE ends the loop over the events and
\* is an excused window.
HandleEvent ==
    /\ LoopAt("handling")
    /\ \/ /\ loop' = [loop EXCEPT !.left = @ - 1, !.step = IF LastEvent THEN "finish" ELSE @]
          /\ UNCHANGED excused
       \/ LoopGoto("invalid") /\ excused' = excused \cup {loop.handle}
    /\ UNCHANGED <<tables, kernel, call, budget, held>>

ExpireInvalid == LoopAt("invalid") /\ WriteBack /\ LoopGoto("finish")

\* in_progress.store(false), through operator[] and without the lock.
Finish ==
    /\ LoopAt("finish")
    /\ handlers' = [handlers EXCEPT ![loop.handle] = "idle"]
    /\ LoopGoto("tail")
    /\ UNCHANGED <<subscribers, tableLock, removedKeys, kernel, call, budget, history>>

\* CLEANUP_INTERVAL_S may have elapsed since the last cleanup.
LoopTail ==
    /\ LoopAt("tail")
    /\ loop' = NoEvent
    /\ \/ UNCHANGED call
       \/ call' = [call EXCEPT ![EventThread] =
                      [NoCall EXCEPT !.step = "cleanup", !.op = "cleanupExpired"]]
    /\ UNCHANGED <<tables, kernel, budget, history>>

-----------------------------------------------------------------------------
(* Specification *)

Init ==
    /\ subscribers = [h \in Ids |-> Absent]
    /\ handlers = [h \in Ids |-> "absent"]
    /\ tableLock = Free
    /\ removedKeys = {}
    /\ monitored = {}
    /\ batch = {}
    /\ queue = <<>>
    /\ call = [p \in Callers |-> NoCall]
    /\ loop = NoEvent
    /\ calls = 0
    /\ waits = 0
    /\ held = {}
    /\ excused = {}

CleanupStep(p) ==
    \/ CleanupBegin(p) \/ CleanupUnlock(p) \/ CleanupIterate(p) \/ CleanupDone(p)
    \/ \E h \in Ids : CleanupVisit(p, h) \/ CleanupErase(p, h)

SubscribeStep(p) ==
    \/ Lookup(p) \/ CheckBusy(p) \/ Insert(p) \/ Update(p) \/ Register(p)
    \/ Confirm(p) \/ Rollback(p) \/ AddHandler(p)

UnsubscribeStep(p) == Find(p) \/ Unregister(p) \/ RemoveMapping(p) \/ DropHandler(p)

CallStep(p) == CleanupStep(p) \/ SubscribeStep(p) \/ UnsubscribeStep(p)

MonitorStep == \E h \in Ids : PushNotification(h)

LoopStep ==
    \/ Pop \/ LoopLookup \/ Mark \/ ExpireUnhandled \/ HandleEvent \/ ExpireInvalid
    \/ Finish \/ LoopTail

\* Nothing left to do: every thread waits for the clients or for the kernel.
Idle ==
    /\ \A p \in Callers : At(p, "idle")
    /\ loop = NoEvent /\ queue = <<>> /\ batch = {}
    /\ UNCHANGED vars

Next ==
    \/ \E p \in Callers : CallStep(p)
    \/ \E p \in Callers, kind \in {"subscribe", "unsubscribe"}, h \in Handles : Call(p, kind, h)
    \/ \E ready \in SUBSET monitored : EpollWait(ready)
    \/ MonitorStep
    \/ LoopStep
    \/ Idle

Spec == Init /\ [][Next]_vars

-----------------------------------------------------------------------------
(* Properties *)

Calls == [step : CallSteps, op : {"none", "subscribe", "unsubscribe", "cleanupExpired"},
          handle : Ids, found : BOOLEAN, todo : SUBSET Ids]
Events == [step : LoopSteps, handle : Ids, copy : Context \cup {Absent}, left : 0..MaxEvents]

\* The type of the state.
TypeOK ==
    /\ subscribers \in [Ids -> Context \cup {Absent}]
    /\ handlers \in [Ids -> {"absent", "idle", "busy"}]
    /\ tableLock \in Callers \cup {Free}
    /\ removedKeys \subseteq Ids
    /\ monitored \subseteq Ids
    /\ batch \subseteq Ids
    /\ queue \in Seq(Ids)
    /\ call \in [Callers -> Calls]
    /\ loop \in Events
    /\ calls \in 0..MaxCalls
    /\ waits \in 0..MaxWaits
    /\ held \subseteq Ids
    /\ excused \subseteq Ids

\* The event-processing thread is between setHandlerInProgress(h, true) and
\* in_progress.store(false).
Dispatching(h) == loop.handle = h /\ loop.step \in {"handling", "invalid", "finish"}

\* in_progress pins the handler: while a handler's events are delivered its
\* entry is in the table and marked, however unsubscribe, subscribe and three
\* cleanups interleave, so that the lock-free m_handlers_table[sub_id] of
\* eventProcessingThread never finds a hole; and no entry stays marked when its
\* dispatch is over, which would make it immortal.
HandlerPinned == \A h \in Ids : handlers[h] = "busy" <=> Dispatching(h)

\* The subscription of h is in force: an edge on h reaches h's handler.
InForce(h) ==
    /\ subscribers[h] # Absent /\ subscribers[h].registered /\ ~subscribers[h].expired
    /\ h \in monitored
    /\ handlers[h] # "absent"

\* A client whose subscribe returned an id, and who has not unsubscribed, is in
\* force unless one of three windows has hit its handle: an event processed
\* while no handler was in the table, a handler that answered INVALID_REFERENCE,
\* or a subscribe that stored its context while the table had a handler for the
\* id already (the handle was subscribed, or its last unsubscribe came during a
\* dispatch and left the entry).  No other interleaving of cleanups, calls and
\* stale copies of a context loses a subscription, and the way the Connector and
\* the Acceptor hand a handle over to its endpoint, unsubscribing and subscribing
\* it from the handler, is none of the three.
LostOnlyInWindows ==
    \A h \in Handles : h \in held /\ Quiet(h) /\ h \notin excused => InForce(h)

\* unregisterListener is called for a monitored handle, or the handle was hit by a
\* window.  On any other, unregisterImpl removes a key that is not in the demulti-
\* plexer's map, which for its vector is erase(end()): undefined behaviour.
UnregistersMonitored ==
    \A p \in Callers :
        At(p, "unregister") /\ call[p].handle \notin excused => call[p].handle \in monitored

\* Outside the same windows nothing is left of a handle that is not held: no
\* context that a later subscribe would take for a live one, no interest in epoll
\* that would make its EPOLL_CTL_ADD fail, and no unsubscribe that finds the
\* context without the interest.  Descriptor 0 is the exception: its subscribe
\* returns the null id with everything registered.
NothingLeftBehind ==
    /\ \A h \in Handles \ {NullHandle} :
          h \notin held /\ Quiet(h) /\ h \notin excused =>
              subscribers[h] = Absent /\ h \notin monitored
    /\ UnregistersMonitored

\* What the reactor promises its clients (see HandlerService): a handle may be
\* served from the call of subscribe to the return of unsubscribe, or for good
\* once a window has hit it (a handler that answers INVALID_REFERENCE after its
\* unsubscribe writes the erased context back; a subscribe then fails on it but
\* clears its expired flag, and the handler left behind is called again).
Service == INSTANCE HandlerService WITH
    Clients <- Ids,
    granted <- held \cup excused \cup {h \in Ids : \E p \in Callers : Subscribing(p, h)},
    serving <- {h \in Ids : Dispatching(h)}

\* No dispatch begins on a handle whose unsubscribe has returned true and which
\* nobody is subscribing again, although notifications for it may be queued, the
\* event-processing thread may hold a copy of its context and its handler may
\* still be in the table; and handlers run one at a time.
KeepsItsPromise == Service!Spec

-----------------------------------------------------------------------------
(* Liveness.  The threads run as long as the process does and every handler  *)
(* returns; clients need not call and descriptors need not become ready.     *)

Fairness ==
    /\ \A p \in Callers : WF_vars(CallStep(p))
    /\ WF_vars(MonitorStep)
    /\ WF_vars(LoopStep)

FairSpec == Spec /\ Fairness

\* Every call of subscribe and unsubscribe returns, also one made by a handler,
\* although each runs a cleanup that holds one table while it locks the other
\* and the event-processing thread takes both in turn.
CallsReturn == \A p \in Callers : ~At(p, "idle") ~> At(p, "idle")

\* An edge that epoll_wait has reported reaches the handler, unless its
\* subscription stops being in force first.
EdgesServed == \A h \in Handles : h \in batch /\ InForce(h) ~> Dispatching(h) \/ ~InForce(h)

=============================================================================
