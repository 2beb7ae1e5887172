--------------------------- MODULE ConnectionSetup ---------------------------
(***************************************************************************)
(* Connector2 and Acceptor: how an endpoint's descriptor is subscribed for *)
(* its initialiser, and how the first event hands descriptor and endpoint  *)
(* over to the client's callback.                                          *)
(*                                                                         *)
(* Application threads call setup; the event-processing thread calls       *)
(* handleEvent.  Both use m_active_subscriptions, which has no lock: here  *)
(* each access of it is one step, and the undefined behaviour of two at a  *)
(* time is left out.  The reactor is abstracted to what module Reactor     *)
(* shows of it: subscribe and unsubscribe are one step each, except that   *)
(* the handler is added after epoll reports already, and the subscriber    *)
(* learns its id after that.                                               *)
(*                                                                         *)
(* The kernel gives the number of a closed descriptor to the next setup,   *)
(* while notifications that name the number may still be queued.           *)
(***************************************************************************)
EXTENDS EventTypes

CONSTANTS
    Setups,       \* the calls of setup, each with the endpoint it makes
    Descriptors,  \* the numbers the kernel gives
    Nobody,       \* no setup, no descriptor, no handler
    Initialiser,  \* the Connector2 or the Acceptor as an event handler
    Roles,        \* which of the two it may be
    Masks,        \* bound: by role, the sets of events that the kernel reports
    MaxEdges      \* bound: by role, the notifications that the kernel makes

ASSUME RoleAssumption == Roles \subseteq {"connector", "acceptor"}
ASSUME NobodyAssumption == Nobody \notin Setups \cup Descriptors \cup {Initialiser}
ASSUME InitialiserAssumption == Initialiser \notin Setups
ASSUME MasksAssumption == Masks \in [Roles -> SUBSET SUBSET Event]
ASSUME EdgesAssumption == MaxEdges \in [Roles -> Nat]

VARIABLES
    role,      \* which of the two this one is
    phase,     \* how far each setup is
    fd,        \* the open descriptor of a setup's endpoint
    active,    \* m_active_subscriptions: id -> the setup of the entry
    context,   \* m_subscribers_table, abstracted
    interest,  \* what epoll watches for on a descriptor, {} if it does not
    handler,   \* m_handlers_table: the initialiser, or a setup's endpoint
    queue,     \* notifications not processed yet
    loop,      \* the notification being processed
    edges,     \* spent so far of MaxEdges
    answers,   \* history: what each setup's callback was called with
    excused    \* history: setups that one of the known windows hit

reactor == <<context, interest, handler>>
vars == <<role, phase, fd, active, reactor, queue, loop, edges, answers, excused>>

Phases == {"new", "opened", "registered", "subscribed", "pending", "failing",
           "deaf", "connected", "installed", "listening", "handed", "refused", "failed",
           "closed"}

-----------------------------------------------------------------------------
(* Helpers *)

NoNotification == [step |-> "pop", descriptor |-> Nobody, mask |-> {}, todo |-> <<>>,
                   source |-> Nobody]

Open(d) == \E s \in Setups : fd[s] = d
Owners(d) == {s \in Setups : fd[s] = d}
Busy(d) == loop.step # "pop" /\ loop.descriptor = d

\* The first event that each initialiser subscribes for, and that succeeds.
Awaited == IF role = "connector" THEN Out ELSE In

\* handleEventImpl.  The connector tests the bits of ERR | HUP, which the numbers
\* of IN and SHUTDOWN share.
ErrorsOnly(e) == IF e = Err THEN "failure" ELSE "default"     \* mutant: no hang-ups
FailureFirst(e) == IF e \in {In, Err, Hup, Shutdown} THEN "failure" ELSE "default"
Verdict(e) ==
    IF e = Awaited THEN "success"
    ELSE IF role = "connector" THEN FailureFirst(e)
    ELSE IF e = Err THEN "failure" ELSE "default"

\* cleanupExpired, which every subscribe and unsubscribe begins with.
AllExpired == {d \in Descriptors : context[d] # "absent" /\ ~Busy(d)}    \* mutant
Expired == {d \in Descriptors : context[d] = "expired" /\ ~Busy(d)}
CleanContext == [d \in Descriptors |-> IF d \in Expired THEN "absent" ELSE context[d]]
CleanHandler == [d \in Descriptors |-> IF d \in Expired THEN Nobody ELSE handler[d]]

-----------------------------------------------------------------------------
(* setup, on an application's thread *)

\* factorEndpoint, and connect or bind and listen.  A descriptor whose number is
\* still named by a notification, or whose entry is being completed, is an
\* excused window for the new setup and for the one being completed.
OpenDevice(s, d) ==
    /\ phase[s] = "new"
    /\ ~Open(d)
    /\ phase' = [phase EXCEPT ![s] = "opened"]
    /\ fd' = [fd EXCEPT ![s] = d]
    /\ excused' =
          IF Busy(d) \/ \E i \in DOMAIN queue : queue[i].descriptor = d
          THEN excused \cup {s} \cup ({active[d]} \ {Nobody})
          ELSE excused
    /\ UNCHANGED <<active, reactor, queue, loop, edges, answers>>

\* connect, bind or listen fails: the endpoint is destroyed and setup returns
\* false, without a callback.
FailToConnect(s) ==
    /\ phase[s] = "opened"
    /\ phase' = [phase EXCEPT ![s] = "refused"]
    /\ fd' = [fd EXCEPT ![s] = Nobody]
    /\ UNCHANGED <<active, reactor, queue, loop, edges, answers, excused>>

\* The reactor or the kernel refuses the subscription, likewise.  A context that
\* the reactor finds is spoilt on the way, unless its handler is in progress.
Refuse(s) ==
    LET d == fd[s]
    IN  /\ phase[s] = "opened"
        /\ phase' = [phase EXCEPT ![s] = "refused"]
        /\ fd' = [fd EXCEPT ![s] = Nobody]
        /\ context' = [CleanContext EXCEPT
                          ![d] = IF @ = "live" /\ ~Busy(d) THEN "expired" ELSE @]
        /\ handler' = CleanHandler
        /\ UNCHANGED <<active, interest, queue, loop, edges, answers, excused>>

\* Reactor::subscribe up to EPOLL_CTL_ADD: refused if the table has the id.
Subscribe(s) ==
    /\ phase[s] = "opened"
    /\ CleanContext[fd[s]] = "absent"
    /\ phase' = [phase EXCEPT ![s] = "registered"]
    /\ context' = [CleanContext EXCEPT ![fd[s]] = "live"]
    /\ interest' = [interest EXCEPT ![fd[s]] = {Awaited}]
    /\ handler' = CleanHandler
    /\ UNCHANGED <<fd, active, queue, loop, edges, answers, excused>>

AddHandler(s) ==
    /\ phase[s] = "registered"
    /\ phase' = [phase EXCEPT ![s] = "subscribed"]
    /\ handler' = [handler EXCEPT ![fd[s]] = Initialiser]
    /\ UNCHANGED <<fd, active, context, interest, queue, loop, edges, answers, excused>>

\* The entry is stored when the reactor has the subscription already.
StoreEntry(s) ==
    /\ phase[s] = "subscribed"
    /\ phase' = [phase EXCEPT ![s] = "pending"]
    /\ active' = [active EXCEPT ![fd[s]] = s]
    /\ UNCHANGED <<fd, reactor, queue, loop, edges, answers, excused>>

\* A connector's named pipe is open or not when connect returns: setup itself
\* subscribes its endpoint at once and calls back, also when it failed.  Nobody
\* looks at the result of the subscription.
ConnectPipe(s) ==
    LET d == fd[s]
        subscribes == CleanContext[d] = "absent"
    IN  /\ role = "connector"
        /\ phase[s] = "opened"
        /\ \/ /\ subscribes
              /\ phase' = [phase EXCEPT ![s] = "connected"]
              /\ context' = [CleanContext EXCEPT ![d] = "live"]
              /\ interest' = [interest EXCEPT ![d] = {In}]
              /\ UNCHANGED excused
           \/ /\ phase' = [phase EXCEPT ![s] = "listening"]
              /\ context' = [CleanContext EXCEPT ![d] = IF @ = "live" /\ ~Busy(d) THEN "expired" ELSE @]
              /\ excused' = excused \cup {s}
              /\ UNCHANGED interest
        /\ handler' = CleanHandler
        /\ UNCHANGED <<fd, active, queue, loop, edges, answers>>

AddPipeHandler(s) ==
    /\ phase[s] = "connected"
    /\ phase' = [phase EXCEPT ![s] = "installed"]
    /\ handler' = [handler EXCEPT ![fd[s]] = s]
    /\ UNCHANGED <<fd, active, context, interest, queue, loop, edges, answers, excused>>

\* The endpoint knows its id, m_listener_sub_id, when the reactor has answered.
SetListenerId(s) ==
    /\ phase[s] = "installed"
    /\ phase' = [phase EXCEPT ![s] = "listening"]
    /\ UNCHANGED <<fd, active, reactor, queue, loop, edges, answers, excused>>

CallBack(s) ==
    /\ phase[s] = "listening"
    /\ phase' = [phase EXCEPT ![s] = "handed"]
    /\ answers' = [answers EXCEPT ![s] = Append(@, "endpoint")]
    /\ UNCHANGED <<fd, active, reactor, queue, loop, edges, excused>>

FailToOpenPipe(s) ==
    /\ role = "connector"
    /\ phase[s] = "opened"
    /\ phase' = [phase EXCEPT ![s] = "failed"]
    /\ fd' = [fd EXCEPT ![s] = Nobody]
    /\ answers' = [answers EXCEPT ![s] = Append(@, "none")]
    /\ UNCHANGED <<active, reactor, queue, loop, edges, excused>>

-----------------------------------------------------------------------------
(* The kernel and the demultiplexer *)

\* ERR and HUP are reported whether asked for or not, and RDHUP is always asked
\* for.  The notification carries its events in the order they are handled in.
Edge(d, mask) ==
    /\ edges < MaxEdges[role]
    /\ edges' = edges + 1
    /\ interest[d] # {}
    /\ mask # {} /\ mask \subseteq interest[d] \cup {Err, Hup, Shutdown}
    /\ queue' = Append(queue, [descriptor |-> d, mask |-> mask, todo |-> Delivered(mask),
                               source |-> CHOOSE s \in Owners(d) : TRUE])
    /\ UNCHANGED <<phase, fd, active, reactor, loop, answers, excused>>

-----------------------------------------------------------------------------
(* eventProcessingThread *)

\* A notification is dropped unless its id has a live context and a handler;
\* without a handler, an excused window, the context is expired.
Pop ==
    /\ loop.step = "pop" /\ queue # <<>>
    /\ queue' = Tail(queue)
    /\ LET n == Head(queue)
           d == n.descriptor
           served == context[d] = "live" /\ handler[d] # Nobody
           unhandled == context[d] = "live" /\ handler[d] = Nobody
       IN  /\ loop' = IF ~served THEN NoNotification
                      ELSE [step |-> "handling", descriptor |-> d, mask |-> n.mask,
                            todo |-> n.todo, source |-> n.source]
           /\ context' = IF unhandled THEN [context EXCEPT ![d] = "expired"] ELSE context
           /\ excused' = IF unhandled THEN excused \cup Owners(d) ELSE excused
    /\ UNCHANGED <<phase, fd, active, interest, handler, edges, answers>>

Handling(who) ==
    /\ loop.step = "handling" /\ loop.todo # <<>>
    /\ handler[loop.descriptor] = who

NextEvent == loop' = [loop EXCEPT !.todo = Tail(@)]

\* The endpoint that took the descriptor over handles the event itself.
HandleByEndpoint ==
    /\ \E s \in Setups : Handling(s) /\ phase[s] # "installed"
    /\ NextEvent
    /\ UNCHANGED <<phase, fd, active, reactor, queue, edges, answers, excused>>

\* INVALID_REFERENCE: the reactor writes the context back expired and leaves the
\* events that are still to come.  It hits the owner of the descriptor, if there is one.
Disown ==
    LET d == loop.descriptor
    IN  /\ loop' = [loop EXCEPT !.todo = <<>>]
        /\ context' = [context EXCEPT ![d] = "expired"]
        /\ excused' = excused \cup Owners(d)
        /\ UNCHANGED <<phase, fd, active, interest, handler, queue, edges, answers>>

\* handleEvent without an entry.
InvalidReference ==
    /\ Handling(Initialiser)
    /\ active[loop.descriptor] = Nobody
    /\ Disown

\* An endpoint that does not know its id yet takes the event for another's.
RefuseUnknownId ==
    /\ \E s \in Setups : Handling(s) /\ phase[s] = "installed"
    /\ Disown

Undecided ==
    /\ Handling(Initialiser)
    /\ active[loop.descriptor] # Nobody
    /\ Verdict(Head(loop.todo)) = "default"
    /\ NextEvent
    /\ UNCHANGED <<phase, fd, active, reactor, queue, edges, answers, excused>>

Deciding(verdict) ==
    /\ Handling(Initialiser)
    /\ active[loop.descriptor] # Nobody
    /\ Verdict(Head(loop.todo)) = verdict

\* Reactor::unsubscribe during the dispatch: the handler's entry stays.
StillThere(d) == CleanContext         \* mutant: the initialiser stays subscribed
Without(d) == [CleanContext EXCEPT ![d] = "absent"]

\* handleConnectionSuccess: unsubscribe, subscribe the endpoint for input,
\* call back and erase the entry.  Its listenerSubscribe needs a free id, and the
\* kernel may refuse it (an excused window); nobody looks at the result.
Succeed ==
    LET d == loop.descriptor
        s == active[d]
        subscribes == Without(d)[d] = "absent"
    IN  /\ Deciding("success")
        /\ \/ /\ subscribes
              /\ context' = [Without(d) EXCEPT ![d] = "live"]
              /\ interest' = [interest EXCEPT ![d] = {In}]
              /\ handler' = [CleanHandler EXCEPT ![d] = s]
              /\ UNCHANGED excused
           \/ /\ context' = Without(d)
              /\ interest' = [interest EXCEPT ![d] = {}]
              /\ handler' = CleanHandler
              /\ excused' = IF subscribes THEN excused \cup {s} ELSE excused
        /\ phase' = [phase EXCEPT ![s] = "handed"]
        /\ answers' = [answers EXCEPT ![s] = Append(@, "endpoint")]
        /\ active' = [active EXCEPT ![d] = Nobody]
        /\ NextEvent
        /\ UNCHANGED <<fd, queue, edges>>

\* The acceptor's accept returns false: the handle is unsubscribed, the entry
\* stays, and the client is not told.  An excused window.
FailToAccept ==
    LET d == loop.descriptor
    IN  /\ role = "acceptor"
        /\ Deciding("success")
        /\ phase' = [phase EXCEPT ![active[d]] = "deaf"]
        /\ excused' = excused \cup {active[d]}
        /\ context' = Without(d)
        /\ interest' = [interest EXCEPT ![d] = {}]
        /\ handler' = CleanHandler
        /\ NextEvent
        /\ UNCHANGED <<fd, active, queue, edges, answers>>

\* handleConnectionFailure up to the destruction of the endpoint, which closes
\* its descriptor: the number is free while the entry is still in the map.
Fail ==
    LET d == loop.descriptor
        s == active[d]
    IN  /\ Deciding("failure")
        /\ phase' = [phase EXCEPT ![s] = "failing"]
        /\ fd' = [fd EXCEPT ![s] = Nobody]
        /\ context' = Without(d)
        /\ interest' = [interest EXCEPT ![d] = {}]
        /\ handler' = CleanHandler
        /\ loop' = [loop EXCEPT !.step = "completing"]
        /\ UNCHANGED <<active, queue, edges, answers, excused>>

\* completeClientService calls back with what the entry holds by now: normally
\* no endpoint, but a setup that stored its own meanwhile gets that.
Complete ==
    LET s == active[loop.descriptor]
        failed == phase[s] = "failing"
    IN  /\ loop.step = "completing"
        /\ answers' = [answers EXCEPT ![s] = Append(@, IF failed THEN "none" ELSE "endpoint")]
        /\ phase' = [phase EXCEPT ![s] = IF failed THEN "failed" ELSE "handed"]
        /\ loop' = [loop EXCEPT !.step = "erasing"]
        /\ UNCHANGED <<fd, active, reactor, queue, edges, excused>>

EntryKept(d) == active                \* mutant: the entry is not erased
EntryErased(d) == [active EXCEPT ![d] = Nobody]

\* Erasing an entry destroys the endpoint in it, that of a setup that is pending.
Erase ==
    LET d == loop.descriptor
        s == active[d]
        destroyed == phase[s] = "pending"
    IN  /\ loop.step = "erasing"
        /\ active' = EntryErased(d)
        /\ phase' = IF destroyed THEN [phase EXCEPT ![s] = "failed"] ELSE phase
        /\ fd' = IF destroyed THEN [fd EXCEPT ![s] = Nobody] ELSE fd
        /\ interest' = IF destroyed THEN [interest EXCEPT ![d] = {}] ELSE interest
        /\ loop' = [loop EXCEPT !.step = "handling", !.todo = Tail(@)]
        /\ UNCHANGED <<context, handler, queue, edges, answers, excused>>

\* in_progress is cleared; a cleanup may be due.
Finish ==
    /\ loop.step = "handling" /\ loop.todo = <<>>
    /\ loop' = NoNotification
    /\ UNCHANGED <<phase, fd, active, reactor, queue, edges, answers, excused>>

Cleanup ==
    /\ loop.step = "pop" /\ Expired # {}
    /\ context' = CleanContext
    /\ handler' = CleanHandler
    /\ UNCHANGED <<phase, fd, active, interest, queue, loop, edges, answers, excused>>

-----------------------------------------------------------------------------
(* The client destroys the endpoint it was given: it unsubscribes and closes.  *)
(* It does not while that endpoint's events are being delivered.               *)
Destroy(s) ==
    LET d == fd[s]
        listening == handler[d] = s
    IN  /\ phase[s] = "handed" /\ ~Busy(d)
        /\ phase' = [phase EXCEPT ![s] = "closed"]
        /\ fd' = [fd EXCEPT ![s] = Nobody]
        /\ interest' = [interest EXCEPT ![d] = {}]
        /\ context' = IF listening THEN Without(d) ELSE context
        /\ handler' = IF listening THEN [CleanHandler EXCEPT ![d] = Nobody] ELSE handler
        /\ UNCHANGED <<active, queue, loop, edges, answers, excused>>

-----------------------------------------------------------------------------
(* Specification *)

Init ==
    /\ role \in Roles
    /\ phase = [s \in Setups |-> "new"]
    /\ fd = [s \in Setups |-> Nobody]
    /\ active = [d \in Descriptors |-> Nobody]
    /\ context = [d \in Descriptors |-> "absent"]
    /\ interest = [d \in Descriptors |-> {}]
    /\ handler = [d \in Descriptors |-> Nobody]
    /\ queue = <<>>
    /\ loop = NoNotification
    /\ edges = 0
    /\ answers = [s \in Setups |-> <<>>]
    /\ excused = {}

SetupStep(s) ==
    \/ \E d \in Descriptors : OpenDevice(s, d)
    \/ FailToConnect(s) \/ Refuse(s) \/ Subscribe(s) \/ AddHandler(s) \/ StoreEntry(s)
    \/ ConnectPipe(s) \/ AddPipeHandler(s) \/ SetListenerId(s) \/ CallBack(s)
    \/ FailToOpenPipe(s)

LoopStep ==
    \/ Pop \/ HandleByEndpoint \/ InvalidReference \/ RefuseUnknownId \/ Undecided
    \/ Succeed \/ FailToAccept \/ Fail \/ Complete \/ Erase \/ Finish

Next ==
    /\ \/ \E s \in Setups : SetupStep(s) \/ Destroy(s)
       \/ \E d \in Descriptors, mask \in Masks[role] : Edge(d, mask)
       \/ LoopStep
       \/ Cleanup
    /\ UNCHANGED role

Spec == Init /\ [][Next]_vars

\* The event-processing thread goes on as long as the process does.
FairSpec == Spec /\ WF_vars(LoopStep /\ UNCHANGED role)

-----------------------------------------------------------------------------
(* Properties *)

\* The type of the state.
TypeOK ==
    /\ role \in Roles
    /\ phase \in [Setups -> Phases]
    /\ fd \in [Setups -> Descriptors \cup {Nobody}]
    /\ active \in [Descriptors -> Setups \cup {Nobody}]
    /\ context \in [Descriptors -> {"absent", "live", "expired"}]
    /\ interest \in [Descriptors -> SUBSET Event]
    /\ handler \in [Descriptors -> Setups \cup {Initialiser, Nobody}]
    /\ \A i \in DOMAIN queue :
          queue[i] \in [descriptor : Descriptors, mask : SUBSET Event, todo : Seq(Event),
                        source : Setups]
    /\ loop \in [step : {"pop", "handling", "completing", "erasing"},
                 descriptor : Descriptors \cup {Nobody}, mask : SUBSET Event,
                 todo : Seq(Event), source : Setups \cup {Nobody}]
    /\ edges \in 0..MaxEdges[role]
    /\ answers \in [Setups -> Seq({"endpoint", "none"})]
    /\ excused \subseteq Setups

\* The next edge on d reaches who.
Armed(d, events, who) == context[d] = "live" /\ interest[d] = events /\ handler[d] = who

\* A setup that returned true and whose callback is still to come can be
\* answered: its entry is in the map, epoll watches its descriptor for the event
\* it awaits, and the initialiser is its handler, outside the four windows (an
\* edge before handler and entry, or handler and listener id, are there; a
\* descriptor's number given anew; a failed accept; a refused listenerSubscribe).
\* The hand-over is seamless outside them: when the callback is given the endpoint
\* the reactor already has it as the descriptor's handler, for input.  Of a socket
\* the descriptor was the initialiser's until then, whose handler is in progress all
\* the while; of a pipe, edges have come since the endpoint was subscribed.
WaitingIsArmed ==
    \A s \in Setups \ excused :
        /\ phase[s] = "pending" => Armed(fd[s], {Awaited}, Initialiser) /\ active[fd[s]] = s
        /\ phase[s] \in {"listening", "handed"} => Armed(fd[s], {In}, s)

\* No callback is called twice, and outside the windows it is called with the
\* endpoint exactly when the connection succeeded.
AnsweredOnce ==
    \A s \in Setups :
        /\ Len(answers[s]) <= 1
        /\ s \notin excused =>
              /\ phase[s] \in {"handed", "closed"} <=> answers[s] = <<"endpoint">>
              /\ phase[s] = "failed" <=> answers[s] = <<"none">>

\* Outside the windows an endpoint is handed over on a notification of its own
\* connection, not of one that had its descriptor's number before; for a connector
\* on none that reports a hang-up or a shutdown, which sortByPriority puts first.
\* An error may come behind the event that succeeds: then the endpoint, which is
\* its descriptor's handler by now, is still to be told of it.  A named pipe's endpoint
\* is handed over by setup itself, on no notification.
HandedOnOwnSuccess ==
    [][\A s \in Setups \ excused' :
          phase[s] \notin {"listening", "handed"} /\ phase'[s] = "handed" =>
              /\ loop.source = s
              /\ role = "connector" => loop.mask \cap {Hup, Shutdown} = {}
              /\ Err \in loop.mask =>
                    Err \in Range(loop'.todo) /\ handler'[loop.descriptor] = s]_vars

\* The reactor keeps no live context for a descriptor that is closed, so that the
\* next setup with the same number is not refused, unless the number had been
\* given anew too early before.
ClosedIsForgotten ==
    \A d \in Descriptors : ~Open(d) /\ excused = {} => context[d] # "live" /\ interest[d] = {}

\* A notification with an event that decides reaches a pending setup's callback.
Decides(mask) == \E e \in Passed(mask) : Verdict(e) # "default"

PendingIsAnswered ==
    \A s \in Setups :
        (/\ phase[s] = "pending"
         /\ \E i \in DOMAIN queue : queue[i].source = s /\ Decides(queue[i].mask))
        ~> (answers[s] # <<>> \/ s \in excused)

-----------------------------------------------------------------------------
(* The order that events are delivered in *)

\* What epoll may report for a descriptor that is watched for In, or for Out.
Reported == (SUBSET {In, Err, Hup, Shutdown}) \cup (SUBSET {Out, Err, Hup, Shutdown})

\* An event that succeeds is delivered with the errors and hang-ups of its
\* notification where HandedOnOwnSuccess needs them: an input event has an error
\* behind it; an output event has an error, a hang-up or a shutdown before it,
\* unless there is no hang-up and no shutdown and an error is behind it.
InOrder(D, mask) ==
    /\ D \in Seq(Event)
    /\ \A i \in DOMAIN D :
          LET later == \E j \in DOMAIN D : j > i /\ D[j] = Err
          IN  /\ D[i] = In /\ Err \in mask => later
              /\ D[i] = Out =>
                    \/ \E j \in DOMAIN D : j < i /\ D[j] \in {Err, Hup, Shutdown}
                    \/ mask \cap {Hup, Shutdown} = {} /\ (Err \in mask => later)

DeliveredInOrder == \A mask \in Reported : InOrder(Delivered(mask), mask)

=============================================================================
