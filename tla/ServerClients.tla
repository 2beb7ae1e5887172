--------------------------- MODULE ServerClients ---------------------------
(***************************************************************************)
(* A socket server's endpoints: accept on the listener's edges, the        *)
(* storage of one endpoint per client, the callbacks to the server's user, *)
(* and the end of a client, whose endpoint is destroyed by its own         *)
(* handler.                                                                *)
(*                                                                         *)
(* The reactor is reduced to what module Reactor shows of it: a context,   *)
(* a handler and a registration with epoll per descriptor.  All of the     *)
(* server runs on the event-processing thread, so that one event is one    *)
(* step; the peers and the demultiplexer's thread interleave with it.      *)
(*                                                                         *)
(* The endpoint is named by its client: at most one is made for each.      *)
(***************************************************************************)
EXTENDS EventTypes, FiniteSets

CONSTANTS
    Clients,       \* the connections that peers make
    Descriptors,   \* the numbers that accept4 may return
    Listener,      \* the handle of the listening socket
    Nobody

ASSUME HandlesAssumption == Listener \notin Descriptors /\ Nobody \notin Clients \cup Descriptors

VARIABLES
    peer,      \* what became of each connection: which of "here", "data", "fin", "reset"
               \* its peer did, and "read" when the data was taken
    backlog,   \* connections that wait for accept4, in order
    ready,     \* epoll's ready list, as a set of handles
    watched,   \* descriptors registered with epoll
    queue,     \* notifications for the event-processing thread
    joined,    \* history: arrivals whose edge was that of an earlier one
    policy,    \* which EndpointStorage the server has: "single" or "associative"
    storage,   \* [Descriptors -> the client whose endpoint is stored, or Nobody]
    endpoint,  \* [Clients -> "none", "alive" or "destroyed"]
    fd,        \* [Clients -> the descriptor of its endpoint's device, or Nobody]
    context,   \* [Descriptors -> "absent", "live" or "expired"]
    handler,   \* [Descriptors -> the client whose endpoint is the handler, or Nobody]
    loop,      \* the notification under way and the events left of it
    told,      \* history: the callbacks of the server's user, per client
    excused,   \* history: clients that were handed another one's notification
    running    \* the process was not terminated by an exception or a fault

kernel == <<peer, backlog, ready, watched, queue, joined>>
server == <<policy, storage, endpoint, fd>>
reactor == <<context, handler>>
vars == <<kernel, server, reactor, loop, told, excused, running>>

Idle == [handle |-> Nobody, source |-> Nobody, todo |-> <<>>]

Owner(d) == IF \E c \in Clients : fd[c] = d THEN CHOOSE c \in Clients : fd[c] = d ELSE Nobody
Free(d) == \A c \in Clients : fd[c] # d

-----------------------------------------------------------------------------
(* The peers and the demultiplexer *)

\* A connection is an edge on the listening socket, or joins the edge that is
\* still to be reported.
Arrive(c) ==
    /\ peer[c] = {}
    /\ peer' = [peer EXCEPT ![c] = {"here"}]
    /\ backlog' = Append(backlog, c)
    /\ ready' = ready \cup {Listener}
    /\ joined' = IF Listener \in ready THEN joined + 1 ELSE joined
    /\ UNCHANGED <<watched, queue, server, reactor, loop, told, excused, running>>

\* The peer sends (once, to bound the model), closes, or resets: an edge, if epoll
\* has the descriptor.
PeerDoes(c, what) ==
    /\ "here" \in peer[c] /\ what \notin peer[c] /\ "reset" \notin peer[c]
    /\ what = "data" => "fin" \notin peer[c]
    /\ peer' = [peer EXCEPT ![c] = @ \cup {what}]
    /\ ready' = ready \cup ({fd[c]} \cap watched)
    /\ UNCHANGED <<backlog, watched, queue, joined, server, reactor, loop, told, excused, running>>

\* What epoll reports of a connection.  Input comes with every hang-up, which is
\* why no hang-up of a connection is passed on.
Mask(c) ==
    (IF ("data" \in peer[c] /\ "read" \notin peer[c]) \/ peer[c] \cap {"fin", "reset"} # {}
     THEN {In} ELSE {})
    \cup (IF peer[c] \cap {"fin", "reset"} # {} THEN {Shutdown} ELSE {})
    \cup (IF "reset" \in peer[c] THEN {Err, Hup} ELSE {})

LevelTriggered(h) == h \in ready /\ ready' \in {ready, ready \ {h}}   \* mutant: no EPOLLET
Reported(h) == h \in ready /\ ready' = ready \ {h}

\* The notification carries its events in the order they are handled in.
Report(h) ==
    /\ Reported(h)
    /\ queue' = Append(queue, [handle |-> h, source |-> IF h = Listener THEN Nobody ELSE Owner(h),
                               todo |-> IF h = Listener THEN <<In>> ELSE Delivered(Mask(Owner(h)))])
    /\ UNCHANGED <<peer, backlog, watched, joined, server, reactor, loop, told, excused, running>>

-----------------------------------------------------------------------------
(* The reactor's part of subscribing and unsubscribing *)

\* cleanupExpired takes what is expired, but never the handler under way.
Expired == {d \in Descriptors : context[d] = "expired" /\ loop.handle # d}
CleanContext == [d \in Descriptors |-> IF d \in Expired THEN "absent" ELSE context[d]]
CleanHandler == [d \in Descriptors |-> IF d \in Expired THEN Nobody ELSE handler[d]]

\* The endpoints of `gone` are destroyed: ~TransportEndpoint unsubscribes, which
\* leaves the handler in progress in its table, and the device closes.
Numbers(gone) == {fd[c] : c \in gone} \cap Descriptors
Unsubscribed(gone) ==
    [d \in Descriptors |-> IF d \in Numbers(gone) THEN "absent" ELSE CleanContext[d]]
HandlersLeft(gone) ==
    [d \in Descriptors |-> IF d \in Numbers(gone) /\ loop.handle # d THEN Nobody ELSE CleanHandler[d]]
Destroyed(gone) == [c \in Clients |-> IF c \in gone THEN "destroyed" ELSE endpoint[c]]
Closed(gone) == [c \in Clients |-> IF c \in gone THEN Nobody ELSE fd[c]]

-----------------------------------------------------------------------------
(* EndpointStorage *)

\* The single storage drops the endpoint it had, whatever its key.
Replaced(d) ==
    {storage[e] : e \in IF policy = "single" THEN Descriptors ELSE {d}} \ {Nobody}
Store(d, c) ==
    [e \in Descriptors |-> IF e = d THEN c ELSE IF policy = "single" THEN Nobody ELSE storage[e]]

NotErased(d) == storage               \* mutant: the endpoint stays in the storage
Erase(d) == [storage EXCEPT ![d] = Nobody]

-----------------------------------------------------------------------------
(* The event-processing thread: the server's own handler *)

Serving(h) == running /\ loop.handle = h /\ loop.todo # <<>>
Done == [loop EXCEPT !.todo = Tail(@)]

AddedBlind(c) == FALSE                \* mutant: only later input is an edge
ReadyOnAdd(c) == Mask(c) # {}

\* ProcessInputEvent accepts one connection, whatever is waiting.  Its endpoint
\* is made, subscribed and stored; then the user is told.
Accept(d) ==
    LET c == Head(backlog)
        gone == Replaced(d)
    IN  /\ Serving(Listener) /\ backlog # <<>> /\ Free(d)
        /\ CleanContext[d] = "absent"
        /\ backlog' = Tail(backlog)
        /\ endpoint' = [Destroyed(gone) EXCEPT ![c] = "alive"]
        /\ fd' = [Closed(gone) EXCEPT ![c] = d]
        /\ context' = [Unsubscribed(gone) EXCEPT ![d] = "live"]
        /\ handler' = [HandlersLeft(gone) EXCEPT ![d] = c]
        /\ storage' = Store(d, c)
        /\ watched' = (watched \ Numbers(gone)) \cup {d}
        /\ ready' = (ready \ Numbers(gone)) \cup (IF ReadyOnAdd(c) THEN {d} ELSE {})
        /\ told' = [told EXCEPT ![c] = Append(@, "connected")]
        /\ loop' = Done
        /\ UNCHANGED <<peer, queue, joined, policy, excused, running>>

\* Without a subscription the new endpoint goes away, and with it the connection.
Refuse ==
    /\ Serving(Listener) /\ backlog # <<>>
    /\ backlog' = Tail(backlog)
    /\ endpoint' = [endpoint EXCEPT ![Head(backlog)] = "destroyed"]
    /\ context' = CleanContext
    /\ handler' = CleanHandler
    /\ loop' = Done
    /\ UNCHANGED <<peer, ready, watched, queue, joined, policy, storage, fd, told, excused, running>>

\* A failed accept4 takes the value of an empty optional: the exception leaves
\* the thread.
AcceptFails ==
    /\ Serving(Listener)
    /\ running' = FALSE
    /\ UNCHANGED <<kernel, server, reactor, loop, told, excused>>

-----------------------------------------------------------------------------
(* The event-processing thread: a client's handler *)

HandlingAnyway(c, event) ==           \* mutant: the subscription's id is not reset
    /\ loop.handle \in Descriptors /\ Serving(loop.handle)
    /\ handler[loop.handle] = c
    /\ Head(loop.todo) = event
Handling(c, event) ==
    /\ loop.handle \in Descriptors /\ Serving(loop.handle)
    /\ handler[loop.handle] = c /\ endpoint[c] = "alive"
    /\ Head(loop.todo) = event

\* The read takes what there is, and the user is given it, be it nothing.
InputEvent(c) ==
    /\ Handling(c, In)
    /\ told' = [told EXCEPT ![c] = Append(@, "input")]
    /\ peer' = [peer EXCEPT ![c] = IF "data" \in @ THEN @ \cup {"read"} ELSE @]
    /\ loop' = Done
    /\ UNCHANGED <<backlog, ready, watched, queue, joined, server, reactor, excused, running>>

\* The disconnection callback tells the user and erases the endpoint from the
\* storage, which destroys it.
Disconnect(c) ==
    /\ storage' = Erase(loop.handle)
    /\ endpoint' = Destroyed({c})
    /\ fd' = Closed({c})
    /\ context' = Unsubscribed({c})
    /\ handler' = HandlersLeft({c})
    /\ watched' = watched \ {loop.handle}
    /\ ready' = ready \ {loop.handle}
    /\ loop' = Done
    /\ UNCHANGED <<peer, backlog, queue, joined, policy, excused>>

\* Of the events that end a connection this one is always first (see Delivered): the
\* endpoint is gone when its error, if any, is handled.
\* onDisconnection calls back and then goes on in the destroyed endpoint: it
\* looks at its state and calls back again, unless it is found DISCONNECTED, or
\* the process ends.
DisconnectionEvent(c) ==
    /\ Handling(c, Shutdown)
    /\ Disconnect(c)
    /\ \E again \in {<<>>, <<"disconnected">>} :
          told' = [told EXCEPT ![c] = @ \o <<"disconnected">> \o again]
    /\ running' \in BOOLEAN

\* The events left are given to the destroyed endpoint, whose subscription was
\* reset: INVALID_REFERENCE, and the context is stored back, expired.
CallDestroyed ==
    /\ loop.handle \in Descriptors /\ Serving(loop.handle)
    /\ endpoint[handler[loop.handle]] = "destroyed"
    /\ loop' = [loop EXCEPT !.todo = <<>>]
    /\ context' = [context EXCEPT ![loop.handle] = "expired"]
    /\ running' \in BOOLEAN
    /\ UNCHANGED <<kernel, server, handler, told, excused>>

-----------------------------------------------------------------------------
(* The event-processing thread: the loop *)

\* A notification of a descriptor without a live context is dropped.  One that
\* was reported of another connection with that number excuses its receiver.
Pop ==
    LET n == Head(queue)
        served == n.handle = Listener \/ context[n.handle] = "live"
    IN  /\ running /\ loop = Idle /\ queue # <<>>
        /\ queue' = Tail(queue)
        /\ loop' = IF served THEN n ELSE Idle
        /\ excused' = IF served /\ n.handle # Listener /\ handler[n.handle] # n.source
                      THEN excused \cup {handler[n.handle]} ELSE excused
        /\ UNCHANGED <<peer, backlog, ready, watched, joined, server, reactor, told, running>>

Finish ==
    /\ running /\ loop # Idle /\ loop.todo = <<>>
    /\ loop' = Idle
    /\ UNCHANGED <<kernel, server, reactor, told, excused, running>>

Cleanup ==
    /\ running /\ loop = Idle /\ Expired # {}
    /\ context' = CleanContext
    /\ handler' = CleanHandler
    /\ UNCHANGED <<kernel, server, loop, told, excused, running>>

-----------------------------------------------------------------------------
(* Specification *)

\* The acceptor has handed the endpoint over: it listens and is subscribed.
Init ==
    /\ peer = [c \in Clients |-> {}]
    /\ backlog = <<>> /\ ready = {} /\ watched = {} /\ queue = <<>> /\ joined = 0
    /\ policy \in {"single", "associative"}
    /\ storage = [d \in Descriptors |-> Nobody]
    /\ endpoint = [c \in Clients |-> "none"]
    /\ fd = [c \in Clients |-> Nobody]
    /\ context = [d \in Descriptors |-> "absent"]
    /\ handler = [d \in Descriptors |-> Nobody]
    /\ loop = Idle
    /\ told = [c \in Clients |-> <<>>]
    /\ excused = {} /\ running = TRUE

LoopStep ==
    \/ \E d \in Descriptors : Accept(d)
    \/ Refuse \/ AcceptFails
    \/ \E c \in Clients : InputEvent(c) \/ DisconnectionEvent(c)
    \/ CallDestroyed
    \/ Pop \/ Finish

Next ==
    \/ \E c \in Clients : Arrive(c) \/ \E what \in {"data", "fin", "reset"} : PeerDoes(c, what)
    \/ \E h \in Descriptors \cup {Listener} : Report(h)
    \/ LoopStep
    \/ Cleanup

Spec == Init /\ [][Next]_vars

\* Both threads of the reactor go on as long as the process does.  (Reported(h) is
\* possible exactly when Report(h) is.)
FairSpec ==
    /\ Spec
    /\ \A h \in Descriptors \cup {Listener} : WF_ready(Reported(h))
    /\ WF_vars(LoopStep)

-----------------------------------------------------------------------------
(* Properties *)

\* Between notifications the storage, the endpoints and the reactor agree: what
\* is stored is alive, has its descriptor, is watched and is the handler of a live
\* context, and there is no other live endpoint or live context.
StorageIsSubscribed ==
    running /\ loop = Idle =>
        /\ \A d \in Descriptors :
              IF storage[d] # Nobody
              THEN /\ endpoint[storage[d]] = "alive" /\ fd[storage[d]] = d
                   /\ context[d] = "live" /\ handler[d] = storage[d] /\ d \in watched
              ELSE context[d] # "live" /\ d \notin watched
        /\ \A c \in Clients : endpoint[c] = "alive" => storage[fd[c]] = c

\* What the user is told of a client: that it connected, its inputs, and its end,
\* which may be told a second time at once, and then nothing any more.  The end is
\* told only of a client whose peer ended the connection, or that was handed the
\* notification of another client with its number.
EndIsItsOwn ==
    \A c \in Clients :
        /\ \A i \in DOMAIN told[c] :
              /\ told[c][i] = "connected" <=> i = 1
              /\ told[c][i] = "disconnected" =>
                    i >= Len(told[c]) - 1 /\ told[c][Len(told[c])] = "disconnected"
        /\ "disconnected" \in Range(told[c]) =>
              /\ endpoint[c] = "destroyed"
              /\ peer[c] \cap {"fin", "reset"} # {} \/ c \in excused

\* The listener's edges that wait for the event-processing thread, and the one that
\* it is handling.
AcceptsQueued == Cardinality({i \in DOMAIN queue : queue[i].handle = Listener})
Accepting == IF loop.handle = Listener /\ loop.todo # <<>> THEN 1 ELSE 0

\* One connection is accepted per edge: those whose edge was another one's, and no
\* others, stay in the backlog when every edge has been handled.
LeftBehindByMerging ==
    Len(backlog) = joined + Accepting + (IF Listener \in ready THEN 1 ELSE 0)
                   + AcceptsQueued

\* A client whose peer ends the connection is disconnected and its descriptor is
\* closed, unless the process ends.
EndIsNoticed ==
    \A c \in Clients :
        (endpoint[c] = "alive" /\ peer[c] \cap {"fin", "reset"} # {})
            ~> (fd[c] = Nobody \/ ~running)

=============================================================================
