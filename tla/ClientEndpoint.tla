--------------------------- MODULE ClientEndpoint ----------------------------
(***************************************************************************)
(* One client endpoint: its connection state, the state that its device    *)
(* keeps and the kernel's socket under both.  An application thread        *)
(* connects and disconnects while the event-processing thread handles what *)
(* is reported of the socket.  Neither takes a lock, so every read and     *)
(* every write of the two states is a step of its own.                     *)
(***************************************************************************)
EXTENDS EventTypes

CONSTANTS
    App, Ev,        \* the application's thread and the reactor's
    MaxConnects     \* bound: calls of connect

ASSUME ThreadsAssumption == App # Ev /\ MaxConnects \in Nat

VARIABLES
    state,        \* TransportEndpoint: the connection state
    inProgress,   \* ClientCallbackPolicy::m_connectionInProgress
    device,       \* SocketDeviceBase::m_state
    socket,       \* the kernel's
    direct,       \* the application connects by itself, not through Connector2
    subscribed,   \* the endpoint has its own subscription
    expired,      \* it had one, and its context expired: there is no other
    pending,      \* the events that were reported and not handled yet
    told,         \* calls of the disconnection callback
    thread,       \* where each thread is, and what it holds in locals
    connects,     \* calls of connect so far
    overlap,      \* history: both threads have been in the endpoint at once
    unasked       \* history: a hang-up was handled, which tells on its own

endpointVars == <<state, inProgress, device, socket, direct, subscribed, expired, pending, told,
                  thread, connects, overlap, unasked>>

EConnectionState == {"AVAILABLE", "CONNECTING", "CONNECTED", "DISCONNECTING", "DISCONNECTED"}
ESocketState == {"AVAILABLE", "CONNECTED", "DISCONNECTED", "SHUTDOWN"}
Socket == {"new", "connecting", "connected", "ended", "failed", "closed"}

Idle == [at |-> "idle", target |-> "AVAILABLE", old |-> "AVAILABLE", then |-> "idle"]

EndpointTypeOK ==
    /\ state \in EConnectionState /\ device \in ESocketState /\ socket \in Socket
    /\ inProgress \in BOOLEAN /\ direct \in BOOLEAN /\ subscribed \in BOOLEAN
    /\ expired \in BOOLEAN
    /\ pending \in Seq(Event) /\ told \in Nat /\ connects \in 0..MaxConnects
    /\ overlap \in BOOLEAN /\ unasked \in BOOLEAN
    /\ \A t \in {App, Ev} : thread[t].target \in EConnectionState

-----------------------------------------------------------------------------
(* Moving a thread.  The history notes when both are under way. *)

At(t, step) == thread[t].at = step

Moved(t, local) ==
    /\ thread' = [thread EXCEPT ![t] = local]
    /\ overlap' = (overlap \/ \A u \in {App, Ev} : thread'[u].at # "idle")

Goto(t, step) == Moved(t, IF step = "idle" THEN Idle ELSE [thread[t] EXCEPT !.at = step])

\* The parts that a step may leave alone.
connection == <<state, inProgress, told>>
lower == <<device, socket>>
history == <<direct, connects, unasked, expired>>

\* setState: the old state is read before the new is written, and the
\* disconnection callback runs when the two say so.
SetState(t, target, then) ==
    Moved(t, [at |-> "readOld", target |-> target, old |-> "AVAILABLE", then |-> then])

ReadOldState(t) ==
    /\ At(t, "readOld")
    /\ Moved(t, [thread[t] EXCEPT !.at = "write", !.old = state])
    /\ UNCHANGED <<connection, lower, history, subscribed, pending>>

TellsConnected(t) ==                  \* mutant: only a connected endpoint's client
    thread[t].target = "DISCONNECTED" /\ thread[t].old = "CONNECTED"
Tells(t) == thread[t].target = "DISCONNECTED" /\ thread[t].old # "DISCONNECTED"

WriteState(t) ==
    /\ At(t, "write")
    /\ state' = thread[t].target
    /\ told' = told + (IF Tells(t) THEN 1 ELSE 0)
    /\ Goto(t, thread[t].then)
    /\ UNCHANGED <<inProgress, lower, history, subscribed, pending>>

-----------------------------------------------------------------------------
(* The kernel's socket: what poll says of it, and of that what was asked   *)
(* for.  registerImpl asks for errors and ends unasked.                    *)

Unasked == {Err, Hup, Shutdown}

Mask(of) ==
    CASE of = "new" -> {Out, Hup}
      [] of = "connected" -> {Out}
      [] of = "ended" -> {In, Out, Shutdown}
      [] of = "failed" -> {In, Out, Err, Hup, Shutdown}
      [] OTHER -> {}

Reported(of, interest) == Delivered(Mask(of) \cap interest)

\* The initialiser's subscription is for output, the endpoint's for input.
Interest == Unasked \cup (IF ~subscribed THEN {Out} ELSE IF direct THEN {In, Out} ELSE {In})

-----------------------------------------------------------------------------
(* ConnectionPolicy and ClientCallbackPolicy: connect.  A device that was  *)
(* disconnected is available again, with the number it had.                *)

Available == IF device = "DISCONNECTED" THEN "AVAILABLE" ELSE device

Outcomes(non_blocking) ==
    IF socket = "new"
    THEN {"failed", "connected"} \cup (IF non_blocking THEN {"connecting"} ELSE {})
    ELSE {"failed"}

Connect(non_blocking) ==
    /\ At(App, "idle") /\ connects < MaxConnects
    /\ direct \/ (connects = 0 /\ non_blocking)
    /\ connects' = connects + 1
    /\ IF Available # "AVAILABLE" THEN UNCHANGED <<lower, pending, thread, overlap>>
       ELSE \E outcome \in Outcomes(non_blocking) :
              IF outcome = "failed"
              THEN device' = Available /\ UNCHANGED <<socket, pending, thread, overlap>>
              ELSE /\ device' = "CONNECTED" /\ socket' = outcome
                   /\ pending' = IF subscribed /\ outcome = "connected"
                                 THEN pending \o Reported(outcome, Interest) ELSE pending
                   /\ IF non_blocking THEN Goto(App, "mark") ELSE UNCHANGED <<thread, overlap>>
    /\ UNCHANGED <<connection, direct, unasked, expired, subscribed>>

Mark ==
    /\ At(App, "mark")
    /\ inProgress' = TRUE
    /\ SetState(App, "CONNECTING", "marked")
    /\ UNCHANGED <<state, told, lower, history, subscribed, pending>>

\* Connector2 subscribes only now, and is told at once of a socket that is ready.
Marked ==
    /\ At(App, "marked")
    /\ Goto(App, "idle")
    /\ pending' = IF direct THEN pending ELSE Reported(socket, Interest)
    /\ UNCHANGED <<connection, lower, history, subscribed>>

\* An application that connects by itself may have subscribed before.
ListenerSubscribe ==
    /\ direct /\ ~subscribed /\ ~expired /\ At(App, "idle") /\ socket # "closed"
    /\ subscribed' = TRUE
    /\ pending' = Reported(socket, {In, Out} \cup Unasked)
    /\ Goto(App, "subscribing")
    /\ UNCHANGED <<connection, lower, history>>

\* The endpoint knows its id, m_listener_sub_id, when the reactor has answered.
SetListenerId ==
    /\ At(App, "subscribing")
    /\ Goto(App, "idle")
    /\ UNCHANGED <<connection, lower, history, subscribed, pending>>

-----------------------------------------------------------------------------
(* disconnect: of the device, and then of the endpoint. *)

Owns == direct \/ subscribed

Disconnect ==
    /\ At(App, "idle") /\ Owns
    /\ Goto(App, "check")
    /\ UNCHANGED <<connection, lower, history, subscribed, pending>>

MayClose == device = "CONNECTED"

CheckConnected(t) ==
    /\ At(t, "check")
    /\ Goto(t, IF MayClose THEN "close" ELSE "idle")
    /\ UNCHANGED <<connection, lower, history, subscribed, pending>>

\* Closing takes the descriptor out of epoll; what was reported stays queued.
CloseDevice(t) ==
    /\ At(t, "close")
    /\ IF socket = "closed" THEN Goto(t, "idle") /\ UNCHANGED lower
       ELSE /\ socket' = "closed" /\ device' = "DISCONNECTED"
            /\ SetState(t, "DISCONNECTED", "idle")
    /\ UNCHANGED <<connection, history, subscribed, pending>>

\* ConnectionPolicy::shutdown, of the device alone.
shutdown ==
    /\ At(App, "idle") /\ Owns /\ socket \in {"connected", "ended"}
    /\ device' = "SHUTDOWN"
    /\ UNCHANGED <<connection, socket, history, subscribed, pending, thread, overlap>>

-----------------------------------------------------------------------------
(* The kernel's socket and its peer; what they do is reported to whoever   *)
(* has a subscription.                                                     *)

Watched == subscribed \/ (~direct /\ connects > 0 /\ At(App, "idle"))

Happens(from, to) ==
    /\ socket = from
    /\ socket' = to
    /\ pending' = IF Watched THEN pending \o Reported(to, Interest) ELSE pending
    /\ UNCHANGED <<connection, device, history, subscribed, thread, overlap>>

Established == Happens("connecting", "connected")
Rejected == Happens("connecting", "failed")
PeerCloses == Happens("connected", "ended")
PeerResets == Happens("connected", "failed")

\* Bound: it sends when nothing is pending.
PeerSends ==
    /\ socket = "connected" /\ subscribed /\ pending = <<>>
    /\ pending' = Delivered({In, Out} \cap Interest)
    /\ UNCHANGED <<connection, lower, history, subscribed, thread, overlap>>

-----------------------------------------------------------------------------
(* The event-processing thread, in the order in which events come. *)

Take(events) ==
    /\ At(Ev, "idle") /\ ~At(App, "subscribing") /\ pending # <<>>
    /\ Head(pending) \in events /\ pending' = Tail(pending)

\* Until the endpoint knows its id, what is reported finds no context, and is lost;
\* or no handler, or an endpoint that takes it for another's, and its context expires.
RefuseUnknownId ==
    /\ At(Ev, "idle") /\ At(App, "subscribing") /\ pending # <<>>
    /\ pending' = <<>>
    /\ expired' \in BOOLEAN /\ subscribed' = ~expired'
    /\ overlap' = TRUE
    /\ UNCHANGED <<connection, lower, direct, connects, unasked, thread>>

\* Of Connector2: the pending endpoint is completed, subscribed and handed over,
\* or destroyed, and what else was reported to the first subscription is lost.
Complete ==
    /\ ~Owns /\ At(Ev, "idle") /\ pending # <<>> /\ Head(pending) = Out
    /\ pending' = <<>>
    /\ Goto(Ev, "onConnected")
    /\ UNCHANGED <<connection, lower, history, subscribed>>

Destroy ==
    /\ ~Owns /\ At(Ev, "idle") /\ pending # <<>> /\ Head(pending) \in {In, Err, Hup, Shutdown}
    /\ pending' = <<>>
    /\ socket' = "closed"
    /\ UNCHANGED <<connection, device, history, subscribed, thread, overlap>>

\* onConnected marks the end of a connection in progress.
Connected == IF Owns THEN "idle" ELSE "subscribe"

OnConnected ==
    /\ At(Ev, "onConnected")
    /\ IF inProgress THEN /\ inProgress' = FALSE /\ SetState(Ev, "CONNECTED", Connected)
                     ELSE Goto(Ev, Connected) /\ UNCHANGED inProgress
    /\ UNCHANGED <<state, told, lower, history, subscribed, pending>>

SubscribeItself ==
    /\ At(Ev, "subscribe")
    /\ Goto(Ev, "idle")
    /\ subscribed' = TRUE
    /\ pending' = Reported(socket, {In} \cup Unasked)
    /\ UNCHANGED <<connection, lower, history>>

AnyOutput ==                          \* mutant: the state is not asked
    /\ Owns /\ Take({Out})
    /\ Goto(Ev, "onConnected")
    /\ UNCHANGED <<connection, lower, history, subscribed>>
OutputEvent ==
    /\ Owns /\ Take({Out})
    /\ IF state = "CONNECTING" THEN Goto(Ev, "onConnected") ELSE UNCHANGED <<thread, overlap>>
    /\ UNCHANGED <<connection, lower, history, subscribed>>

ErrorEvent ==
    /\ Owns /\ Take({Err})
    /\ IF state = "CONNECTED" THEN SetState(Ev, "DISCONNECTING", "check")
                              ELSE UNCHANGED <<thread, overlap>>
    /\ UNCHANGED <<connection, lower, history, subscribed>>

\* A hang-up, and input: recv answers what it has, or 0, of a broken socket too.
Ignored ==
    /\ Owns /\ Take({Hup, In})
    /\ UNCHANGED <<connection, lower, history, subscribed, thread, overlap>>

\* The callback runs before the state is looked at.
Disconnection ==
    /\ Owns /\ Take({Shutdown})
    /\ told' = told + 1
    /\ unasked' = TRUE
    /\ IF state # "DISCONNECTED" THEN SetState(Ev, "DISCONNECTED", "idle")
                                 ELSE UNCHANGED <<thread, overlap>>
    /\ UNCHANGED <<state, inProgress, lower, direct, connects, expired, subscribed>>

-----------------------------------------------------------------------------
EndpointInit ==
    /\ state = "AVAILABLE" /\ inProgress = FALSE /\ device = "AVAILABLE" /\ socket = "new"
    /\ direct \in BOOLEAN /\ subscribed = FALSE /\ expired = FALSE /\ pending = <<>> /\ told = 0
    /\ thread = [t \in {App, Ev} |-> Idle]
    /\ connects = 0 /\ overlap = FALSE /\ unasked = FALSE

DisconnectStep(t) == CheckConnected(t) \/ CloseDevice(t)
StateStep(t) == ReadOldState(t) \/ WriteState(t)

AppStep ==
    \/ \E non_blocking \in BOOLEAN : Connect(non_blocking)
    \/ Mark \/ Marked \/ ListenerSubscribe \/ SetListenerId \/ Disconnect \/ shutdown

EvStep ==
    \/ Complete \/ Destroy \/ OnConnected \/ SubscribeItself
    \/ OutputEvent \/ Ignored \/ ErrorEvent \/ Disconnection \/ RefuseUnknownId

PeerStep == Established \/ Rejected \/ PeerCloses \/ PeerResets \/ PeerSends

EndpointNext ==
    \/ AppStep \/ EvStep \/ PeerStep
    \/ \E t \in {App, Ev} : DisconnectStep(t) \/ StateStep(t)

EndpointSpec == EndpointInit /\ [][EndpointNext]_endpointVars

-----------------------------------------------------------------------------
(* Properties *)

Settled == At(App, "idle") /\ At(Ev, "idle")

\* TransportEndpoint::setState, ClientCallbackPolicy::disconnect: a device that was
\* disconnected belongs to an endpoint that is, an endpoint that says that it is
\* connected has a device that is, and none stays between the two, unless the
\* application and the reactor were in the endpoint at the same time.  A device
\* that was shut down cannot be disconnected any more.
StateFollowsDevice ==
    Settled /\ ~overlap =>
        /\ device = "DISCONNECTED" => state = "DISCONNECTED"
        /\ state = "CONNECTED" =>
               device \in {"CONNECTED", "SHUTDOWN"} /\ socket \notin {"new", "closed"} /\ ~inProgress
        /\ state = "DISCONNECTING" => device = "SHUTDOWN"

\* TransportEndpoint::setState, onDisconnection: whatever the interleaving, no
\* endpoint becomes disconnected without its client being told; without a hang-up it
\* is told once; and an endpoint whose peer is gone does not go on as connected when
\* everything that was reported has been handled, unless application and reactor were
\* in it at the same time: of what comes while it subscribes it is told nothing.
EndIsTold ==
    Settled =>
        /\ state = "DISCONNECTED" => told > 0
        /\ ~unasked => told <= 1
        /\ socket \in {"ended", "failed"} /\ pending = <<>> /\ subscribed /\ ~overlap =>
               state # "CONNECTED"
=============================================================================
