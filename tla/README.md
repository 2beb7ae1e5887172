# A TLA+ verification project for IPCInfra

IPCInfra is a C++17 library for inter-process communication on Linux: devices (sockets, named pipes, files)
assembled from policies, transport endpoints built on devices, and a reactor that waits for the descriptors with
epoll and runs the endpoints' handlers. This directory holds TLA+ modules that model the parts of it with state
and concurrency, and the pure algorithms around them, TLC configurations that check them on small instances, and
proofs of their main invariants for TLAPS. Paths below are relative to `src/`; `Reactor.hpp` and the like are
under `TransportInfra/`, `LinuxIOUtilities` under `UtilitiesInfra/`.

## 1. The system

| Component | State | Operations | Who calls it |
|---|---|---|---|
| `Reactor` (`Reactor/Reactor.hpp`) | `m_subscribers_table` (id to context), `m_handlers_table` (id to handler and its `in_progress`), `m_event_queue`, two threads, `m_reactor_running` | `start`, `stop`, `clear`, `subscribe`, `unsubscribe`, `cleanupExpired`, `eventProcessingThread` | application threads; the handlers themselves, on the event-processing thread |
| `EpollDemultiplexer` | the epoll descriptor with its interest list, `m_handle_id_map`, `m_monitoring_ended` | `registerListener`, `unregisterListener`, `updateListener`, `monitorWaitThread`, `stopMonitoring` | the reactor |
| `shared_lookup_table`, `shared_queue` | a map or vector, a queue, each under its own mutex | add or update, remove, remove_if, value_for; push, wait_and_pop | the reactor, the demultiplexer |
| Event types (`Reactor/EventTypes.h`) | none | masks to event arrays, `sortByPriority` | the event-processing thread |
| `Connector2`, `Acceptor` over `EndpointConnectionInitialiserBase` | `m_active_subscriptions` (id to endpoint and completion callback) | `setup`, `handleEvent`, completion | application threads; the reactor |
| `TransportEndpoint` and its policies (`Policies/EventHandlingPolicy`, `DispatcherPolicy`, `ServerCallbackPolicy`, `ClientCallbackPolicy`, `EndpointStorage`) | subscriber id, device, connection state, callbacks, client endpoints, first-message buffer | `bind`, `listen`, `accept`, `connect`, `disconnect`, `send`, event handlers, callback registration | initialisers, clients, the reactor |
| Device policies (`AcceptorPolicy`, `ConnectionPolicy`, `StreamIOPolicy`, `FifoIOPolicy`) | the state of a socket or pipe | thin layers over system calls | endpoints |
| `UnixResourceHandler` | one descriptor, `m_open` | acquire, release, close, duplicate, move | devices |
| Devices: sockets, pipes, files | a handler, a name, a state | open, close, remove, copy, save, seek | endpoints, clients |
| `LinuxIOUtilities` | none | loops over partial reads and writes; creation, opening and removal by name | I/O policies, devices |
| `Observable`, `ObservableStatePublisher` | a value; observers under a mutex; one static counter | assign, notify, add and remove observers | devices' policies |
| Configuration (`ConfigurationReader`, `ConfigurationBook`) | a parsed file under a mutex | init, `valueFor`, `collectionFor` | clients, at construction |
| Type selection (`transport_traits`, `runtime_dispatcher`, `DeviceTypeSelector`, the type lists) | none | from a configuration section to a device tag, an endpoint type and the calls through them | `ConnectorClient`, `AcceptorClient` |
| File information, status flags, permissions, resource status | a copy of the kernel's masks | get, set, clear | files, clients |
| Addresses | an address as text and as the system's structure | set, get, compare, print, parse | sockets, clients |
| `Driver/` | none | demonstrations; compile-time assertions about the type lists | nobody |

How they interact. A client reads its section of the configuration, which selects a device type and through it
an endpoint type, and calls `setup` of a Connector or an Acceptor. That makes an endpoint with its device,
starts to connect or to listen, and subscribes the descriptor for *itself*. The demultiplexer's thread waits in
`epoll_wait`, edge-triggered, and pushes one notification per ready descriptor. The event-processing thread pops
a notification, looks the id up, marks the handler in progress, turns the mask into events, sorts them and calls
the handler with each. The initialiser's handler decides about the connection: it unsubscribes the descriptor,
lets the endpoint subscribe it, gives the endpoint to the client's completion callback and forgets it. From
there on the endpoint's own handler reads what arrives and gives it to the client's input callback; a server's
endpoint accepts, makes one endpoint per client, stores it, and destroys it from that endpoint's own
disconnection callback. All of this runs on the event-processing thread, while `setup`, `connect`, `disconnect`,
`subscribe` and `unsubscribe` may be called on any thread.

What is hard, and what makes each part correct:

* **Reactor.** Each table operation has its lock and no two of them share one; contexts and masks are copied and
  written back. Correct means: a handler is not freed while it runs, a live subscription is not lost, nothing of
  a dead one is left, no handler runs after its unsubscribe, no deadlock of the two nested locks, and edges
  (which come once) are served.
* **Start and stop.** Two threads that end for different reasons, a sentinel in a queue that is still being
  filled. Correct means: stop drains, silences and returns.
* **Initialisers.** A hand-over of a descriptor from one handler to another in the middle of a dispatch,
  descriptors whose numbers are used again at once, and a map without a lock. Correct means: every setup that
  returned true can be answered and is answered once, by its own connection.
* **Named-pipe server.** A first message that arrives before its callback, an edge-triggered pipe that leaves
  the epoll set for a moment, and a read loop that tells "no more data" from a short read. Correct means: every
  byte reaches the client once, in order.
* **Socket server.** Endpoints that are destroyed by their own handlers with events left, one accept per edge.
  Correct means: storage, endpoints and reactor agree; nobody is told of another's end.
* **Client endpoint.** Two states, of the endpoint and of its device, that two threads change without a lock.
  Correct means: they agree when nothing is under way, and every end is told.
* **Descriptors.** A `close` that keeps the number, and many second closes. Correct means: nobody closes what is
  another's, and nothing open is forgotten.
* **Names.** Several system calls per operation on a name that others change. Correct means: no descriptor is
  left open behind a FALSE, and what somebody serves can be found.
* **I/O loops and publishers.** Partial results; observers that come and go during a notification.

`PROJECT.json` lists each of these at its line under "hazards", with the properties that cover it.

## 2. Modules

| Module | Models | Checked by | Proved in |
|---|---|---|---|
| `Reactor` | subscription and dispatch: Reactor, its tables, epoll set and queue | `MCReactor`: `ReactorWindows`, `ReactorLive` | `ReactorProofs` |
| `HandlerService` | abstract: what a dispatcher promises | as the property `KeepsItsPromise` of `Reactor` | `ReactorProofs` |
| `ReactorLifecycle` | start, stop, clear and both threads | `MCReactorLifecycle`: `Lifecycle` | `ReactorLifecycleProofs` |
| `EventTypes` | masks, events and their order, as pure operators | `MCClient`; used by the next three | |
| `ConnectionSetup` | Connector2 and Acceptor over an abstract reactor | `MCConnectionSetup`: `ConnectionSetup` | `ConnectionSetupProofs` |
| `ServerClients` | the endpoints that a socket server makes, stores and destroys | `ServerClients` | `ServerClientsProofs` |
| `ClientEndpoint` | one client endpoint, its device and socket, between two threads | `MCClient`: `Client` | `EndpointProofs` |
| `PipeServer` | the input path of a named-pipe server | `PipeServer`, `PipeFirstMessage` | `EndpointProofs` |
| `DescriptorOwner` | `UnixResourceHandler` and the devices' use of it | `MCDescriptorOwner`: `DescriptorOwner` | `DescriptorOwnerProofs` |
| `StreamLoops` | the reading and writing loops | `StreamLoops` | `LinuxIOProofs` |
| `FileOpening` | creating, opening, removing and copying by name | `FileOpening` | `LinuxIOProofs` |
| `StatePublisher` | observables and their publishers | `StatePublisher` | `StatePublisherProofs` |
| `LookupTable`, `TableCalls` | the two lookup tables: operators, and both given the same calls | `MCClient`: `Client` | `ReactorProofs` |
| `Addresses`, `AddressCalls` | addresses: operators, and network addresses that are set | `MCClient`: `Client` | `EndpointProofs` |
| `FileStatus`, `FileStatusCalls` | what is kept of a file: operators, and a file whose flags and permissions are set | `MCClient`: `Client` | `LinuxIOProofs` |
| `ConfigurationTable`, `TypeLists`, `RuntimeDispatch` | sequential code, as pure operators | `MCClient`: `Client` | |

The reactor is modelled in detail in `Reactor`. The modules that build on it (`ConnectionSetup`,
`ServerClients`) have it reduced to what that module shows: a context that is absent, live or expired, a
handler, an interest.

### Reactor

`call[p]` holds the step and the locals of the `subscribe`, `unsubscribe` or `cleanupExpired` that thread `p`
executes, `loop` those of `eventProcessingThread`. There is one action per lock section, named after what the
section does: `Lookup`, `CheckBusy`, `Insert`, `Update` or `Register`, `Confirm`, `Rollback` and `AddHandler`
are `subscribeImpl` and `addHandlerInTable`; `Find`, `Unregister`, `RemoveMapping`, `DropHandler` are
`unsubscribe`; `CleanupBegin` to `CleanupDone` are `cleanupExpired` over `remove_if`, with the scan that holds
the subscribers' table (`tableLock`) and the static `removed_keys` that all threads share; `LoopLookup`, `Mark`,
`WriteBack`, `HandleEvent` and so on are the event loop, which works on a copy of the context. A handler is a
nondeterministic choice: it returns, answers INVALID_REFERENCE, or makes calls of its own, during which `loop`
waits.

Ids are handles: libstdc++'s `std::hash<int>` is the identity, so descriptor 0 has the id `NULL_SUBSCRIBER_ID`
(`NullHandle`).

`held` and `excused` are history variables. A handle becomes excused when one of three windows of the code hits
it: an edge dispatched between `EPOLL_CTL_ADD` and `addHandlerInTable`; a handler that answers
INVALID_REFERENCE; a subscribe that stores its context although the table has a handler for the id already. The
windows are behaviour of the code and are in the model. The properties say that nothing *else* goes wrong. Each
window is needed: without it TLC refutes `LostOnlyInWindows` or `NothingLeftBehind`.

`HandlerService` is the abstract specification: a dispatch begins on a granted handle only, and once its
revocation is complete none begins.

### ReactorLifecycle

The owner's `start`, `stop` and `clear` as a sequence of steps (`Start`, `SpawnWorker`, `SpawnMonitor`,
`MarkRunning`; `Stop`, `CheckRunning`, `PushLast`, `JoinMonitor`, `JoinWorker`, `MarkStopped`; `Clear`), the
demultiplexer's thread (`EpollWait`, `TimeOut`, `Push`) and the event loop (`LeaveOnLast`, `Dispatch`,
`Discard`, `Complete`). The kernel's ready list is first in, first out and `epoll_wait` takes at most
`MaxEpollEvents` from it.

### EventTypes

`Passed` is the demultiplexer's rule that a hang-up gives way to input, `getEventsFromMask` the array with one
place per event, `Before` the comparator of `sortByPriority`. The comparator answers true both ways for some
pairs (everything is "before" SHUTDOWN, SHUTDOWN is before what is smaller), so `std::stable_sort` promises
nothing and the outcome is that of its algorithm: for six elements and a buffer, libstdc++ sorts the halves by
insertion and merges them (`Inserted`, `Merged`). The operators were compared with the compiled function for all
64 masks. The outcome is worth knowing: SHUTDOWN, HUP, OUT, IN come in this order, but **ERR comes behind OUT
and IN** unless SHUTDOWN and HUP are both set, although the comparator names ERR specially.

### ConnectionSetup

`role` says which initialiser it is. `phase[s]` follows a call of `setup` from `OpenDevice` (factorEndpoint and
connect, or bind and listen) through `Subscribe`, `AddHandler` and `StoreEntry` to its completion. `ConnectPipe`,
`AddPipeHandler`, `SetListenerId` and `CallBack` are the connector's path for a named pipe, whose connect succeeds
or fails at once: `setup` itself subscribes the endpoint, in `listenerSubscribe`, and then calls back. These
steps run on application threads. The event-processing thread runs `Pop`, then for each event of the notification
`Succeed` (unsubscribe, listenerSubscribe, callback, erase), `Fail`, `Complete` and `Erase` (unsubscribe,
destroy the endpoint, callback, erase), `FailToAccept`, `Undecided`, `InvalidReference`, or `HandleByEndpoint`
when the endpoint has taken the descriptor over. While a pipe's endpoint has its handler in the reactor but not
yet its id (`EventHandlingPolicy.hpp:65-68`), it answers INVALID_REFERENCE to what is dispatched
(`RefuseUnknownId`), and its subscription expires. `Destroy` is the client giving its endpoint up. The kernel may
give a closed descriptor's number to the next `OpenDevice` while old notifications name it.

Four windows are excused: an edge before handler and entry, or handler and listener id, are there; a number given
anew too early; a failed accept; a refused listenerSubscribe. Again each is needed; TLC finds a counterexample
without it. Clients are
assumed not to destroy an endpoint while its own events are being delivered.

The connector's test `enum_flag(event) & (ERR | HUP)` treats the event *numbers* as bits: IN (1) and SHUTDOWN
(6) share bits with 5 and count as failures too, PRI (2) does not. The model has the test as it is (`Verdict`).

### ServerClients

`peer`, `backlog`, `ready` and `watched` are the kernel; `storage` is the server's `EndpointStorage`, with one
place (`"single"`, where a new client's endpoint replaces the old one) or one per descriptor (`"associative"`),
`endpoint` and `fd` the endpoints that `accept` made, `context` and `handler` the reactor. All of the server
runs on the event-processing thread, so one event is one step: `Accept` (accept4, endpoint, subscription,
storage, callback), `Refuse`, `InputEvent`, `Disconnect`, which erases the endpoint whose handler is running,
`CallDestroyed`, the events that are left for it, and `AcceptFails`, where the value of an empty optional is
taken (`AcceptorPolicy.hpp:124`) and the process ends. There is no action for an error event of a living
endpoint: SHUTDOWN always comes with it and first, and destroys the endpoint.

### ClientEndpoint

`state` is `TransportEndpoint`'s connection state, `device` that of the socket device, `socket` the kernel's.
`setState` is two steps (`ReadOldState`, `WriteState`) because no lock covers them, `connect` three (`Connect`, `Mark`,
`Marked`), `disconnect` `CheckConnected` and `CloseDevice` after a `setState`. The application connects by
itself (`direct`) or through Connector2, which hands the socket over. If it connects by itself it also subscribes
on its own thread (`ListenerSubscribe`, `SetListenerId`): what the reactor takes out in between is lost, and may
leave the subscription expired (`RefuseUnknownId`, `expired`). Input never ends a connection by itself: `recv`
of a broken socket answers what it has, or 0, and no error. Some outcomes the model shows and the
properties leave room for: on SHUTDOWN the disconnection callback is called twice (`TransportEndpoint.hpp:210`
and `:246`); an OUT that is handled between `device.connect` and `setState(CONNECTING)` is lost; an ERR while
CONNECTING is ignored; a blocking connect sets no state at all; a disconnect on the application's thread that
meets one for an error event may leave DISCONNECTING for ever (`overlap`).

### PipeServer

Bytes are numbers in the order of writing, so a stream is preserved when the concatenation of what was
delivered, stored and buffered with the pipe's content is `1..put`. `Accept` is the Acceptor's first edge;
`Read` is one `::read` of the loop in `LinuxIOUtilities::read`, `Process` the rest of `ProcessInputEvent`,
`Subscribe` the endpoint's own subscription and `RegisterCallback` the registration in the completion callback
(`AcceptorClient.h`), which takes over what `LocalInputBuffer` holds. The writer writes any number of bytes,
closes and opens its end at any step. A write into an empty pipe is an edge, one into a pipe with data may be
(Linux versions differ). `epoll_wait` polls the pipe again, so one that was emptied meanwhile is not reported.

### DescriptorOwner

`entry` is the kernel's table of descriptors; what is opened gets an entry number of its own, so that two uses
of one descriptor number can be told apart. `handle` and `open` are `m_handle` and `m_open`; `own[h]` is
history, the entry that came with the handle. A call is its sequence of steps, one per system call or assignment
of the handle: copy assignment is `<<"close", "dup", "acquire">>`, `accept` `<<"accept", "open", "acquire",
"recall", "acquire">>`, since the new device has made a socket of its own before the peer's replaces it.
`Closes` leaves the number in the handler, as `close` does (`UnixResourceHandler.cpp:92`). The kernel gives the
lowest free number, so a number closed by one thread goes to the next opener of another.

### StreamLoops

One action per call of `::read`, `::recv`, `::write` or `::send`, with any portion the kernel may give or take,
blocking or not, and a regular file. `CallTakes` says by operation what the loop does with a portion. `recv` with
MSG_WAITALL (`LinuxIOUtilities.hpp:54-64`) has its length after the first call and goes on into the loop, where
`recvInBuffer` returns: the model has it so, and it drops what it then reads.

Two calls write where they must not, and `undefined` says that one did; nothing is known of the program from
there, so nothing follows in the model. `recv` passes its length on to `::recv`, and
`GenericIOPolicy::read` makes that `result.max_size()`, for a buffer of READ_BUFFER_SIZE: with more waiting,
`TakeOverruns`. `read` of a file takes one from the size of its result, which is 0 when nothing is left and the
caller's string is empty: `ReadOfNothing`. A file may be empty, be read again at its end, and be read into a
string that is not empty. `NothingLost` says that these are the only two ways into such a state.

### FileOpening

`opener[a].at` is the next system call of process `a`, in `NamedPipeDevice::openPipe`,
`FileDevice::openFileImpl` with `openNewFile`, `openExistingFile`, `copyTo` and `saveAs`, `TemporaryFileDevice`,
or a UNIX server's `bind` and destruction. `name` has the two names they use, `inode` what each inode is.
`removed` and `disturbed` are history. Outcomes that the model shows and the properties name as exceptions: a
non-blocking writer's ENXIO leaves the fifo it made; a server whose bind failed removes the living server's path
(`AcceptorPolicy.hpp:174, 188-202`); a copy whose new file cannot be opened leaves its source open
(`LinuxIOUtilities.cpp:249-253`); the maker of a fifo unlinks whatever has the name by then.

### StatePublisher

`Assign`, `Hook`, the copy of the delegates under the lock and the calls without it; `Increment`, `Emplace` and
`Return` of an addition, because the number comes from a static counter that every publisher of the type
increments under its own lock. `Without` is `std::remove_if`: what stays is listed by its index, the k-th of
the places that stay, rather than by a recursion, so that it can be reasoned about. `Erased` then erases one
element, as `m_delegates.erase(it)` does, however many were moved away.

### Sequential code: LookupTable, Addresses, FileStatus, ConfigurationTable, TypeLists, RuntimeDispatch

Each translates its functions one by one, as pure operators. Where objects keep a state between calls, a module
beside it has that state as variables and an action per operation: `TableCalls` gives a table over an
`unordered_map` and one over a sorted vector the same calls, with a step for each key that `remove_if` removes
and for each that a subsection is asked of; `AddressCalls` sets network addresses of several holders from texts,
bytes and printed addresses; `FileStatusCalls` sets the flags and permissions of an open file, of which the
kernel may refuse some. Nobody else changes the file's flags meanwhile, and a client removes a key that the table
has, or any from an empty table: both are what the code counts on.

The loops of the configuration's parser and the template recursions are recursive operators; `MCClient` applies
them to every input of a small set, and compares the results with definitions that say what is meant. In its
behaviours only one part of the client is active, so that no product of their states arises.

The results that surprise: the dispatch by mapped
tags goes on with the dispatch by *index* (`runtime_dispatcher.hpp:133`), so in a set of several devices a tag
may reach another type or none; `registerDisconnectionCallback` through a dispatcher answers FALSE whatever it
did (`DispatcherPolicy.hpp:211-215`); a domain IPv6 is mapped to the tags of IPv4 (`ConnectorClient.cpp:43-51`);
text that is no address makes an address that counts as valid; a second `init` of a configuration loses its
table, and an empty section counts past the end; the copy assignments of `shared_lookup_table` lock both mutexes
and unlock neither (`shared_lookup_table.hpp:157, 168, 290, 301`), which `LookupTable` has as `locked`; the
vector's removal of a missing key erases `end()` (`:350`), which has a predicate of its own there.

## 3. What is checked

| Run | Instance | Distinct states | Shows |
|---|---|---|---|
| `reactor_windows` | handles 0 and 1, 1 application thread and the handlers, 4 calls, 2 waits, one call per handle at a time | 941 thousand | `LostOnlyInWindows`, `NothingLeftBehind`, and the refinement `KeepsItsPromise` |
| `reactor_live` | 1 handle, 1 application thread and the handlers without discipline, 3 calls, 2 waits, 2 events | 27 thousand | `HandlerPinned`: the handler that runs is in the table and marked, and no mark stays; `CallsReturn` (no deadlock of the nested locks), `EdgesServed` |
| `lifecycle` | 2 handles, batches of 1, 3 queued, 4 calls | 9.7 thousand | `DrainedByStop`, `SilentWhenStopped`, `StopReturns`, `EdgesDispatched` |
| `connection_setup` | both roles; 2 setups, 2 descriptor numbers; connector: 2 notifications with any mask; acceptor: 3 with a listener's | 1.04 million | `WaitingIsArmed`, `AnsweredOnce`, `ClosedIsForgotten`, `HandedOnOwnSuccess`, `PendingIsAnswered` |
| `pipe_server` | read buffer of 2, pipe of 5, 6 bytes, 2 closes | 31 thousand | `StreamPreserved`, `NothingUnannounced`, `BytesTaken` |
| `pipe_first_message` | the same | | a violation, see below |
| `server_clients` | 2 clients, 2 numbers, both storages | 209 thousand | `StorageIsSubscribed`, `EndIsItsOwn`, `LeftBehindByMerging`, `EndIsNoticed` |
| `descriptor_owner` | 3 handlers, 2 threads, 3 numbers, 5 entries, 5 calls, symmetry | 712 thousand | `OwnStaysOpen`, `NothingLeaked`, `SharedOnlyAfterClose` |
| `stream_loops` | read buffer of 2, kernel's buffer of 3, 5 bytes, lengths up to 6 | 2.63 million | `NothingLost`, `LinesInOrder` |
| `client` | 2 connects; 3 keys and 2 values in two tables; 3 addresses; one file; and every input of a small set for each recursion | 59 thousand | `StateFollowsDevice`, `EndIsTold`; `CallsArrive`, `AddressesKeepTheirMeaning`, `ConfigurationIsReadBack`, `StatusIsTheFiles`, `TablesAgree`, `EndsComeFirst` |
| `file_opening` | 3 processes, 3 inodes | 2.64 million | `DescriptorsAccounted`, `NamesAreFound`, `OwnFileAnswered` |
| `publisher` | 2 threads, 2 observers, 2 publishers, 2 values, 2 assignments | 863 thousand | `ObserversKnowTheState`, `OwnNumber` |

Why the bounds suffice. Races in the reactor are about one id: its context, its handler, its interest and one
copy of its context in the event loop. An application thread and a handler that calls give two concurrent calls
beside the loop, and three or four calls let subscribe, unsubscribe and subscribe again meet a stale copy; two
waits let one notification be queued while another is dispatched. A second id matters through cleanups, which
visit every entry, and through descriptor 0: that is `reactor_windows`. Its properties were also checked by hand
with two application threads and three calls, and with two ordinary handles, four calls and one wait;
`HandlerPinned` is proved for every instance. In `lifecycle`, four calls reach start, stop, start, stop, and
batches of one make `epoll_wait` leave a ready handle behind. In the initialisers' run two setups with two
numbers reach both a number given anew and two setups side by side, and two notifications are a stale one and
one's own. In `pipe_server` six bytes are three full read buffers, or full ones next to a short one, on either
side of the first message. Two clients and two numbers let a client's number go to the next while notifications
of it are queued, and let two connections share an edge. Three handlers are one that closes, one that is given
the number and one that is in the way; five calls end in a second close. Five bytes over a buffer of two are a
full one, a short one and the exact multiple that the loops stumble on. Three processes are one in whose way two
others change the name.

Every property is paired with a mutant of the modelled code (`PROJECT.json`, "mutants") that TLC refutes it for,
so none holds for want of interesting behaviour. The operators marked "mutant" in the modules serve this only.
`CHECK_DEADLOCK FALSE` stands where the bounds, or clients that have done all they want, let the system stop;
`reactor_live` and `reactor_windows` check for deadlock.

### A disagreement of code and comment

`pipe_first_message` checks what the comment on `LocalInputBuffer` says (`Policies/DispatcherPolicy.hpp:43-49`:
it makes the first message available to the clients of the class). TLC refutes it. If the first message is an
exact multiple of `READ_BUFFER_SIZE`, the read loop calls `::read` once more, gets EAGAIN and returns -1
(`LinuxIOUtilities.cpp:310-316`). `ProcessInputEvent` then passes nothing on, and the client that registers its
callback is called with nothing. The bytes stay in the endpoint and come with the next message, or never. The
theorem `OnlyFullBuffersAreKept` says that this is all that is kept back.

## 4. Fairness

* Reactor, lifecycle: weak fairness of each thread's next step. The threads run as long as the process and
  handlers return; clients are never obliged to call, nor descriptors to become ready. `StopReturns` takes as
  its premise that the descriptors become quiet, because the code looks at `m_monitoring_ended` at an idle
  timeout only.
* The kernel's ready list is first in, first out, as the kernel's is; it is not a fairness assumption but part
  of the state.
* ConnectionSetup: weak fairness of the event-processing thread only. `PendingIsAnswered` speaks of setups whose
  deciding notification is queued already.
* ServerClients: weak fairness of the event-processing thread, and of the report of each ready handle, since
  `epoll_wait` is called again as long as the reactor runs. Peers may do nothing.
* PipeServer: weak fairness of the two reactor threads; the writer may stop at any point.
* The other modules have safety properties only.

## 5. What is proved

For every set of handles, threads and descriptor numbers, every size of a batch, a read buffer and a pipe, and
every bound, from the named assumptions on the constants (`ThreadAssumption`, `AbsentAssumption`,
`BoundAssumption`; `HandleAssumption`, `SizeAssumption`; `SizesAssumption`, `BoundsAssumption`;
`NumbersAssumption`, `HandlersAssumption`; `NothingAssumption`; `NobodyAssumption`, `InitialiserAssumption`,
`RoleAssumption`; `HandlesAssumption`; `InitialAssumption`; `ThreadsAssumption`; `KeysAssumption`,
`TextsAssumption`, `OpenAssumption`, `FlagsAssumption`, `IndicesAssumption`), which say only that the special
values differ from the ordinary ones, that numbers and bounds are natural numbers, that there are two roles, and
that a read buffer holds at least one byte (for `StreamLoops` also that the kernel keeps at least one, and the
writer has one to write); that the keys of a table are ordered (as integers are), that texts are sequences of
numbers and the system's addresses of `WIDTH` of them, that an open file has one of three access modes and flags
that there are, and that the flags set are those that have a setter:

* `ReactorProofs`, first part: `TypeCorrect` and `HandlerStaysPinned`. The inductive invariant `IInv` adds to the types the
  event loop's locals: where it holds a copy, and that an entry is marked exactly between `Mark` and `Finish`.
  That is what lets `HandlerPinned` survive a removal or assignment by another thread, since `removeHandler` and
  `operator=` both leave a marked entry.
* `ReactorProofs`, second part: three theorems under `Disciplined` (no two calls about one handle overlap).
  `ReactorKeepsItsPromise` is the refinement of `HandlerService`. The types are not enough: a dispatch begins
  where a context and a handler meet, so the invariant `SInv` says when they can meet without a grant: never
  (`Unserved`), at any step of a subscribe that may still give up (`SubscribeKeeps`), before unsubscribe's last
  step (`AboutToDrop`), or between the event loop's lookup and its mark (`MarkJustified`). `NullBare` keeps
  descriptor 0, which never gets a handler, out of it. `SubscriptionsStayInForce` and `LeavesNothingBehind` are
  `LostOnlyInWindows` and `NothingLeftBehind`. Both speak of handles with no call under way, which says nothing
  of how they came there, so `WInv` says of every step of the one call what it finds of context, interest and
  handler (`InOrder`, `Midway`), that a scan under the table's lock looks at nothing that changes meanwhile
  (`ScanHolds`), and that cleanups take handlers away from excused handles only (`RemovedExcused`).
* `ReactorProofs`, third part: `TablesAgreeHolds`, for any ordered keys and any values, and tables of any size. The
  invariant `TablesInv` is that the sequence is strictly sorted and holds the pairs of the function (`SamePairs`),
  the last subsections of both too, and that the keys which a `remove_if` has left are still in the table. That
  the vector is strictly sorted is what makes its `remove_mapping` right, which erases one element wherever
  `std::remove_if` left the end: with a key twice an unspecified element would stay. The work is in
  `internal_sort`, given as any permutation without a descent: that there is one for a sorted sequence with one
  more pair behind it is shown by the least place whose key is greater (`CanBeSorted`), and that each such one
  has the same pairs, strictly sorted since the added key is new (`SortKeeps`).
* `ReactorLifecycleProofs`: `LifecycleTypeCorrect`, `StopDrains`, `StopSilences`, `LastEventIsConsumed`. The
  invariant `LInv` ties each of the owner's steps to where both threads can be, and places the one last event
  behind exactly the `owed` notifications.
* `EndpointProofs`, first part: `PipeServerTypeCorrect`, `StreamIsPreserved`, `NothingIsUnannounced`,
  `OnlyFullBuffersAreKept`. The invariant `PInv` says in every state who will still look at a pipe that is not
  empty (`Announced`), when `LocalInputBuffer` is empty for good (`HandedOverOnce`: else the bytes it holds
  would be overtaken by those a later edge delivers), and what the read loop's count says of the read buffer
  (`WholeBuffers`).
* `EndpointProofs`, second part: `StateFollowsDeviceHolds` and `EndIsToldHolds`, for any number of connects. Both
  properties speak of a settled client: no thread in a call and no end pending. How the two threads got out of
  their calls is what `ClientInv` has to remember: where each of them can be and to what end it sets the state
  (`Places`); that they are in the endpoint together only after `overlap` (`OneAtATime`); until then, what a
  thread may count on between its check and its act, e.g. that the device is still connected when CONNECTED is
  about to be written (`Alone`; `HandsOver` for an endpoint that Connector2 still has, which is never in two
  threads); that whoever is to write DISCONNECTED first finds nobody told, and that the old state a thread has
  read is from after the telling (`TellsOnce`); and that the end of a subscribed socket is in the pending
  events, or in the hands of the event thread, or told (`EndIsPending`), unless the threads overlapped, as when
  it is taken out before the endpoint knows its id. The latter needs what the sort does
  with a mask: it adds no event (`DeliveredFromMask`) and keeps SHUTDOWN (`DeliveredWhole`). These two are the
  theorems' hypotheses; they have no parameter, and `MCClient` assumes them, so that TLC evaluates all of them.
  The theorems are about `EndpointSpec`, the client alone; the run's module has the other parts beside it, which
  no action of the client reads.
* `EndpointProofs`, third part: `AddressesKeepTheirMeaningHolds`, for any number of holders, any texts and any
  bytes. The invariant is only the type of the addresses: the property is one of the operators, for every state
  of that type. Texts are ordered by the first place where they differ, or by which one ends first
  (`TextLessIs`); that there is such a place is again by a least element (`TextsTotal`), and transitivity compares
  two such places. The port decides between equal hosts, which carries the order over to `networkLess`. Swapping
  the order of the bytes twice changes nothing, for texts of any length (`Conversions`).
* `DescriptorOwnerProofs`: `DescriptorTypeCorrect`, `OwnedStaysOpen`, `NoDescriptorLeaks`,
  `SharedAfterCloseOnly`. No property is inductive. For the leaks the invariant has to leave out the numbers that
  a handler still carries but whose descriptor was closed to make room for another (`Tracked`, `Bears`): such a
  number may be given out again before the handler gets its new one. For ownership it has to say of handlers, of
  a number in hand and of the one that `accept` keeps that nobody else carries their number (`HandlerOwns`,
  `HandOwns`, `KeptOwns`): only then can no `close` of another reach the entry. Both rest on the order of the
  steps of a call (`Programs`, `InOrder`) and on no handler being in two calls (`Apart`). The last is a
  precondition of the model: two threads that use one handler at a time are a data race in the code. That no two
  handlers carry one number, as long as none was closed and lived on and calls come one at a time, follows from
  the kernel: the number of every handler is open and so given to nobody (`NoneStale`), but for the handler of
  the call under way, whose call will put another number there or end it (`Shut`).
* `LinuxIOProofs`, first part: three theorems, for any number of openers and inodes and whatever others do to the names
  between two system calls, each with an invariant of its own. For `DescriptorsAreAccounted` `IInv` says of each
  opener, by the call it makes next, what it has open before it: a call that opens finds nothing in `fd`
  (`EmptyHanded`), one that closes or goes on to work with it finds something there (`HandsFull`), and only a
  device that is to be opened again saves (`Saving`). Without that an open could overwrite a descriptor, and the
  count would not tell. For `OwnFileIsAnswered` `OwnInv` follows the file that a device made from the creating
  open to the answer: it is reached by the descriptor, then, with that closed, by the name alone, and its
  permissions are the ones asked for by then (`HasItsFile`); that no copy changes them back needs that a copy
  has its hands on files of the other name only. For `NamesCanBeFound` `FoundInv` says that only who made a pipe
  or a socket takes its name away (`Makes`, `Leads`), and that one who is blocked in the open of a pipe was not
  passed by anybody for the other side (`Blocked`, `CanBeMet`).
* `LinuxIOProofs`, second part: `NothingLostHolds` and `LinesInOrderHolds`, for any size of the buffers, any
  length of a call, any division into portions and any line ends. Both speak of a call that has returned;
  `LoopsInv` says of one under way what its result holds of what it took, as long as no call has written where it
  must not; from then on it keeps the properties and what the call was (`Beyond`). Per operation that is: everything
  (`Reads`, and `Lines` with no line end in it); for `recv`, everything while it goes on, which without
  MSG_WAITALL it does behind a full buffer only, and with it may count one byte less than it has, after the
  first call failed (`Receives`); for a buffer, everything while it fits, and a full buffer from then on
  (`Fills`); for `copyTo`, that the copied lines followed by the one under way rise through the bytes taken and
  leave out none before the first line end (`Copies`). The lemmas under it are about runs of consecutive bytes:
  that two runs join, what the front of one is, and what is before the first line end of one, which exists
  because a nonempty set of natural numbers has a least element.
* `LinuxIOProofs`, third part: `StatusIsTheFilesHolds`, for any sets of flags that the kernel refuses and any
  masks. `FileInv` keeps that the status belongs to a descriptor that is open, so that every setter reads back
  what the kernel has, whether it took the flag or not, and that the array of permissions is that of the mask.
* `ConnectionSetupProofs`: `WaitingStaysArmed`, `AnswersOnce`, `ClosedStaysForgotten` from the invariant `CInv`,
  and `HandsOverOnOwnSuccess` from `NInv`, from `NobodyAssumption`, `InitialiserAssumption` and
  `RoleAssumption`. `CInv` follows a setup's descriptor through the phases (`Stage`, `Told`); a
  pipe's counts as armed from the moment that its endpoint knows its id. What needs work is
  everything that one setup may do to another through a descriptor's *number*: that it is held by one setup
  unless it was given too early (`OneOwner`, `GivenTooEarly`), and that entries, handlers and interests are its
  holder's (`EntriesHeld`, `EndpointHandles`, `Watched`, `Remembered`). `NInv` is about the queue: whose
  notifications are in it and what the events that the loop has taken from one have decided. The action property
  has one hypothesis, `DeliveredInOrder`: what `sortByPriority` does with each of the masks that epoll can
  report. It has no constants and no variables, and `MCConnectionSetup` assumes it, so that TLC evaluates all of
  it; the sort itself is a fold over sequences that the prover cannot unfold.
* `ServerClientsProofs`: `ServerAgrees`, `StorageStaysSubscribed`, `MergedArrivalsStay`, `EndStaysItsOwn`, from
  `HandlesAssumption`. `StorageIsSubscribed` speaks of the moments between notifications; its invariant `Agree`
  has to say what storage, endpoints, numbers, contexts and handlers have to do with each other at all of them,
  also while the handler in progress is that of a destroyed endpoint, which the tables still name (`HandlerAt`),
  and `Waits` that a connection in the backlog waits once and has no endpoint that the single storage could
  drop. `MergedArrivalsStay` counts: `AcceptsAppended` and `AcceptsTaken` say how the number of queued edges of
  the listening socket changes with the queue, the latter with a bijection, and `Edges` that each is one event.
  For `EndStaysItsOwn` a notification is followed from the report to the handler: SHUTDOWN in it is that of its
  source (`Honest`), and its receiver is the source or excused (`Straight`). This theorem has one hypothesis,
  `DeliveredFromMask`: the recursive sort adds no event. It has no parameter, and `MCClient` assumes it, so that
  TLC evaluates all of it.
* `StatePublisherProofs`: `PublisherTypes`, `ObserversKnow`, `NumberIsOwn`, from `InitialAssumption` and
  `NobodyAssumption`. For the first property a list's observer either knows the state or is in the copy that the
  one assigning thread still works through (`Knows`). For the second, numbers in a list differ and were
  answered or are about to be (`Numbered`, `AddingAlone`, `GivenListed`). What `removeObserver` leaves of a list
  needs that the k-th place that stays exists and increases with k, for lists of any length: that is an
  induction over the natural numbers, done by a least counterexample (`Least`, from `NatLessThanWellFounded` and
  `WFMin`), because the library's induction theorem takes an operator.

`OnlyFullBuffersAreKept`, `LastEventIsConsumed` and the type invariants are stated by theorems only; no run
spends time on them. The invariants of `DescriptorOwner`, `FileOpening`, `ServerClients`, `ClientEndpoint`,
`StreamLoops`, `TableCalls` and `FileStatusCalls` were checked by TLC on the runs' instances before they were proved.

Only model-checked:

* Liveness (`CallsReturn`, `EdgesServed`, `StopReturns`, `EdgesDispatched`, `PendingIsAnswered`, `BytesTaken`,
  `EndIsNoticed`): the prover has neither fairness
  nor ENABLED.
* The properties of the operators that are recursive, which `MCClient` states of each input: `CallsArrive`,
  `ConfigurationIsReadBack`, `EndsComeFirst`. What they say is what a recursive definition computes (the
  recursions of the type lists and the dispatch, the parser's loop, the sort of the events) for every input: that
  is an induction over data, for which the library's theorems take an operator as a parameter, and the modules
  declare RECURSIVE operators or fold over sequences.

## 6. What is not modelled

* Moves and destructors of `Reactor` and `EpollDemultiplexer`; move operations of endpoints; destruction of a
  publisher, which nothing unhooks.
* What a program does after it has written beyond a buffer (`StreamLoops` ends there).
* Undefined behaviour of simultaneous accesses: the iteration of `removed_keys` while it grows,
  `m_active_subscriptions` and `m_listener_sub_id` from two threads, `operator[]` of the handlers' table during a rehash. The accesses
  themselves interleave in the models, one at a time.
* Level-triggering: `updateListener` (`EPOLL_CTL_MOD`) drops EPOLLET.
* `Connector`, the older form of `Connector2`, which only an alias and a demonstration in the driver name;
  `listen`, a precondition of the models; `shared_queue::try_pop`.
* Datagram sockets, `DatagramIOPolicy`, socket options: they pass their arguments to one system call.
* The splitting of path names and the names of temporary files; printing and streaming.
* A client that registers its pipe callback from another thread than the event-processing one, a data race with
  `ProcessClientInput`.
* The detection idioms and traits of the compile-time machinery, which leave no trace at run time; their
  outcomes are record fields in `RuntimeDispatch`.
* The driver's demonstrations (`main.cpp`, `transport.cpp`), which are clients without state of their own; the
  assertions of `meta.cpp` are in `TypeLists`.

## 7. What could follow

In this order, the most important first:

1. The reduced reactor of `ConnectionSetup` and `ServerClients` as one module, with `Reactor` shown to implement
   it as far as its windows allow.
2. `removeHandler` and `clear` among several owners (`Reactor.hpp:180`), if the reactor is ever to be cleared
   while clients subscribe.

Recursive definitions stay in modules that have no theorem.
