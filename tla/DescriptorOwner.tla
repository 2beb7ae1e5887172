--------------------------- MODULE DescriptorOwner ---------------------------
(***************************************************************************)
(* Who closes which descriptor: UnixResourceHandler through acquire, copy, *)
(* move, release, close and destruction, and the devices that use it.      *)
(*                                                                         *)
(* close leaves m_handle as it is, so that a handler goes on carrying a    *)
(* number it has closed, and closes it again when it is destroyed, assigned *)
(* to or given another one.  The kernel gives the lowest free number to    *)
(* whoever asks next.                                                      *)
(*                                                                         *)
(* One step is one system call or one assignment of the handle; a thread's *)
(* call is the sequence of its steps, and no two calls use one handler.    *)
(***************************************************************************)
EXTENDS Integers, Sequences

CONSTANTS
    Handlers, Threads,
    Numbers,        \* the descriptor numbers the process may have
    MaxEntries,     \* bound: how often the kernel gives out a number
    MaxCalls        \* bound: how many calls there are

None == -1          \* DEFAULT_VALUE

ASSUME NumbersAssumption == Numbers \subseteq Nat
ASSUME HandlersAssumption == None \notin Handlers
ASSUME BoundsAssumption == MaxEntries \in Nat /\ MaxCalls \in Nat

VARIABLES
    entry,      \* the kernel's table: [Numbers -> what is open there, 0 for nothing]
    entries,    \* how many entries it has had: each has a number of its own
    alive,      \* the handlers that are constructed and not destroyed
    handle,     \* m_handle
    open,       \* m_open
    own,        \* history: the entry that came with the handle; 0 if somebody else
                \* carried its number then, or it was closed already
    call,       \* [Threads -> the call under way]
    calls,      \* how many calls there have been
    closed,     \* history: some handler was closed and lived on
    overlapped  \* history: two calls were under way at a time

kernel == <<entry, entries>>
handlers == <<alive, handle, open, own>>
history == <<calls, closed, overlapped>>
vars == <<kernel, handlers, call, history>>

\* A call: its handler, the other one of a copy or move, the steps left, the
\* number in hand with its entry, and the one that accept4 gave.
NoNumber == [n |-> None, e |-> 0]
NoCall == [h |-> None, other |-> None, todo |-> <<>>, hand |-> NoNumber, kept |-> NoNumber]
Used(h) == \E t \in Threads : h \in {call[t].h, call[t].other}
Idle(h) == h \in alive /\ ~Used(h)

-----------------------------------------------------------------------------
(* The operations, as the steps they take *)

Begin(t, h, other, todo) ==
    /\ call[t] = NoCall /\ calls < MaxCalls
    /\ call' = [call EXCEPT ![t] = [NoCall EXCEPT !.h = h, !.other = other, !.todo = todo]]
    /\ calls' = calls + 1
    /\ overlapped' = (overlapped \/ \E u \in Threads : call[u] # NoCall)
    /\ UNCHANGED kernel

Construct(h, isOpen) ==
    /\ h \notin alive /\ ~Used(h)
    /\ alive' = alive \cup {h}
    /\ handle' = [handle EXCEPT ![h] = None]
    /\ open' = [open EXCEPT ![h] = isOpen]
    /\ own' = [own EXCEPT ![h] = 0]
    /\ UNCHANGED closed

\* A socket device makes its socket when it is constructed.
ConstructSocket(t, h) == Construct(h, FALSE) /\ Begin(t, h, None, <<"open", "acquire">>)

\* accept makes a device, whose own fresh socket the peer's then replaces.
Accept(t, h) ==
    Construct(h, FALSE) /\ Begin(t, h, None, <<"accept", "open", "acquire", "recall", "acquire">>)

CopyConstruct(t, h, other) ==
    /\ Idle(other) /\ handle[other] # None
    /\ Construct(h, open[other])
    /\ Begin(t, h, other, <<"dup", "acquire">>)

\* The moved-from handler carries nothing any more.
MoveConstruct(h, other) ==
    /\ Idle(other) /\ h \notin alive /\ ~Used(h)
    /\ alive' = alive \cup {h}
    /\ handle' = [handle EXCEPT ![h] = handle[other], ![other] = None]
    /\ open' = [open EXCEPT ![h] = open[other], ![other] = FALSE]
    /\ own' = [own EXCEPT ![h] = own[other], ![other] = 0]
    /\ UNCHANGED <<kernel, call, history>>

On(t, h, other, todo) == Idle(h) /\ Begin(t, h, other, todo) /\ UNCHANGED handlers

\* Assignment closes first, and to itself a copy does nothing more.
CopyAssign(t, h, other) ==
    /\ Idle(other)
    /\ On(t, h, other, IF h = other THEN <<"close">> ELSE <<"close", "dup", "acquire">>)
    /\ closed' = (closed \/ h = other)

MoveAssign(t, h, other) ==
    /\ Idle(other)
    /\ On(t, h, other, <<"close", "release", "acquire">>)
    /\ closed' = (closed \/ h = other)

\* disconnect of a socket, close of a pipe or a file.
Close(t, h) == On(t, h, None, <<"close">>) /\ closed' = TRUE

\* open of a pipe or a file asks first whether the number it has is open.
OpenDevice(t, h) == On(t, h, None, <<"probe", "openAt", "acquire">>) /\ UNCHANGED closed

Destroy(t, h) == On(t, h, None, <<"close", "gone">>) /\ UNCHANGED closed

\* connect after disconnect acquires the number the socket had.
Reconnect(h) ==
    /\ Idle(h) /\ ~open[h] /\ handle[h] # None
    /\ open' = [open EXCEPT ![h] = TRUE]
    /\ own' = [own EXCEPT ![h] = 0]
    /\ UNCHANGED <<kernel, alive, handle, call, history>>

-----------------------------------------------------------------------------
(* The steps *)

IsOpen(n) == n # None /\ entry[n] # 0

\* The call goes on with these steps and this number, or returns.
Goes(t, todo, hand) ==
    call' = [call EXCEPT ![t] = IF todo = <<>> THEN NoCall
                                ELSE [@ EXCEPT !.todo = todo, !.hand = hand]]
At(t, name) == call[t].todo # <<>> /\ Head(call[t].todo) = name /\ UNCHANGED history
Rest(t) == Tail(call[t].todo)

\* ::close of the number, whoever has it open by now; EBADF leaves m_open.
Closes(h) ==
    /\ entry' = [n \in Numbers |-> IF n = handle[h] THEN 0 ELSE entry[n]]
    /\ open' = [open EXCEPT ![h] = @ /\ ~IsOpen(handle[h])]
    /\ UNCHANGED <<entries, alive, handle, own>>

CloseStep(t) == At(t, "close") /\ Closes(call[t].h) /\ Goes(t, Rest(t), call[t].hand)

Lowest(n) == entry[n] = 0 /\ \A m \in Numbers : entry[m] = 0 => n <= m
Carried(n, h) ==
    \/ \E g \in alive \ {h} : handle[g] = n
    \/ \E t \in Threads : n \in {call[t].hand.n, call[t].kept.n}

\* The kernel opens something under the lowest number.
Given(h, got) ==
    /\ entries < MaxEntries
    /\ entries' = entries + 1
    /\ \E n \in Numbers :
          /\ Lowest(n)
          /\ entry' = [entry EXCEPT ![n] = entries']
          /\ got = [n |-> n, e |-> IF Carried(n, h) THEN 0 ELSE entries + 1]
Refused(got) == got = NoNumber /\ UNCHANGED kernel

Receipts == [n : Numbers \cup {None}, e : 0..MaxEntries]

\* socket: without a number the device takes -1, as if it were one.
OpenStep(t) ==
    /\ At(t, "open")
    /\ \E got \in Receipts : (Given(call[t].h, got) \/ Refused(got)) /\ Goes(t, Rest(t), got)
    /\ UNCHANGED handlers

\* open: a pipe or a file that could not be opened is left alone.
OpenAtStep(t) ==
    /\ At(t, "openAt")
    /\ \E got \in Receipts :
          \/ Given(call[t].h, got) /\ Goes(t, Rest(t), got)
          \/ Refused(got) /\ Goes(t, <<>>, got)
    /\ UNCHANGED handlers

DupStep(t) ==
    /\ At(t, "dup")
    /\ \E got \in Receipts :
          /\ (IsOpen(handle[call[t].other]) /\ Given(call[t].h, got)) \/ Refused(got)
          /\ Goes(t, Rest(t), got)
    /\ UNCHANGED handlers

AcceptStep(t) ==
    /\ At(t, "accept")
    /\ \E got \in Receipts :
          /\ Given(call[t].h, got)
          /\ call' = [call EXCEPT ![t].todo = Rest(t), ![t].kept = got]
    /\ UNCHANGED handlers

RecallStep(t) ==
    /\ At(t, "recall")
    /\ Goes(t, Rest(t), call[t].kept)
    /\ UNCHANGED <<kernel, handlers>>

ProbeStep(t) ==
    /\ At(t, "probe")
    /\ Goes(t, IF IsOpen(handle[call[t].h]) THEN <<>> ELSE Rest(t), NoNumber)
    /\ UNCHANGED <<kernel, handlers>>

KeepsNumber(other) == handle    \* mutant: release forgets to reset m_handle
Released(other) == [handle EXCEPT ![other] = None]

ReleaseStep(t) ==
    LET other == call[t].other
    IN  /\ At(t, "release")
        /\ handle' = Released(other)
        /\ open' = [open EXCEPT ![other] = FALSE]
        /\ own' = [own EXCEPT ![other] = 0]
        /\ Goes(t, Rest(t), [n |-> handle[other], e |-> IF open[other] THEN own[other] ELSE 0])
        /\ UNCHANGED <<kernel, alive>>

\* acquire closes what the handler carries, unless it is the same number.
ClosesAnyway(h, n) == handle[h] # None      \* mutant
ClosesNever(h, n) == FALSE                  \* mutant
ClosesFirst(h, n) == handle[h] # None /\ n # handle[h]

AcquireCloses(t) ==
    /\ At(t, "acquire") /\ ClosesFirst(call[t].h, call[t].hand.n)
    /\ Closes(call[t].h)
    /\ Goes(t, <<"set">> \o Rest(t), call[t].hand)

SetStep(t) ==
    LET c == call[t]
    IN  /\ At(t, "set") \/ (At(t, "acquire") /\ ~ClosesFirst(c.h, c.hand.n))
        /\ handle' = [handle EXCEPT ![c.h] = c.hand.n]
        /\ open' = [open EXCEPT ![c.h] = TRUE]
        /\ own' = [own EXCEPT ![c.h] = c.hand.e]
        /\ Goes(t, Rest(t), NoNumber)
        /\ UNCHANGED <<kernel, alive>>

GoneStep(t) ==
    /\ At(t, "gone")
    /\ alive' = alive \ {call[t].h}
    /\ Goes(t, Rest(t), NoNumber)
    /\ UNCHANGED <<kernel, handle, open, own>>

-----------------------------------------------------------------------------
(* Specification *)

Init ==
    /\ entry = [n \in Numbers |-> 0] /\ entries = 0
    /\ alive = {}
    /\ handle = [h \in Handlers |-> None]
    /\ open = [h \in Handlers |-> FALSE]
    /\ own = [h \in Handlers |-> 0]
    /\ call = [t \in Threads |-> NoCall]
    /\ calls = 0 /\ closed = FALSE /\ overlapped = FALSE

CallBegins(t) ==
    \E h \in Handlers :
        \/ ConstructSocket(t, h) \/ Accept(t, h)
        \/ Close(t, h) \/ OpenDevice(t, h) \/ Destroy(t, h)
        \/ \E other \in Handlers :
              CopyConstruct(t, h, other) \/ CopyAssign(t, h, other) \/ MoveAssign(t, h, other)

CallStep(t) ==
    \/ CloseStep(t) \/ OpenStep(t) \/ OpenAtStep(t) \/ DupStep(t) \/ AcceptStep(t)
    \/ RecallStep(t) \/ ProbeStep(t) \/ ReleaseStep(t)
    \/ AcquireCloses(t) \/ SetStep(t) \/ GoneStep(t)

Next ==
    \/ \E t \in Threads : CallBegins(t) \/ CallStep(t)
    \/ \E h \in Handlers : Reconnect(h) \/ \E other \in Handlers : MoveConstruct(h, other)

Spec == Init /\ [][Next]_vars

-----------------------------------------------------------------------------
(* Properties *)

\* What a handler took to be its own stays open until it closes it itself, unless
\* the kernel gave it a number that another handler still carried.
OwnStaysOpen ==
    \A h \in alive :
        open[h] /\ handle[h] # None /\ own[h] # 0 => entry[handle[h]] = own[h]

\* Everything open is carried by some handler, or by a call that is under way.
NothingLeaked ==
    \A n \in Numbers : IsOpen(n) =>
        \/ \E h \in alive : handle[h] = n
        \/ \E t \in Threads : n \in {call[t].hand.n, call[t].kept.n}

\* The second close of an assignment or acquire does no harm of its own: two
\* handlers carry one number only after a handler was closed and lived on, or
\* when two threads make calls at the same time.
SharedOnlyAfterClose ==
    \/ closed \/ overlapped
    \/ \A h \in alive, g \in alive : handle[h] = handle[g] => h = g \/ handle[h] = None

=============================================================================
