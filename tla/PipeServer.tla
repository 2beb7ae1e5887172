----------------------------- MODULE PipeServer -----------------------------
(***************************************************************************)
(* The input of a named-pipe server endpoint: from the writer's bytes in   *)
(* the pipe, through the edge-triggered reactor and the read loop, to the  *)
(* client's input callback.                                                *)
(*                                                                         *)
(* The endpoint is not told of a connection: the first edge makes the      *)
(* Acceptor accept, and accept reads.  The callback does not exist by then,*)
(* so that the first message goes to LocalInputBuffer, from where it is    *)
(* handed over when the client registers its callback.                     *)
(*                                                                         *)
(* Bytes are numbered in the order of their writing.                       *)
(***************************************************************************)
EXTENDS Integers, Sequences, FiniteSetsExt

CONSTANTS
    READ_BUFFER_SIZE,
    Capacity,    \* of the pipe
    MaxBytes,    \* bound: bytes written
    MaxCloses    \* bound: how often the writer closes its end

ASSUME SizesAssumption == READ_BUFFER_SIZE \in Nat \ {0} /\ Capacity \in Nat
ASSUME BoundsAssumption == MaxBytes \in Nat /\ MaxCloses \in Nat

VARIABLES
    pipe,       \* bytes in the kernel's pipe
    put,        \* history: number of bytes written
    writing,    \* the writer's end is open
    closes,     \* how often it was closed
    watched,    \* the descriptor is in epoll
    ready,      \* it is in epoll's ready list
    queue,      \* events that wait for the event-processing thread
    phase,      \* how far the endpoint is: see Phases
    step,       \* of the event-processing thread: idle, reading or processing
    size_read,  \* total_size_read of the loop, -1 for an error
    buffer,     \* m_local_buffer of ServerCallbackPolicy
    stored,     \* m_local_buffer of LocalInputBuffer
    delivered   \* history: what the client's callback was given

kernel == <<pipe, put, writing, closes, watched, ready>>
endpoint == <<phase, step, size_read, buffer, stored, delivered>>
vars == <<kernel, queue, endpoint>>

\* listening as the Acceptor's; accepting, while accept reads; accepted; subscribed
\* for itself; open, with a callback.
Phases == {"listening", "accepting", "accepted", "subscribed", "open"}

HungUp == ~writing /\ closes > 0

-----------------------------------------------------------------------------
(* The writer and the kernel *)

\* A write into an empty pipe is an edge; into another one it may be.
Write(n) ==
    /\ writing
    /\ put + n <= MaxBytes /\ Len(pipe) + n <= Capacity
    /\ pipe' = pipe \o [i \in 1..n |-> put + i]
    /\ put' = put + n
    /\ ready' \in {ready, watched}
    /\ (ready \/ pipe = <<>>) => ready' = (ready \/ watched)
    /\ UNCHANGED <<writing, closes, watched, queue, endpoint>>

OpenWriter ==
    /\ ~writing
    /\ writing' = TRUE
    /\ UNCHANGED <<pipe, put, closes, watched, ready, queue, endpoint>>

CloseWriter ==
    /\ writing /\ closes < MaxCloses
    /\ writing' = FALSE
    /\ closes' = closes + 1
    /\ ready' = watched
    /\ UNCHANGED <<pipe, put, watched, queue, endpoint>>

\* epoll_wait looks at the pipe again: one that was emptied meanwhile is not
\* reported.  A hang-up is passed on only when there is no input.
Report ==
    /\ ready
    /\ ready' = FALSE
    /\ queue' = IF pipe # <<>> THEN Append(queue, "in")
                ELSE IF HungUp THEN Append(queue, "hup") ELSE queue
    /\ UNCHANGED <<pipe, put, writing, closes, watched, endpoint>>

-----------------------------------------------------------------------------
(* The event-processing thread *)

Popping(event) == step = "idle" /\ queue # <<>> /\ Head(queue) = event /\ queue' = Tail(queue)

\* The Acceptor's first input event: it unsubscribes and accepts.
Accept ==
    /\ Popping("in")
    /\ phase = "listening"
    /\ phase' = "accepting"
    /\ watched' = FALSE /\ ready' = FALSE
    /\ step' = "reading" /\ size_read' = 0
    /\ UNCHANGED <<pipe, put, writing, closes, buffer, stored, delivered>>

InputEvent ==
    /\ Popping("in")
    /\ phase = "open"
    /\ step' = "reading" /\ size_read' = 0
    /\ UNCHANGED <<kernel, phase, buffer, stored, delivered>>

\* Neither the Acceptor nor ProcessHangupEvent does anything.
HangupEvent ==
    /\ Popping("hup")
    /\ phase \in {"listening", "open"}
    /\ UNCHANGED <<kernel, endpoint>>

ReadsOnce(n) == FALSE                 \* mutant: one read per edge
ReadsOn(n) == n = READ_BUFFER_SIZE

ReadError == -1

\* One ::read: it fails on an empty pipe with a writer and ends the loop on one
\* without, and the loop goes on while the buffer is filled.
Read ==
    LET n == Min({Len(pipe), READ_BUFFER_SIZE})
        again == pipe = <<>> /\ writing
    IN  /\ step = "reading"
        /\ buffer' = buffer \o SubSeq(pipe, 1, n)
        /\ pipe' = SubSeq(pipe, n + 1, Len(pipe))
        /\ size_read' = IF again THEN ReadError ELSE size_read + n
        /\ step' = IF ~again /\ ReadsOn(n) THEN "reading" ELSE "processing"
        /\ UNCHANGED <<put, writing, closes, watched, ready, queue, phase, stored, delivered>>

\* store, when there is no callback yet.
Stored(data) == stored \o data

NotCleared == buffer                  \* mutant: m_local_buffer.clear() is missing
Cleared == <<>>

\* ProcessInputEvent behind the read.  After an error the bytes stay in the buffer.
Process ==
    LET taken == size_read > 0
        registered == phase = "open"
    IN  /\ step = "processing"
        /\ step' = "idle"
        /\ size_read' = 0
        /\ delivered' = IF taken /\ registered THEN delivered \o buffer ELSE delivered
        /\ stored' = IF taken /\ ~registered THEN Stored(buffer) ELSE stored
        /\ buffer' = IF taken THEN Cleared ELSE buffer
        /\ phase' = IF phase = "accepting" THEN "accepted" ELSE phase
        /\ UNCHANGED <<kernel, queue>>

\* postConnectionAction behind accept: EPOLL_CTL_ADD looks at the pipe.
AddedBlind == FALSE                   \* mutant: only later input is an edge
ReadyOnAdd == pipe # <<>> \/ HungUp
Subscribe ==
    /\ phase = "accepted"
    /\ phase' = "subscribed"
    /\ watched' = TRUE
    /\ ready' = ReadyOnAdd
    /\ UNCHANGED <<pipe, put, writing, closes, queue, step, size_read, buffer, stored, delivered>>

HandedOver == delivered \o stored

\* The completion callback registers the input callback, which gets what is stored.
RegisterCallback ==
    /\ phase = "subscribed"
    /\ phase' = "open"
    /\ delivered' = HandedOver
    /\ stored' = <<>>
    /\ UNCHANGED <<kernel, queue, step, size_read, buffer>>

-----------------------------------------------------------------------------
(* Specification *)

Init ==
    /\ pipe = <<>> /\ put = 0
    /\ writing = FALSE /\ closes = 0
    /\ watched = TRUE /\ ready = FALSE
    /\ queue = <<>>
    /\ phase = "listening" /\ step = "idle" /\ size_read = 0
    /\ buffer = <<>> /\ stored = <<>> /\ delivered = <<>>

LoopStep ==
    \/ Accept \/ InputEvent \/ HangupEvent
    \/ Read \/ Process \/ Subscribe \/ RegisterCallback

Next ==
    \/ \E n \in 1..Capacity : Write(n)
    \/ OpenWriter \/ CloseWriter
    \/ Report
    \/ LoopStep

Spec == Init /\ [][Next]_vars

\* Both threads of the reactor go on as long as the process does.
FairSpec == Spec /\ WF_vars(Report) /\ WF_vars(LoopStep)

-----------------------------------------------------------------------------
(* Properties *)

Byte == 1..MaxBytes

\* The type of the state.
TypeOK ==
    /\ pipe \in Seq(Byte) /\ buffer \in Seq(Byte)
    /\ stored \in Seq(Byte) /\ delivered \in Seq(Byte)
    /\ put \in 0..MaxBytes
    /\ writing \in BOOLEAN /\ watched \in BOOLEAN /\ ready \in BOOLEAN
    /\ closes \in 0..MaxCloses
    /\ queue \in Seq({"in", "hup"})
    /\ phase \in Phases
    /\ step \in {"idle", "reading", "processing"}
    /\ size_read \in Nat \cup {-1}
    /\ Len(pipe) <= Capacity

\* No byte is lost, duplicated or overtaken on its way through the pipe, the read
\* buffer and the buffer of the first message to the callback.
StreamPreserved == delivered \o stored \o buffer \o pipe = [i \in 1..put |-> i]

Quiet == step = "idle" /\ phase \in {"listening", "open"} /\ queue = <<>> /\ ~ready

\* When no event is under way nothing is left in the pipe that no edge announced,
\* although the endpoint changes from the Acceptor's subscription to its own
\* while bytes arrive.
NothingUnannounced == Quiet => pipe = <<>>

\* When no event is under way the client has all there is, but for what ended
\* with a full read buffer, and that is all that such a read keeps.
OnlyFullBuffersKept ==
    Quiet =>
        /\ stored = <<>>
        /\ Len(buffer) % READ_BUFFER_SIZE = 0
        /\ phase = "open" => Len(delivered) + Len(buffer) = put

\* Every byte that is written leaves the pipe and is handed to the client, or kept
\* in a full read buffer until more arrive.
BytesTaken ==
    \A b \in Byte :
        (b <= put) ~> (b <= Len(delivered) \/ (phase = "open" /\ b <= Len(delivered) + Len(buffer)))

\* The comment on LocalInputBuffer says that it makes the first message available
\* to the clients of the class: when a client registers its callback, it is given
\* every byte that accept has taken out of the pipe.
FirstMessageAvailable ==
    [][phase # "open" /\ phase' = "open" =>
          delivered' = [i \in 1..put - Len(pipe) |-> i]]_vars

=============================================================================
