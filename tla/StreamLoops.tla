----------------------------- MODULE StreamLoops -----------------------------
(***************************************************************************)
(* The loops of LinuxIOUtilities over what the kernel gives or takes per   *)
(* call: read, readLine, readInBuffer, recv and recvInBuffer, copyTo over  *)
(* readLine, write and send.                                               *)
(*                                                                         *)
(* Bytes are numbers in the order of writing.  The kernel may give any     *)
(* part of what there is to a read, and take any part of a write; a        *)
(* regular file gives all it has.  EINTR is a step that changes nothing    *)
(* and is left out.                                                        *)
(*                                                                         *)
(* Two calls write behind what they write to: recv lets the kernel fill    *)
(* its buffer with the length that it was asked for, and a read of a file  *)
(* takes one from the size of a result that may be empty.  Nothing is      *)
(* known of the program from there, and it has no further step here.       *)
(***************************************************************************)
EXTENDS Integers, SequencesExt, FiniteSetsExt

CONSTANTS
    READ_BUFFER_SIZE,
    Capacity,           \* what the kernel keeps of a stream
    MaxBytes            \* bound: bytes that are written

ASSUME SizesAssumption == {READ_BUFFER_SIZE, Capacity, MaxBytes} \subseteq Nat \ {0}

VARIABLES
    medium,     \* "blocking" or "nonblocking" stream, or "file"
    newline,    \* which bytes are line ends
    put,        \* bytes the kernel has been given
    taken,      \* bytes the kernel has given: the file position
    ended,      \* the writer has closed
    writing,    \* the call of write or send under way, or the last one
    reading,    \* the reading call under way, or the last one
    undefined   \* that call wrote behind its buffer or its result

loopsVars == <<medium, newline, put, taken, ended, writing, reading, undefined>>

Bytes(first, last) == [i \in 1..(last - first + 1) |-> first + i - 1]
Available == put - taken

-----------------------------------------------------------------------------
(* write and send *)

NotWriting == [op |-> "none", len |-> 0, done |-> 0, from |-> 0, busy |-> FALSE]

StartWrite(op, len) ==
    /\ ~writing.busy /\ ~ended /\ medium # "file" /\ put + len <= MaxBytes
    /\ writing' = [op |-> op, len |-> len, done |-> 0, from |-> put, busy |-> TRUE]
    /\ UNCHANGED <<medium, newline, put, taken, ended, reading>>

WritesOn(op, done, len) == op = "write" /\ done < len

\* The kernel takes some of what is left; write goes on, send does not.
Put(k) ==
    /\ writing.busy
    /\ k <= writing.len - writing.done /\ Available + k <= Capacity
    /\ put' = put + k
    /\ writing' = [writing EXCEPT !.done = @ + k,
                                  !.busy = WritesOn(writing.op, writing.done + k, writing.len)]
    /\ UNCHANGED <<medium, newline, taken, ended, reading>>

\* EAGAIN ends either.
PutFails ==
    /\ writing.busy /\ medium = "nonblocking" /\ Available = Capacity
    /\ writing' = [writing EXCEPT !.busy = FALSE]
    /\ UNCHANGED <<medium, newline, put, taken, ended, reading>>

End ==
    /\ ~writing.busy /\ ~ended /\ medium # "file"
    /\ ended' = TRUE
    /\ UNCHANGED <<medium, newline, put, taken, writing, reading>>

-----------------------------------------------------------------------------
(* The reading loops *)

\* A file is read into a result of what it has left, or of the size it had if that
\* is more, less one byte.
ResultSize(had) == Max({had, Available})
SizeLessOne(size) == size - 1

BufferLength(r) == IF r.op = "readFile" THEN SizeLessOne(r.len) ELSE r.len

\* A call: the length it was given, the result and its count so far, for copyTo
\* the lines copied before, and whether the wait for all is still to come.
NotReading == [op |-> "none", len |-> 0, from |-> 0, result |-> <<>>, total |-> 0,
               copied |-> <<>>, waitall |-> FALSE, first |-> FALSE, busy |-> FALSE]

Start(op, len, waitall) ==
    /\ ~reading.busy
    /\ reading' = [NotReading EXCEPT !.op = op, !.len = len, !.from = taken,
                                     !.waitall = waitall, !.first = waitall,
                                     !.busy = op = "readFile" => SizeLessOne(len) > 0]
    /\ UNCHANGED <<medium, newline, put, taken, ended, writing>>

Unlimited == MaxBytes + 1                 \* result.max_size()

StreamCall ==
    /\ medium # "file"
    /\ \/ \E op \in {"read", "readLine"} : Start(op, READ_BUFFER_SIZE, FALSE)
       \/ \E len \in 1..Unlimited, waitall \in BOOLEAN : Start("recv", len, waitall)
       \/ \E len \in 1..READ_BUFFER_SIZE : Start("readInBuffer", len, FALSE)
       \/ \E len \in 1..READ_BUFFER_SIZE, waitall \in BOOLEAN : Start("recvInBuffer", len, waitall)

\* A file may be empty, and be read again; copyTo opens it anew.
FileCall ==
    /\ medium = "file" /\ reading.op # "copyTo"
    /\ \/ \E had \in 0..(MaxBytes + 2) :
             ResultSize(had) > 0 /\ Start("readFile", ResultSize(had), FALSE)
       \/ taken = 0 /\ Start("copyTo", READ_BUFFER_SIZE, FALSE)

\* Nothing is left, and the result is empty: less one, its size is the largest there
\* is, and that much is cleared before the read.
ReadOfNothing ==
    /\ medium = "file" /\ reading.op # "copyTo"
    /\ ResultSize(0) = 0 /\ Start("readFile", 0, FALSE)
    /\ undefined' = TRUE

WithNewline(b) == b                       \* mutant: the line end is not looked for
UpToNewline(b) == LET ends == {i \in DOMAIN b : b[i] \in newline}
                  IN  IF ends = {} THEN b ELSE SubSeq(b, 1, Min(ends) - 1)

\* Into a buffer every read starts at the front.
Overwritten(old, b) == b \o SubSeq(old, Len(b) + 1, Len(old))

Returned(r) == [r EXCEPT !.busy = FALSE]

\* After a chunk that is not empty.
ReadReplaces(r, b) ==                     \* mutant: assigned, not appended
    [r EXCEPT !.result = b, !.total = @ + Len(b), !.busy = Len(b) = READ_BUFFER_SIZE]
ReadTakes(r, b) ==
    [r EXCEPT !.result = @ \o b, !.total = @ + Len(b), !.busy = Len(b) = READ_BUFFER_SIZE]

LineTakes(r, b) ==
    [r EXCEPT !.result = @ \o UpToNewline(b), !.total = @ + Len(UpToNewline(b)),
              !.busy = Len(UpToNewline(b)) = Len(b)]

BufferTakes(r, b) ==
    [r EXCEPT !.result = Overwritten(@, b), !.total = @ + Len(b), !.busy = Len(b) = BufferLength(r)]

\* recv asks for its whole length each time, and drops what is more than that.
RecvTakes(r, b) ==
    IF r.total + Len(b) > r.len
    THEN Returned([r EXCEPT !.result = @ \o SubSeq(b, 1, r.len - r.total), !.total = r.len])
    ELSE [r EXCEPT !.result = @ \o b, !.total = @ + Len(b), !.busy = Len(b) = READ_BUFFER_SIZE]

\* The wait for all fills the result, and the loop goes on behind it.
WaitAllTakes(r, b) == [r EXCEPT !.result = b, !.total = Len(b), !.first = FALSE]

OnceTakes(r, b) == Returned([r EXCEPT !.result = b, !.total = Len(b)])

\* copyTo writes each line that is not empty to the copy and reads the next.
CopyTakes(r, b) ==
    LET line == LineTakes(r, b)
    IN  IF line.busy THEN line
        ELSE [r EXCEPT !.copied = @ \o line.result, !.result = <<>>, !.total = 0,
                       !.busy = line.total > 0]

CallTakes(r, b) ==
    CASE r.op = "read" -> ReadTakes(r, b)
      [] r.op = "readLine" -> LineTakes(r, b)
      [] r.op \in {"readInBuffer", "readFile"} -> BufferTakes(r, b)
      [] r.op = "recv" -> IF r.first THEN WaitAllTakes(r, b) ELSE RecvTakes(r, b)
      [] r.op = "recvInBuffer" -> OnceTakes(r, b)
      [] r.op = "copyTo" -> CopyTakes(r, b)

MayGive(k) == k <= BufferLength(reading) /\ k <= Available

\* The buffer of recv is not as long as what it asks for may be.
Overruns(k) == reading.op = "recv" /\ k > READ_BUFFER_SIZE

\* A call that waits for all takes its whole length, or what there is at the end.
Enough(k) ==
    /\ MayGive(k) /\ ~Overruns(k)
    /\ medium = "file" => k = Min({BufferLength(reading), Available})
    /\ reading.waitall /\ medium = "blocking" /\ ~ended => k = reading.len

Take(k) ==
    /\ reading.busy /\ Enough(k)
    /\ taken' = taken + k
    /\ reading' = CallTakes(reading, Bytes(taken + 1, taken + k))
    /\ UNCHANGED <<medium, newline, put, ended, writing>>

\* Also while it waits for all: the kernel copies what there is.
TakeOverruns(k) ==
    /\ reading.busy /\ MayGive(k) /\ Overruns(k)
    /\ taken' = taken + k
    /\ reading' = Returned(reading)
    /\ undefined' = TRUE
    /\ UNCHANGED <<medium, newline, put, ended, writing>>

\* 0 at the end; copyTo then goes on, unless the line is empty.
TakeNothing ==
    /\ reading.busy /\ Available = 0 /\ (ended \/ medium = "file")
    /\ reading' = IF reading.op = "recv" /\ reading.first
                  THEN [reading EXCEPT !.first = FALSE]
                  ELSE IF reading.op = "copyTo" /\ reading.total > 0
                  THEN [reading EXCEPT !.copied = @ \o reading.result, !.result = <<>>, !.total = 0]
                  ELSE Returned(reading)
    /\ UNCHANGED <<medium, newline, put, taken, ended, writing>>

\* EAGAIN: read and readInBuffer answer -1, the others what they have; recv first
\* leaves the wait for all.
TakeFails ==
    /\ reading.busy /\ medium = "nonblocking" /\ Available = 0 /\ ~ended
    /\ reading' = IF reading.op = "recv" /\ reading.first
                  THEN [reading EXCEPT !.first = FALSE, !.total = -1]
                  ELSE IF reading.op \in {"read", "readInBuffer"}
                       \/ (reading.op = "recvInBuffer" /\ reading.waitall)
                  THEN Returned([reading EXCEPT !.total = -1])
                  ELSE Returned(reading)
    /\ UNCHANGED <<medium, newline, put, taken, ended, writing>>

-----------------------------------------------------------------------------
(* Specification *)

LoopsInit ==
    /\ medium \in {"blocking", "nonblocking", "file"}
    /\ newline \in SUBSET (1..MaxBytes)
    /\ put \in IF medium = "file" THEN 0..MaxBytes ELSE {0}
    /\ taken = 0
    /\ ended = FALSE
    /\ writing = NotWriting
    /\ reading = NotReading
    /\ undefined = FALSE

Step ==
    \/ \E op \in {"write", "send"}, len \in 1..MaxBytes : StartWrite(op, len)
    \/ \E k \in 1..Capacity : Put(k)
    \/ PutFails \/ End
    \/ StreamCall \/ FileCall
    \/ \E k \in 1..(MaxBytes + 2) : Take(k)
    \/ TakeNothing \/ TakeFails

LoopsNext ==
    /\ ~undefined
    /\ \/ Step /\ UNCHANGED undefined
       \/ \E k \in 1..Capacity : TakeOverruns(k)
       \/ ReadOfNothing

LoopsSpec == LoopsInit /\ [][LoopsNext]_loopsVars

-----------------------------------------------------------------------------
(* Properties *)

GivenToCall == Bytes(reading.from + 1, taken)
Finished(op) == reading.op = op /\ ~reading.busy

\* LinuxIOUtilities::read, recv, readInBuffer: no byte that a call took is missing
\* from its result or twice in it, whatever the kernel's portions, with these limits.
\* recv may drop what is behind its length, no more than a buffer, when it went on
\* behind a full buffer or waited for all.  A buffer that the caller gives has all
\* if it fits, and every byte is counted.  A file read into a result of just what
\* it has left comes out overwritten, and is whole in a larger one.  Only a recv of
\* more than its buffer that is given more than its buffer, and a read of a file
\* with nothing left into an empty result, write where they must not.  What the
\* writing calls report is what the kernel has, and a blocking stream takes all of
\* a write, of a send maybe less.
NothingLost ==
    /\ writing.op # "none" => put = writing.from + writing.done
    /\ writing.op = "write" /\ ~writing.busy /\ medium = "blocking" => writing.done = writing.len
    /\ reading.op = "read" => reading.result = GivenToCall
    /\ reading.op = "recv" /\ ~undefined =>
          /\ IsPrefix(reading.result, GivenToCall)
          /\ reading.result # GivenToCall =>
                /\ reading.len >= READ_BUFFER_SIZE \/ reading.waitall
                /\ reading.total = reading.len /\ reading.len < Len(GivenToCall)
                /\ Len(GivenToCall) - Len(reading.result) <= READ_BUFFER_SIZE
    /\ Finished("readInBuffer") /\ reading.total > 0 =>
          /\ reading.total = Len(GivenToCall)
          /\ reading.result = GivenToCall <=> reading.total <= reading.len
    /\ Finished("readFile") /\ ~undefined =>
          (reading.result = Bytes(reading.from + 1, put) <=> put - reading.from < reading.len)
    /\ undefined =>
          \/ /\ reading.op = "recv" /\ reading.len > READ_BUFFER_SIZE
             /\ Len(GivenToCall) > READ_BUFFER_SIZE
          \/ reading.op = "readFile" /\ reading.len = 0 /\ put = reading.from
\* readLine returns what is before the first line end it met, and drops less than
\* a buffer behind it.  copyTo, which uses the same rule on its buffers, copies
\* bytes once and in order, no line end, and all that is before the file's first.
LinesInOrder ==
    /\ Finished("readLine") =>
          LET line == reading.result
          IN  /\ IsPrefix(line, GivenToCall) /\ Range(line) \cap newline = {}
              /\ line # GivenToCall => GivenToCall[Len(line) + 1] \in newline
              /\ Len(GivenToCall) - Len(line) <= READ_BUFFER_SIZE
    /\ Finished("copyTo") =>
          /\ \A i \in 1..(Len(reading.copied) - 1) : reading.copied[i] < reading.copied[i + 1]
          /\ \A b \in 1..put : b \in Range(reading.copied) \/ \E n \in newline : n <= b
          /\ Range(reading.copied) \cap newline = {}

=============================================================================
