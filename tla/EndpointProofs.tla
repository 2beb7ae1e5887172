---------------------------- MODULE EndpointProofs ----------------------------
(***************************************************************************)
(* Proofs about the two ends of a connection: PipeServer, the input of a   *)
(* named-pipe server, and ClientEndpoint, the client and its threads.      *)
(*                                                                         *)
(* For any size of the read buffer and of the pipe and any bounds, the     *)
(* server's stream is preserved, nothing stays in the pipe without an      *)
(* edge, and a failed read keeps full buffers only.                        *)
(*                                                                         *)
(* StreamPreserved is inductive but for the moment at which the client     *)
(* takes over from LocalInputBuffer, which must then be empty for good     *)
(* (HandedOverOnce).  NothingUnannounced speaks of the quiet states;       *)
(* Announced says in every state who will look at the pipe.                *)
(* WholeBuffers follows the length of the read buffer through a loop.      *)
(*                                                                         *)
(* StateFollowsDevice and EndIsTold speak of a settled client; ClientInv   *)
(* says of every moment where the two threads are (Places), what a thread  *)
(* that is alone in the endpoint may count on (Alone, HandsOver), who is   *)
(* about to tell (TellsOnce) and where the end of the socket is            *)
(* (EndIsPending).  That an end is delivered when it is in the mask is a   *)
(* fact about the recursive Delivered that TLC evaluates.                  *)
(*                                                                         *)
(* The last part is about the addresses that the endpoints are given       *)
(* (AddressCalls): their order is total, and what is converted comes back. *)
(* Texts are ordered by the first place where they differ.                 *)
(***************************************************************************)
EXTENDS PipeServer, ClientEndpoint, AddressCalls, NaturalsInduction, WellFoundedInduction,
        SequenceTheorems, TLAPS

-----------------------------------------------------------------------------
(* PipeServer: what each state says *)

Watching == watched <=> phase \notin {"accepting", "accepted"}

InputQueued == \E i \in 1..Len(queue) : queue[i] = "in"

Announced ==
    pipe # <<>> =>
        ready \/ InputQueued \/ step = "reading" \/ phase \in {"accepting", "accepted"}

HandedOverOnce == phase \in {"listening", "open"} => stored = <<>>

ReadsInTwoPhases == step # "idle" => phase \in {"accepting", "open"}

CountsWhileReading == step = "reading" => size_read # ReadError

\* Behind the loop the count tells whether the read buffer is to be handed on.
WholeBuffers ==
    (step = "processing" => size_read < 1) => Len(buffer) % READ_BUFFER_SIZE = 0

PInv ==
    /\ TypeOK /\ Watching /\ Announced /\ HandedOverOnce
    /\ StreamPreserved /\ ReadsInTwoPhases /\ CountsWhileReading /\ WholeBuffers

-----------------------------------------------------------------------------
(* PipeServer: what the operators do *)

LEMMA MinLength ==
  ASSUME NEW n \in Nat, NEW m \in Nat
  PROVE  Min({n, m}) = IF n <= m THEN n ELSE m
  BY DEF Min

LEMMA ModMultiple ==
  ASSUME NEW k \in Int, NEW r \in Nat \ {0}
  PROVE  (r * k) % r = 0
  BY Z3T(30)

LEMMA MultipleOfMod ==
  ASSUME NEW a \in Nat, NEW r \in Nat \ {0}, a % r = 0
  PROVE  a = r * (a \div r) /\ a \div r \in Int
  BY Z3T(30)

\* One more full buffer is a whole number of buffers again.
LEMMA OneMoreBuffer ==
  ASSUME NEW a \in Nat, NEW r \in Nat \ {0}, a % r = 0
  PROVE  (a + r) % r = 0
  <1> DEFINE q == a \div r
  <1>1. a = r * q /\ q \in Int
    BY MultipleOfMod
  <1> HIDE DEF q
  <1>2. a + r = r * (q + 1)
    BY <1>1
  <1> QED
    BY <1>1, <1>2, ModMultiple

LEMMA Regrouped ==
  ASSUME NEW S, NEW s \in Seq(S), NEW t \in Seq(S), NEW u \in Seq(S)
  PROVE  (s \o t) \o u = s \o (t \o u)
  BY ConcatAssociative, SMTT(30)

\* A prefix and the rest of a sequence.
LEMMA PrefixAndRest ==
  ASSUME NEW S, NEW t \in Seq(S), NEW n \in 0..Len(t)
  PROVE  /\ SubSeq(t, 1, n) \in Seq(S) /\ Len(SubSeq(t, 1, n)) = n
         /\ SubSeq(t, n + 1, Len(t)) \in Seq(S) /\ Len(SubSeq(t, n + 1, Len(t))) = Len(t) - n
         /\ SubSeq(t, 1, n) \o SubSeq(t, n + 1, Len(t)) = t
  <1>1. SubSeq(t, 1, n) \in Seq(S) /\ Len(SubSeq(t, 1, n)) = n
    BY SubSeqProperties, LenProperties, ElementOfSeq
  <1>2. /\ SubSeq(t, n + 1, Len(t)) \in Seq(S)
        /\ Len(SubSeq(t, n + 1, Len(t))) = Len(t) - n
    BY SubSeqProperties, LenProperties, ElementOfSeq
  <1>3. SubSeq(t, 1, n) \o SubSeq(t, n + 1, Len(t)) = SubSeq(t, 1, Len(t))
    <2>1. Len(t) \in Nat
      BY LenProperties
    <2>2. 1 \in 1..Len(t) + 1 /\ n \in (1 - 1)..Len(t) /\ Len(t) \in n..Len(t)
      BY <2>1
    <2> QED
      BY <2>2, ConcatAdjacentSubSeq, Zenon
  <1> QED
    BY <1>1, <1>2, <1>3, SubSeqFull

LEMMA QueueAppend ==
  ASSUME NEW q \in Seq({"in", "hup"}), NEW event \in {"in", "hup"}
  PROVE  /\ Append(q, event) \in Seq({"in", "hup"})
         /\ event = "in" \/ (\E i \in 1..Len(q) : q[i] = "in")
              => \E i \in 1..Len(Append(q, event)) : Append(q, event)[i] = "in"
  BY AppendProperties, LenProperties

\* Taking a hang-up from the queue takes no input event.
LEMMA HangupTaken ==
  ASSUME NEW q \in Seq({"in", "hup"}), q # <<>>, Head(q) # "in",
         \E i \in 1..Len(q) : q[i] = "in"
  PROVE  \E i \in 1..Len(Tail(q)) : Tail(q)[i] = "in"
  <1>1. PICK i \in 1..Len(q) : q[i] = "in"
    OBVIOUS
  <1>2. i # 1
    BY <1>1
  <1>3. i - 1 \in 1..Len(Tail(q)) /\ Tail(q)[i - 1] = q[(i - 1) + 1]
    BY <1>2, HeadTailProperties, LenProperties
  <1> QED
    BY <1>1, <1>3

\* The bytes that are written next continue the numbering.
LEMMA Numbered ==
  ASSUME NEW p \in Nat, NEW n \in Nat
  PROVE  [i \in 1..p |-> i] \o [i \in 1..n |-> p + i] = [i \in 1..(p + n) |-> i]
  <1> DEFINE s == [i \in 1..p |-> i]
             t == [i \in 1..n |-> p + i]
             u == [i \in 1..(p + n) |-> i]
  <1>1. s \in Seq(Nat) /\ t \in Seq(Nat) /\ u \in Seq(Nat)
    BY IsASeq
  <1>2. Len(s) = p /\ Len(t) = n /\ Len(u) = p + n
    OBVIOUS
  <1>3. s \o t \in Seq(Nat) /\ Len(s \o t) = p + n
    BY <1>1, <1>2, ConcatProperties
  <1>4. ASSUME NEW i \in 1..(p + n) PROVE (s \o t)[i] = u[i]
    <2>1. (s \o t)[i] = IF i <= p THEN s[i] ELSE t[i - p]
      BY <1>1, <1>2, ConcatProperties
    <2> QED
      BY <2>1
  <1> HIDE DEF s, t, u
  <1>5. s \o t = u
    BY <1>1, <1>2, <1>3, <1>4, SeqEqual
  <1> QED
    BY <1>5 DEF s, t, u

-----------------------------------------------------------------------------
(* PipeServer: the inductive invariant *)

LEMMA InitPInv == Init => PInv
  <1> SUFFICES ASSUME Init PROVE PInv
    OBVIOUS
  <1> USE SizesAssumption, BoundsAssumption DEF Init
  <1>1. TypeOK
    <2>1. <<>> \in Seq(Byte) /\ <<>> \in Seq({"in", "hup"}) /\ Len(pipe) = 0
      BY EmptySeq
    <2>2. 0 \in 0..MaxBytes /\ 0 \in 0..MaxCloses /\ 0 \in Nat \cup {-1} /\ 0 <= Capacity
      OBVIOUS
    <2> QED
      BY <2>1, <2>2 DEF TypeOK, Phases
  <1>2. StreamPreserved
    <2>1. <<>> \o <<>> = <<>>
      BY ConcatEmptySeq, EmptySeq
    <2>2. [i \in 1..0 |-> i] = <<>>
      OBVIOUS
    <2> QED
      BY <2>1, <2>2 DEF StreamPreserved
  <1>3. /\ Watching /\ Announced /\ HandedOverOnce
        /\ ReadsInTwoPhases /\ CountsWhileReading /\ WholeBuffers
    BY EmptySeq DEF Watching, Announced, HandedOverOnce, ReadsInTwoPhases, CountsWhileReading,
                    WholeBuffers, ReadError
  <1> QED
    BY <1>1, <1>2, <1>3 DEF PInv

LEMMA ConcatType ==
  ASSUME NEW S, NEW s \in Seq(S), NEW t \in Seq(S)
  PROVE  s \o t \in Seq(S) /\ Len(s \o t) = Len(s) + Len(t)
  BY ConcatProperties

LEMMA WritePInv == ASSUME PInv, NEW n \in 1..Capacity, Write(n) PROVE PInv'
  <1> USE SizesAssumption, BoundsAssumption
  <1> DEFINE new == [i \in 1..n |-> put + i]
             before == delivered \o stored \o buffer
  <1>1. new \in Seq(Byte) /\ Len(new) = n
    <2>1. n \in Nat /\ \A i \in 1..n : put + i \in Byte
      BY DEF PInv, TypeOK, Write, Byte
    <2>2. new \in Seq(Byte)
      BY <2>1, IsASeq
    <2> QED
      BY <2>1, <2>2
  <1>2. pipe \in Seq(Byte) /\ before \in Seq(Byte)
    BY ConcatType DEF PInv, TypeOK
  <1>3. pipe' = pipe \o new /\ before' = before /\ put' = put + n
    BY DEF Write, endpoint
  <1>4. pipe' \in Seq(Byte) /\ Len(pipe') = Len(pipe) + n
    BY <1>1, <1>2, <1>3, ConcatType
  <1>5. TypeOK'
    <2>1. put' \in 0..MaxBytes /\ Len(pipe') <= Capacity /\ ready' \in BOOLEAN
      BY <1>1, <1>2, <1>4, LenProperties DEF PInv, TypeOK, Write
    <2> QED
      BY <1>4, <2>1 DEF PInv, TypeOK, Write, endpoint
  <1>6. StreamPreserved'
    <2>1. put \in Nat /\ n \in Nat
      BY DEF PInv, TypeOK
    <2>2. before \o pipe = [i \in 1..put |-> i]
      BY DEF PInv, StreamPreserved
    <2> HIDE DEF new, before
    <2>3. before \o pipe' = (before \o pipe) \o new
      <3>1. (before \o pipe) \o new = before \o (pipe \o new)
        BY <1>1, <1>2, Regrouped
      <3> QED
        BY <1>3, <3>1
    <2>4. (before \o pipe) \o new = [i \in 1..(put + n) |-> i]
      BY <2>1, <2>2, Numbered DEF new
    <2>5. before' \o pipe' = [i \in 1..put' |-> i]
      BY <1>3, <2>3, <2>4
    <2> QED
      BY <2>5 DEF StreamPreserved, before
  <1>7. Announced'
    BY DEF PInv, TypeOK, Announced, InputQueued, Watching, Write, endpoint
  <1>8. Watching' /\ HandedOverOnce' /\ ReadsInTwoPhases' /\ CountsWhileReading' /\ WholeBuffers'
    BY DEF PInv, Watching, HandedOverOnce, ReadsInTwoPhases, CountsWhileReading, WholeBuffers,
           Write, endpoint
  <1> QED
    BY <1>5, <1>6, <1>7, <1>8 DEF PInv

\* The actions that move no byte.
LEMMA EventsPInv ==
  ASSUME PInv,
         OpenWriter \/ CloseWriter \/ Report \/ Accept \/ InputEvent \/ HangupEvent \/ Subscribe
  PROVE  PInv'
  <1>0. /\ queue \in Seq({"in", "hup"})
        /\ UNCHANGED <<pipe, put, buffer, stored, delivered>>
    BY DEF PInv, TypeOK, OpenWriter, CloseWriter, Report, Accept, InputEvent, HangupEvent,
           Subscribe, endpoint, kernel
  <1>1. queue' \in Seq({"in", "hup"})
    <2>1. Report => queue' \in Seq({"in", "hup"})
      BY <1>0, QueueAppend DEF Report
    <2>2. Accept \/ InputEvent \/ HangupEvent => queue' \in Seq({"in", "hup"})
      BY <1>0, HeadTailProperties DEF Accept, InputEvent, HangupEvent, Popping
    <2> QED
      BY <1>0, <2>1, <2>2 DEF OpenWriter, CloseWriter, Subscribe, endpoint, kernel
  <1>2. TypeOK'
    <2>1. closes' \in 0..MaxCloses
      <3>1. CloseWriter => closes' \in 0..MaxCloses
        BY BoundsAssumption DEF PInv, TypeOK, CloseWriter
      <3> QED
        BY <3>1 DEF PInv, TypeOK, OpenWriter, Report, Accept, InputEvent,
             HangupEvent, Subscribe, endpoint, kernel
    <2>4. writing' \in BOOLEAN
      BY DEF PInv, TypeOK, OpenWriter, CloseWriter, Report, Accept, InputEvent,
             HangupEvent, Subscribe, endpoint, kernel
    <2>2. watched' \in BOOLEAN /\ ready' \in BOOLEAN
      <3>1. ReadyOnAdd \in BOOLEAN
        BY DEF ReadyOnAdd
      <3> QED
        BY <3>1 DEF PInv, TypeOK, OpenWriter, CloseWriter, Report, Accept, InputEvent,
             HangupEvent, Subscribe, endpoint, kernel
    <2>3. /\ phase' \in Phases /\ step' \in {"idle", "reading", "processing"}
          /\ size_read' \in Nat \cup {-1}
      BY DEF PInv, TypeOK, Phases, OpenWriter, CloseWriter, Report, Accept, InputEvent,
             HangupEvent, Subscribe, endpoint, kernel
    <2> QED
      BY <1>0, <1>1, <2>1, <2>2, <2>3, <2>4 DEF PInv, TypeOK
  <1>3. StreamPreserved'
    BY <1>0 DEF PInv, StreamPreserved
  <1>4. Announced'
    <2>1. CASE Report
      BY <1>0, <2>1, QueueAppend DEF PInv, Announced, InputQueued, Report, endpoint
    <2>2. CASE HangupEvent
      BY <1>0, <2>2, HangupTaken DEF PInv, Announced, InputQueued, HangupEvent, Popping, kernel, endpoint
    <2>3. CASE Accept \/ InputEvent
      BY <2>3 DEF Announced, Accept, InputEvent
    <2>4. CASE OpenWriter \/ CloseWriter \/ Subscribe
      BY <1>0, <2>4 DEF PInv, TypeOK, Announced, Watching, InputQueued,
                              OpenWriter, CloseWriter, Subscribe, ReadyOnAdd, endpoint
    <2> QED
      BY <2>1, <2>2, <2>3, <2>4
  <1>5. Watching'
    BY DEF PInv, TypeOK, Watching, OpenWriter, CloseWriter, Report, Accept, InputEvent,
           HangupEvent, Subscribe, endpoint, kernel
  <1>6. HandedOverOnce' /\ ReadsInTwoPhases' /\ CountsWhileReading' /\ WholeBuffers'
    BY <1>0 DEF PInv, HandedOverOnce, ReadsInTwoPhases, CountsWhileReading, WholeBuffers, ReadError,
                OpenWriter, CloseWriter, Report, Accept, InputEvent, HangupEvent, Subscribe,
                Popping, endpoint, kernel
  <1> QED
    BY <1>2, <1>3, <1>4, <1>5, <1>6 DEF PInv

LEMMA ReadPInv == ASSUME PInv, Read PROVE PInv'
  <1> USE SizesAssumption, BoundsAssumption
  <1> DEFINE n == Min({Len(pipe), READ_BUFFER_SIZE})
             again == pipe = <<>> /\ writing
             before == delivered \o stored \o buffer
             taken == SubSeq(pipe, 1, n)
             left == SubSeq(pipe, n + 1, Len(pipe))
  <1>1. /\ pipe \in Seq(Byte) /\ buffer \in Seq(Byte) /\ delivered \in Seq(Byte)
        /\ stored \in Seq(Byte) /\ before \in Seq(Byte) /\ Len(pipe) \in Nat
    BY ConcatType, LenProperties DEF PInv, TypeOK
  <1>2. /\ n \in 0..Len(pipe) /\ n <= READ_BUFFER_SIZE
        /\ n # READ_BUFFER_SIZE => n = Len(pipe)
        /\ pipe = <<>> => n = 0
    <2>1. n = IF Len(pipe) <= READ_BUFFER_SIZE THEN Len(pipe) ELSE READ_BUFFER_SIZE
      BY <1>1, MinLength
    <2>2. pipe = <<>> => Len(pipe) = 0
      BY EmptySeq
    <2> QED
      BY <1>1, <2>1, <2>2
  <1>3. /\ buffer' = buffer \o taken /\ pipe' = left
        /\ size_read' = IF again THEN ReadError ELSE size_read + n
        /\ step' = IF ~again /\ n = READ_BUFFER_SIZE THEN "reading" ELSE "processing"
        /\ step = "reading"
        /\ UNCHANGED <<writing, put, closes, watched, ready, queue, phase, stored, delivered>>
    BY DEF Read, ReadsOn
  <1> HIDE DEF n, before
  <1>4. /\ taken \in Seq(Byte) /\ Len(taken) = n
        /\ left \in Seq(Byte) /\ Len(left) = Len(pipe) - n
        /\ taken \o left = pipe
    BY <1>1, <1>2, PrefixAndRest
  <1> HIDE DEF taken, left
  <1>5. buffer' \in Seq(Byte) /\ Len(buffer') = Len(buffer) + n
    BY <1>1, <1>3, <1>4, ConcatType
  <1>6. TypeOK'
    <2>1. size_read' \in Nat \cup {-1}
      BY <1>1, <1>2, <1>3 DEF PInv, TypeOK, CountsWhileReading, ReadError
    <2>2. Len(pipe') <= Capacity
      BY <1>1, <1>2, <1>3, <1>4 DEF PInv, TypeOK
    <2> QED
      BY <1>3, <1>4, <1>5, <2>1, <2>2 DEF PInv, TypeOK
  <1>7. StreamPreserved'
    <2>1. before' = before \o taken
      <3> DEFINE front == delivered \o stored
      <3>1. front \in Seq(Byte)
        BY <1>1, ConcatType
      <3> HIDE DEF front
      <3>2. front \o (buffer \o taken) = (front \o buffer) \o taken
        <4>1. buffer \in Seq(Byte) /\ taken \in Seq(Byte)
          BY <1>1, <1>4
        <4> QED
          BY <3>1, <4>1, ConcatAssociative
      <3> QED
        BY <1>3, <3>2 DEF front, before
    <2>2. (before \o taken) \o left = before \o (taken \o left)
      <3>1. before \in Seq(Byte) /\ taken \in Seq(Byte) /\ left \in Seq(Byte)
        BY <1>1, <1>4
      <3> QED
        BY <3>1, ConcatAssociative
    <2>3. before' \o pipe' = before \o pipe
      BY <1>3, <1>4, <2>1, <2>2
    <2> QED
      BY <1>3, <2>3 DEF PInv, StreamPreserved, before
  <1>8. Announced'
    <2>1. CASE ~again /\ n = READ_BUFFER_SIZE
      BY <1>3, <2>1 DEF Announced
    <2>2. CASE again \/ n # READ_BUFFER_SIZE
      <3>1. Len(left) = 0
        BY <1>2, <1>4, <2>2, EmptySeq
      <3>2. pipe' = <<>>
        BY <1>3, <1>4, <3>1, EmptySeq
      <3> QED
        BY <3>2 DEF Announced
    <2> QED
      BY <2>1, <2>2
  <1>9. WholeBuffers'
    <2>1. Len(buffer) % READ_BUFFER_SIZE = 0 /\ Len(buffer) \in Nat
      BY <1>1, <1>3, LenProperties DEF PInv, WholeBuffers
    <2>2. CASE ~again /\ n = READ_BUFFER_SIZE
      BY <1>5, <2>1, <2>2, OneMoreBuffer DEF WholeBuffers
    <2>3. CASE again \/ n # READ_BUFFER_SIZE
      <3>1. step' = "processing"
        BY <1>3, <2>3
      <3>2. size_read' < 1 => n = 0
        <4>1. size_read \in Nat
          BY <1>3 DEF PInv, TypeOK, CountsWhileReading, ReadError
        <4> QED
          BY <1>1, <1>2, <1>3, <4>1
      <3> QED
        BY <1>5, <2>1, <3>1, <3>2 DEF WholeBuffers
    <2> QED
      BY <2>2, <2>3
  <1>10. Watching' /\ HandedOverOnce' /\ ReadsInTwoPhases' /\ CountsWhileReading'
    <2>1. n \in Nat
      BY <1>1, <1>2
    <2> QED
      BY <1>3, <2>1 DEF PInv, TypeOK, Watching, HandedOverOnce, ReadsInTwoPhases,
                       CountsWhileReading, ReadError
  <1> QED
    BY <1>6, <1>7, <1>8, <1>9, <1>10 DEF PInv

LEMMA ProcessPInv == ASSUME PInv, Process PROVE PInv'
  <1> DEFINE handed == size_read > 0
             open == phase = "open"
  <1>1. /\ pipe \in Seq(Byte) /\ buffer \in Seq(Byte) /\ delivered \in Seq(Byte)
        /\ stored \in Seq(Byte) /\ <<>> \in Seq(Byte)
        /\ delivered \o buffer \in Seq(Byte) /\ stored \o buffer \in Seq(Byte)
    BY ConcatType, EmptySeq DEF PInv, TypeOK
  <1>2. /\ step = "processing" /\ step' = "idle" /\ size_read' = 0
        /\ delivered' = IF handed /\ open THEN delivered \o buffer ELSE delivered
        /\ stored' = IF handed /\ ~open THEN stored \o buffer ELSE stored
        /\ buffer' = IF handed THEN <<>> ELSE buffer
        /\ phase' = IF phase = "accepting" THEN "accepted" ELSE phase
        /\ UNCHANGED <<pipe, put, writing, closes, watched, ready, queue>>
    BY DEF Process, Stored, Cleared, kernel
  <1>3. TypeOK'
    BY <1>1, <1>2 DEF PInv, TypeOK, Phases
  <1>4. StreamPreserved'
    <2>1. CASE ~handed
      BY <1>2, <2>1 DEF PInv, StreamPreserved
    <2>2. CASE handed /\ open
      <3>1. stored = <<>>
        BY <2>2 DEF PInv, HandedOverOnce
      <3>2. /\ delivered' = delivered \o buffer /\ stored' = <<>> /\ buffer' = <<>>
        BY <1>2, <2>2, <3>1
      <3>3. delivered' \o stored' \o buffer' = delivered \o stored \o buffer
        BY <1>1, <3>1, <3>2, ConcatEmptySeq
      <3> QED
        BY <1>2, <3>3 DEF PInv, StreamPreserved
    <2>3. CASE handed /\ ~open
      <3>1. delivered \o (stored \o buffer) = (delivered \o stored) \o buffer
        <4>1. delivered \in Seq(Byte) /\ stored \in Seq(Byte) /\ buffer \in Seq(Byte)
          BY <1>1
        <4> QED
          BY <4>1, Regrouped, SMTT(30)
      <3>2. delivered \o stored' = delivered \o stored \o buffer /\ buffer' = <<>>
        BY <1>2, <2>3, <3>1
      <3>3. (delivered \o stored \o buffer) \o <<>> = delivered \o stored \o buffer
        <4>1. delivered \o stored \o buffer \in Seq(Byte)
          BY <1>1, ConcatType
        <4> QED
          BY <4>1, ConcatEmptySeq
      <3> QED
        BY <1>2, <2>3, <3>2, <3>3 DEF PInv, StreamPreserved
    <2> QED
      BY <2>1, <2>2, <2>3
  <1>5. Announced' /\ Watching' /\ ReadsInTwoPhases' /\ CountsWhileReading' /\ HandedOverOnce'
    BY <1>2 DEF PInv, TypeOK, Phases, Announced, InputQueued, Watching, ReadsInTwoPhases,
                CountsWhileReading, HandedOverOnce, ReadError
  <1>6. WholeBuffers'
    <2>1. Len(<<>>) = 0 /\ 0 % READ_BUFFER_SIZE = 0
      BY SizesAssumption
    <2>2. size_read > 0 \/ size_read < 1
      BY DEF PInv, TypeOK, ReadError
    <2> QED
      BY <1>2, <2>1, <2>2 DEF PInv, WholeBuffers
  <1> QED
    BY <1>3, <1>4, <1>5, <1>6 DEF PInv

LEMMA RegisterPInv == ASSUME PInv, RegisterCallback PROVE PInv'
  <1>1. /\ delivered' = delivered \o stored /\ stored' = <<>>
        /\ phase = "subscribed" /\ phase' = "open"
        /\ UNCHANGED <<pipe, put, writing, closes, watched, ready, queue, step, size_read, buffer>>
    BY DEF RegisterCallback, HandedOver, kernel
  <1>2. delivered' \in Seq(Byte) /\ stored' \in Seq(Byte) /\ delivered' \o stored' = delivered \o stored
    <2>1. delivered \o stored \in Seq(Byte) /\ <<>> \in Seq(Byte)
      BY ConcatType, EmptySeq DEF PInv, TypeOK
    <2> QED
      BY <1>1, <2>1, ConcatEmptySeq
  <1>3. TypeOK'
    BY <1>1, <1>2 DEF PInv, TypeOK, Phases
  <1>4. StreamPreserved'
    BY <1>1, <1>2 DEF PInv, StreamPreserved
  <1>5. /\ Announced' /\ Watching' /\ HandedOverOnce'
        /\ ReadsInTwoPhases' /\ CountsWhileReading' /\ WholeBuffers'
    BY <1>1 DEF PInv, Announced, InputQueued, Watching, HandedOverOnce, ReadsInTwoPhases,
                CountsWhileReading, WholeBuffers
  <1> QED
    BY <1>3, <1>4, <1>5 DEF PInv

LEMMA StepPInv == PInv /\ [Next]_vars => PInv'
  <1>1. ASSUME PInv, UNCHANGED vars PROVE PInv'
    BY <1>1 DEF PInv, TypeOK, Watching, Announced, InputQueued, HandedOverOnce, StreamPreserved,
                ReadsInTwoPhases, CountsWhileReading, WholeBuffers, vars, kernel, endpoint
  <1> QED
    BY <1>1, WritePInv, EventsPInv, ReadPInv, ProcessPInv, RegisterPInv DEF Next, LoopStep

LEMMA AlwaysPInv == Spec => []PInv
  BY InitPInv, StepPInv, PTL DEF Spec

-----------------------------------------------------------------------------
(* PipeServer: the theorems *)

\* Every state has its type.
THEOREM PipeServerTypeCorrect == Spec => []TypeOK
  <1>1. PInv => TypeOK
    BY DEF PInv
  <1> QED
    BY <1>1, AlwaysPInv, PTL

\* No byte is lost, duplicated or overtaken between the writer and the client's
\* callback, whatever the sizes of the read buffer and the pipe.
THEOREM StreamIsPreserved == Spec => []StreamPreserved
  <1>1. PInv => StreamPreserved
    BY DEF PInv
  <1> QED
    BY <1>1, AlwaysPInv, PTL

\* The edge-triggered subscription forgets no byte, through the change from the
\* Acceptor's subscription to the endpoint's own.
THEOREM NothingIsUnannounced == Spec => []NothingUnannounced
  <1>1. PInv => NothingUnannounced
    BY DEF PInv, TypeOK, Announced, InputQueued, NothingUnannounced, Quiet
  <1> QED
    BY <1>1, AlwaysPInv, PTL

\* What the client does not have when nothing is under way is whole buffers that
\* a failed read left behind.
THEOREM OnlyFullBuffersAreKept == Spec => []OnlyFullBuffersKept
  <1>1. ASSUME PInv, Quiet PROVE stored = <<>>
    BY <1>1 DEF PInv, HandedOverOnce, Quiet
  <1>2. ASSUME PInv, Quiet PROVE Len(buffer) % READ_BUFFER_SIZE = 0
    BY <1>2 DEF PInv, WholeBuffers, Quiet
  <1>3. ASSUME PInv, Quiet PROVE Len(delivered) + Len(buffer) = put
    <2>1. pipe = <<>>
      BY <1>3 DEF PInv, TypeOK, Announced, InputQueued, Quiet
    <2>2. delivered \in Seq(Byte) /\ buffer \in Seq(Byte) /\ <<>> \in Seq(Byte) /\ put \in Nat
      BY <1>3, EmptySeq DEF PInv, TypeOK
    <2>3. delivered \o <<>> \o buffer \o <<>> = [i \in 1..put |-> i]
      BY <1>1, <1>3, <2>1 DEF PInv, StreamPreserved
    <2>4. /\ delivered \o buffer \in Seq(Byte)
          /\ Len(delivered \o buffer) = Len(delivered) + Len(buffer)
      BY <2>2, ConcatType
    <2>5. delivered \o <<>> = delivered /\ (delivered \o buffer) \o <<>> = delivered \o buffer
      BY <2>2, <2>4, ConcatEmptySeq
    <2>6. delivered \o buffer = [i \in 1..put |-> i]
      BY <2>3, <2>5
    <2>7. Len([i \in 1..put |-> i]) = put
      BY <2>2
    <2> QED
      BY <2>4, <2>6, <2>7
  <1>4. PInv => OnlyFullBuffersKept
    BY <1>1, <1>2, <1>3 DEF OnlyFullBuffersKept
  <1> QED
    BY <1>4, AlwaysPInv, PTL

-----------------------------------------------------------------------------
(* ClientEndpoint: what each state says *)

AppSteps == {"idle", "mark", "readOld", "write", "marked", "check", "close", "subscribing"}
EvSteps == {"idle", "onConnected", "readOld", "write", "subscribe", "check", "close"}

\* What a thread holds.
Local == [at : AppSteps \cup EvSteps, target : EConnectionState, old : EConnectionState,
          then : {"idle", "marked", "subscribe", "check"}]

\* A thread that is about to set the state.
Sets(t, target) == thread[t].at \in {"readOld", "write"} /\ thread[t].target = target
Closing == Sets(App, "DISCONNECTED") \/ Sets(Ev, "DISCONNECTED")

\* The application ends a connect; the event-processing thread completes it.
Marking == At(App, "mark") \/ Sets(App, "CONNECTING") \/ At(App, "marked")
Completing == At(Ev, "onConnected") \/ Sets(Ev, "CONNECTED") \/ At(Ev, "subscribe")

\* The end of the connection is among the events.
Holds(events) == \E i \in 1..Len(events) : events[i] = Shutdown
ShutdownPending == Holds(pending)

ClientTypes ==
    /\ state \in EConnectionState /\ device \in ESocketState /\ socket \in Socket
    /\ inProgress \in BOOLEAN /\ direct \in BOOLEAN /\ subscribed \in BOOLEAN
    /\ pending \in Seq(Event) /\ told \in Nat /\ connects \in 0..MaxConnects
    /\ overlap \in BOOLEAN /\ unasked \in BOOLEAN
    /\ thread \in [{App, Ev} -> Local]

\* Where each thread can be, and to what end it sets the state.
Places ==
    /\ thread[App].at \in AppSteps /\ thread[Ev].at \in EvSteps
    /\ thread[App].at \in {"readOld", "write"} =>
          \/ Sets(App, "CONNECTING") /\ thread[App].then = "marked"
          \/ Sets(App, "DISCONNECTED") /\ thread[App].then = "idle"
    /\ thread[Ev].at \in {"readOld", "write"} =>
          \/ Sets(Ev, "CONNECTED") /\ thread[Ev].then = (IF Owns THEN "idle" ELSE "subscribe")
          \/ Sets(Ev, "DISCONNECTING") /\ thread[Ev].then = "check"
          \/ Sets(Ev, "DISCONNECTED") /\ thread[Ev].then = "idle"
    /\ At(Ev, "subscribe") => ~Owns
    /\ At(App, "subscribing") => direct

OneAtATime == ~overlap => At(App, "idle") \/ At(Ev, "idle")

\* Nothing has happened to an endpoint whose socket is new.
Untouched ==
    socket = "new" =>
        /\ state = "AVAILABLE" /\ device = "AVAILABLE" /\ ~inProgress /\ told = 0
        /\ thread[App].at \in {"idle", "check", "subscribing"} /\ At(Ev, "idle")
        /\ ~ShutdownPending
        /\ ~direct => pending = <<>> /\ ~subscribed

\* The device has been connected and its socket was not closed.
Alive == device \in {"CONNECTED", "SHUTDOWN"} /\ socket \notin {"new", "closed"}

\* An endpoint that Connector2 has not handed over is never in two threads.
HandsOver ==
    ~Owns =>
        /\ ~overlap /\ connects \in 0..1
        /\ socket # "new" => connects = 1
        /\ thread[App].at \in {"idle", "mark", "readOld", "write", "marked"} /\ ~Closing
        /\ socket \notin {"new", "closed"} =>
              Alive /\ (At(App, "idle") /\ At(Ev, "idle") => state = "CONNECTING")
        /\ pending # <<>> => At(App, "idle") /\ socket \notin {"new", "closed"}
        /\ ~At(App, "idle") => Marking /\ pending = <<>> /\ Alive
        /\ ~At(Ev, "idle") => Completing /\ Alive
        /\ At(App, "marked") => state = "CONNECTING"
        /\ state = "CONNECTED" => At(Ev, "subscribe")
        /\ state \in {"AVAILABLE", "CONNECTING", "CONNECTED"}

\* While the two threads take turns, what a thread is about to do still fits the device:
\* StateFollowsDevice at every moment.
Alone ==
    ~overlap =>
        /\ Marking => state \in {"AVAILABLE", "CONNECTING"} /\ device = "CONNECTED" 
                      /\ socket # "new" /\ (Owns => socket # "closed")
        /\ Completing => Alive
        /\ Sets(Ev, "CONNECTED") \/ At(Ev, "subscribe") => ~inProgress
        /\ Sets(Ev, "DISCONNECTING") => Alive
        /\ thread[Ev].at \in {"check", "close"} => state = "DISCONNECTING" /\ Alive
        /\ device = "DISCONNECTED" => state = "DISCONNECTED" \/ Closing
        /\ state = "CONNECTED" => Closing \/ (Alive /\ ~inProgress)
        /\ state = "CONNECTING" /\ Owns => Closing \/ Alive
        /\ state = "DISCONNECTING" =>
              thread[Ev].at \in {"check", "close"} \/ Closing \/ device = "SHUTDOWN"

\* A disconnected endpoint was told of; the old state that a thread has read says so
\* for good; and without a hang-up only the one that closes the socket tells.
TellsOnce ==
    /\ state = "DISCONNECTED" => told > 0
    /\ \A t \in {App, Ev} : At(t, "write") /\ thread[t].old = "DISCONNECTED" => told > 0
    /\ ~unasked =>
          /\ told <= 1
          /\ Closing => socket = "closed" /\ told = 0
          /\ ~(Sets(App, "DISCONNECTED") /\ Sets(Ev, "DISCONNECTED"))
          /\ socket # "closed" => told = 0

\* The end of a subscribed socket is pending, being handled, or handled.
EndIsPending ==
    /\ subscribed /\ socket \in {"ended", "failed"} /\ ~overlap =>
          \/ ShutdownPending
          \/ Sets(Ev, "DISCONNECTED")
          \/ state = "DISCONNECTED" /\ At(Ev, "idle")

ClientInv ==
    /\ ClientTypes /\ Places /\ OneAtATime /\ Untouched /\ HandsOver /\ Alone
    /\ TellsOnce /\ EndIsPending

-----------------------------------------------------------------------------
(* ClientEndpoint: moves of the threads, and the events that are pending *)

\* How a move of a thread changes where the two are.
LEMMA IdleIsLocal == Idle \in Local
  BY DEF Idle, Local, AppSteps, EConnectionState

LEMMA MovedThread ==
  ASSUME ClientTypes, NEW t \in {App, Ev}, NEW u \in {App, Ev}, u # t,
         NEW local \in Local, Moved(t, local)
  PROVE  /\ thread' \in [{App, Ev} -> Local]
         /\ thread'[t] = local /\ thread'[u] = thread[u]
         /\ overlap' \in BOOLEAN
         /\ overlap' <=> overlap \/ (local.at # "idle" /\ thread[u].at # "idle")
  <1>1. thread' = [thread EXCEPT ![t] = local] /\ thread \in [{App, Ev} -> Local]
    BY DEF Moved, ClientTypes
  <1>2. thread' \in [{App, Ev} -> Local] /\ thread'[t] = local /\ thread'[u] = thread[u]
    BY <1>1
  <1>3. {App, Ev} = {t, u}
    OBVIOUS
  <1>4. overlap' = (overlap \/ \A v \in {t, u} : thread'[v].at # "idle") /\ overlap \in BOOLEAN
    BY <1>3 DEF Moved, ClientTypes
  <1> HIDE DEF Moved
  <1> QED
    BY <1>2, <1>4

LEMMA GoneThread ==
  ASSUME ClientTypes, NEW t \in {App, Ev}, NEW u \in {App, Ev}, u # t,
         NEW s \in AppSteps \cup EvSteps, Goto(t, s)
  PROVE  /\ thread' \in [{App, Ev} -> Local]
         /\ thread'[t] = (IF s = "idle" THEN Idle ELSE [thread[t] EXCEPT !.at = s])
         /\ thread'[t].at = s
         /\ thread'[u] = thread[u]
         /\ overlap' \in BOOLEAN
         /\ overlap' <=> overlap \/ (s # "idle" /\ thread[u].at # "idle")
  <1> DEFINE local == IF s = "idle" THEN Idle ELSE [thread[t] EXCEPT !.at = s]
  <1>1. thread[t] \in Local
    BY DEF ClientTypes
  <1>2. local \in Local /\ local.at = s
    BY <1>1, IdleIsLocal DEF Local, Idle
  <1>3. Moved(t, local)
    BY DEF Goto
  <1> HIDE DEF local
  <1>4. /\ thread' \in [{App, Ev} -> Local]
        /\ thread'[t] = local /\ thread'[u] = thread[u]
        /\ overlap' \in BOOLEAN
        /\ overlap' <=> overlap \/ (local.at # "idle" /\ thread[u].at # "idle")
    BY <1>2, <1>3, MovedThread
  <1> QED
    BY <1>2, <1>4 DEF local

LEMMA SettingThread ==
  ASSUME ClientTypes, NEW t \in {App, Ev}, NEW u \in {App, Ev}, u # t,
         NEW target \in EConnectionState, NEW next \in {"idle", "marked", "subscribe", "check"},
         SetState(t, target, next)
  PROVE  /\ thread' \in [{App, Ev} -> Local]
         /\ thread'[t].at = "readOld" /\ thread'[t].target = target /\ thread'[t].then = next
         /\ thread'[u] = thread[u]
         /\ overlap' \in BOOLEAN
         /\ overlap' <=> overlap \/ thread[u].at # "idle"
  <1> DEFINE local == [at |-> "readOld", target |-> target, old |-> "AVAILABLE", then |-> next]
  <1>1. local \in Local /\ local.at = "readOld" /\ local.target = target /\ local.then = next
    BY DEF Local, AppSteps, EConnectionState
  <1>2. Moved(t, local)
    BY DEF SetState
  <1> HIDE DEF local
  <1> QED
    BY <1>1, <1>2, MovedThread

LEMMA EndpointInitKeeps == EndpointInit => ClientInv
  <1> SUFFICES ASSUME EndpointInit PROVE ClientInv
    OBVIOUS
  <1>1. thread[App] = Idle /\ thread[Ev] = Idle /\ thread \in [{App, Ev} -> Local]
    BY IdleIsLocal DEF EndpointInit
  <1>2. ~ShutdownPending /\ pending = <<>> /\ pending \in Seq(Event)
    BY DEF EndpointInit, ShutdownPending, Holds
  <1>3. ClientTypes
    <2>1. connects \in 0..MaxConnects /\ told \in Nat
      BY ThreadsAssumption DEF EndpointInit
    <2> QED
      BY <1>1, <1>2, <2>1 DEF EndpointInit, ClientTypes, EConnectionState, ESocketState,
         Socket
  <1> QED
    BY <1>1, <1>2, <1>3
    DEF EndpointInit, ClientInv, Places, OneAtATime, Untouched, HandsOver, Alone, TellsOnce,
        EndIsPending, AppSteps, EvSteps, Idle, At, Sets, Closing, Marking, Completing, Owns

\* An end is delivered when it is in the mask, and only then.
LEMMA ReportedEvents ==
  ASSUME DeliveredFromMask, DeliveredWhole, NEW mask \in SUBSET Event
  PROVE  /\ Delivered(mask) \in Seq(Event)
         /\ Shutdown \in mask <=> Holds(Delivered(mask))
  <1>1. Delivered(mask) \in Seq(mask) /\ Passed(mask) \subseteq Range(Delivered(mask))
    BY DEF DeliveredFromMask, DeliveredWhole
  <1>2. Delivered(mask) \in Seq(Event)
    BY <1>1
  <1>3. ASSUME Shutdown \in mask PROVE Holds(Delivered(mask))
    <2>1. Shutdown \in Passed(mask)
      BY <1>3 DEF Passed, Shutdown, Hup
    <2>2. Shutdown \in Range(Delivered(mask))
      BY <1>1, <2>1
    <2>3. Range(Delivered(mask)) = {Delivered(mask)[i] : i \in DOMAIN Delivered(mask)}
      BY DEF Range
    <2> QED
      BY <1>2, <2>2, <2>3, LenProperties DEF Holds
  <1>4. ASSUME Holds(Delivered(mask)) PROVE Shutdown \in mask
    <2>1. PICK i \in 1..Len(Delivered(mask)) : Delivered(mask)[i] = Shutdown
      BY <1>4 DEF Holds
    <2> QED
      BY <1>1, <2>1, ElementOfSeq, LenProperties
  <1> QED
    BY <1>2, <1>3, <1>4

\* An end is reported of a socket that ended or failed, and of no other.
LEMMA ReportedOf ==
  ASSUME DeliveredFromMask, DeliveredWhole, NEW of, NEW interest \in SUBSET Event
  PROVE  /\ Reported(of, interest) \in Seq(Event)
         /\ Holds(Reported(of, interest)) <=>
               of \in {"ended", "failed"} /\ Shutdown \in interest
  <1>1. Mask(of) \in SUBSET Event /\ (Shutdown \in Mask(of) <=> of \in {"ended", "failed"})
    BY DEF Mask, Event, In, Out, Err, Hup, Shutdown
  <1>2. Mask(of) \cap interest \in SUBSET Event
    BY <1>1
  <1> QED
    BY <1>1, <1>2, ReportedEvents DEF Reported

\* Every subscription of the endpoint asks for ends.
LEMMA InterestedInEnds ==
  ASSUME ClientTypes
  PROVE  /\ Interest \in SUBSET Event /\ Shutdown \in Interest
         /\ {In} \cup Unasked \in SUBSET Event /\ {In, Out} \cup Unasked \in SUBSET Event
         /\ Shutdown \in Unasked
  BY DEF Interest, Unasked, Event, In, Out, Err, Hup, Shutdown

\* What is reported later follows what is pending.
LEMMA AppendedEvents ==
  ASSUME NEW s \in Seq(Event), NEW t \in Seq(Event)
  PROVE  s \o t \in Seq(Event) /\ (Holds(s \o t) <=> Holds(s) \/ Holds(t))
  <1>1. /\ s \o t \in Seq(Event) /\ Len(s \o t) = Len(s) + Len(t)
        /\ \A i \in 1..Len(s) : (s \o t)[i] = s[i]
        /\ \A i \in 1..Len(t) : (s \o t)[Len(s) + i] = t[i]
        /\ Len(s) \in Nat /\ Len(t) \in Nat
    BY ConcatProperties, LenProperties
  <1>2. ASSUME NEW i \in 1..Len(s \o t), (s \o t)[i] = Shutdown PROVE Holds(s) \/ Holds(t)
    <2>1. CASE i <= Len(s)
      BY <1>1, <1>2, <2>1 DEF Holds
    <2>2. CASE i > Len(s)
      <3>1. i - Len(s) \in 1..Len(t) /\ Len(s) + (i - Len(s)) = i
        BY <1>1, <2>2
      <3> QED
        BY <1>1, <1>2, <3>1 DEF Holds
    <2> QED
      BY <1>1, <2>1, <2>2
  <1>3. ASSUME NEW i \in 1..Len(s), s[i] = Shutdown PROVE Holds(s \o t)
    BY <1>1, <1>3 DEF Holds
  <1>4. ASSUME NEW i \in 1..Len(t), t[i] = Shutdown PROVE Holds(s \o t)
    <2>1. Len(s) + i \in 1..Len(s \o t)
      BY <1>1
    <2> QED
      BY <1>1, <1>4, <2>1 DEF Holds
  <1> QED
    BY <1>1, <1>2, <1>3, <1>4 DEF Holds

\* Taking another event leaves the end pending.
LEMMA TakenEvent ==
  ASSUME NEW s \in Seq(Event), s # <<>>
  PROVE  /\ Tail(s) \in Seq(Event)
         /\ Head(s) = Shutdown => Holds(s)
         /\ Head(s) # Shutdown => (Holds(Tail(s)) <=> Holds(s))
  <1>1. /\ Tail(s) \in Seq(Event) /\ Head(s) = s[1] /\ Len(Tail(s)) = Len(s) - 1
        /\ \A i \in 1..Len(Tail(s)) : Tail(s)[i] = s[i + 1]
        /\ Len(s) \in Nat /\ Len(s) >= 1
    BY HeadTailProperties, LenProperties, EmptySeq
  <1>2. ASSUME NEW i \in 1..Len(s), s[i] = Shutdown, Head(s) # Shutdown PROVE Holds(Tail(s))
    <2>1. i - 1 \in 1..Len(Tail(s)) /\ Tail(s)[i - 1] = s[(i - 1) + 1]
      BY <1>1, <1>2
    <2> QED
      BY <1>2, <2>1 DEF Holds
  <1>3. ASSUME NEW i \in 1..Len(Tail(s)), Tail(s)[i] = Shutdown PROVE Holds(s)
    <2>1. i + 1 \in 1..Len(s)
      BY <1>1
    <2> QED
      BY <1>1, <1>3, <2>1 DEF Holds
  <1> QED
    BY <1>1, <1>2, <1>3 DEF Holds

-----------------------------------------------------------------------------
(* ClientEndpoint: each step keeps the invariant *)

\* The second half of connect, in the application's thread.
LEMMA MarkKeeps ==
  ASSUME ClientInv, Mark
  PROVE  ClientInv'
  <1> USE DEF ClientInv
  <1>1. /\ thread' \in [{App, Ev} -> Local]
        /\ thread'[App].at = "readOld" /\ thread'[App].target = "CONNECTING"
        /\ thread'[App].then = "marked" /\ thread'[Ev] = thread[Ev]
        /\ overlap' \in BOOLEAN
        /\ overlap' <=> overlap \/ thread[Ev].at # "idle"
    BY SettingThread, ThreadsAssumption DEF Mark, EConnectionState
  <1>2. /\ inProgress' = TRUE /\ thread[App].at = "mark"
        /\ UNCHANGED <<state, told, device, socket, direct, connects, unasked, subscribed,
                       pending>>
    BY DEF Mark, At, lower, history
  <1>3. (ShutdownPending <=> ShutdownPending') /\ (Owns' <=> Owns)
    BY <1>2 DEF ShutdownPending, Owns
  <1>4. ClientTypes'
    BY <1>1, <1>2, <1>3 DEF ClientTypes
  <1>5. Places'
    BY <1>1, <1>2, <1>3 DEF Places, Sets, At, AppSteps, EvSteps
  <1>6. OneAtATime'
    BY <1>1, <1>2, <1>3 DEF OneAtATime, At
  <1>7. Untouched'
    BY <1>1, <1>2, <1>3 DEF Untouched, At
  <1>8. HandsOver'
    BY <1>1, <1>2, <1>3 DEF OneAtATime, HandsOver, At, Sets, Marking, Completing, Closing,
       Alive
  <1>9. Alone'
    BY <1>1, <1>2, <1>3 DEF OneAtATime, Alone, At, Sets, Marking, Completing, Closing, Alive
  <1>10. TellsOnce'
    BY <1>1, <1>2, <1>3 DEF TellsOnce, At, Sets, Closing
  <1>11. EndIsPending'
    BY <1>1, <1>2, <1>3 DEF EndIsPending, At, Sets
  <1> QED
    BY <1>4, <1>5, <1>6, <1>7, <1>8, <1>9, <1>10, <1>11

LEMMA MarkedKeeps ==
  ASSUME DeliveredFromMask, DeliveredWhole, ClientInv, Marked
  PROVE  ClientInv'
  <1> USE DEF ClientInv
  <1>1. /\ thread' \in [{App, Ev} -> Local]
        /\ thread'[App] = Idle /\ thread'[App].at = "idle" /\ thread'[Ev] = thread[Ev]
        /\ overlap' \in BOOLEAN
        /\ overlap' <=> overlap \/ FALSE
    BY GoneThread, ThreadsAssumption DEF Marked, AppSteps
  <1>2. /\ thread[App].at = "marked"
        /\ UNCHANGED <<state, inProgress, told, device, socket, direct, connects, unasked,
                       subscribed>>
    BY DEF Marked, At, connection, lower, history
  <1>3. /\ Owns' <=> Owns
        /\ pending' \in Seq(Event)
        /\ ShutdownPending' <=> IF direct THEN ShutdownPending ELSE socket \in {"ended", "failed"}
        /\ direct => pending' = pending
    <2>1. pending' = IF direct THEN pending ELSE Reported(socket, Interest)
      BY DEF Marked
    <2> QED
      BY <1>2, <2>1, ReportedOf, InterestedInEnds DEF ShutdownPending, Owns, ClientTypes
  <1>4. ClientTypes'
    BY <1>1, <1>2, <1>3 DEF ClientTypes
  <1>5. Places'
    BY <1>1, <1>2, <1>3 DEF Places, Sets, At, AppSteps, EvSteps
  <1>6. OneAtATime'
    BY <1>1, <1>2, <1>3 DEF OneAtATime, At
  <1>7. Untouched'
    BY <1>1, <1>2, <1>3 DEF Untouched, At
  <1>8. HandsOver'
    BY <1>1, <1>2, <1>3 DEF OneAtATime, HandsOver, At, Sets, Marking, Completing, Closing,
       Alive
  <1>9. Alone'
    BY <1>1, <1>2, <1>3 DEF OneAtATime, Alone, At, Sets, Marking, Completing, Closing, Alive
  <1>10. TellsOnce'
    BY <1>1, <1>2, <1>3 DEF TellsOnce, At, Sets, Closing
  <1>11. EndIsPending'
    BY <1>1, <1>2, <1>3 DEF EndIsPending, At, Sets
  <1> QED
    BY <1>4, <1>5, <1>6, <1>7, <1>8, <1>9, <1>10, <1>11

LEMMA ListenerSubscribeKeeps ==
  ASSUME DeliveredFromMask, DeliveredWhole, ClientInv, ListenerSubscribe
  PROVE  ClientInv'
  <1> USE DEF ClientInv
  <1>1. /\ thread' \in [{App, Ev} -> Local]
        /\ thread'[App].at = "subscribing" /\ thread'[Ev] = thread[Ev]
        /\ overlap' \in BOOLEAN
        /\ overlap' <=> overlap \/ thread[Ev].at # "idle"
    <2>1. Goto(App, "subscribing") /\ ClientTypes
      BY DEF ListenerSubscribe
    <2>2. "subscribing" \in AppSteps \cup EvSteps
      BY DEF AppSteps, EvSteps
    <2> QED
      BY <2>1, <2>2, GoneThread, ThreadsAssumption
  <1>2. /\ direct /\ ~subscribed /\ subscribed' = TRUE /\ thread[App].at = "idle"
        /\ UNCHANGED <<state, inProgress, told, device, socket, direct, connects, unasked>>
    BY DEF ListenerSubscribe, At, connection, lower, history
  <1>3. /\ Owns /\ Owns' /\ pending' \in Seq(Event)
        /\ ShutdownPending' <=> socket \in {"ended", "failed"}
    <2>1. pending' = Reported(socket, {In, Out} \cup Unasked)
      BY DEF ListenerSubscribe
    <2> QED
      BY <1>2, <2>1, ReportedOf, InterestedInEnds DEF ShutdownPending, Owns
  <1>4. ClientTypes'
    BY <1>1, <1>2, <1>3 DEF ClientTypes
  <1>5. Places'
    BY <1>1, <1>2, <1>3 DEF Places, Sets, At, AppSteps, EvSteps
  <1>6. OneAtATime'
    BY <1>1, <1>2, <1>3 DEF OneAtATime, At
  <1>7. Untouched'
    BY <1>1, <1>2, <1>3 DEF Untouched, At
  <1>8. HandsOver'
    BY <1>1, <1>2, <1>3 DEF OneAtATime, HandsOver, At, Sets, Marking, Completing, Closing,
       Alive
  <1>9. Alone'
    BY <1>1, <1>2, <1>3 DEF OneAtATime, Alone, At, Sets, Marking, Completing, Closing, Alive
  <1>10. TellsOnce'
    BY <1>1, <1>2, <1>3 DEF TellsOnce, At, Sets, Closing
  <1>11. EndIsPending'
    BY <1>1, <1>2, <1>3 DEF EndIsPending, At, Sets
  <1> QED
    BY <1>4, <1>5, <1>6, <1>7, <1>8, <1>9, <1>10, <1>11

LEMMA SetListenerIdKeeps ==
  ASSUME ClientInv, SetListenerId
  PROVE  ClientInv'
  <1> USE DEF ClientInv
  <1>1. /\ thread' \in [{App, Ev} -> Local]
        /\ thread'[App] = Idle /\ thread'[App].at = "idle" /\ thread'[Ev] = thread[Ev]
        /\ overlap' \in BOOLEAN
        /\ overlap' <=> overlap \/ FALSE
    BY GoneThread, ThreadsAssumption DEF SetListenerId, AppSteps
  <1>2. /\ thread[App].at = "subscribing"
        /\ UNCHANGED <<state, inProgress, told, device, socket, direct, connects, unasked,
                       subscribed, pending>>
    BY DEF SetListenerId, At, connection, lower, history
  <1>3. (ShutdownPending <=> ShutdownPending') /\ (Owns' <=> Owns)
    BY <1>2 DEF ShutdownPending, Owns
  <1>4. ClientTypes'
    BY <1>1, <1>2, <1>3 DEF ClientTypes
  <1>5. Places'
    BY <1>1, <1>2, <1>3 DEF Places, Sets, At, AppSteps, EvSteps
  <1>6. OneAtATime'
    BY <1>1, <1>2, <1>3 DEF OneAtATime, At
  <1>7. Untouched'
    BY <1>1, <1>2, <1>3 DEF Untouched, At
  <1>8. HandsOver'
    BY <1>1, <1>2, <1>3 DEF OneAtATime, HandsOver, At, Sets, Marking, Completing, Closing,
       Alive
  <1>9. Alone'
    BY <1>1, <1>2, <1>3 DEF OneAtATime, Alone, At, Sets, Marking, Completing, Closing, Alive
  <1>10. TellsOnce'
    BY <1>1, <1>2, <1>3 DEF TellsOnce, At, Sets, Closing
  <1>11. EndIsPending'
    BY <1>1, <1>2, <1>3 DEF EndIsPending, At, Sets
  <1> QED
    BY <1>4, <1>5, <1>6, <1>7, <1>8, <1>9, <1>10, <1>11

\* What comes meanwhile is dropped, and the subscription may be too.
LEMMA RefuseUnknownIdKeeps ==
  ASSUME ClientInv, RefuseUnknownId
  PROVE  ClientInv'
  <1> USE DEF ClientInv
  <1>1. thread' = thread /\ overlap' = TRUE
    BY DEF RefuseUnknownId
  <1>2. /\ thread[App].at = "subscribing" /\ thread[Ev].at = "idle" /\ direct
        /\ pending' = <<>> /\ subscribed' \in BOOLEAN
        /\ UNCHANGED <<state, inProgress, told, device, socket, direct, connects, unasked>>
    BY DEF RefuseUnknownId, At, Places, connection, lower
  <1>3. /\ Owns /\ Owns' /\ pending' \in Seq(Event) /\ ~ShutdownPending'
    BY <1>2 DEF ShutdownPending, Holds, Owns
  <1>4. ClientTypes'
    BY <1>1, <1>2, <1>3 DEF ClientTypes
  <1>5. Places'
    BY <1>1, <1>2, <1>3 DEF Places, Sets, At, AppSteps, EvSteps
  <1>6. OneAtATime'
    BY <1>1, <1>2, <1>3 DEF OneAtATime, At
  <1>7. Untouched'
    BY <1>1, <1>2, <1>3 DEF Untouched, At
  <1>8. HandsOver'
    BY <1>1, <1>2, <1>3 DEF OneAtATime, HandsOver, At, Sets, Marking, Completing, Closing,
       Alive
  <1>9. Alone'
    BY <1>1, <1>2, <1>3 DEF OneAtATime, Alone, At, Sets, Marking, Completing, Closing, Alive
  <1>10. TellsOnce'
    BY <1>1, <1>2, <1>3 DEF TellsOnce, At, Sets, Closing
  <1>11. EndIsPending'
    BY <1>1, <1>2, <1>3 DEF EndIsPending, At, Sets
  <1> QED
    BY <1>4, <1>5, <1>6, <1>7, <1>8, <1>9, <1>10, <1>11

LEMMA DisconnectKeeps ==
  ASSUME ClientInv, Disconnect
  PROVE  ClientInv'
  <1> USE DEF ClientInv
  <1>1. /\ thread' \in [{App, Ev} -> Local]
        /\ thread'[App].at = "check" /\ thread'[Ev] = thread[Ev]
        /\ overlap' \in BOOLEAN
        /\ overlap' <=> overlap \/ thread[Ev].at # "idle"
    <2>1. Goto(App, "check") /\ ClientTypes
      BY DEF Disconnect
    <2>2. "check" \in AppSteps \cup EvSteps
      BY DEF AppSteps, EvSteps
    <2> QED
      BY <2>1, <2>2, GoneThread, ThreadsAssumption
  <1>2. /\ thread[App].at = "idle" /\ Owns
        /\ UNCHANGED <<state, inProgress, told, device, socket, direct, connects, unasked,
                       subscribed, pending>>
    BY DEF Disconnect, At, connection, lower, history
  <1>3. (ShutdownPending <=> ShutdownPending') /\ (Owns' <=> Owns)
    BY <1>2 DEF ShutdownPending, Owns
  <1>4. ClientTypes'
    BY <1>1, <1>2, <1>3 DEF ClientTypes
  <1>5. Places'
    BY <1>1, <1>2, <1>3 DEF Places, Sets, At, AppSteps, EvSteps
  <1>6. OneAtATime'
    BY <1>1, <1>2, <1>3 DEF OneAtATime, At
  <1>7. Untouched'
    BY <1>1, <1>2, <1>3 DEF Untouched, At
  <1>8. HandsOver'
    BY <1>1, <1>2, <1>3 DEF OneAtATime, HandsOver, At, Sets, Marking, Completing, Closing,
       Alive
  <1>9. Alone'
    BY <1>1, <1>2, <1>3 DEF OneAtATime, Alone, At, Sets, Marking, Completing, Closing, Alive
  <1>10. TellsOnce'
    BY <1>1, <1>2, <1>3 DEF TellsOnce, At, Sets, Closing
  <1>11. EndIsPending'
    BY <1>1, <1>2, <1>3 DEF EndIsPending, At, Sets
  <1> QED
    BY <1>4, <1>5, <1>6, <1>7, <1>8, <1>9, <1>10, <1>11

LEMMA ShutdownKeeps ==
  ASSUME ClientInv, shutdown
  PROVE  ClientInv'
  <1> USE DEF ClientInv
  <1>1. thread' = thread /\ overlap' = overlap
    BY DEF shutdown
  <1>2. /\ thread[App].at = "idle" /\ Owns /\ socket \in {"connected", "ended"}
        /\ device' = "SHUTDOWN"
        /\ UNCHANGED <<state, inProgress, told, socket, direct, connects, unasked,
                       subscribed, pending>>
    BY DEF shutdown, At, connection, history
  <1>3. (ShutdownPending <=> ShutdownPending') /\ (Owns' <=> Owns)
    BY <1>2 DEF ShutdownPending, Owns
  <1>4. ClientTypes'
    BY <1>1, <1>2, <1>3 DEF ClientTypes, ESocketState
  <1>5. Places'
    BY <1>1, <1>2, <1>3 DEF Places, Sets, At, AppSteps, EvSteps
  <1>6. OneAtATime'
    BY <1>1, <1>2, <1>3 DEF OneAtATime, At
  <1>7. Untouched'
    BY <1>1, <1>2, <1>3 DEF Untouched, At
  <1>8. HandsOver'
    BY <1>1, <1>2, <1>3 DEF OneAtATime, HandsOver, At, Sets, Marking, Completing, Closing,
       Alive
  <1>9. Alone'
    BY <1>1, <1>2, <1>3 DEF OneAtATime, Alone, At, Sets, Marking, Completing, Closing, Alive
  <1>10. TellsOnce'
    BY <1>1, <1>2, <1>3 DEF TellsOnce, At, Sets, Closing
  <1>11. EndIsPending'
    BY <1>1, <1>2, <1>3 DEF EndIsPending, At, Sets
  <1> QED
    BY <1>4, <1>5, <1>6, <1>7, <1>8, <1>9, <1>10, <1>11

\* Of a thread that disconnects or sets the state, first the application's.
LEMMA CheckConnectedKeepsApp ==
  ASSUME ClientInv, CheckConnected(App)
  PROVE  ClientInv'
  <1> USE DEF ClientInv
  <1>1. /\ thread' \in [{App, Ev} -> Local]
        /\ thread'[App].at = (IF MayClose THEN "close" ELSE "idle")
        /\ thread'[Ev] = thread[Ev]
        /\ overlap' \in BOOLEAN
        /\ overlap' <=> overlap \/ (MayClose /\ thread[Ev].at # "idle")
    <2>1. Goto(App, (IF MayClose THEN "close" ELSE "idle")) /\ ClientTypes
      BY DEF CheckConnected
    <2>2. (IF MayClose THEN "close" ELSE "idle") \in AppSteps \cup EvSteps
      BY DEF AppSteps, EvSteps
    <2> QED
      BY <2>1, <2>2, GoneThread, ThreadsAssumption
  <1>2. /\ thread[App].at = "check" /\ (MayClose <=> device = "CONNECTED")
        /\ UNCHANGED <<state, inProgress, told, device, socket, direct, connects, unasked,
                       subscribed, pending>>
    BY DEF CheckConnected, MayClose, At, connection, lower, history
  <1>3. (ShutdownPending <=> ShutdownPending') /\ (Owns' <=> Owns)
    BY <1>2 DEF ShutdownPending, Owns
  <1>4. ClientTypes'
    BY <1>1, <1>2, <1>3 DEF ClientTypes
  <1>5. Places'
    BY <1>1, <1>2, <1>3 DEF Places, Sets, At, AppSteps, EvSteps
  <1>6. OneAtATime'
    BY <1>1, <1>2, <1>3 DEF OneAtATime, At
  <1>7. Untouched'
    BY <1>1, <1>2, <1>3 DEF Untouched, At
  <1>8. HandsOver'
    BY <1>1, <1>2, <1>3 DEF OneAtATime, HandsOver, At, Sets, Marking, Completing, Closing,
       Alive
  <1>9. Alone'
    BY <1>1, <1>2, <1>3 DEF OneAtATime, Alone, At, Sets, Marking, Completing, Closing, Alive
  <1>10. TellsOnce'
    BY <1>1, <1>2, <1>3 DEF TellsOnce, At, Sets, Closing
  <1>11. EndIsPending'
    BY <1>1, <1>2, <1>3 DEF EndIsPending, At, Sets
  <1> QED
    BY <1>4, <1>5, <1>6, <1>7, <1>8, <1>9, <1>10, <1>11

LEMMA ReadOldStateKeepsApp ==
  ASSUME ClientInv, ReadOldState(App)
  PROVE  ClientInv'
  <1> USE DEF ClientInv
  <1>1. /\ thread' \in [{App, Ev} -> Local]
        /\ thread'[App].at = "write" /\ thread'[App].target = thread[App].target
        /\ thread'[App].then = thread[App].then /\ thread'[App].old = state
        /\ thread'[Ev] = thread[Ev]
        /\ overlap' \in BOOLEAN
        /\ overlap' <=> overlap \/ thread[Ev].at # "idle"
    <2> DEFINE local == [thread[App] EXCEPT !.at = "write", !.old = state]
    <2>1. local \in Local /\ local.at = "write" /\ local.target = thread[App].target
          /\ local.then = thread[App].then /\ local.old = state
      BY ThreadsAssumption DEF ClientTypes, Local, AppSteps
    <2>2. Moved(App, local)
      BY DEF ReadOldState
    <2> HIDE DEF local
    <2> QED
      BY <2>1, <2>2, MovedThread, ThreadsAssumption
  <1>2. /\ thread[App].at = "readOld"
        /\ UNCHANGED <<state, inProgress, told, device, socket, direct, connects, unasked,
                       subscribed, pending>>
    BY DEF ReadOldState, At, connection, lower, history
  <1>3. (ShutdownPending <=> ShutdownPending') /\ (Owns' <=> Owns)
    BY <1>2 DEF ShutdownPending, Owns
  <1>4. ClientTypes'
    BY <1>1, <1>2, <1>3 DEF ClientTypes
  <1>5. Places'
    BY <1>1, <1>2, <1>3 DEF Places, Sets, At, AppSteps, EvSteps
  <1>6. OneAtATime'
    BY <1>1, <1>2, <1>3 DEF OneAtATime, At
  <1>7. Untouched'
    BY <1>1, <1>2, <1>3 DEF Untouched, At
  <1>8. HandsOver'
    BY <1>1, <1>2, <1>3 DEF OneAtATime, HandsOver, At, Sets, Marking, Completing, Closing,
       Alive
  <1>9. Alone'
    BY <1>1, <1>2, <1>3 DEF OneAtATime, Alone, At, Sets, Marking, Completing, Closing, Alive
  <1>10. TellsOnce'
    BY <1>1, <1>2, <1>3 DEF TellsOnce, At, Sets, Closing
  <1>11. EndIsPending'
    BY <1>1, <1>2, <1>3 DEF EndIsPending, At, Sets
  <1> QED
    BY <1>4, <1>5, <1>6, <1>7, <1>8, <1>9, <1>10, <1>11

LEMMA WriteStateKeepsApp ==
  ASSUME ClientInv, WriteState(App)
  PROVE  ClientInv'
  <1> USE DEF ClientInv
  <1>1. /\ thread' \in [{App, Ev} -> Local]
        /\ thread'[App].at = thread[App].then
        /\ thread'[Ev] = thread[Ev]
        /\ overlap' \in BOOLEAN
        /\ overlap' <=> overlap \/ (thread[App].then # "idle" /\ thread[Ev].at # "idle")
    <2>1. thread[App].then \in AppSteps \cup EvSteps
      BY DEF ClientTypes, Local, AppSteps, EvSteps
    <2> QED
      BY <2>1, GoneThread, ThreadsAssumption DEF WriteState
  <1>2. /\ thread[App].at = "write" /\ state' = thread[App].target
        /\ told \in Nat /\ told' \in Nat
        /\ told' = IF thread[App].target = "DISCONNECTED" /\ thread[App].old # "DISCONNECTED"
                   THEN told + 1 ELSE told
        /\ state' \in EConnectionState
        /\ UNCHANGED <<inProgress, device, socket, direct, connects, unasked, subscribed,
                       pending>>
    BY DEF WriteState, Tells, At, lower, history, ClientTypes, Local
  <1>3. (ShutdownPending <=> ShutdownPending') /\ (Owns' <=> Owns)
    BY <1>2 DEF ShutdownPending, Owns
  <1>4. ClientTypes'
    BY <1>1, <1>2, <1>3 DEF ClientTypes
  <1>5. Places'
    BY <1>1, <1>2, <1>3 DEF Places, Sets, At, AppSteps, EvSteps
  <1>6. OneAtATime'
    BY <1>1, <1>2, <1>3 DEF OneAtATime, At
  <1>7. Untouched'
    BY <1>1, <1>2, <1>3 DEF Untouched, At
  <1>8. HandsOver'
    BY <1>1, <1>2, <1>3 DEF OneAtATime, HandsOver, At, Sets, Marking, Completing, Closing,
       Alive, Places
  <1>9. Alone'
    BY <1>1, <1>2, <1>3 DEF OneAtATime, Alone, At, Sets, Marking, Completing, Closing,
       Alive, Places
  <1>10. TellsOnce'
    BY <1>1, <1>2, <1>3 DEF TellsOnce, At, Sets, Closing, Places
  <1>11. EndIsPending'
    BY <1>1, <1>2, <1>3 DEF EndIsPending, At, Sets, Places, OneAtATime, Alone, Marking
  <1> QED
    BY <1>4, <1>5, <1>6, <1>7, <1>8, <1>9, <1>10, <1>11

LEMMA CloseDeviceKeepsApp ==
  ASSUME ClientInv, CloseDevice(App)
  PROVE  ClientInv'
  <1> USE DEF ClientInv
  <1>1. /\ thread' \in [{App, Ev} -> Local] /\ thread'[Ev] = thread[Ev]
        /\ overlap' \in BOOLEAN
        /\ IF socket = "closed" THEN thread'[App].at = "idle" /\ (overlap' <=> overlap)
           ELSE /\ thread'[App].at = "readOld" /\ thread'[App].target = "DISCONNECTED"
                /\ thread'[App].then = "idle"
                /\ overlap' <=> overlap \/ thread[Ev].at # "idle"
    BY GoneThread, SettingThread, ThreadsAssumption DEF CloseDevice, AppSteps,
       EConnectionState
  <1>2. /\ thread[App].at = "close" /\ socket' = "closed"
        /\ device' = IF socket = "closed" THEN device ELSE "DISCONNECTED"
        /\ UNCHANGED <<state, inProgress, told, direct, connects, unasked, subscribed,
                       pending>>
    BY DEF CloseDevice, At, connection, lower, history
  <1>3. (ShutdownPending <=> ShutdownPending') /\ (Owns' <=> Owns)
    BY <1>2 DEF ShutdownPending, Owns
  <1>4. ClientTypes'
    BY <1>1, <1>2, <1>3 DEF ClientTypes, ESocketState, Socket
  <1>5. Places'
    BY <1>1, <1>2, <1>3 DEF Places, Sets, At, AppSteps, EvSteps
  <1>6. OneAtATime'
    BY <1>1, <1>2, <1>3 DEF OneAtATime, At
  <1>7. Untouched'
    BY <1>1, <1>2, <1>3 DEF Untouched, At
  <1>8. HandsOver'
    BY <1>1, <1>2, <1>3 DEF OneAtATime, HandsOver, At, Sets, Marking, Completing, Closing,
       Alive
  <1>9. Alone'
    BY <1>1, <1>2, <1>3 DEF OneAtATime, Alone, At, Sets, Marking, Completing, Closing, Alive
  <1>10. TellsOnce'
    BY <1>1, <1>2, <1>3 DEF TellsOnce, At, Sets, Closing
  <1>11. EndIsPending'
    BY <1>1, <1>2, <1>3 DEF EndIsPending, At, Sets
  <1> QED
    BY <1>4, <1>5, <1>6, <1>7, <1>8, <1>9, <1>10, <1>11

\* The same of the event-processing thread.
LEMMA CheckConnectedKeepsEv ==
  ASSUME ClientInv, CheckConnected(Ev)
  PROVE  ClientInv'
  <1> USE DEF ClientInv
  <1>1. /\ thread' \in [{App, Ev} -> Local]
        /\ thread'[Ev].at = (IF MayClose THEN "close" ELSE "idle")
        /\ thread'[App] = thread[App]
        /\ overlap' \in BOOLEAN
        /\ overlap' <=> overlap \/ (MayClose /\ thread[App].at # "idle")
    <2>1. Goto(Ev, (IF MayClose THEN "close" ELSE "idle")) /\ ClientTypes
      BY DEF CheckConnected
    <2>2. (IF MayClose THEN "close" ELSE "idle") \in AppSteps \cup EvSteps
      BY DEF AppSteps, EvSteps
    <2> QED
      BY <2>1, <2>2, GoneThread, ThreadsAssumption
  <1>2. /\ thread[Ev].at = "check" /\ (MayClose <=> device = "CONNECTED")
        /\ UNCHANGED <<state, inProgress, told, device, socket, direct, connects, unasked,
                       subscribed, pending>>
    BY DEF CheckConnected, MayClose, At, connection, lower, history
  <1>3. (ShutdownPending <=> ShutdownPending') /\ (Owns' <=> Owns)
    BY <1>2 DEF ShutdownPending, Owns
  <1>4. ClientTypes'
    BY <1>1, <1>2, <1>3 DEF ClientTypes
  <1>5. Places'
    BY <1>1, <1>2, <1>3 DEF Places, Sets, At, AppSteps, EvSteps
  <1>6. OneAtATime'
    BY <1>1, <1>2, <1>3 DEF OneAtATime, At
  <1>7. Untouched'
    BY <1>1, <1>2, <1>3 DEF Untouched, At
  <1>8. HandsOver'
    BY <1>1, <1>2, <1>3 DEF OneAtATime, HandsOver, At, Sets, Marking, Completing, Closing,
       Alive
  <1>9. Alone'
    BY <1>1, <1>2, <1>3 DEF OneAtATime, Alone, At, Sets, Marking, Completing, Closing, Alive
  <1>10. TellsOnce'
    BY <1>1, <1>2, <1>3 DEF TellsOnce, At, Sets, Closing
  <1>11. EndIsPending'
    BY <1>1, <1>2, <1>3 DEF EndIsPending, At, Sets
  <1> QED
    BY <1>4, <1>5, <1>6, <1>7, <1>8, <1>9, <1>10, <1>11

LEMMA ReadOldStateKeepsEv ==
  ASSUME ClientInv, ReadOldState(Ev)
  PROVE  ClientInv'
  <1> USE DEF ClientInv
  <1>1. /\ thread' \in [{App, Ev} -> Local]
        /\ thread'[Ev].at = "write" /\ thread'[Ev].target = thread[Ev].target
        /\ thread'[Ev].then = thread[Ev].then /\ thread'[Ev].old = state
        /\ thread'[App] = thread[App]
        /\ overlap' \in BOOLEAN
        /\ overlap' <=> overlap \/ thread[App].at # "idle"
    <2> DEFINE local == [thread[Ev] EXCEPT !.at = "write", !.old = state]
    <2>1. local \in Local /\ local.at = "write" /\ local.target = thread[Ev].target
          /\ local.then = thread[Ev].then /\ local.old = state
      BY ThreadsAssumption DEF ClientTypes, Local, AppSteps
    <2>2. Moved(Ev, local)
      BY DEF ReadOldState
    <2> HIDE DEF local
    <2> QED
      BY <2>1, <2>2, MovedThread, ThreadsAssumption
  <1>2. /\ thread[Ev].at = "readOld"
        /\ UNCHANGED <<state, inProgress, told, device, socket, direct, connects, unasked,
                       subscribed, pending>>
    BY DEF ReadOldState, At, connection, lower, history
  <1>3. (ShutdownPending <=> ShutdownPending') /\ (Owns' <=> Owns)
    BY <1>2 DEF ShutdownPending, Owns
  <1>4. ClientTypes'
    BY <1>1, <1>2, <1>3 DEF ClientTypes
  <1>5. Places'
    BY <1>1, <1>2, <1>3 DEF Places, Sets, At, AppSteps, EvSteps
  <1>6. OneAtATime'
    BY <1>1, <1>2, <1>3 DEF OneAtATime, At
  <1>7. Untouched'
    BY <1>1, <1>2, <1>3 DEF Untouched, At
  <1>8. HandsOver'
    BY <1>1, <1>2, <1>3 DEF OneAtATime, HandsOver, At, Sets, Marking, Completing, Closing,
       Alive
  <1>9. Alone'
    BY <1>1, <1>2, <1>3 DEF OneAtATime, Alone, At, Sets, Marking, Completing, Closing, Alive
  <1>10. TellsOnce'
    BY <1>1, <1>2, <1>3 DEF TellsOnce, At, Sets, Closing
  <1>11. EndIsPending'
    BY <1>1, <1>2, <1>3 DEF EndIsPending, At, Sets
  <1> QED
    BY <1>4, <1>5, <1>6, <1>7, <1>8, <1>9, <1>10, <1>11

LEMMA WriteStateKeepsEv ==
  ASSUME ClientInv, WriteState(Ev)
  PROVE  ClientInv'
  <1> USE DEF ClientInv
  <1>1. /\ thread' \in [{App, Ev} -> Local]
        /\ thread'[Ev].at = thread[Ev].then
        /\ thread'[App] = thread[App]
        /\ overlap' \in BOOLEAN
        /\ overlap' <=> overlap \/ (thread[Ev].then # "idle" /\ thread[App].at # "idle")
    <2>1. thread[Ev].then \in AppSteps \cup EvSteps
      BY DEF ClientTypes, Local, AppSteps, EvSteps
    <2> QED
      BY <2>1, GoneThread, ThreadsAssumption DEF WriteState
  <1>2. /\ thread[Ev].at = "write" /\ state' = thread[Ev].target
        /\ told \in Nat /\ told' \in Nat
        /\ told' = IF thread[Ev].target = "DISCONNECTED" /\ thread[Ev].old # "DISCONNECTED"
                   THEN told + 1 ELSE told
        /\ state' \in EConnectionState
        /\ UNCHANGED <<inProgress, device, socket, direct, connects, unasked, subscribed,
                       pending>>
    BY DEF WriteState, Tells, At, lower, history, ClientTypes, Local
  <1>3. (ShutdownPending <=> ShutdownPending') /\ (Owns' <=> Owns)
    BY <1>2 DEF ShutdownPending, Owns
  <1>4. ClientTypes'
    BY <1>1, <1>2, <1>3 DEF ClientTypes
  <1>5. Places'
    BY <1>1, <1>2, <1>3 DEF Places, Sets, At, AppSteps, EvSteps
  <1>6. OneAtATime'
    BY <1>1, <1>2, <1>3 DEF OneAtATime, At
  <1>7. Untouched'
    BY <1>1, <1>2, <1>3 DEF Untouched, At
  <1>8. HandsOver'
    BY <1>1, <1>2, <1>3 DEF OneAtATime, HandsOver, At, Sets, Marking, Completing, Closing,
       Alive, Places
  <1>9. Alone'
    BY <1>1, <1>2, <1>3 DEF OneAtATime, Alone, At, Sets, Marking, Completing, Closing,
       Alive, Places
  <1>10. TellsOnce'
    BY <1>1, <1>2, <1>3 DEF TellsOnce, At, Sets, Closing, Places
  <1>11. EndIsPending'
    BY <1>1, <1>2, <1>3 DEF EndIsPending, At, Sets, Places, OneAtATime, Alone, Marking
  <1> QED
    BY <1>4, <1>5, <1>6, <1>7, <1>8, <1>9, <1>10, <1>11

LEMMA CloseDeviceKeepsEv ==
  ASSUME ClientInv, CloseDevice(Ev)
  PROVE  ClientInv'
  <1> USE DEF ClientInv
  <1>1. /\ thread' \in [{App, Ev} -> Local] /\ thread'[App] = thread[App]
        /\ overlap' \in BOOLEAN
        /\ IF socket = "closed" THEN thread'[Ev].at = "idle" /\ (overlap' <=> overlap)
           ELSE /\ thread'[Ev].at = "readOld" /\ thread'[Ev].target = "DISCONNECTED"
                /\ thread'[Ev].then = "idle"
                /\ overlap' <=> overlap \/ thread[App].at # "idle"
    BY GoneThread, SettingThread, ThreadsAssumption DEF CloseDevice, AppSteps,
       EConnectionState
  <1>2. /\ thread[Ev].at = "close" /\ socket' = "closed"
        /\ device' = IF socket = "closed" THEN device ELSE "DISCONNECTED"
        /\ UNCHANGED <<state, inProgress, told, direct, connects, unasked, subscribed,
                       pending>>
    BY DEF CloseDevice, At, connection, lower, history
  <1>3. (ShutdownPending <=> ShutdownPending') /\ (Owns' <=> Owns)
    BY <1>2 DEF ShutdownPending, Owns
  <1>4. ClientTypes'
    BY <1>1, <1>2, <1>3 DEF ClientTypes, ESocketState, Socket
  <1>5. Places'
    BY <1>1, <1>2, <1>3 DEF Places, Sets, At, AppSteps, EvSteps
  <1>6. OneAtATime'
    BY <1>1, <1>2, <1>3 DEF OneAtATime, At
  <1>7. Untouched'
    BY <1>1, <1>2, <1>3 DEF Untouched, At
  <1>8. HandsOver'
    BY <1>1, <1>2, <1>3 DEF OneAtATime, HandsOver, At, Sets, Marking, Completing, Closing,
       Alive
  <1>9. Alone'
    BY <1>1, <1>2, <1>3 DEF OneAtATime, Alone, At, Sets, Marking, Completing, Closing, Alive
  <1>10. TellsOnce'
    BY <1>1, <1>2, <1>3 DEF TellsOnce, At, Sets, Closing
  <1>11. EndIsPending'
    BY <1>1, <1>2, <1>3 DEF EndIsPending, At, Sets
  <1> QED
    BY <1>4, <1>5, <1>6, <1>7, <1>8, <1>9, <1>10, <1>11

\* The handlers of the endpoint.
LEMMA IgnoredKeeps ==
  ASSUME ClientInv, Ignored
  PROVE  ClientInv'
  <1> USE DEF ClientInv
  <1>1. thread' = thread /\ overlap' = overlap
    BY DEF Ignored
  <1>2. UNCHANGED <<state, inProgress, told, device, socket, direct, connects, unasked,
                    subscribed>>
    BY DEF Ignored, connection, lower, history
  <1>3. /\ Owns /\ Owns' /\ pending' \in Seq(Event) /\ (ShutdownPending' <=> ShutdownPending)
        /\ pending # <<>> /\ thread[Ev].at = "idle"
    <2>1. /\ pending # <<>> /\ pending' = Tail(pending) /\ Head(pending) # Shutdown /\ Owns
          /\ thread[Ev].at = "idle"
      BY DEF Ignored, Take, At, In, Out, Err, Hup, Shutdown
    <2> QED
      BY <1>2, <2>1, TakenEvent DEF ShutdownPending, Owns, ClientTypes
  <1>4. ClientTypes'
    BY <1>1, <1>2, <1>3 DEF ClientTypes
  <1>5. Places'
    BY <1>1, <1>2, <1>3 DEF Places, Sets, At, AppSteps, EvSteps
  <1>6. OneAtATime'
    BY <1>1, <1>2, <1>3 DEF OneAtATime, At
  <1>7. Untouched'
    BY <1>1, <1>2, <1>3 DEF Untouched, At
  <1>8. HandsOver'
    BY <1>1, <1>2, <1>3 DEF OneAtATime, HandsOver, At, Sets, Marking, Completing, Closing,
       Alive
  <1>9. Alone'
    BY <1>1, <1>2, <1>3 DEF OneAtATime, Alone, At, Sets, Marking, Completing, Closing, Alive
  <1>10. TellsOnce'
    BY <1>1, <1>2, <1>3 DEF TellsOnce, At, Sets, Closing
  <1>11. EndIsPending'
    BY <1>1, <1>2, <1>3 DEF EndIsPending, At, Sets
  <1> QED
    BY <1>4, <1>5, <1>6, <1>7, <1>8, <1>9, <1>10, <1>11

LEMMA OutputEventKeeps ==
  ASSUME ClientInv, OutputEvent
  PROVE  ClientInv'
  <1> USE DEF ClientInv
  <1>1. /\ thread' \in [{App, Ev} -> Local] /\ thread'[App] = thread[App]
        /\ overlap' \in BOOLEAN
        /\ IF state = "CONNECTING"
           THEN thread'[Ev].at = "onConnected" /\ (overlap' <=> overlap \/ thread[App].at # "idle")
           ELSE thread' = thread /\ (overlap' <=> overlap)
    <2>1. CASE state = "CONNECTING"
      <3>1. Goto(Ev, "onConnected") /\ ClientTypes
        BY <2>1 DEF OutputEvent
      <3>2. "onConnected" \in AppSteps \cup EvSteps
        BY DEF EvSteps
      <3> QED
        BY <2>1, <3>1, <3>2, GoneThread, ThreadsAssumption
    <2>2. CASE state # "CONNECTING"
      BY <2>2 DEF OutputEvent, ClientTypes
    <2> QED
      BY <2>1, <2>2
  <1>2. UNCHANGED <<state, inProgress, told, device, socket, direct, connects, unasked,
                    subscribed>>
    BY DEF OutputEvent, connection, lower, history
  <1>3. /\ Owns /\ Owns' /\ pending' \in Seq(Event) /\ (ShutdownPending' <=> ShutdownPending)
        /\ pending # <<>> /\ thread[Ev].at = "idle"
    <2>1. /\ pending # <<>> /\ pending' = Tail(pending) /\ Head(pending) # Shutdown /\ Owns
          /\ thread[Ev].at = "idle"
      BY DEF OutputEvent, Take, At, In, Out, Err, Hup, Shutdown
    <2> QED
      BY <1>2, <2>1, TakenEvent DEF ShutdownPending, Owns, ClientTypes
  <1>4. ClientTypes'
    BY <1>1, <1>2, <1>3 DEF ClientTypes
  <1>5. Places'
    BY <1>1, <1>2, <1>3 DEF Places, Sets, At, AppSteps, EvSteps
  <1>6. OneAtATime'
    BY <1>1, <1>2, <1>3 DEF OneAtATime, At
  <1>7. Untouched'
    BY <1>1, <1>2, <1>3 DEF Untouched, At
  <1>8. HandsOver'
    BY <1>1, <1>2, <1>3 DEF OneAtATime, HandsOver, At, Sets, Marking, Completing, Closing,
       Alive
  <1>9. Alone'
    BY <1>1, <1>2, <1>3 DEF OneAtATime, Alone, At, Sets, Marking, Completing, Closing, Alive
  <1>10. TellsOnce'
    BY <1>1, <1>2, <1>3 DEF TellsOnce, At, Sets, Closing
  <1>11. EndIsPending'
    BY <1>1, <1>2, <1>3 DEF EndIsPending, At, Sets
  <1> QED
    BY <1>4, <1>5, <1>6, <1>7, <1>8, <1>9, <1>10, <1>11

LEMMA ErrorEventKeeps ==
  ASSUME ClientInv, ErrorEvent
  PROVE  ClientInv'
  <1> USE DEF ClientInv
  <1>1. /\ thread' \in [{App, Ev} -> Local] /\ thread'[App] = thread[App]
        /\ overlap' \in BOOLEAN
        /\ IF state = "CONNECTED"
           THEN /\ thread'[Ev].at = "readOld" /\ thread'[Ev].target = "DISCONNECTING"
                /\ thread'[Ev].then = "check"
                /\ overlap' <=> overlap \/ thread[App].at # "idle"
           ELSE thread' = thread /\ (overlap' <=> overlap)
    BY SettingThread, ThreadsAssumption DEF ErrorEvent, EConnectionState, ClientTypes
  <1>2. UNCHANGED <<state, inProgress, told, device, socket, direct, connects, unasked,
                    subscribed>>
    BY DEF ErrorEvent, connection, lower, history
  <1>3. /\ Owns /\ Owns' /\ pending' \in Seq(Event) /\ (ShutdownPending' <=> ShutdownPending)
        /\ pending # <<>> /\ thread[Ev].at = "idle"
    <2>1. /\ pending # <<>> /\ pending' = Tail(pending) /\ Head(pending) # Shutdown /\ Owns
          /\ thread[Ev].at = "idle"
      BY DEF ErrorEvent, Take, At, In, Out, Err, Hup, Shutdown
    <2> QED
      BY <1>2, <2>1, TakenEvent DEF ShutdownPending, Owns, ClientTypes
  <1>4. ClientTypes'
    BY <1>1, <1>2, <1>3 DEF ClientTypes
  <1>5. Places'
    BY <1>1, <1>2, <1>3 DEF Places, Sets, At, AppSteps, EvSteps
  <1>6. OneAtATime'
    BY <1>1, <1>2, <1>3 DEF OneAtATime, At
  <1>7. Untouched'
    BY <1>1, <1>2, <1>3 DEF Untouched, At
  <1>8. HandsOver'
    BY <1>1, <1>2, <1>3 DEF OneAtATime, HandsOver, At, Sets, Marking, Completing, Closing,
       Alive
  <1>9. Alone'
    BY <1>1, <1>2, <1>3 DEF OneAtATime, Alone, At, Sets, Marking, Completing, Closing, Alive
  <1>10. TellsOnce'
    BY <1>1, <1>2, <1>3 DEF TellsOnce, At, Sets, Closing
  <1>11. EndIsPending'
    BY <1>1, <1>2, <1>3 DEF EndIsPending, At, Sets
  <1> QED
    BY <1>4, <1>5, <1>6, <1>7, <1>8, <1>9, <1>10, <1>11

LEMMA DisconnectionKeeps ==
  ASSUME ClientInv, Disconnection
  PROVE  ClientInv'
  <1> USE DEF ClientInv
  <1>1. /\ thread' \in [{App, Ev} -> Local] /\ thread'[App] = thread[App]
        /\ overlap' \in BOOLEAN
        /\ IF state # "DISCONNECTED"
           THEN /\ thread'[Ev].at = "readOld" /\ thread'[Ev].target = "DISCONNECTED"
                /\ thread'[Ev].then = "idle"
                /\ overlap' <=> overlap \/ thread[App].at # "idle"
           ELSE thread' = thread /\ (overlap' <=> overlap)
    BY SettingThread, ThreadsAssumption DEF Disconnection, EConnectionState, ClientTypes
  <1>2. /\ told' = told + 1 /\ told \in Nat /\ unasked' = TRUE
        /\ UNCHANGED <<state, inProgress, device, socket, direct, connects, subscribed>>
    BY DEF Disconnection, lower, ClientTypes
  <1>3. /\ Owns /\ Owns' /\ pending' \in Seq(Event) /\ ShutdownPending
        /\ pending # <<>> /\ thread[Ev].at = "idle"
    <2>1. /\ pending # <<>> /\ pending' = Tail(pending) /\ Head(pending) = Shutdown /\ Owns
          /\ thread[Ev].at = "idle"
      BY DEF Disconnection, Take, At
    <2> QED
      BY <1>2, <2>1, TakenEvent DEF ShutdownPending, Owns, ClientTypes
  <1>4. ClientTypes'
    BY <1>1, <1>2, <1>3 DEF ClientTypes
  <1>5. Places'
    BY <1>1, <1>2, <1>3 DEF Places, Sets, At, AppSteps, EvSteps
  <1>6. OneAtATime'
    BY <1>1, <1>2, <1>3 DEF OneAtATime, At
  <1>7. Untouched'
    BY <1>1, <1>2, <1>3 DEF Untouched, At
  <1>8. HandsOver'
    BY <1>1, <1>2, <1>3 DEF OneAtATime, HandsOver, At, Sets, Marking, Completing, Closing,
       Alive
  <1>9. Alone'
    BY <1>1, <1>2, <1>3 DEF OneAtATime, Alone, At, Sets, Marking, Completing, Closing, Alive
  <1>10. TellsOnce'
    BY <1>1, <1>2, <1>3 DEF TellsOnce, At, Sets, Closing
  <1>11. EndIsPending'
    BY <1>1, <1>2, <1>3 DEF EndIsPending, At, Sets
  <1> QED
    BY <1>4, <1>5, <1>6, <1>7, <1>8, <1>9, <1>10, <1>11

\* Those of Connector2, before the endpoint has its own subscription.
LEMMA CompleteKeeps ==
  ASSUME ClientInv, Complete
  PROVE  ClientInv'
  <1> USE DEF ClientInv
  <1>1. /\ thread' \in [{App, Ev} -> Local]
        /\ thread'[Ev].at = "onConnected" /\ thread'[App] = thread[App]
        /\ overlap' \in BOOLEAN
        /\ overlap' <=> overlap \/ thread[App].at # "idle"
    <2>1. Goto(Ev, "onConnected") /\ ClientTypes
      BY DEF Complete
    <2>2. "onConnected" \in AppSteps \cup EvSteps
      BY DEF AppSteps, EvSteps
    <2> QED
      BY <2>1, <2>2, GoneThread, ThreadsAssumption
  <1>2. /\ thread[Ev].at = "idle" /\ ~Owns /\ pending # <<>> /\ pending' = <<>>
        /\ UNCHANGED <<state, inProgress, told, device, socket, direct, connects, unasked,
                       subscribed>>
    BY DEF Complete, At, connection, lower, history
  <1>3. ~Owns' /\ ~ShutdownPending'
    BY <1>2 DEF ShutdownPending, Holds, Owns
  <1>4. ClientTypes'
    BY <1>1, <1>2, <1>3 DEF ClientTypes
  <1>5. Places'
    BY <1>1, <1>2, <1>3 DEF Places, Sets, At, AppSteps, EvSteps
  <1>6. OneAtATime'
    BY <1>1, <1>2, <1>3 DEF OneAtATime, At
  <1>7. Untouched'
    BY <1>1, <1>2, <1>3 DEF Untouched, At, HandsOver
  <1>8. HandsOver'
    BY <1>1, <1>2, <1>3 DEF OneAtATime, HandsOver, At, Sets, Marking, Completing, Closing,
       Alive
  <1>9. Alone'
    BY <1>1, <1>2, <1>3 DEF OneAtATime, Alone, At, Sets, Marking, Completing, Closing,
       Alive, HandsOver
  <1>10. TellsOnce'
    BY <1>1, <1>2, <1>3 DEF TellsOnce, At, Sets, Closing
  <1>11. EndIsPending'
    BY <1>1, <1>2, <1>3 DEF EndIsPending, At, Sets, Owns
  <1> QED
    BY <1>4, <1>5, <1>6, <1>7, <1>8, <1>9, <1>10, <1>11

LEMMA DestroyKeeps ==
  ASSUME ClientInv, Destroy
  PROVE  ClientInv'
  <1> USE DEF ClientInv
  <1>1. thread' = thread /\ overlap' = overlap
    BY DEF Destroy
  <1>2. /\ thread[Ev].at = "idle" /\ ~Owns /\ pending # <<>> /\ pending' = <<>>
        /\ socket' = "closed"
        /\ UNCHANGED <<state, inProgress, told, device, direct, connects, unasked,
                       subscribed>>
    BY DEF Destroy, At, connection, history
  <1>3. ~Owns' /\ ~ShutdownPending'
    BY <1>2 DEF ShutdownPending, Holds, Owns
  <1>4. ClientTypes'
    BY <1>1, <1>2, <1>3 DEF ClientTypes, Socket
  <1>5. Places'
    BY <1>1, <1>2, <1>3 DEF Places, Sets, At, AppSteps, EvSteps
  <1>6. OneAtATime'
    BY <1>1, <1>2, <1>3 DEF OneAtATime, At
  <1>7. Untouched'
    BY <1>1, <1>2, <1>3 DEF Untouched, At
  <1>8. HandsOver'
    BY <1>1, <1>2, <1>3 DEF OneAtATime, HandsOver, At, Sets, Marking, Completing, Closing,
       Alive
  <1>9. Alone'
    BY <1>1, <1>2, <1>3 DEF OneAtATime, Alone, At, Sets, Marking, Completing, Closing,
       Alive, HandsOver
  <1>10. TellsOnce'
    BY <1>1, <1>2, <1>3 DEF TellsOnce, At, Sets, Closing
  <1>11. EndIsPending'
    BY <1>1, <1>2, <1>3 DEF EndIsPending, At, Sets
  <1> QED
    BY <1>4, <1>5, <1>6, <1>7, <1>8, <1>9, <1>10, <1>11

LEMMA OnConnectedKeeps ==
  ASSUME ClientInv, OnConnected
  PROVE  ClientInv'
  <1> USE DEF ClientInv
  <1>1. /\ thread' \in [{App, Ev} -> Local] /\ thread'[App] = thread[App]
        /\ overlap' \in BOOLEAN
        /\ IF inProgress
           THEN /\ thread'[Ev].at = "readOld" /\ thread'[Ev].target = "CONNECTED"
                /\ thread'[Ev].then = (IF Owns THEN "idle" ELSE "subscribe")
                /\ overlap' <=> overlap \/ thread[App].at # "idle"
           ELSE /\ thread'[Ev].at = (IF Owns THEN "idle" ELSE "subscribe")
                /\ overlap' <=> overlap \/ (~Owns /\ thread[App].at # "idle")
    <2>1. Connected \in {"idle", "subscribe"} /\ Connected = (IF Owns THEN "idle" ELSE "subscribe")
      BY DEF Connected
    <2>2. CASE inProgress
      <3>1. SetState(Ev, "CONNECTED", Connected)
        BY <2>2 DEF OnConnected
      <3> QED
        BY <2>1, <2>2, <3>1, SettingThread, ThreadsAssumption DEF EConnectionState
    <2>3. CASE ~inProgress
      <3>1. Goto(Ev, Connected)
        BY <2>3 DEF OnConnected
      <3> QED
        BY <2>1, <2>3, <3>1, GoneThread, ThreadsAssumption DEF EvSteps
    <2> QED
      BY <2>2, <2>3
  <1>2. /\ thread[Ev].at = "onConnected" /\ inProgress' = FALSE
        /\ UNCHANGED <<state, told, device, socket, direct, connects, unasked, subscribed,
                       pending>>
    BY DEF OnConnected, At, lower, history, ClientTypes
  <1>3. (ShutdownPending <=> ShutdownPending') /\ (Owns' <=> Owns)
    BY <1>2 DEF ShutdownPending, Owns
  <1>4. ClientTypes'
    BY <1>1, <1>2, <1>3 DEF ClientTypes
  <1>5. Places'
    BY <1>1, <1>2, <1>3 DEF Places, Sets, At, AppSteps, EvSteps
  <1>6. OneAtATime'
    BY <1>1, <1>2, <1>3 DEF OneAtATime, At
  <1>7. Untouched'
    BY <1>1, <1>2, <1>3 DEF Untouched, At
  <1>8. HandsOver'
    BY <1>1, <1>2, <1>3 DEF OneAtATime, HandsOver, At, Sets, Marking, Completing, Closing,
       Alive
  <1>9. Alone'
    BY <1>1, <1>2, <1>3 DEF OneAtATime, Alone, At, Sets, Marking, Completing, Closing, Alive
  <1>10. TellsOnce'
    BY <1>1, <1>2, <1>3 DEF TellsOnce, At, Sets, Closing
  <1>11. EndIsPending'
    BY <1>1, <1>2, <1>3 DEF EndIsPending, At, Sets
  <1> QED
    BY <1>4, <1>5, <1>6, <1>7, <1>8, <1>9, <1>10, <1>11

LEMMA SubscribeItselfKeeps ==
  ASSUME DeliveredFromMask, DeliveredWhole, ClientInv, SubscribeItself
  PROVE  ClientInv'
  <1> USE DEF ClientInv
  <1>1. /\ thread' \in [{App, Ev} -> Local]
        /\ thread'[Ev].at = "idle" /\ thread'[App] = thread[App]
        /\ overlap' \in BOOLEAN
        /\ overlap' <=> overlap \/ FALSE
    BY GoneThread, ThreadsAssumption DEF SubscribeItself, EvSteps
  <1>2. /\ thread[Ev].at = "subscribe" /\ subscribed' = TRUE
        /\ UNCHANGED <<state, inProgress, told, device, socket, direct, connects, unasked>>
    BY DEF SubscribeItself, At, connection, lower, history
  <1>3. /\ ~Owns /\ Owns' /\ pending' \in Seq(Event)
        /\ ShutdownPending' <=> socket \in {"ended", "failed"}
    <2>1. pending' = Reported(socket, {In} \cup Unasked) /\ ~Owns
      BY <1>2 DEF SubscribeItself, Places, At
    <2> QED
      BY <1>2, <2>1, ReportedOf, InterestedInEnds DEF ShutdownPending, Owns
  <1>4. ClientTypes'
    BY <1>1, <1>2, <1>3 DEF ClientTypes
  <1>5. Places'
    BY <1>1, <1>2, <1>3 DEF Places, Sets, At, AppSteps, EvSteps
  <1>6. OneAtATime'
    BY <1>1, <1>2, <1>3 DEF OneAtATime, At
  <1>7. Untouched'
    BY <1>1, <1>2, <1>3 DEF Untouched, At
  <1>8. HandsOver'
    BY <1>1, <1>2, <1>3 DEF OneAtATime, HandsOver, At, Sets, Marking, Completing, Closing,
       Alive
  <1>9. Alone'
    BY <1>1, <1>2, <1>3 DEF OneAtATime, Alone, At, Sets, Marking, Completing, Closing, Alive
  <1>10. TellsOnce'
    BY <1>1, <1>2, <1>3 DEF TellsOnce, At, Sets, Closing
  <1>11. EndIsPending'
    BY <1>1, <1>2, <1>3 DEF EndIsPending, At, Sets
  <1> QED
    BY <1>4, <1>5, <1>6, <1>7, <1>8, <1>9, <1>10, <1>11

\* The kernel's events are reported to whoever is subscribed.
LEMMA HappensKeeps ==
  ASSUME DeliveredFromMask, DeliveredWhole, ClientInv, NEW from \in {"connecting",
         "connected"},
         NEW to \in {"connected", "ended", "failed"}, Happens(from, to)
  PROVE  ClientInv'
  <1> USE DEF ClientInv
  <1>1. thread' = thread /\ overlap' = overlap
    BY DEF Happens
  <1>2. /\ socket = from /\ socket' = to
        /\ UNCHANGED <<state, inProgress, told, device, direct, connects, unasked,
                       subscribed>>
    BY DEF Happens, connection, history
  <1>3. /\ Owns' <=> Owns
        /\ pending' \in Seq(Event)
        /\ ShutdownPending => ShutdownPending'
        /\ Watched /\ to \in {"ended", "failed"} => ShutdownPending'
        /\ ~Watched => pending' = pending
        /\ Watched <=> subscribed \/ (~direct /\ connects > 0 /\ thread[App].at = "idle")
    <2>1. pending' = IF Watched THEN pending \o Reported(to, Interest) ELSE pending
      BY DEF Happens
    <2> QED
      BY <1>2, <2>1, ReportedOf, InterestedInEnds, AppendedEvents
      DEF ShutdownPending, Owns, Watched, At, ClientTypes
  <1>4. ClientTypes'
    BY <1>1, <1>2, <1>3 DEF ClientTypes, Socket
  <1>5. Places'
    BY <1>1, <1>2, <1>3 DEF Places, Sets, At, AppSteps, EvSteps
  <1>6. OneAtATime'
    BY <1>1, <1>2, <1>3 DEF OneAtATime, At
  <1>7. Untouched'
    BY <1>1, <1>2, <1>3 DEF Untouched, At
  <1>8. HandsOver'
    <2> SUFFICES ASSUME ~Owns PROVE HandsOver'
      BY <1>3 DEF HandsOver
    <2>1. ~direct /\ ~subscribed /\ socket \notin {"new", "closed"} /\ socket' \notin {"new", "closed"}
      BY <1>2 DEF Owns
    <2>2. Alive /\ Alive' /\ connects = 1
      BY <1>2, <2>1 DEF HandsOver, Alive
    <2>3. pending' # <<>> => thread[App].at = "idle"
      BY <1>3, <2>1 DEF HandsOver, At
    <2> QED
      BY <1>1, <1>2, <2>1, <2>2, <2>3 DEF HandsOver, At, Sets, Closing, Marking, Completing
  <1>9. Alone'
    BY <1>1, <1>2, <1>3 DEF OneAtATime, Alone, At, Sets, Marking, Completing, Closing, Alive
  <1>10. TellsOnce'
    BY <1>1, <1>2, <1>3 DEF TellsOnce, At, Sets, Closing
  <1>11. EndIsPending'
    BY <1>1, <1>2, <1>3 DEF EndIsPending, At, Sets
  <1> QED
    BY <1>4, <1>5, <1>6, <1>7, <1>8, <1>9, <1>10, <1>11

LEMMA PeerSendsKeeps ==
  ASSUME DeliveredFromMask, DeliveredWhole, ClientInv, PeerSends
  PROVE  ClientInv'
  <1> USE DEF ClientInv
  <1>1. thread' = thread /\ overlap' = overlap
    BY DEF PeerSends
  <1>2. /\ socket = "connected" /\ subscribed
        /\ UNCHANGED <<state, inProgress, told, device, socket, direct, connects, unasked,
                       subscribed>>
    BY DEF PeerSends, connection, lower, history
  <1>3. Owns /\ Owns' /\ pending' \in Seq(Event)
    <2>1. {In, Out} \cap Interest \in SUBSET Event
      BY InterestedInEnds
    <2>2. pending' = Delivered({In, Out} \cap Interest)
      BY DEF PeerSends
    <2> QED
      BY <1>2, <2>1, <2>2, ReportedEvents DEF Owns
  <1>4. ClientTypes'
    BY <1>1, <1>2, <1>3 DEF ClientTypes
  <1>5. Places'
    BY <1>1, <1>2, <1>3 DEF Places, Sets, At, AppSteps, EvSteps
  <1>6. OneAtATime'
    BY <1>1, <1>2, <1>3 DEF OneAtATime, At
  <1>7. Untouched'
    BY <1>1, <1>2, <1>3 DEF Untouched, At
  <1>8. HandsOver'
    BY <1>1, <1>2, <1>3 DEF OneAtATime, HandsOver, At, Sets, Marking, Completing, Closing,
       Alive
  <1>9. Alone'
    BY <1>1, <1>2, <1>3 DEF OneAtATime, Alone, At, Sets, Marking, Completing, Closing, Alive
  <1>10. TellsOnce'
    BY <1>1, <1>2, <1>3 DEF TellsOnce, At, Sets, Closing
  <1>11. EndIsPending'
    BY <1>1, <1>2, <1>3 DEF EndIsPending, At, Sets
  <1> QED
    BY <1>4, <1>5, <1>6, <1>7, <1>8, <1>9, <1>10, <1>11

\* Of connect: the device refuses, the kernel refuses, or the connection is under way.
LEMMA ConnectSplits ==
  ASSUME ClientInv, NEW non_blocking \in BOOLEAN, Connect(non_blocking)
  PROVE  /\ thread[App].at = "idle" /\ connects' = connects + 1 /\ connects' \in 0..MaxConnects
         /\ direct \/ (connects = 0 /\ non_blocking)
         /\ UNCHANGED <<state, inProgress, told, direct, unasked, subscribed>>
         /\ \/ /\ UNCHANGED <<socket, device, pending, thread, overlap>>
               /\ device \notin {"AVAILABLE", "DISCONNECTED"}
            \/ /\ UNCHANGED <<socket, pending, thread, overlap>>
               /\ device' = "AVAILABLE" /\ device \in {"AVAILABLE", "DISCONNECTED"}
            \/ \E outcome \in {"connecting", "connected"} :
                  /\ socket = "new" /\ socket' = outcome /\ device' = "CONNECTED"
                  /\ pending' = IF subscribed /\ outcome = "connected"
                                THEN pending \o Reported(outcome, Interest) ELSE pending
                  /\ IF non_blocking THEN Goto(App, "mark") ELSE UNCHANGED <<thread, overlap>>
  <1>1. /\ thread[App].at = "idle" /\ connects' = connects + 1 /\ connects < MaxConnects
        /\ direct \/ (connects = 0 /\ non_blocking)
        /\ UNCHANGED <<state, inProgress, told, direct, unasked, subscribed>>
    BY DEF Connect, At, connection
  <1>2. connects' \in 0..MaxConnects
    BY <1>1, ThreadsAssumption DEF ClientInv, ClientTypes
  <1>3. CASE Available # "AVAILABLE"
    BY <1>1, <1>2, <1>3 DEF Connect, Available, lower
  <1>4. CASE Available = "AVAILABLE"
    <2>1. PICK outcome \in Outcomes(non_blocking) :
             IF outcome = "failed"
             THEN device' = Available /\ UNCHANGED <<socket, pending, thread, overlap>>
             ELSE /\ device' = "CONNECTED" /\ socket' = outcome
                  /\ pending' = IF subscribed /\ outcome = "connected"
                                THEN pending \o Reported(outcome, Interest) ELSE pending
                  /\ IF non_blocking THEN Goto(App, "mark") ELSE UNCHANGED <<thread, overlap>>
      BY <1>4 DEF Connect
    <2>2. outcome = "failed" \/ (outcome \in {"connecting", "connected"} /\ socket = "new")
      BY DEF Outcomes
    <2> QED
      BY <1>1, <1>2, <1>4, <2>1, <2>2 DEF Available
  <1> QED
    BY <1>3, <1>4

\* connect fails: the device is available again, or is left as it was.
LEMMA RefusedKeeps ==
  ASSUME ClientInv, connects' \in 0..MaxConnects, connects' = connects + 1,
         direct \/ connects = 0,
         thread[App].at = "idle",
         UNCHANGED <<state, inProgress, told, direct, unasked, subscribed, socket, pending,
                     thread, overlap>>,
         device' = device \/ (device' = "AVAILABLE" /\ device \in {"AVAILABLE", "DISCONNECTED"})
  PROVE  ClientInv'
  <1> USE DEF ClientInv
  <1>1. thread' = thread /\ overlap' = overlap
    OBVIOUS
  <1>2. UNCHANGED <<state, inProgress, told, direct, unasked, subscribed, socket, pending>>
    OBVIOUS
  <1>3. (ShutdownPending <=> ShutdownPending') /\ (Owns' <=> Owns)
    BY <1>2 DEF ShutdownPending, Owns
  <1>4. ClientTypes'
    BY <1>1, <1>2, <1>3 DEF ClientTypes, ESocketState
  <1>5. Places'
    BY <1>1, <1>2, <1>3 DEF Places, Sets, At, AppSteps, EvSteps
  <1>6. OneAtATime'
    BY <1>1, <1>2, <1>3 DEF OneAtATime, At
  <1>7. Untouched'
    BY <1>1, <1>2, <1>3 DEF Untouched, At
  <1>8. HandsOver'
    <2> SUFFICES ASSUME ~Owns PROVE HandsOver'
      BY <1>3 DEF HandsOver
    <2>1. connects = 0 /\ ~direct
      BY DEF Owns
    <2>2. connects' \in 0..1 /\ connects' = 1
      BY <2>1
    <2>3. socket = "new" /\ ~overlap
      BY <2>1 DEF HandsOver
    <2>4. /\ state = "AVAILABLE" /\ pending = <<>> 
          /\ thread[App].at = "idle" /\ thread[Ev].at = "idle"
      BY <2>1, <2>3 DEF Untouched, At
    <2> QED
      BY <1>1, <1>2, <2>2, <2>3, <2>4 DEF HandsOver, At, Sets, Closing
  <1>9. Alone'
    BY <1>1, <1>2, <1>3 DEF OneAtATime, Alone, At, Sets, Marking, Completing, Closing, Alive
  <1>10. TellsOnce'
    BY <1>1, <1>2, <1>3 DEF TellsOnce, At, Sets, Closing
  <1>11. EndIsPending'
    BY <1>1, <1>2, <1>3 DEF EndIsPending, At, Sets
  <1> QED
    BY <1>4, <1>5, <1>6, <1>7, <1>8, <1>9, <1>10, <1>11

\* connect succeeds or goes on; it does so once, as the socket is no longer new.
LEMMA UnderWayKeeps ==
  ASSUME DeliveredFromMask, DeliveredWhole, ClientInv, connects' \in 0..MaxConnects,
         connects' = connects + 1,
         NEW non_blocking \in BOOLEAN, direct \/ (connects = 0 /\ non_blocking),
         thread[App].at = "idle", UNCHANGED <<state, inProgress, told, direct, unasked,
                                              subscribed>>,
         NEW outcome \in {"connecting", "connected"}, socket = "new", socket' = outcome,
         device' = "CONNECTED",
         pending' = IF subscribed /\ outcome = "connected"
                    THEN pending \o Reported(outcome, Interest) ELSE pending,
         IF non_blocking THEN Goto(App, "mark") ELSE UNCHANGED <<thread, overlap>>
  PROVE  ClientInv'
  <1> USE DEF ClientInv
  <1>1. /\ thread' \in [{App, Ev} -> Local] /\ thread'[Ev] = thread[Ev]
        /\ overlap' \in BOOLEAN
        /\ IF non_blocking THEN thread'[App].at = "mark" ELSE thread'[App] = thread[App]
        /\ overlap' <=> overlap \/ (non_blocking /\ thread[Ev].at # "idle")
    <2>1. CASE non_blocking
      <3>1. Goto(App, "mark") /\ ClientTypes /\ "mark" \in AppSteps \cup EvSteps
        BY <2>1 DEF AppSteps
      <3> QED
        BY <2>1, <3>1, GoneThread, ThreadsAssumption
    <2>2. CASE ~non_blocking
      BY <2>2 DEF ClientTypes
    <2> QED
      BY <2>1, <2>2
  <1>2. UNCHANGED <<state, inProgress, told, direct, unasked, subscribed>>
    OBVIOUS
  <1>3. /\ Owns' <=> Owns
        /\ pending' \in Seq(Event)
        /\ ~subscribed => pending' = pending
    BY <1>2, ReportedOf, InterestedInEnds, AppendedEvents DEF Owns, ClientTypes
  <1>4. ClientTypes'
    BY <1>1, <1>2, <1>3 DEF ClientTypes, ESocketState, Socket
  <1>5. Places'
    BY <1>1, <1>2, <1>3 DEF Places, Sets, At, AppSteps, EvSteps
  <1>6. OneAtATime'
    BY <1>1, <1>2, <1>3 DEF OneAtATime, At
  <1>7. Untouched'
    BY <1>1, <1>2, <1>3 DEF Untouched, At
  <1>8. HandsOver'
    <2> SUFFICES ASSUME ~Owns PROVE HandsOver'
      BY <1>3 DEF HandsOver
    <2>1. connects = 0 /\ ~direct /\ non_blocking /\ ~subscribed
      BY DEF Owns
    <2>2. connects' \in 0..1 /\ connects' = 1
      BY <2>1
    <2>3. /\ state = "AVAILABLE" /\ pending = <<>> /\ ~overlap
          /\ thread[App].at = "idle" /\ thread[Ev].at = "idle"
      BY <2>1 DEF Untouched, At, HandsOver
    <2> QED
      BY <1>1, <1>2, <1>3, <2>1, <2>2, <2>3 DEF HandsOver, At, Sets, Closing, Alive, Marking
  <1>9. Alone'
    BY <1>1, <1>2, <1>3 DEF OneAtATime, Alone, At, Sets, Marking, Completing, Closing,
       Alive, Untouched
  <1>10. TellsOnce'
    BY <1>1, <1>2, <1>3 DEF TellsOnce, At, Sets, Closing
  <1>11. EndIsPending'
    BY <1>1, <1>2, <1>3 DEF EndIsPending, At, Sets
  <1> QED
    BY <1>4, <1>5, <1>6, <1>7, <1>8, <1>9, <1>10, <1>11

LEMMA ConnectKeeps ==
  ASSUME DeliveredFromMask, DeliveredWhole, ClientInv,
         NEW non_blocking \in BOOLEAN, Connect(non_blocking)
  PROVE  ClientInv'
  <1>1. /\ thread[App].at = "idle" /\ connects' = connects + 1 /\ connects' \in 0..MaxConnects
        /\ direct \/ (connects = 0 /\ non_blocking)
        /\ UNCHANGED <<state, inProgress, told, direct, unasked, subscribed>>
    BY ConnectSplits
  <1>2. CASE UNCHANGED <<socket, device, pending, thread, overlap>>
    BY <1>1, <1>2, RefusedKeeps
  <1>3. CASE /\ UNCHANGED <<socket, pending, thread, overlap>>
             /\ device' = "AVAILABLE" /\ device \in {"AVAILABLE", "DISCONNECTED"}
    BY <1>1, <1>3, RefusedKeeps
  <1>4. CASE \E outcome \in {"connecting", "connected"} :
                /\ socket = "new" /\ socket' = outcome /\ device' = "CONNECTED"
                /\ pending' = IF subscribed /\ outcome = "connected"
                              THEN pending \o Reported(outcome, Interest) ELSE pending
                /\ IF non_blocking THEN Goto(App, "mark") ELSE UNCHANGED <<thread, overlap>>
    BY <1>1, <1>4, UnderWayKeeps
  <1> QED
    BY <1>2, <1>3, <1>4, ConnectSplits

LEMMA UnchangedKeeps ==
  ASSUME ClientInv, UNCHANGED endpointVars
  PROVE  ClientInv'
  BY DEF endpointVars, ClientInv, ClientTypes, Places, OneAtATime, Untouched, HandsOver,
     Alone,
         TellsOnce, EndIsPending, ShutdownPending, Owns, Alive, At, Sets, Closing, Marking,
         Completing

\* Every step keeps the invariant.
LEMMA EndpointStepKeeps ==
  ASSUME DeliveredFromMask, DeliveredWhole, ClientInv, [EndpointNext]_endpointVars
  PROVE  ClientInv'
  <1>1. ASSUME AppStep PROVE ClientInv'
    BY <1>1, ConnectKeeps, MarkKeeps, MarkedKeeps, ListenerSubscribeKeeps, SetListenerIdKeeps,
       DisconnectKeeps, ShutdownKeeps DEF AppStep
  <1>2. ASSUME EvStep PROVE ClientInv'
    BY <1>2, CompleteKeeps, DestroyKeeps, OnConnectedKeeps, SubscribeItselfKeeps,
       OutputEventKeeps, IgnoredKeeps, ErrorEventKeeps, DisconnectionKeeps,
       RefuseUnknownIdKeeps DEF EvStep
  <1>3. ASSUME PeerStep PROVE ClientInv'
    BY <1>3, HappensKeeps, PeerSendsKeeps
    DEF PeerStep, Established, Rejected, PeerCloses, PeerResets
  <1>4. ASSUME NEW t \in {App, Ev}, DisconnectStep(t) \/ StateStep(t) PROVE ClientInv'
    BY <1>4, CheckConnectedKeepsApp, CheckConnectedKeepsEv, CloseDeviceKeepsApp,
       CloseDeviceKeepsEv, ReadOldStateKeepsApp, ReadOldStateKeepsEv, WriteStateKeepsApp,
       WriteStateKeepsEv DEF DisconnectStep, StateStep
  <1> QED
    BY <1>1, <1>2, <1>3, <1>4, UnchangedKeeps DEF EndpointNext

\* The invariant holds in every state.
LEMMA EndpointInvariant ==
  ASSUME DeliveredFromMask, DeliveredWhole
  PROVE  EndpointSpec => []ClientInv
  <1>1. ClientInv /\ [EndpointNext]_endpointVars => ClientInv'
    BY EndpointStepKeeps
  <1> QED
    BY <1>1, EndpointInitKeeps, PTL DEF EndpointSpec

-----------------------------------------------------------------------------
(* ClientEndpoint: the theorems *)

\* Unless the two threads were in the endpoint at once, its state follows its device:
\* whatever the kernel answers, for any number of connects.
THEOREM StateFollowsDeviceHolds ==
  ASSUME DeliveredFromMask, DeliveredWhole
  PROVE  EndpointSpec => []StateFollowsDevice
  <1>1. ClientInv => StateFollowsDevice
    BY DEF ClientInv, ClientTypes, OneAtATime, Alone, Alive, StateFollowsDevice, Settled,
       At, Sets, Closing
  <1> QED
    BY <1>1, EndpointInvariant, PTL

\* In every interleaving a disconnected endpoint has told its client, once unless a
\* hang-up did so too, and the end of a subscribed socket is not forgotten.
THEOREM EndIsToldHolds ==
  ASSUME DeliveredFromMask, DeliveredWhole
  PROVE  EndpointSpec => []EndIsTold
  <1>1. ClientInv => EndIsTold
    <2> SUFFICES ASSUME ClientInv, Settled PROVE EndIsTold
      BY DEF EndIsTold
    <2>1. ~Sets(Ev, "DISCONNECTED") /\ ~Sets(App, "DISCONNECTED")
      BY DEF Settled, At, Sets
    <2>2. pending = <<>> => ~ShutdownPending
      BY DEF ShutdownPending, Holds
    <2> QED
      BY <2>1, <2>2 DEF ClientInv, TellsOnce, EndIsPending, EndIsTold
  <1> QED
    BY <1>1, EndpointInvariant, PTL

-----------------------------------------------------------------------------
LEMMA LeastOf ==
  ASSUME NEW T, T \subseteq Nat, T # {}
  PROVE  \E x \in T : \A y \in T : x <= y
  <1> DEFINE R == OpToRel(<, Nat)
  <1>1. IsWellFoundedOn(R, Nat)
    BY NatLessThanWellFounded
  <1> HIDE DEF R
  <1>2. PICK x \in T : \A y \in T : ~ (<<y, x>> \in R)
    BY <1>1, WFMin
  <1>3. \A y \in T : ~ (y < x)
    BY <1>2 DEF R, OpToRel
  <1> QED
    BY <1>3

-----------------------------------------------------------------------------
(* AddressCalls: the order of texts *)

Text == Seq(Nat)

FrontOf(a, b) == Len(a) < Len(b) /\ \A i \in 1..Len(a) : a[i] = b[i]

DiffersAt(a, b, i) ==
    /\ i \in 1..Len(a) /\ i \in 1..Len(b)
    /\ a[i] < b[i] /\ \A j \in 1..(i - 1) : a[j] = b[j]

\* One text is less than another if it is a proper front of it, or is less at the
\* first place where they differ.
LEMMA TextLessIs ==
  ASSUME NEW a \in Text, NEW b \in Text
  PROVE  Address!TextLess(a, b) <=> FrontOf(a, b) \/ \E i \in Nat : DiffersAt(a, b, i)
  <1>1. Address!IsStrictPrefix(a, b) <=> FrontOf(a, b)
    <2>1. ASSUME Len(a) <= Len(b)
          PROVE  SubSeq(a, 1, Len(a)) = SubSeq(b, 1, Len(a))
                    <=> \A i \in 1..Len(a) : a[i] = b[i]
      <3> DEFINE s == SubSeq(a, 1, Len(a))
                 t == SubSeq(b, 1, Len(a))
      <3>1. /\ s \in Seq(Nat) /\ t \in Seq(Nat) /\ Len(s) = Len(a) /\ Len(t) = Len(a)
            /\ \A i \in 1..Len(a) : s[i] = a[i] /\ t[i] = b[i]
        BY <2>1 DEF Text
      <3> HIDE DEF s, t
      <3>2. s = t <=> \A i \in 1..Len(a) : s[i] = t[i]
        BY <3>1, SeqEqual
      <3> QED
        BY <3>1, <3>2 DEF s, t
    <2>2. Len(a) = Len(b) /\ (\A i \in 1..Len(a) : a[i] = b[i]) => a = b
      BY SeqEqual DEF Text
    <2> QED
      BY <2>1, <2>2 DEF Address!IsStrictPrefix, Address!IsPrefix, FrontOf, Text
  <1>2. (\E i \in DOMAIN a \cap DOMAIN b : a[i] < b[i] /\ \A j \in 1..(i - 1) : a[j] = b[j])
           <=> \E i \in Nat : DiffersAt(a, b, i)
    <2>1. DOMAIN a = 1..Len(a) /\ DOMAIN b = 1..Len(b) /\ Len(a) \in Nat
      BY DEF Text
    <2> QED
      BY <2>1 DEF DiffersAt
  <1> QED
    BY <1>1, <1>2 DEF Address!TextLess

\* Two texts that differ have a first place at which they do, or one ends before.
LEMMA TextsTotal ==
  ASSUME NEW a \in Text, NEW b \in Text
  PROVE  Address!TextLess(a, b) \/ Address!TextLess(b, a) \/ a = b
  <1> DEFINE D == {i \in 1..Len(a) : i \in 1..Len(b) /\ a[i] # b[i]}
  <1>0. Len(a) \in Nat /\ Len(b) \in Nat /\ (\A i \in 1..Len(a) : a[i] \in Nat)
        /\ \A i \in 1..Len(b) : b[i] \in Nat
    BY DEF Text
  <1>1. CASE D = {}
    <2>1. CASE Len(a) < Len(b)
      <3>1. FrontOf(a, b)
        BY <1>0, <1>1, <2>1 DEF FrontOf
      <3> QED
        BY <3>1, TextLessIs
    <2>2. CASE Len(b) < Len(a)
      <3>1. FrontOf(b, a)
        BY <1>0, <1>1, <2>2 DEF FrontOf
      <3> QED
        BY <3>1, TextLessIs
    <2>3. CASE Len(a) = Len(b)
      <3>1. \A i \in 1..Len(a) : a[i] = b[i]
        BY <1>0, <1>1, <2>3
      <3>2. a = b
        BY <3>1, <2>3, SeqEqual DEF Text
      <3> QED
        BY <3>2
    <2> QED
      BY <1>0, <2>1, <2>2, <2>3
  <1>2. CASE D # {}
    <2>0. D \subseteq Nat
      BY <1>0
    <2>1. PICK m \in D : \A i \in D : m <= i
      <3> HIDE DEF D
      <3> QED
        BY <1>2, <2>0, LeastOf
    <2>2. m \in 1..Len(a) /\ m \in 1..Len(b) /\ a[m] # b[m] /\ m \in Nat
      BY <1>0, <2>1
    <2>3. \A j \in 1..(m - 1) : a[j] = b[j]
      BY <1>0, <2>1
    <2>4. DiffersAt(a, b, m) \/ DiffersAt(b, a, m)
      BY <1>0, <2>2, <2>3 DEF DiffersAt
    <2> QED
      BY <2>2, <2>4, TextLessIs
  <1> QED
    BY <1>1, <1>2

\* No text is less than itself.
LEMMA TextsIrreflexive ==
  ASSUME NEW a \in Text
  PROVE  ~Address!TextLess(a, a)
  <1>1. Len(a) \in Nat /\ \A i \in 1..Len(a) : a[i] \in Nat
    BY DEF Text
  <1> QED
    BY <1>1, TextLessIs DEF FrontOf, DiffersAt

\* The first place where a and c differ is the earlier of those of a, b and b, c.
LEMMA TextsTransitive ==
  ASSUME NEW a \in Text, NEW b \in Text, NEW c \in Text,
         Address!TextLess(a, b), Address!TextLess(b, c)
  PROVE  Address!TextLess(a, c)
  <1>0. /\ Len(a) \in Nat /\ Len(b) \in Nat /\ Len(c) \in Nat
        /\ \A i \in 1..Len(a) : a[i] \in Nat
        /\ \A i \in 1..Len(b) : b[i] \in Nat
        /\ \A i \in 1..Len(c) : c[i] \in Nat
    BY DEF Text
  <1>1. /\ FrontOf(a, b) \/ \E i \in Nat : DiffersAt(a, b, i)
        /\ FrontOf(b, c) \/ \E i \in Nat : DiffersAt(b, c, i)
    BY TextLessIs
  <1>2. CASE FrontOf(a, b) /\ FrontOf(b, c)
    <2>1. FrontOf(a, c)
      BY <1>0, <1>2 DEF FrontOf
    <2> QED
      BY <2>1, TextLessIs
  <1>3. ASSUME FrontOf(a, b), NEW i \in Nat, DiffersAt(b, c, i)
        PROVE  Address!TextLess(a, c)
    <2>1. CASE i <= Len(a)
      <3>1. DiffersAt(a, c, i)
        BY <1>0, <1>3, <2>1 DEF FrontOf, DiffersAt
      <3> QED
        BY <3>1, TextLessIs
    <2>2. CASE Len(a) < i
      <3>1. FrontOf(a, c)
        BY <1>0, <1>3, <2>2 DEF FrontOf, DiffersAt
      <3> QED
        BY <3>1, TextLessIs
    <2> QED
      BY <1>0, <2>1, <2>2
  <1>4. ASSUME NEW i \in Nat, DiffersAt(a, b, i), FrontOf(b, c)
        PROVE  Address!TextLess(a, c)
    <2>1. DiffersAt(a, c, i)
      BY <1>0, <1>4 DEF FrontOf, DiffersAt
    <2> QED
      BY <2>1, TextLessIs
  <1>5. ASSUME NEW i \in Nat, DiffersAt(a, b, i), NEW k \in Nat, DiffersAt(b, c, k)
        PROVE  Address!TextLess(a, c)
    <2>1. CASE i < k
      <3>1. DiffersAt(a, c, i)
        BY <1>0, <1>5, <2>1 DEF DiffersAt
      <3> QED
        BY <3>1, TextLessIs
    <2>2. CASE k <= i
      <3>1. a[k] <= b[k] /\ b[k] < c[k] /\ k \in 1..Len(a) /\ k \in 1..Len(c)
        BY <1>0, <1>5, <2>2 DEF DiffersAt
      <3>2. a[k] < c[k]
        BY <1>0, <3>1, <1>5 DEF DiffersAt
      <3>3. \A j \in 1..(k - 1) : a[j] = c[j]
        BY <1>0, <1>5, <2>2 DEF DiffersAt
      <3>4. DiffersAt(a, c, k)
        BY <3>1, <3>2, <3>3 DEF DiffersAt
      <3> QED
        BY <3>4, TextLessIs
    <2> QED
      BY <2>1, <2>2
  <1> QED
    BY <1>1, <1>2, <1>3, <1>4, <1>5

-----------------------------------------------------------------------------
(* AddressCalls: the invariant, and what it says *)

Host == [bytes : Text, printable : Text, valid : BOOLEAN]

NetworksInv == network \in [Holders -> [port : Ports, host : Host]]

\* Swapping the order of bytes twice changes nothing.
LEMMA Conversions ==
  ASSUME NEW bytes \in Text
  PROVE  Address!htonl(bytes) \in Text /\ Address!htonl(Address!htonl(bytes)) = bytes
  <1> DEFINE n == Len(bytes)
             r == Address!htonl(bytes)
             rr == Address!htonl(r)
  <1>1. n \in Nat /\ \A i \in 1..n : bytes[i] \in Nat
    BY DEF Text
  <1>2. r = [i \in 1..n |-> bytes[n - i + 1]]
    BY DEF Address!htonl, Address!Reverse
  <1>3. r \in Seq(Nat) /\ Len(r) = n
    <2>1. r \in [1..n -> Nat]
      BY <1>1, <1>2
    <2> QED
      BY <1>1, <2>1, <1>2
  <1>4. rr = [i \in 1..n |-> r[n - i + 1]]
    BY <1>3 DEF Address!htonl, Address!Reverse
  <1> HIDE DEF rr, r
  <1>5. \A i \in 1..n : rr[i] = bytes[i]
    BY <1>1, <1>2, <1>4
  <1>6. rr \in Seq(Nat) /\ Len(rr) = n
    <2>1. rr \in [1..n -> Nat]
      BY <1>1, <1>4, <1>5
    <2> QED
      BY <1>1, <2>1, <1>4
  <1>7. rr = bytes
    BY <1>5, <1>6, SeqEqual DEF Text
  <1> QED
    BY <1>3, <1>7 DEF Text, rr, r

LEMMA ConstantTexts ==
  Address!Zeros \in Text /\ Address!Loopback \in Text /\ Address!Unwritten \in Text
  /\ Address!NewHost \in Host
  <1>1. Address!Zeros \in Text
    <2>1. Address!Zeros \in [1..2 -> Nat]
      BY DEF Address!Zeros, Address!WIDTH
    <2>2. [1..2 -> Nat] \subseteq Seq(Nat)
      BY SeqDef
    <2> QED
      BY <2>1, <2>2 DEF Text
  <1>2. <<>> \in Seq(Nat) /\ <<2, 1>> \in Seq(Nat)
    OBVIOUS
  <1> QED
    BY <1>1, <1>2 DEF Text, Address!Loopback, Address!Unwritten, Address!NewHost, Host

\* Whatever a host address is set from, its bytes and what it prints are numbers.
LEMMA HostsStayHosts ==
  ASSUME NEW host \in Host, NEW text \in Text, NEW behind \in Text
  PROVE  /\ Address!setText(host, text, behind) \in Host
         /\ Address!setBytes(host, text) \in Host
         /\ Address!resetData(host) \in Host
         /\ Address!getAddress(host) \in Text /\ Address!toString(host) \in Text
  <1>1. Address!resetData(host) \in Host
    BY ConstantTexts DEF Address!resetData, Host, Address!NewHost
  <1>2. Address!Fresh(host) \in Host
    BY <1>1 DEF Address!Fresh
  <1>3. Address!setText(host, text, behind) \in Host
    <2> DEFINE fresh == Address!Fresh(host)
               bytes == Address!extractAddress(fresh.bytes, text \o behind)
    <2>1. text \o behind \in Text
      BY DEF Text
    <2>2. fresh.bytes \in Text
      BY <1>2 DEF Host
    <2>3. bytes \in Text
      BY <2>1, <2>2 DEF Address!extractAddress
    <2>4. Address!setText(host, text, behind) =
             [fresh EXCEPT !.bytes = bytes, !.printable = text, !.valid = TRUE]
      BY DEF Address!setText, Address!initText
    <2> HIDE DEF fresh, bytes
    <2> QED
      BY <1>2, <2>3, <2>4 DEF Host, fresh
  <1>4. Address!setBytes(host, text) \in Host
    BY DEF Address!setBytes, Address!initBytes, Host
  <1>5. Address!getAddress(host) \in Text /\ Address!toString(host) \in Text
    <2>1. <<>> \in Text
      BY DEF Text
    <2> QED
      BY <2>1, ConstantTexts DEF Host, Address!getAddress, Address!toString
  <1> QED
    BY <1>1, <1>3, <1>4, <1>5

LEMMA NetworksInvInit ==
  AddressesInit => NetworksInv
  <1>1. 0 \in Ports
    BY DEF Ports, Address!PORT_LIMIT
  <1> QED
    BY <1>1, ConstantTexts DEF AddressesInit, NetworksInv, Address!NewNetwork

LEMMA NetworksInvStep ==
  NetworksInv /\ [AddressesNext]_network => NetworksInv'
  <1> SUFFICES ASSUME NetworksInv, [AddressesNext]_network PROVE NetworksInv'
    OBVIOUS
  <1>1. \A h \in Holders : /\ network[h] \in [port : Ports, host : Host]
                           /\ network[h].host \in Host /\ network[h].port \in Ports
    BY DEF NetworksInv
  <1>2. ASSUME NEW h \in Holders, NEW net \in [port : Ports, host : Host], Becomes(h, net)
        PROVE  NetworksInv'
    BY <1>2 DEF Becomes, NetworksInv
  <1>3. ASSUME NEW h \in Holders, NEW host \in Host
        PROVE  [network[h] EXCEPT !.host = host] \in [port : Ports, host : Host]
    BY <1>1
  <1>4. <<>> \in Text /\ Texts \subseteq Text /\ Raws \subseteq Text
    <2>1. [1..Address!WIDTH -> Nat] \subseteq Seq(Nat)
      BY SeqDef DEF Address!WIDTH
    <2> QED
      BY <2>1, TextsAssumption DEF Text
  <1>5. ASSUME NEW h \in Holders, NEW text \in Texts, SetText(h, text)
        PROVE  NetworksInv'
    <2>1. Address!setText(network[h].host, text, <<>>) \in Host
      BY <1>1, <1>4, HostsStayHosts
    <2> QED
      BY <1>2, <1>3, <1>5, <2>1 DEF SetText
  <1>6. ASSUME NEW h \in Holders, NEW bytes \in Raws, SetBytes(h, bytes)
        PROVE  NetworksInv'
    <2>1. Address!setBytes(network[h].host, bytes) \in Host
      BY <1>1, <1>4, HostsStayHosts
    <2> QED
      BY <1>2, <1>3, <1>6, <2>1 DEF SetBytes
  <1>7. ASSUME NEW h \in Holders, SetNamed(h)
        PROVE  NetworksInv'
    <2>1. /\ Address!setAddressAny(network[h].host) \in Host
          /\ Address!setLocalHost(network[h].host) \in Host
      BY <1>1, <1>4, HostsStayHosts, ConstantTexts
         DEF Address!setAddressAny, Address!setLocalHost
    <2>2. PICK host \in {Address!setAddressAny(network[h].host),
                         Address!setLocalHost(network[h].host)} :
             Becomes(h, [network[h] EXCEPT !.host = host])
      BY <1>7 DEF SetNamed
    <2> QED
      BY <1>2, <1>3, <2>1, <2>2
  <1>8. ASSUME NEW h \in Holders, NEW port \in Ports, SetPort(h, port)
        PROVE  NetworksInv'
    <2>1. [network[h] EXCEPT !.port = port] \in [port : Ports, host : Host]
      BY <1>1
    <2> QED
      BY <1>2, <1>8, <2>1 DEF SetPort
  <1>9. ASSUME NEW h \in Holders,
               NEW text \in [separated : BOOLEAN, host : Texts, port : Ports \cup {-1}],
               Parse(h, text)
        PROVE  NetworksInv'
    <2> DEFINE net == Address!networkFromString(network[h], text).net
    <2>1. Address!resetData(network[h].host) \in Host
      BY <1>1, <1>4, HostsStayHosts
    <2>2. CASE ~text.separated \/ text.port \notin Ports
      <3>1. net = [port |-> 0, host |-> Address!resetData(network[h].host)]
        BY <2>2 DEF Address!networkFromString, Ports
      <3>2. 0 \in Ports
        BY DEF Ports, Address!PORT_LIMIT
      <3>3. net \in [port : Ports, host : Host]
        BY <2>1, <3>1, <3>2
      <3> QED
        BY <1>2, <1>9, <3>3 DEF Parse
    <2>3. CASE text.separated /\ text.port \in Ports
      <3>1. net = [port |-> text.port,
                   host |-> Address!setText(Address!resetData(network[h].host), text.host,
                                            <<Address!SEPARATOR, text.port>>)]
        BY <2>3 DEF Address!networkFromString, Ports
      <3>2. <<Address!SEPARATOR, text.port>> \in Text
        BY <2>3 DEF Address!SEPARATOR, Ports, Text
      <3>3. net \in [port : Ports, host : Host]
        BY <2>1, <2>3, <3>1, <3>2, <1>4, HostsStayHosts
      <3> QED
        BY <1>2, <1>9, <3>3 DEF Parse
    <2> QED
      BY <2>2, <2>3
  <1> QED
    BY <1>5, <1>6, <1>7, <1>8, <1>9 DEF AddressesNext, NetworksInv

LEMMA NetworksInvMeans ==
  NetworksInv => AddressesKeepTheirMeaning
  <1> SUFFICES ASSUME NetworksInv, NEW a \in Holders, NEW b \in Holders, NEW c \in Holders
               PROVE  LET less(x, y) == Address!networkLess(network[x], network[y])
                          equal(x, y) == Address!networkEqual(network[x], network[y])
                          raw == Address!sockaddr(network[a].port,
                                                  Address!getAddress(network[a].host))
                          made == Address!setSockaddr(
                                     Address!setNetwork(Address!NewSocketAddress, network[b]), raw)
                          parsed == Address!networkFromString(network[b],
                                                 Address!networkToString(network[a]))
                      IN  /\ less(a, b) \/ less(b, a) \/ equal(a, b)
                          /\ ~(less(a, b) /\ less(b, a)) /\ ~(less(a, b) /\ equal(a, b))
                          /\ less(a, b) /\ less(b, c) => less(a, c)
                          /\ Address!getSockaddr(made) = raw
                          /\ Address!setNetwork(Address!NewSocketAddress, made.address) = made
                          /\ parsed.ok /\ Address!networkEqual(parsed.net, network[a])
    BY DEF AddressesKeepTheirMeaning
  <1> DEFINE less(x, y) == Address!networkLess(network[x], network[y])
             equal(x, y) == Address!networkEqual(network[x], network[y])
             text(x) == Address!toString(network[x].host)
             raw == Address!sockaddr(network[a].port, Address!getAddress(network[a].host))
             made == Address!setSockaddr(
                        Address!setNetwork(Address!NewSocketAddress, network[b]), raw)
             parsed == Address!networkFromString(network[b], Address!networkToString(network[a]))
  <1>1. \A h \in Holders : network[h].host \in Host /\ network[h].port \in Ports
    BY DEF NetworksInv
  <1>2. \A h \in Holders : text(h) \in Text /\ Address!getAddress(network[h].host) \in Text
    <2>1. <<>> \in Text
      BY DEF Text
    <2> QED
      BY <1>1, <2>1, HostsStayHosts
  <1>3. \A x, y \in Holders :
           /\ less(x, y) <=> \/ Address!TextLess(text(x), text(y))
                             \/ text(x) = text(y) /\ network[x].port < network[y].port
           /\ equal(x, y) <=> text(x) = text(y) /\ network[x].port = network[y].port
    BY DEF Address!networkLess, Address!networkEqual, Address!hostLess, Address!hostEqual
  <1>4. \A h \in Holders : network[h].port \in Nat
    BY <1>1 DEF Ports
  <1>5. \A x, y \in Holders :
           Address!TextLess(text(x), text(y)) \/ Address!TextLess(text(y), text(x))
              \/ text(x) = text(y)
    BY <1>2, TextsTotal
  <1>6. \A x \in Holders : ~Address!TextLess(text(x), text(x))
    BY <1>2, TextsIrreflexive
  <1>7. \A x, y, z \in Holders :
           Address!TextLess(text(x), text(y)) /\ Address!TextLess(text(y), text(z))
              => Address!TextLess(text(x), text(z))
    BY <1>2, TextsTransitive
  <1> HIDE DEF less, equal, text
  <1>8. less(a, b) \/ less(b, a) \/ equal(a, b)
    BY <1>3, <1>4, <1>5
  <1>9. ~(less(a, b) /\ less(b, a)) /\ ~(less(a, b) /\ equal(a, b))
    BY <1>3, <1>4, <1>6, <1>7
  <1>10. less(a, b) /\ less(b, c) => less(a, c)
    BY <1>3, <1>4, <1>7
  <1>11. Address!getSockaddr(made) = raw
    BY DEF Address!setSockaddr, Address!getSockaddr
  <1>12. Address!setNetwork(Address!NewSocketAddress, made.address) = made
    <2> DEFINE bytes == Address!getAddress(network[a].host)
               host == Address!initBytes(Address!Fresh(
                  Address!setNetwork(Address!NewSocketAddress, network[b]).address.host),
                  Address!htonl(bytes))
    <2>1. raw = [port |-> network[a].port, bytes |-> bytes]
      BY DEF Address!sockaddr
    <2>2. made = [address |-> [port |-> network[a].port, host |-> host], in_addr |-> raw]
      BY <2>1 DEF Address!setSockaddr, Address!setBytes
    <2>3. host = [bytes |-> Address!htonl(bytes), printable |-> Address!htonl(bytes), valid |-> TRUE]
      BY DEF Address!initBytes
    <2>4. Address!getAddress(host) = Address!htonl(bytes) /\ host.valid = TRUE
      BY <2>3 DEF Address!getAddress
    <2>5. Address!htonl(Address!htonl(bytes)) = bytes
      BY <1>2, Conversions
    <2> HIDE DEF host, bytes, raw, made
    <2>6. made.address = [port |-> network[a].port, host |-> host]
          /\ made.address.host = host /\ made.address.port = network[a].port
      BY <2>2
    <2>7. Address!setNetwork(Address!NewSocketAddress, made.address) =
             [address |-> made.address,
              in_addr |-> Address!sockaddr(network[a].port, Address!htonl(Address!htonl(bytes)))]
      BY <2>4, <2>6 DEF Address!setNetwork
    <2>8. Address!sockaddr(network[a].port, bytes) = raw
      BY <2>1 DEF Address!sockaddr
    <2> QED
      BY <2>2, <2>5, <2>6, <2>7, <2>8
  <1>13. parsed.ok /\ Address!networkEqual(parsed.net, network[a])
    <2> DEFINE printed == Address!networkToString(network[a])
               fresh == Address!resetData(network[b].host)
               behind == <<Address!SEPARATOR, printed.port>>
    <2>1. printed.separated /\ printed.host = text(a) /\ printed.port = network[a].port
      BY DEF Address!networkToString, text
    <2>2. parsed = [ok |-> TRUE,
                    net |-> [port |-> network[a].port,
                             host |-> Address!setText(fresh, text(a), behind)]]
      BY <1>1, <2>1 DEF Address!networkFromString, Ports
    <2>3. fresh.valid = FALSE
      BY DEF Address!resetData
    <2>4. Address!toString(Address!setText(fresh, text(a), behind)) = text(a)
      <3>1. Address!Fresh(fresh) = fresh
        BY <2>3 DEF Address!Fresh
      <3>2. fresh = [bytes |-> Address!Zeros, printable |-> <<>>, valid |-> FALSE]
        BY DEF Address!resetData
      <3> HIDE DEF fresh, behind
      <3> DEFINE bytes == Address!extractAddress(fresh.bytes, text(a) \o behind)
      <3>3. Address!setText(fresh, text(a), behind) =
               [fresh EXCEPT !.bytes = bytes, !.printable = text(a), !.valid = TRUE]
        BY <3>1 DEF Address!setText, Address!initText
      <3> HIDE DEF bytes
      <3>4. /\ [fresh EXCEPT !.bytes = bytes, !.printable = text(a), !.valid = TRUE].valid
            /\ [fresh EXCEPT !.bytes = bytes, !.printable = text(a), !.valid = TRUE].printable
                  = text(a)
        BY <3>2
      <3> QED
        BY <3>3, <3>4 DEF Address!toString
    <2> HIDE DEF parsed, fresh, behind, printed
    <2>5. parsed.net.port = network[a].port /\ parsed.ok
          /\ parsed.net.host = Address!setText(fresh, text(a), behind)
      BY <2>2
    <2> QED
      BY <2>4, <2>5 DEF Address!networkEqual, Address!hostEqual, text
  <1> HIDE DEF raw, made, parsed
  <1> QED
    BY <1>8, <1>9, <1>10, <1>11, <1>12, <1>13 DEF less, equal, raw, made, parsed

\* HostAddress.hpp, InetSocketAddress.hpp: for any texts and any bytes, whatever
\* the addresses were set from, the order is total, and bytes and texts come back.
THEOREM AddressesKeepTheirMeaningHolds ==
  AddressesSpec => []AddressesKeepTheirMeaning
  <1> QED
    BY NetworksInvInit, NetworksInvStep, NetworksInvMeans, PTL DEF AddressesSpec

=============================================================================
