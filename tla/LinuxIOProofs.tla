---------------------------- MODULE LinuxIOProofs ----------------------------
(***************************************************************************)
(* Proofs about what LinuxIOUtilities does with files, pipes and streams:  *)
(* FileOpening and StreamLoops; and with the status of a file.             *)
(*                                                                         *)
(* FileOpening: for any number of openers and inodes, whatever others do   *)
(* to the names meanwhile, every open descriptor is one that its opener    *)
(* knows of, and an answer of TRUE comes with one; a file device that made *)
(* its file ends with this very file, if nobody came in its way; and a     *)
(* pipe or a socket is found by its name.  The first invariant says by the *)
(* next system call what an opener has open before it: a call that opens   *)
(* finds nothing in fd, one that closes finds something there.  The other  *)
(* two are stated where they are used.                                     *)
(*                                                                         *)
(* StreamLoops: for any size of the read buffer, of what the kernel keeps  *)
(* and of a call, however the bytes are divided into portions, each        *)
(* reading call returns what it says of the bytes that it took.  The       *)
(* invariant, LoopsInv, says of a call under way what is already in its    *)
(* result, and under which condition it goes on.                           *)
(*                                                                         *)
(* FileStatusCalls: for any flags that the kernel refuses and any masks,   *)
(* what is kept of the flags and permissions of a file is what it has.     *)
(***************************************************************************)
EXTENDS FileOpening, StreamLoops, FileStatusCalls, SequenceTheorems, NaturalsInduction,
        WellFoundedInduction, TLAPS

Fields ==
    {"op", "at", "sides", "waits", "made", "fd", "source", "opened", "answer", "saving"}

\* Of an opener: what it is at, and what it has open there.
Counted(o) == o.opened = Number(o.fd) + Number(o.source)

EmptyHanded(o) ==
    /\ o.at = "idle" => o.op = "none" /\ o.fd = Nothing /\ o.source = Nothing /\ ~o.answer
    /\ o.at \in {"mkfifo", "openPipe"} => o.op = "pipe" /\ o.fd = Nothing
    /\ o.at \in {"openExisting", "remove"} => o.op = "file" /\ o.fd = Nothing
    /\ o.at \in {"create", "openAnyway", "reopen"} => o.op \in {"file", "copy"} /\ o.fd = Nothing
    /\ o.at = "openSource" => o.op = "copy" /\ o.fd = Nothing /\ o.source = Nothing
    /\ o.at \in {"noCopy", "reopenSaved"} => o.op = "copy" /\ o.fd = Nothing

HandsFull(o) ==
    /\ o.at \in {"waiting", "unlink"} => o.op = "pipe" /\ o.fd # Nothing
    /\ o.at = "chmod" => o.op \in {"file", "copy"} /\ o.fd # Nothing
    /\ o.at = "copyLines" => o.op = "copy" /\ o.fd # Nothing
    /\ o.op = "copy" /\ o.at \in {"create", "openAnyway", "chmod", "reopen", "copyLines"} =>
           o.source # Nothing

\* Only saveAs copies with a device that is to be opened again.
Saving(o) == o.saving => o.op = "copy" /\ o.at # "done"

Answered(o) ==
    /\ o.at = "done" /\ o.op \in {"pipe", "file"} => (o.answer <=> o.fd # Nothing)
    /\ o.at = "done" /\ o.op = "copy" => o.fd = Nothing /\ (o.answer => o.source = Nothing)

Sound(o) ==
    /\ DOMAIN o = Fields /\ o.opened \in Int
    /\ Counted(o) /\ EmptyHanded(o) /\ HandsFull(o) /\ Saving(o) /\ Answered(o)

IInv == DOMAIN opener = Openers /\ \A a \in Openers : Sound(opener[a])

-----------------------------------------------------------------------------
(* What a step makes of an opener, and of the others *)

Laid(o, changes) == [f \in DOMAIN o |-> IF f \in DOMAIN changes THEN changes[f] ELSE o[f]]

LEMMA WithKeeps ==
  ASSUME IInv, NEW a \in Openers, NEW changes, With(a, changes), Sound(Laid(opener[a], changes))
  PROVE  IInv'
  <1>1. opener' = [opener EXCEPT ![a] = Laid(opener[a], changes)]
    BY DEF With, Laid, IInv
  <1>2. DOMAIN opener' = Openers /\ opener'[a] = Laid(opener[a], changes)
    BY <1>1 DEF IInv
  <1>3. \A b \in Openers \ {a} : opener'[b] = opener[b]
    BY <1>1 DEF IInv
  <1> HIDE DEF Sound
  <1> QED BY <1>2, <1>3 DEF IInv

LEMMA WaitsAside ==
  ASSUME NEW o, NEW waits, Sound(o)
  PROVE  Sound([o EXCEPT !.waits = waits])
  BY DEF Sound, Fields, Counted, EmptyHanded, HandsFull, Saving, Answered, Number

\* What OpenedBy makes of the opener.
Opened(o, changes) ==
    [f \in DOMAIN o |-> IF f \in DOMAIN changes THEN changes[f]
                        ELSE IF f = "opened" THEN o.opened + 1 ELSE o[f]]

LEMMA OpenedByKeeps ==
  ASSUME IInv, NEW a \in Openers, NEW i, NEW changes, OpenedBy(a, i, changes),
         Sound(Opened(opener[a], changes))
  PROVE  IInv'
  <1>1. DOMAIN opener' = Openers /\ opener'[a] = Opened(opener[a], changes)
    BY DEF OpenedBy, Opened
  <1>2. ASSUME NEW b \in Openers \ {a}
        PROVE  Sound(opener'[b])
    <2>1. PICK waits : opener'[b] = [opener[b] EXCEPT !.waits = waits]
      BY DEF OpenedBy
    <2>2. Sound(opener[b])
      BY DEF IInv
    <2> HIDE DEF Sound
    <2> QED BY <2>1, <2>2, WaitsAside
  <1> QED BY <1>1, <1>2 DEF IInv

\* An opener that answers is done, or opens its device again.
LEMMA AnswersKeeps ==
  ASSUME IInv, NEW a \in Openers, NEW answer \in BOOLEAN, Answers(a, answer),
         Sound(Laid(opener[a], [at |-> "reopenSaved"])) \/ ~opener[a].saving,
         Sound(Laid(opener[a], [at |-> "done", answer |-> answer])) \/ opener[a].saving
  PROVE  IInv'
  <1>1. CASE opener[a].saving
    BY <1>1, WithKeeps DEF Answers
  <1>2. CASE ~opener[a].saving
    BY <1>2, WithKeeps DEF Answers
  <1> QED BY <1>1, <1>2

LEMMA StartPipeKeeps ==
  ASSUME IInv, NEW a \in Openers, StartPipe(a)
  PROVE  IInv'
  <1> DEFINE o == opener[a]
  <1> DEFINE at == IF name["path"] = Nothing THEN "mkfifo" ELSE "openPipe"
  <1> DEFINE changes(side, waits) ==
        [op |-> "pipe", sides |-> {side}, waits |-> waits, at |-> at]
  <1>1. Sound(o) /\ o.at = "idle" /\ at \in {"mkfifo", "openPipe"}
    BY DEF IInv, StartPipe, Under
  <1>2. PICK side \in Sides, non_blocking \in BOOLEAN : With(a, changes(side, ~non_blocking))
    BY DEF StartPipe
  <1> HIDE DEF at
  <1>3. Sound(Laid(o, changes(side, ~non_blocking)))
    BY <1>1 DEF Laid, Sound, Fields, Counted, EmptyHanded, HandsFull, Saving, Answered
  <1> QED BY <1>2, <1>3, WithKeeps

LEMMA makefifoKeeps ==
  ASSUME IInv, NEW a \in Openers, makefifo(a)
  PROVE  IInv'
  <1> DEFINE o == opener[a]
  <1>1. Sound(o) /\ o.at = "mkfifo"
    BY DEF IInv, makefifo, Under
  <1>2. CASE name["path"] = Nothing
    <2>1. PICK i \in Inodes : With(a, [at |-> "openPipe", made |-> i])
      BY <1>2 DEF makefifo
    <2>2. Sound(Laid(o, [at |-> "openPipe", made |-> i]))
      BY <1>1
         DEF Laid, Sound, Fields, Counted, EmptyHanded, HandsFull, Saving, Answered, Number
    <2> QED BY <2>1, <2>2, WithKeeps
  <1>3. CASE name["path"] # Nothing
    <2>1. Answers(a, FALSE) /\ ~o.saving
      BY <1>1, <1>3 DEF makefifo, Sound, Saving, EmptyHanded
    <2>2. Sound(Laid(o, [at |-> "done", answer |-> FALSE]))
      BY <1>1
         DEF Laid, Sound, Fields, Counted, EmptyHanded, HandsFull, Saving, Answered, Number
    <2> QED BY <2>1, <2>2, AnswersKeeps
  <1> QED BY <1>2, <1>3

LEMMA openPipeKeeps ==
  ASSUME IInv, NEW a \in Openers, openPipe(a)
  PROVE  IInv'
  <1> DEFINE o == opener[a]
  <1>1. Sound(o) /\ o.at = "openPipe"
    BY DEF IInv, openPipe, Under
  <1> DEFINE i == name["path"]
  <1>2. ASSUME NEW waits, i # Nothing,
               OpenedBy(a, i, [fd |-> i, at |-> "waiting", waits |-> waits])
        PROVE  IInv'
    <2>1. Sound(Opened(o, [fd |-> i, at |-> "waiting", waits |-> waits]))
      BY <1>1, <1>2
         DEF Opened, Sound, Fields, Counted, EmptyHanded, HandsFull, Saving, Answered, Number
    <2> QED BY <1>2, <2>1, OpenedByKeeps
  <1>3. CASE Answers(a, FALSE)
    <2>1. ~o.saving /\ Sound(Laid(o, [at |-> "done", answer |-> FALSE]))
      BY <1>1
         DEF Laid, Sound, Fields, Counted, EmptyHanded, HandsFull, Saving, Answered, Number
    <2> QED BY <1>3, <2>1, AnswersKeeps
  <1> QED BY <1>2, <1>3 DEF openPipe, Opens

LEMMA EnterPipeKeeps ==
  ASSUME IInv, NEW a \in Openers, EnterPipe(a)
  PROVE  IInv'
  <1> DEFINE o == opener[a]
  <1>1. Sound(o) /\ o.at = "waiting"
    BY DEF IInv, EnterPipe, Under
  <1>2. CASE With(a, [at |-> "unlink"])
    <2>1. Sound(Laid(o, [at |-> "unlink"]))
      BY <1>1
         DEF Laid, Sound, Fields, Counted, EmptyHanded, HandsFull, Saving, Answered, Number
    <2> QED BY <1>2, <2>1, WithKeeps
  <1>3. CASE Answers(a, TRUE)
    <2>1. ~o.saving /\ Sound(Laid(o, [at |-> "done", answer |-> TRUE]))
      BY <1>1
         DEF Laid, Sound, Fields, Counted, EmptyHanded, HandsFull, Saving, Answered, Number
    <2> QED BY <1>3, <2>1, AnswersKeeps
  <1> QED BY <1>2, <1>3 DEF EnterPipe

LEMMA UnlinkPipeKeeps ==
  ASSUME IInv, NEW a \in Openers, UnlinkPipe(a)
  PROVE  IInv'
  <1> DEFINE o == opener[a]
  <1>1. Sound(o) /\ o.at = "unlink"
    BY DEF IInv, UnlinkPipe, Under
  <1>2. ~o.saving /\ Sound(Laid(o, [at |-> "done", answer |-> TRUE]))
    BY <1>1
       DEF Laid, Sound, Fields, Counted, EmptyHanded, HandsFull, Saving, Answered, Number
  <1> QED BY <1>2, AnswersKeeps DEF UnlinkPipe

-----------------------------------------------------------------------------
(* Files *)

LEMMA StartFileKeeps ==
  ASSUME IInv, NEW a \in Openers, StartFile(a)
  PROVE  IInv'
  <1> DEFINE o == opener[a]
  <1> DEFINE at == IF name["path"] = Nothing THEN "create" ELSE "openExisting"
  <1>1. Sound(o) /\ o.at = "idle" /\ at \in {"create", "openExisting"}
    BY DEF IInv, StartFile, Under
  <1> DEFINE changes == [op |-> "file", sides |-> Sides, at |-> at]
  <1>2. With(a, changes)
    BY DEF StartFile
  <1> HIDE DEF at
  <1>3. Sound(Laid(o, changes))
    BY <1>1
       DEF Laid, Sound, Fields, Counted, EmptyHanded, HandsFull, Saving, Answered, Number
  <1> QED BY <1>2, <1>3, WithKeeps

LEMMA openExistingFileKeeps ==
  ASSUME IInv, NEW a \in Openers, openExistingFile(a)
  PROVE  IInv'
  <1> DEFINE o == opener[a]
  <1>1. Sound(o) /\ o.at = "openExisting"
    BY DEF IInv, openExistingFile, Under
  <1> DEFINE i == name["path"]
  <1> DEFINE changes == [fd |-> i, at |-> "done", answer |-> TRUE, saving |-> FALSE]
  <1>2. CASE i # Nothing /\ OpenedBy(a, i, changes)
    <2>1. Sound(Opened(o, changes))
      BY <1>1, <1>2
         DEF Opened, Sound, Fields, Counted, EmptyHanded, HandsFull, Saving, Answered, Number
    <2> QED BY <1>2, <2>1, OpenedByKeeps
  <1>3. CASE Answers(a, FALSE)
    <2>1. ~o.saving /\ Sound(Laid(o, [at |-> "done", answer |-> FALSE]))
      BY <1>1
         DEF Laid, Sound, Fields, Counted, EmptyHanded, HandsFull, Saving, Answered, Number
    <2> QED BY <1>3, <2>1, AnswersKeeps
  <1> QED BY <1>2, <1>3 DEF openExistingFile, Opens, Takes

LEMMA GivesUpKeeps ==
  ASSUME IInv, NEW a \in Openers, Under(a) \in {"openAnyway", "reopen"}, GivesUp(a)
  PROVE  IInv'
  <1> DEFINE o == opener[a]
  <1>1. Sound(o) /\ o.at \in {"openAnyway", "reopen"}
    BY DEF IInv, Under
  <1>2. CASE o.op = "copy"
    <2>1. Sound(Laid(o, [fd |-> Nothing, at |-> "noCopy"]))
      BY <1>1, <1>2
         DEF Laid, Sound, Fields, Counted, EmptyHanded, HandsFull, Saving, Answered, Number
    <2> QED BY <1>2, <2>1, WithKeeps DEF GivesUp
  <1>3. CASE o.op # "copy"
    <2> DEFINE changes == [fd |-> Nothing, at |-> "done", answer |-> FALSE, saving |-> FALSE]
    <2>1. Sound(Laid(o, changes))
      BY <1>1, <1>3
         DEF Laid, Sound, Fields, Counted, EmptyHanded, HandsFull, Saving, Answered, Number
    <2> QED BY <1>3, <2>1, WithKeeps DEF GivesUp
  <1> QED BY <1>2, <1>3

LEMMA CreateFileKeeps ==
  ASSUME IInv, NEW a \in Openers, CreateFile(a)
  PROVE  IInv'
  <1> DEFINE o == opener[a]
  <1>1. Sound(o) /\ o.at = "create"
    BY DEF IInv, CreateFile, Under
  <1>2. CASE name[Target(a)] = Nothing
    <2> DEFINE changes(i, at) ==
          [made |-> i, fd |-> i, opened |-> o.opened + 1, at |-> at, answer |-> TRUE]
    <2> DEFINE at == IF AsAsked(a, Made(a)) THEN NewFile(a) ELSE "chmod"
    <2>1. PICK i \in Inodes : With(a, changes(i, at))
      BY <1>2 DEF CreateFile
    <2>2. i # Nothing
      BY NothingAssumption
    <2>3. at = "chmod" \/ (o.op = "copy" /\ at = "copyLines")
      BY DEF AsAsked, NewFile
    <2> HIDE DEF at
    <2>4. Sound(Laid(o, changes(i, at)))
      BY <1>1, <2>2, <2>3
         DEF Laid, Sound, Fields, Counted, EmptyHanded, HandsFull, Saving, Answered, Number
    <2> QED BY <2>1, <2>4, WithKeeps
  <1>3. CASE name[Target(a)] # Nothing
    <2>1. Sound(Laid(o, [at |-> "openAnyway"]))
      BY <1>1
         DEF Laid, Sound, Fields, Counted, EmptyHanded, HandsFull, Saving, Answered, Number
    <2> QED BY <1>3, <2>1, WithKeeps DEF CreateFile
  <1> QED BY <1>2, <1>3

LEMMA OpenAnywayKeeps ==
  ASSUME IInv, NEW a \in Openers, OpenAnyway(a)
  PROVE  IInv'
  <1> DEFINE o == opener[a]
  <1>1. Sound(o) /\ o.at = "openAnyway"
    BY DEF IInv, OpenAnyway, Under
  <1> DEFINE i == name[Target(a)]
  <1>2. CASE i # Nothing /\ OpenedBy(a, i, [fd |-> i, at |-> "chmod"])
    <2>1. Sound(Opened(o, [fd |-> i, at |-> "chmod"]))
      BY <1>1, <1>2
         DEF Opened, Sound, Fields, Counted, EmptyHanded, HandsFull, Saving, Answered, Number
    <2> QED BY <1>2, <2>1, OpenedByKeeps
  <1>3. CASE GivesUp(a)
    BY <1>1, <1>3, GivesUpKeeps DEF Under
  <1> QED BY <1>2, <1>3 DEF OpenAnyway, Opens

LEMMA ChmodKeeps ==
  ASSUME IInv, NEW a \in Openers, Chmod(a)
  PROVE  IInv'
  <1> DEFINE o == opener[a]
  <1>1. Sound(o) /\ o.at = "chmod"
    BY DEF IInv, Chmod, Under
  <1> DEFINE changes == [at |-> "reopen", fd |-> Nothing, opened |-> o.opened - 1]
  <1>2. With(a, changes)
    BY DEF Chmod, CloseFirst
  <1>3. Sound(Laid(o, changes))
    BY <1>1
       DEF Laid, Sound, Fields, Counted, EmptyHanded, HandsFull, Saving, Answered, Number
  <1> QED BY <1>2, <1>3, WithKeeps

LEMMA ReopenKeeps ==
  ASSUME IInv, NEW a \in Openers, Reopen(a)
  PROVE  IInv'
  <1> DEFINE o == opener[a]
  <1> DEFINE at == NewFile(a)
  <1>1. Sound(o) /\ o.at = "reopen"
    BY DEF IInv, Reopen, Under
  <1>at. (o.op = "copy" /\ at = "copyLines") \/ (o.op # "copy" /\ at = "done")
    BY DEF NewFile
  <1> DEFINE i == name[Target(a)]
  <1> DEFINE changes == [fd |-> i, at |-> at, answer |-> TRUE]
  <1>2. CASE i # Nothing /\ OpenedBy(a, i, changes)
    <2> HIDE DEF at
    <2>1. Sound(Opened(o, changes))
      BY <1>1, <1>at, <1>2
         DEF Opened, Sound, Fields, Counted, EmptyHanded, HandsFull, Saving, Answered, Number
    <2> QED BY <1>2, <2>1, OpenedByKeeps
  <1>3. CASE GivesUp(a)
    BY <1>1, <1>3, GivesUpKeeps DEF Under
  <1> QED BY <1>2, <1>3 DEF Reopen, Opens

-----------------------------------------------------------------------------
(* Copies, and what is done to an open device *)

LEMMA StartCopyKeeps ==
  ASSUME IInv, NEW a \in Openers, StartCopy(a)
  PROVE  IInv'
  <1> DEFINE o == opener[a]
  <1> DEFINE at == IF name["path"] # Nothing /\ name["copy"] = Nothing
                   THEN "openSource" ELSE "done"
  <1>1. Sound(o) /\ o.at = "idle" /\ at \in {"openSource", "done"}
    BY DEF IInv, StartCopy, Under
  <1> DEFINE changes == [op |-> "copy", at |-> at]
  <1>2. With(a, changes)
    BY DEF StartCopy
  <1> HIDE DEF at
  <1>3. Sound(Laid(o, changes))
    BY <1>1
       DEF Laid, Sound, Fields, Counted, EmptyHanded, HandsFull, Saving, Answered, Number
  <1> QED BY <1>2, <1>3, WithKeeps

LEMMA OpenSourceKeeps ==
  ASSUME IInv, NEW a \in Openers, OpenSource(a)
  PROVE  IInv'
  <1> DEFINE o == opener[a]
  <1>1. Sound(o) /\ o.at = "openSource"
    BY DEF IInv, OpenSource, Under
  <1> DEFINE i == name["path"]
  <1> DEFINE changes == [source |-> i, opened |-> o.opened + 1, at |-> "create"]
  <1>2. CASE i # Nothing /\ With(a, changes)
    <2>1. Sound(Laid(o, changes))
      BY <1>1, <1>2
         DEF Laid, Sound, Fields, Counted, EmptyHanded, HandsFull, Saving, Answered, Number
    <2> QED BY <1>2, <2>1, WithKeeps
  <1>3. CASE Answers(a, FALSE)
    <2>1. Sound(Laid(o, [at |-> "reopenSaved"]))
      BY <1>1
         DEF Laid, Sound, Fields, Counted, EmptyHanded, HandsFull, Saving, Answered, Number
    <2>2. ~o.saving => Sound(Laid(o, [at |-> "done", answer |-> FALSE]))
      BY <1>1
         DEF Laid, Sound, Fields, Counted, EmptyHanded, HandsFull, Saving, Answered, Number
    <2> QED BY <1>3, <2>1, <2>2, AnswersKeeps
  <1> QED BY <1>2, <1>3 DEF OpenSource, Opens

LEMMA NoCopyKeeps ==
  ASSUME IInv, NEW a \in Openers, NoCopy(a)
  PROVE  IInv'
  <1> DEFINE o == opener[a]
  <1>1. Sound(o) /\ o.at = "noCopy"
    BY DEF IInv, NoCopy, Under
  <1>2. Sound(Laid(o, [at |-> "reopenSaved"]))
    BY <1>1
       DEF Laid, Sound, Fields, Counted, EmptyHanded, HandsFull, Saving, Answered, Number
  <1>3. ~o.saving => Sound(Laid(o, [at |-> "done", answer |-> FALSE]))
    BY <1>1
       DEF Laid, Sound, Fields, Counted, EmptyHanded, HandsFull, Saving, Answered, Number
  <1> QED BY <1>2, <1>3, AnswersKeeps DEF NoCopy

LEMMA CopyLinesKeeps ==
  ASSUME IInv, NEW a \in Openers, CopyLines(a)
  PROVE  IInv'
  <1> DEFINE o == opener[a]
  <1> DEFINE at == IF o.saving THEN "reopenSaved" ELSE "done"
  <1>1. Sound(o) /\ o.at = "copyLines"
    BY DEF IInv, CopyLines, Under
  <1>at. (o.saving /\ at = "reopenSaved") \/ (~o.saving /\ at = "done")
    OBVIOUS
  <1> DEFINE changes == [source |-> Nothing, fd |-> Nothing, opened |-> o.opened - 2,
                          at |-> at, answer |-> TRUE]
  <1>2. With(a, changes)
    BY DEF CopyLines
  <1> HIDE DEF at
  <1>3. Sound(Laid(o, changes))
    BY <1>1, <1>at
       DEF Laid, Sound, Fields, Counted, EmptyHanded, HandsFull, Saving, Answered, Number
  <1> QED BY <1>2, <1>3, WithKeeps

LEMMA CloseAndRemoveKeeps ==
  ASSUME IInv, NEW a \in Openers, CloseAndRemove(a)
  PROVE  IInv'
  <1> DEFINE o == opener[a]
  <1>1. Sound(o) /\ o.at = "done" /\ o.op = "file" /\ o.fd # Nothing
    BY DEF IInv, CloseAndRemove, Under, Device
  <1> DEFINE changes == [fd |-> Nothing, opened |-> o.opened - 1, at |-> "remove"]
  <1>2. With(a, changes)
    BY DEF CloseAndRemove
  <1>3. Sound(Laid(o, changes))
    BY <1>1
       DEF Laid, Sound, Fields, Counted, EmptyHanded, HandsFull, Saving, Answered, Number
  <1> QED BY <1>2, <1>3, WithKeeps

LEMMA removeKeeps ==
  ASSUME IInv, NEW a \in Openers, remove(a)
  PROVE  IInv'
  <1> DEFINE o == opener[a]
  <1>1. Sound(o) /\ o.at = "remove"
    BY DEF IInv, remove, Under
  <1> DEFINE changes == [at |-> "removed", answer |-> name["path"] # Nothing]
  <1>2. With(a, changes)
    BY DEF remove
  <1>3. Sound(Laid(o, changes))
    BY <1>1
       DEF Laid, Sound, Fields, Counted, EmptyHanded, HandsFull, Saving, Answered, Number
  <1> QED BY <1>2, <1>3, WithKeeps

LEMMA saveAsKeeps ==
  ASSUME IInv, NEW a \in Openers, saveAs(a)
  PROVE  IInv'
  <1> DEFINE o == opener[a]
  <1> DEFINE at == IF name["path"] # Nothing /\ name["copy"] = Nothing
                   THEN "openSource" ELSE "reopenSaved"
  <1>1. Sound(o) /\ o.at = "done"
         /\ o.op = "file" /\ o.fd # Nothing /\ o.source = Nothing
         /\ at \in {"openSource", "reopenSaved"}
    BY DEF IInv, saveAs, Under, Device
  <1> DEFINE changes == [op |-> "copy", saving |-> TRUE, fd |-> Nothing, opened |-> o.opened - 1,
                          made |-> Nothing, at |-> at]
  <1>2. With(a, changes)
    BY DEF saveAs
  <1> HIDE DEF at
  <1>3. Sound(Laid(o, changes))
    BY <1>1
       DEF Laid, Sound, Fields, Counted, EmptyHanded, HandsFull, Saving, Answered, Number
  <1> QED BY <1>2, <1>3, WithKeeps

LEMMA ReopenSavedKeeps ==
  ASSUME IInv, NEW a \in Openers, ReopenSaved(a)
  PROVE  IInv'
  <1> DEFINE o == opener[a]
  <1> DEFINE at == IF name["path"] = Nothing THEN "create" ELSE "openExisting"
  <1>1. Sound(o) /\ o.at = "reopenSaved" /\ at \in {"create", "openExisting"}
    BY DEF IInv, ReopenSaved, Under
  <1> DEFINE changes == [op |-> "file", saving |-> FALSE, made |-> Nothing, at |-> at]
  <1>2. With(a, changes)
    BY DEF ReopenSaved
  <1> HIDE DEF at
  <1>3. Sound(Laid(o, changes))
    BY <1>1
       DEF Laid, Sound, Fields, Counted, EmptyHanded, HandsFull, Saving, Answered, Number
  <1> QED BY <1>2, <1>3, WithKeeps

-----------------------------------------------------------------------------
(* Servers *)

LEMMA bindKeeps ==
  ASSUME IInv, NEW a \in Openers, bind(a)
  PROVE  IInv'
  <1> DEFINE o == opener[a]
  <1>1. Sound(o) /\ o.at = "idle"
    BY DEF IInv, bind, Under
  <1> DEFINE changes(i) == [op |-> "server", at |-> "done", made |-> i, answer |-> TRUE]
  <1>2. ASSUME NEW i \in Inodes, With(a, changes(i))
        PROVE  IInv'
    <2>1. Sound(Laid(o, changes(i)))
      BY <1>1
         DEF Laid, Sound, Fields, Counted, EmptyHanded, HandsFull, Saving, Answered, Number
    <2> QED BY <1>2, <2>1, WithKeeps
  <1>3. CASE With(a, [op |-> "server", at |-> "done"])
    <2>1. Sound(Laid(o, [op |-> "server", at |-> "done"]))
      BY <1>1
         DEF Laid, Sound, Fields, Counted, EmptyHanded, HandsFull, Saving, Answered, Number
    <2> QED BY <1>3, <2>1, WithKeeps
  <1> QED BY <1>2, <1>3 DEF bind, baseBind

LEMMA DestroyKeeps ==
  ASSUME IInv, NEW a \in Openers, Destroy(a)
  PROVE  IInv'
  <1> DEFINE o == opener[a]
  <1> DEFINE at == IF name["path"] = Nothing THEN "gone" ELSE "type"
  <1>1. Sound(o) /\ o.at = "done" /\ o.op = "server" /\ at \in {"gone", "type"}
    BY DEF IInv, Destroy, Under
  <1> DEFINE changes == [at |-> at]
  <1>2. With(a, changes)
    BY DEF Destroy
  <1> HIDE DEF at
  <1>3. Sound(Laid(o, changes))
    BY <1>1
       DEF Laid, Sound, Fields, Counted, EmptyHanded, HandsFull, Saving, Answered, Number
  <1> QED BY <1>2, <1>3, WithKeeps

LEMMA LookAtTypeKeeps ==
  ASSUME IInv, NEW a \in Openers, LookAtType(a)
  PROVE  IInv'
  <1> DEFINE o == opener[a]
  <1> DEFINE at == IF IsSocket(a) THEN "unlinkSocket" ELSE "gone"
  <1>1. Sound(o) /\ o.at = "type" /\ at \in {"unlinkSocket", "gone"}
    BY DEF IInv, LookAtType, Under
  <1> DEFINE changes == [at |-> at]
  <1>2. With(a, changes)
    BY DEF LookAtType
  <1> HIDE DEF at
  <1>3. Sound(Laid(o, changes))
    BY <1>1
       DEF Laid, Sound, Fields, Counted, EmptyHanded, HandsFull, Saving, Answered, Number
  <1> QED BY <1>2, <1>3, WithKeeps

LEMMA UnlinkSocketKeeps ==
  ASSUME IInv, NEW a \in Openers, UnlinkSocket(a)
  PROVE  IInv'
  <1> DEFINE o == opener[a]
  <1>1. Sound(o) /\ o.at = "unlinkSocket"
    BY DEF IInv, UnlinkSocket, Under
  <1> DEFINE changes == [at |-> "gone"]
  <1>2. With(a, changes)
    BY DEF UnlinkSocket
  <1>3. Sound(Laid(o, changes))
    BY <1>1
       DEF Laid, Sound, Fields, Counted, EmptyHanded, HandsFull, Saving, Answered, Number
  <1> QED BY <1>2, <1>3, WithKeeps

-----------------------------------------------------------------------------
(* The invariant of the specification *)

LEMMA InitSound == Init => IInv
  <1> SUFFICES ASSUME Init, NEW a \in Openers
               PROVE  Sound(opener[a])
    BY DEF Init, IInv
  <1> QED BY
     DEF Init, NewOpener, Sound, Fields, Counted, EmptyHanded, HandsFull, Saving,
                 Answered, Number

LEMMA NextSound == IInv /\ [Next]_vars => IInv'
  <1> SUFFICES ASSUME IInv, [Next]_vars
               PROVE  IInv'
    OBVIOUS
  <1>1. ASSUME NEW a \in Openers, PipeStep(a)
        PROVE  IInv'
    BY <1>1, StartPipeKeeps, makefifoKeeps, openPipeKeeps, EnterPipeKeeps, UnlinkPipeKeeps
       DEF PipeStep
  <1>2. ASSUME NEW a \in Openers, FileStep(a)
        PROVE  IInv'
    BY <1>2, StartFileKeeps, openExistingFileKeeps, CreateFileKeeps, OpenAnywayKeeps,
       ChmodKeeps, ReopenKeeps DEF FileStep
  <1>3. ASSUME NEW a \in Openers, CopyStep(a)
        PROVE  IInv'
    BY <1>3, StartCopyKeeps, OpenSourceKeeps, NoCopyKeeps, CopyLinesKeeps,
       CloseAndRemoveKeeps, removeKeeps, saveAsKeeps, ReopenSavedKeeps DEF CopyStep
  <1>4. ASSUME NEW a \in Openers, ServerStep(a)
        PROVE  IInv'
    BY <1>4, bindKeeps, DestroyKeeps, LookAtTypeKeeps, UnlinkSocketKeeps DEF ServerStep
  <1>5. CASE UNCHANGED vars
    BY <1>5 DEF vars, IInv
  <1> QED BY <1>1, <1>2, <1>3, <1>4, <1>5 DEF Next

\* openPipe, openFileImpl, openNewFile, copyTo, saveAs: however many processes open,
\* make, remove and copy under one name, and in whatever order their system calls
\* come, no opener loses a descriptor or counts one that it does not have, and an
\* answer of TRUE stands for one; but a copy that fails keeps its source open.
THEOREM DescriptorsAreAccounted == Spec => []DescriptorsAccounted
  <1>1. IInv => DescriptorsAccounted
    BY DEF IInv, Sound, Counted, Answered, DescriptorsAccounted
  <1> QED BY <1>1, InitSound, NextSound, PTL DEF Spec

-----------------------------------------------------------------------------
(* The file that a device made                                             *)
(*                                                                         *)
(* A device that made its file has it from the creating open to the answer *)
(* by three ways: by its descriptor, by the name while it has closed the   *)
(* descriptor, and by the permissions that it set.  Others change those    *)
(* permissions too, through the descriptor of an open that found the name  *)
(* there: a file device sets the same ones, and a copy has only files from *)
(* under the other name in its hands.                                      *)

Making(o) == o.op = "file" /\ o.made # Nothing /\ o.at \in {"chmod", "reopen", "done"}

Copying(o) == o.op = "copy" /\ o.at = "chmod"

\* An opening of a file starts without one that it made.
Fresh(o) ==
    o.at = "idle" \/ (o.op = "file" /\ o.at \in {"create", "openAnyway", "openExisting"}) =>
        o.made = Nothing

FileOf(mode) == [kind |-> "file", mode |-> mode]

HasItsFile(o) ==
    /\ o.made \in Inodes /\ o.made # name["copy"]
    /\ inode[o.made] \in {FileOf("masked"), FileOf("asked")}
    /\ o.at # "chmod" => inode[o.made] = FileOf("asked")
    /\ o.at # "done" => name["path"] = o.made
    /\ o.at # "reopen" => o.fd = o.made
    /\ o.at = "done" => o.answer

Kinds == {"none", "fifo", "file", "socket"}
Modes == {"none", "masked", "asked"}

Known(i) == i \in Inodes /\ inode[i].kind # "none"

Tables ==
    /\ name \in [{"path", "copy"} -> Inodes \cup {Nothing}]
    /\ inode \in [Inodes -> [kind : Kinds, mode : Modes]]
    /\ name["copy"] # Nothing => Known(name["copy"])

OwnInv ==
    /\ Tables
    /\ \A a \in Openers :
          /\ Fresh(opener[a])
          /\ Copying(opener[a]) => Known(opener[a].fd)
          /\ a \notin disturbed /\ Making(opener[a]) => HasItsFile(opener[a])
    /\ \A a, b \in Openers :
          a \notin disturbed /\ Making(opener[a]) /\ Copying(opener[b]) =>
              opener[b].fd # opener[a].made

\* A step of a leaves the others as they are, but for their waiting.
Alike(o, p) ==
    p.op = o.op /\ p.at = o.at /\ p.made = o.made /\ p.fd = o.fd /\ p.answer = o.answer
Aside(a) == \A b \in Openers \ {a} : Alike(opener[b], opener'[b])

LEMMA WithIsOwn ==
  ASSUME IInv, NEW a \in Openers, NEW changes, With(a, changes)
  PROVE  opener'[a] = Laid(opener[a], changes) /\ Aside(a)
  BY DEF With, Laid, Aside, Alike, IInv

LEMMA OpenedByIsOwn ==
  ASSUME IInv, NEW a \in Openers, NEW i, NEW changes, OpenedBy(a, i, changes)
  PROVE  opener'[a] = Opened(opener[a], changes) /\ Aside(a)
  <1>1. opener'[a] = Opened(opener[a], changes)
    BY DEF OpenedBy, Opened
  <1>2. ASSUME NEW b \in Openers \ {a}
        PROVE  Alike(opener[b], opener'[b])
    <2>1. PICK waits : opener'[b] = [opener[b] EXCEPT !.waits = waits]
      BY DEF OpenedBy
    <2>2. DOMAIN opener[b] = Fields
      BY DEF IInv, Sound
    <2> QED BY <2>1, <2>2 DEF Alike, Fields
  <1> QED BY <1>1, <1>2 DEF Aside

-----------------------------------------------------------------------------
(* Steps that leave the names as they are *)

\* What a gets by such a step is by its own name, or what it had already.
LEMMA NamesLeft ==
  ASSUME OwnInv, NEW a \in Openers, Aside(a), UNCHANGED names, Fresh(opener'[a]),
         Copying(opener'[a]) => opener'[a].fd = name["copy"] /\ name["copy"] # Nothing,
         a \notin disturbed /\ Making(opener'[a]) =>
             /\ HasItsFile(opener'[a])
             /\ Making(opener[a]) /\ opener'[a].made = opener[a].made
  PROVE  OwnInv'
  <1> USE DEF names
  <1>1. Tables'
    BY DEF OwnInv, Tables, Known
  <1>2. ASSUME NEW b \in Openers
        PROVE  /\ Fresh(opener'[b])
               /\ Copying(opener'[b]) => Known(opener'[b].fd)
               /\ b \notin disturbed /\ Making(opener'[b]) => HasItsFile(opener'[b])
    <2>1. CASE b = a
      BY <2>1 DEF OwnInv, Tables
    <2>2. CASE b # a
      <3>1. Alike(opener[b], opener'[b])
        BY <2>2 DEF Aside
      <3> QED BY <3>1 DEF OwnInv, Alike, Fresh, Copying, Making, HasItsFile
    <2> QED BY <2>1, <2>2
  <1>3. ASSUME NEW b \in Openers, NEW c \in Openers, b \notin disturbed,
               Making(opener'[b]), Copying(opener'[c])
        PROVE  opener'[c].fd # opener'[b].made
    <2>1. Making(opener[b]) /\ opener'[b].made = opener[b].made
      BY <1>3 DEF Aside, Alike, Making
    <2>2. opener[b].made # name["copy"]
      BY <1>3, <2>1 DEF OwnInv, HasItsFile
    <2>3. CASE c = a
      BY <1>3, <2>1, <2>2, <2>3
    <2>4. CASE c # a
      <3>1. Copying(opener[c]) /\ opener'[c].fd = opener[c].fd
        BY <1>3, <2>4 DEF Aside, Alike, Copying
      <3> QED BY <1>3, <2>1, <3>1 DEF OwnInv
    <2> QED BY <2>3, <2>4
  <1> QED BY <1>1, <1>2, <1>3 DEF OwnInv, Known, HasItsFile

\* Neither has a file of its own in its hands nor one of the copy's name.
Idles(o) == Fresh(o) /\ ~Making(o) /\ ~Copying(o)

LEMMA WithIdles ==
  ASSUME IInv, OwnInv, NEW a \in Openers, NEW changes, With(a, changes), UNCHANGED names,
         Idles(Laid(opener[a], changes))
  PROVE  OwnInv'
  BY WithIsOwn, NamesLeft DEF Idles

LEMMA OpenedByIdles ==
  ASSUME IInv, OwnInv, NEW a \in Openers, NEW i, NEW changes, OpenedBy(a, i, changes),
         UNCHANGED names, Idles(Opened(opener[a], changes))
  PROVE  OwnInv'
  BY OpenedByIsOwn, NamesLeft DEF Idles

LEMMA AnswerIdles ==
  ASSUME NEW o, NEW answer, DOMAIN o = Fields, o.op # "file" \/ o.made = Nothing
  PROVE  /\ Idles(Laid(o, [at |-> "reopenSaved"]))
         /\ Idles(Laid(o, [at |-> "done", answer |-> answer]))
  BY DEF Idles, Laid, Fresh, Making, Copying, Fields

LEMMA AnswersIdle ==
  ASSUME IInv, OwnInv, NEW a \in Openers, NEW answer, Answers(a, answer), UNCHANGED names,
         opener[a].op # "file" \/ opener[a].made = Nothing
  PROVE  OwnInv'
  <1>1. DOMAIN opener[a] = Fields
    BY DEF IInv, Sound
  <1> QED BY <1>1, AnswerIdles, WithIdles DEF Answers

-----------------------------------------------------------------------------
(* Steps that change a name *)

LEMMA OthersAtRest ==
  ASSUME NEW a \in Openers, NEW b \in Openers \ {a}, Disturbs(a), Aside(a),
         b \notin disturbed', Making(opener'[b])
  PROVE  b \notin disturbed /\ Making(opener[b]) /\ opener[b].at = "done"
  BY DEF Disturbs, Aside, Alike, Making, Under, Ended

\* A file that is made is nobody's yet; and who made one before has it by its
\* descriptor, if the name was not changed under its hands.
LEMMA CreatingLeaves ==
  ASSUME OwnInv, NEW a \in Openers, NEW i \in Inodes,
         NEW kind \in Kinds \ {"none"}, NEW mode \in Modes,
         Creates(a, i, kind, mode), Aside(a), Fresh(opener'[a]), ~Copying(opener'[a]),
         Making(opener'[a]) =>
             /\ opener'[a].made = i /\ opener'[a].fd = i /\ opener'[a].at = "chmod"
             /\ opener[a].op = "file" /\ kind = "file" /\ mode = "masked"
  PROVE  OwnInv'
  <1>1. /\ inode[i] = Unused
        /\ name' = [name EXCEPT ![Target(a)] = i]
        /\ inode' = [inode EXCEPT ![i] = [kind |-> kind, mode |-> mode]]
        /\ Disturbs(a) /\ Target(a) \in {"path", "copy"}
    BY DEF Creates, Target
  <1>2. Tables /\ i # Nothing
    BY NothingAssumption DEF OwnInv
  <1>3. \A j : Known(j) => Known(j)' /\ j # i /\ inode'[j] = inode[j]
    BY <1>1, <1>2 DEF Tables, Known, Unused
  <1>4. Tables'
    BY <1>1, <1>2 DEF Tables, Known
  <1>5. ASSUME NEW b \in Openers
        PROVE  /\ Fresh(opener'[b])
               /\ Copying(opener'[b]) => Known(opener[b].fd)'
               /\ b \notin disturbed' /\ Making(opener'[b]) => HasItsFile(opener[b])'
    <2>1. CASE b = a
      <3>1. Making(opener'[a]) => HasItsFile(opener[a])'
        <4> SUFFICES ASSUME Making(opener'[a])
                     PROVE  HasItsFile(opener[a])'
          OBVIOUS
        <4>1. Target(a) = "path"
          BY DEF Target
        <4>2. inode'[i] = FileOf("masked") /\ name'["path"] = i /\ name'["copy"] = name["copy"]
          BY <1>1, <1>2, <4>1 DEF Tables, FileOf
        <4>3. name["copy"] # i
          BY <1>2, <1>3 DEF Tables
        <4> QED BY <4>2, <4>3 DEF HasItsFile
      <3> QED BY <2>1, <3>1
    <2>2. CASE b # a
      <3>1. Alike(opener[b], opener'[b])
        BY <2>2 DEF Aside
      <3>2. Fresh(opener'[b]) /\ (Copying(opener'[b]) => Known(opener[b].fd)')
        BY <1>3, <3>1 DEF OwnInv, Alike, Fresh, Copying
      <3>3. ASSUME b \notin disturbed', Making(opener'[b])
            PROVE  HasItsFile(opener[b])'
        <4>1. HasItsFile(opener[b]) /\ opener[b].at = "done"
          BY <1>1, <2>2, <3>3, OthersAtRest DEF OwnInv
        <4>2. Known(opener[b].made)
          BY <4>1 DEF HasItsFile, Known, FileOf
        <4>3. opener[b].made # i /\ inode'[opener[b].made] = inode[opener[b].made]
          BY <1>3, <4>2
        <4>4. name'["copy"] \in {name["copy"], i}
          BY <1>1, <1>2 DEF Tables
        <4> QED BY <3>1, <4>1, <4>3, <4>4 DEF HasItsFile, Alike
      <3> QED BY <3>2, <3>3
    <2> QED BY <2>1, <2>2
  <1>6. ASSUME NEW b \in Openers, NEW c \in Openers, b \notin disturbed',
               Making(opener'[b]), Copying(opener'[c])
        PROVE  opener'[c].fd # opener'[b].made
    <2>1. c # a /\ Copying(opener[c]) /\ opener'[c].fd = opener[c].fd
      BY <1>6 DEF Aside, Alike, Copying
    <2>2. CASE b = a
      BY <1>3, <1>6, <2>1, <2>2 DEF OwnInv
    <2>3. CASE b # a
      <3>1. b \notin disturbed /\ Making(opener[b])
        BY <1>1, <1>6, <2>3, OthersAtRest
      <3>2. opener'[b].made = opener[b].made
        BY <2>3 DEF Aside, Alike
      <3> QED BY <2>1, <3>1, <3>2 DEF OwnInv
    <2> QED BY <2>2, <2>3
  <1> QED BY <1>4, <1>5, <1>6 DEF OwnInv

LEMMA UnlinkingLeaves ==
  ASSUME OwnInv, NEW a \in Openers, Unlinks(a), UNCHANGED inode, Aside(a), Idles(opener'[a])
  PROVE  OwnInv'
  <1>1. name' = [name EXCEPT !["path"] = Nothing] /\ Disturbs(a)
    BY DEF Unlinks
  <1>2. Tables' /\ name'["copy"] = name["copy"]
    BY <1>1 DEF OwnInv, Tables, Known
  <1>3. ASSUME NEW b \in Openers
        PROVE  /\ Fresh(opener'[b])
               /\ Copying(opener'[b]) => Known(opener[b].fd)'
               /\ b \notin disturbed' /\ Making(opener'[b]) => HasItsFile(opener[b])'
    <2>1. CASE b = a
      BY <2>1 DEF Idles
    <2>2. CASE b # a
      <3>1. Alike(opener[b], opener'[b])
        BY <2>2 DEF Aside
      <3>2. Fresh(opener'[b]) /\ (Copying(opener'[b]) => Known(opener[b].fd)')
        BY <3>1 DEF OwnInv, Alike, Fresh, Copying, Known
      <3>3. ASSUME b \notin disturbed', Making(opener'[b])
            PROVE  HasItsFile(opener[b])'
        <4>1. HasItsFile(opener[b]) /\ opener[b].at = "done"
          BY <1>1, <2>2, <3>3, OthersAtRest DEF OwnInv
        <4> QED BY <1>2, <3>1, <4>1 DEF HasItsFile, Alike
      <3> QED BY <3>2, <3>3
    <2> QED BY <2>1, <2>2
  <1>4. ASSUME NEW b \in Openers, NEW c \in Openers, b \notin disturbed',
               Making(opener'[b]), Copying(opener'[c])
        PROVE  opener'[c].fd # opener'[b].made
    <2>1. b # a /\ c # a
      BY <1>4 DEF Idles
    <2>2. b \notin disturbed /\ Making(opener[b])
      BY <1>1, <1>4, <2>1, OthersAtRest
    <2>3. /\ opener'[b].made = opener[b].made
          /\ Copying(opener[c]) /\ opener'[c].fd = opener[c].fd
      BY <1>4, <2>1 DEF Aside, Alike, Copying
    <2> QED BY <2>2, <2>3 DEF OwnInv
  <1> QED BY <1>2, <1>3, <1>4 DEF OwnInv

-----------------------------------------------------------------------------
(* The steps, one by one *)

LEMMA PipeStepOwns ==
  ASSUME IInv, OwnInv, NEW a \in Openers, PipeStep(a)
  PROVE  OwnInv'
  <1> DEFINE o == opener[a]
  <1>1. Sound(o) /\ DOMAIN o = Fields
    BY DEF IInv, Sound
  <1>2. ASSUME StartPipe(a)
        PROVE  OwnInv'
    <2> DEFINE at == IF name["path"] = Nothing THEN "mkfifo" ELSE "openPipe"
    <2> DEFINE changes(side, waits) ==
          [op |-> "pipe", sides |-> {side}, waits |-> waits, at |-> at]
    <2>1. PICK side \in Sides, non_blocking \in BOOLEAN : With(a, changes(side, ~non_blocking))
      BY <1>2 DEF StartPipe
    <2>2. at \in {"mkfifo", "openPipe"} /\ UNCHANGED names
      BY <1>2 DEF StartPipe
    <2> HIDE DEF at
    <2>3. Idles(Laid(o, changes(side, ~non_blocking)))
      BY <1>1, <2>2 DEF Idles, Laid, Fresh, Making, Copying, Fields
    <2> QED BY <2>1, <2>2, <2>3, WithIdles
  <1>3. ASSUME makefifo(a)
        PROVE  OwnInv'
    <2>1. o.at = "mkfifo" /\ o.op = "pipe"
      BY <1>1, <1>3 DEF makefifo, Under, Sound, EmptyHanded
    <2>2. CASE name["path"] = Nothing
      <3>1. PICK i \in Inodes :
               Creates(a, i, "fifo", "asked") /\ With(a, [at |-> "openPipe", made |-> i])
        BY <1>3, <2>2 DEF makefifo
      <3>2. Idles(Laid(o, [at |-> "openPipe", made |-> i]))
        BY <1>1, <2>1 DEF Idles, Laid, Fresh, Making, Copying, Fields
      <3> QED BY <3>1, <3>2, WithIsOwn, CreatingLeaves DEF Idles, Kinds, Modes
    <2>3. CASE name["path"] # Nothing
      BY <1>3, <2>1, <2>3, AnswersIdle DEF makefifo
    <2> QED BY <2>2, <2>3
  <1>4. ASSUME openPipe(a)
        PROVE  OwnInv'
    <2>1. o.at = "openPipe" /\ o.op = "pipe" /\ UNCHANGED names
      BY <1>1, <1>4 DEF openPipe, Under, Sound, EmptyHanded
    <2> DEFINE i == name["path"]
    <2>2. ASSUME NEW waits, OpenedBy(a, i, [fd |-> i, at |-> "waiting", waits |-> waits])
          PROVE  OwnInv'
      <3>1. Idles(Opened(o, [fd |-> i, at |-> "waiting", waits |-> waits]))
        BY <1>1, <2>1 DEF Idles, Opened, Fresh, Making, Copying, Fields
      <3> QED BY <2>1, <2>2, <3>1, OpenedByIdles
    <2>3. CASE Answers(a, FALSE)
      BY <2>1, <2>3, AnswersIdle
    <2> QED BY <1>4, <2>2, <2>3 DEF openPipe
  <1>5. ASSUME EnterPipe(a)
        PROVE  OwnInv'
    <2>1. o.at = "waiting" /\ o.op = "pipe" /\ UNCHANGED names
      BY <1>1, <1>5 DEF EnterPipe, Under, Sound, HandsFull
    <2>2. Idles(Laid(o, [at |-> "unlink"]))
      BY <1>1, <2>1 DEF Idles, Laid, Fresh, Making, Copying, Fields
    <2> QED BY <1>5, <2>1, <2>2, WithIdles, AnswersIdle DEF EnterPipe
  <1>6. ASSUME UnlinkPipe(a)
        PROVE  OwnInv'
    <2>1. o.at = "unlink" /\ o.op = "pipe"
      BY <1>1, <1>6 DEF UnlinkPipe, Under, Sound, HandsFull
    <2>2. Idles(opener'[a]) /\ Aside(a)
      BY <1>1, <1>6, <2>1, AnswerIdles, WithIsOwn DEF UnlinkPipe, Answers
    <2> QED BY <1>6, <2>2, UnlinkingLeaves DEF UnlinkPipe
  <1> QED BY <1>2, <1>3, <1>4, <1>5, <1>6 DEF PipeStep

LEMMA GivesUpOwns ==
  ASSUME IInv, OwnInv, NEW a \in Openers, Under(a) \in {"openAnyway", "reopen"},
         opener[a].op = "file" => opener[a].made = Nothing \/ a \in disturbed,
         GivesUp(a), UNCHANGED names
  PROVE  OwnInv'
  <1> DEFINE o == opener[a]
  <1>1. Sound(o) /\ DOMAIN o = Fields
    BY DEF IInv, Sound
  <1>2. CASE o.op = "copy"
    <2>1. Idles(Laid(o, [fd |-> Nothing, at |-> "noCopy"]))
      BY <1>1, <1>2 DEF Idles, Laid, Fresh, Making, Copying, Fields
    <2> QED BY <1>2, <2>1, WithIdles DEF GivesUp
  <1>3. CASE o.op # "copy"
    <2> DEFINE changes == [fd |-> Nothing, at |-> "done", answer |-> FALSE, saving |-> FALSE]
    <2> DEFINE p == Laid(o, changes)
    <2>1. With(a, changes)
      BY <1>3 DEF GivesUp
    <2>2. opener'[a] = p /\ Aside(a)
      BY <2>1, WithIsOwn
    <2>3. p.at = "done" /\ p.op = o.op /\ p.made = o.made /\ p.op # "copy"
      BY <1>1, <1>3 DEF Laid, Fields
    <2>4. Fresh(p) /\ ~Copying(p) /\ (Making(p) => a \in disturbed)
      BY <2>3 DEF Fresh, Copying, Making
    <2> QED BY <2>2, <2>4, NamesLeft
  <1> QED BY <1>2, <1>3

LEMMA CreateFileOwns ==
  ASSUME IInv, OwnInv, NEW a \in Openers, CreateFile(a)
  PROVE  OwnInv'
  <1> DEFINE o == opener[a]
  <1>1. Sound(o) /\ DOMAIN o = Fields /\ o.at = "create" /\ o.op \in {"file", "copy"}
    BY DEF IInv, Sound, CreateFile, Under, EmptyHanded
  <1>2. CASE name[Target(a)] = Nothing
    <2> DEFINE at == IF AsAsked(a, Made(a)) THEN NewFile(a) ELSE "chmod"
    <2> DEFINE changes(i) ==
          [made |-> i, fd |-> i, opened |-> o.opened + 1, at |-> at, answer |-> TRUE]
    <2>1. PICK i \in Inodes : Creates(a, i, "file", Made(a)) /\ With(a, changes(i))
      BY <1>2 DEF CreateFile
    <2>2. \/ o.op = "file" /\ Made(a) = "masked" /\ at = "chmod"
          \/ o.op = "copy" /\ Made(a) = "none" /\ at = "copyLines"
      BY <1>1 DEF AsAsked, NewFile, Made
    <2> HIDE DEF at
    <2> DEFINE p == Laid(o, changes(i))
    <2>3. p.op = o.op /\ p.at = at /\ p.made = i /\ p.fd = i
      BY <1>1 DEF Laid, Fields
    <2>4. Fresh(p) /\ ~Copying(p) /\ (Making(p) => o.op = "file" /\ at = "chmod")
      BY <2>2, <2>3 DEF Fresh, Copying, Making
    <2>5. opener'[a] = p /\ Aside(a)
      BY <2>1, WithIsOwn
    <2>6. Made(a) \in Modes /\ "file" \in Kinds \ {"none"}
      BY <2>2 DEF Modes, Kinds
    <2> QED BY <2>1, <2>2, <2>3, <2>4, <2>5, <2>6, CreatingLeaves
  <1>3. CASE name[Target(a)] # Nothing
    <2>1. With(a, [at |-> "openAnyway"]) /\ UNCHANGED names
      BY <1>3 DEF CreateFile
    <2>2. Idles(Laid(o, [at |-> "openAnyway"]))
      BY <1>1 DEF OwnInv, Idles, Laid, Fresh, Making, Copying, Fields
    <2> QED BY <2>1, <2>2, WithIdles
  <1> QED BY <1>2, <1>3

LEMMA OpenAnywayOwns ==
  ASSUME IInv, OwnInv, NEW a \in Openers, OpenAnyway(a)
  PROVE  OwnInv'
  <1> DEFINE o == opener[a]
  <1>1. DOMAIN o = Fields /\ o.at = "openAnyway" /\ o.op \in {"file", "copy"} /\ UNCHANGED names
    BY DEF IInv, Sound, OpenAnyway, Under, EmptyHanded
  <1>2. o.op = "file" => o.made = Nothing
    BY <1>1 DEF OwnInv, Fresh
  <1> DEFINE i == name[Target(a)]
  <1> DEFINE changes == [fd |-> i, at |-> "chmod"]
  <1>3. CASE i # Nothing /\ OpenedBy(a, i, changes)
    <2> DEFINE p == Opened(o, changes)
    <2>1. opener'[a] = p /\ Aside(a)
      BY <1>3, OpenedByIsOwn
    <2>2. p.op = o.op /\ p.at = "chmod" /\ p.made = o.made /\ p.fd = i
      BY <1>1 DEF Opened, Fields
    <2>3. Fresh(p) /\ ~Making(p) /\ (Copying(p) => p.fd = name["copy"] /\ name["copy"] # Nothing)
      BY <1>2, <1>3, <2>2 DEF Fresh, Making, Copying, Target
    <2> HIDE DEF p
    <2> QED BY <1>1, <2>1, <2>3, NamesLeft
  <1>4. CASE GivesUp(a)
    BY <1>1, <1>2, <1>4, GivesUpOwns DEF Under
  <1> QED BY <1>3, <1>4 DEF OpenAnyway, Opens

\* The descriptor leads to the file that was made; or to one that was found there, whose
\* permissions a file device sets as the one that made it does.
LEMMA ChmodOwns ==
  ASSUME IInv, OwnInv, NEW a \in Openers, Chmod(a)
  PROVE  OwnInv'
  <1> DEFINE o == opener[a]
  <1> DEFINE changes == [at |-> "reopen", fd |-> Nothing, opened |-> o.opened - 1]
  <1> DEFINE p == Laid(o, changes)
  <1>1. /\ DOMAIN o = Fields /\ o.at = "chmod" /\ o.op \in {"file", "copy"}
        /\ With(a, changes) /\ UNCHANGED <<name, removed, disturbed>>
        /\ inode' = [inode EXCEPT ![o.fd].mode = Asked(a)]
    BY DEF IInv, Sound, Chmod, CloseFirst, Under, HandsFull
  <1>2. opener'[a] = p /\ Aside(a)
    BY <1>1, WithIsOwn
  <1>3. p.op = o.op /\ p.at = "reopen" /\ p.made = o.made
    BY <1>1 DEF Laid, Fields
  <1>4. Fresh(p) /\ ~Copying(p) /\ (Making(p) => Making(o))
    BY <1>1, <1>3 DEF Fresh, Copying, Making
  <1> HIDE DEF p
  <1>5. Tables /\ Asked(a) \in Modes /\ (o.op = "file" => Asked(a) = "asked")
    BY <1>1 DEF OwnInv, Asked, Modes
  <1>6. \A j \in Inodes : /\ inode'[j].kind = inode[j].kind
                          /\ j # o.fd => inode'[j] = inode[j]
    BY <1>1, <1>5 DEF Tables
  <1>7. Tables' /\ \A j : Known(j) => Known(j)'
    BY <1>1, <1>5, <1>6 DEF Tables, Known
  <1>8. ASSUME NEW b \in Openers, b \notin disturbed, Making(opener'[b])
        PROVE  /\ Making(opener[b]) /\ opener'[b].made = opener[b].made
               /\ HasItsFile(opener[b])'
    <2>1. Making(opener[b]) /\ opener'[b].made = opener[b].made
      BY <1>2, <1>3, <1>4, <1>8 DEF Aside, Alike, Making
    <2> DEFINE i == opener[b].made
    <2>2. HasItsFile(opener[b])
      BY <1>8, <2>1 DEF OwnInv
    <2>3. o.op = "copy" => o.fd # i
      BY <1>1, <1>8, <2>1 DEF OwnInv, Copying
    <2>4. i = o.fd => inode'[i] = FileOf("asked")
      <3> SUFFICES ASSUME i = o.fd
                   PROVE  inode'[i] = FileOf("asked")
        OBVIOUS
      <3>1. Asked(a) = "asked"
        BY <1>1, <1>5, <2>3
      <3>2. i \in Inodes /\ i \in DOMAIN inode
        BY <1>5, <2>2 DEF HasItsFile, Tables
      <3>3. inode'[i] = [inode[i] EXCEPT !.mode = "asked"]
        BY <1>1, <3>1, <3>2
      <3> QED BY <2>2, <3>3 DEF HasItsFile, FileOf
    <2>5. inode'[i] \in {inode[i], FileOf("asked")}
      BY <1>6, <2>2, <2>4 DEF HasItsFile
    <2>6. CASE b = a
      <3>1. i = o.fd
        BY <1>1, <2>2, <2>6 DEF HasItsFile
      <3>2. name["path"] = i
        BY <1>1, <2>2, <2>6 DEF HasItsFile
      <3> QED BY <1>1, <1>2, <1>3, <2>1, <2>2, <2>4, <2>6, <3>1, <3>2 DEF HasItsFile
    <2>7. CASE b # a
      <3>1. Alike(opener[b], opener'[b])
        BY <1>2, <2>7 DEF Aside
      <3> QED BY <1>1, <2>1, <2>2, <2>5, <3>1 DEF HasItsFile, Alike
    <2> QED BY <2>1, <2>6, <2>7
  <1>9. ASSUME NEW b \in Openers
        PROVE  Fresh(opener'[b]) /\ (Copying(opener'[b]) => Known(opener[b].fd)')
    <2>1. CASE b = a
      BY <1>2, <1>4, <2>1
    <2>2. CASE b # a
      BY <1>2, <1>7, <2>2 DEF OwnInv, Aside, Alike, Fresh, Copying
    <2> QED BY <2>1, <2>2
  <1>10. ASSUME NEW b \in Openers, NEW c \in Openers, b \notin disturbed,
                Making(opener'[b]), Copying(opener'[c])
         PROVE  opener'[c].fd # opener'[b].made
    <2>1. c # a /\ Copying(opener[c]) /\ opener'[c].fd = opener[c].fd
      BY <1>2, <1>4, <1>10 DEF Aside, Alike, Copying
    <2> QED BY <1>8, <1>10, <2>1 DEF OwnInv
  <1> QED BY <1>1, <1>7, <1>8, <1>9, <1>10 DEF OwnInv

\* The name still leads to the file, so that it is opened again and not another one.
LEMMA ReopenOwns ==
  ASSUME IInv, OwnInv, NEW a \in Openers, Reopen(a)
  PROVE  OwnInv'
  <1> DEFINE o == opener[a]
  <1>1. DOMAIN o = Fields /\ o.at = "reopen" /\ o.op \in {"file", "copy"} /\ UNCHANGED names
    BY DEF IInv, Sound, Reopen, Under, EmptyHanded
  <1>2. o.op = "file" => Target(a) = "path" /\ NewFile(a) = "done"
    BY DEF Target, NewFile
  <1>3. o.op = "copy" => NewFile(a) = "copyLines"
    BY DEF NewFile
  <1>4. a \notin disturbed /\ Making(o) => HasItsFile(o)
    BY DEF OwnInv
  <1> DEFINE i == name[Target(a)]
  <1> DEFINE at == NewFile(a)
  <1> DEFINE changes == [fd |-> i, at |-> at, answer |-> TRUE]
  <1>5. CASE i # Nothing /\ OpenedBy(a, i, changes)
    <2> DEFINE p == Opened(o, changes)
    <2>1. opener'[a] = p /\ Aside(a)
      BY <1>5, OpenedByIsOwn
    <2> HIDE DEF at
    <2>2. p.op = o.op /\ p.at = at /\ p.made = o.made /\ p.fd = i /\ p.answer
      BY <1>1 DEF Opened, Fields
    <2> HIDE DEF p
    <2> USE DEF at
    <2>3. Fresh(p) /\ ~Copying(p) /\ (Making(p) => Making(o))
      BY <1>1, <1>2, <1>3, <2>2 DEF Fresh, Copying, Making
    <2>4. a \notin disturbed /\ Making(p) => HasItsFile(p)
      <3> SUFFICES ASSUME a \notin disturbed, Making(p)
                   PROVE  HasItsFile(p)
        OBVIOUS
      <3>1. HasItsFile(o) /\ o.op = "file"
        BY <1>4, <2>3 DEF Making
      <3>2. i = o.made /\ inode[o.made] = FileOf("asked")
        BY <1>1, <1>2, <3>1 DEF HasItsFile
      <3> QED BY <1>2, <2>2, <3>1, <3>2 DEF HasItsFile
    <2> QED BY <1>1, <2>1, <2>2, <2>3, <2>4, NamesLeft
  <1>6. CASE ~Opens(Target(a)) /\ GivesUp(a)
    <2>1. o.op = "file" => o.made = Nothing \/ a \in disturbed
      <3> SUFFICES ASSUME o.op = "file", o.made # Nothing, a \notin disturbed
                   PROVE  FALSE
        OBVIOUS
      <3>1. HasItsFile(o)
        BY <1>1, <1>4 DEF Making
      <3>2. name["path"] = o.made /\ inode[o.made] = FileOf("asked")
        BY <1>1, <3>1 DEF HasItsFile
      <3> QED BY <1>2, <1>6, <3>2 DEF Opens, FileOf
    <2> QED BY <1>1, <1>6, <2>1, GivesUpOwns DEF Under
  <1> QED BY <1>5, <1>6 DEF Reopen, Opens

LEMMA FileStepOwns ==
  ASSUME IInv, OwnInv, NEW a \in Openers, FileStep(a)
  PROVE  OwnInv'
  <1> DEFINE o == opener[a]
  <1>1. Sound(o) /\ DOMAIN o = Fields
    BY DEF IInv, Sound
  <1>2. ASSUME StartFile(a)
        PROVE  OwnInv'
    <2> DEFINE at == IF name["path"] = Nothing THEN "create" ELSE "openExisting"
    <2> DEFINE changes == [op |-> "file", sides |-> Sides, at |-> at]
    <2>1. With(a, changes) /\ UNCHANGED names /\ at \in {"create", "openExisting"}
      BY <1>2 DEF StartFile
    <2>2. o.made = Nothing
      BY <1>2 DEF StartFile, Under, OwnInv, Fresh
    <2> HIDE DEF at
    <2>3. Idles(Laid(o, changes))
      BY <1>1, <2>1, <2>2 DEF Idles, Laid, Fresh, Making, Copying, Fields
    <2> QED BY <2>1, <2>3, WithIdles
  <1>3. ASSUME openExistingFile(a)
        PROVE  OwnInv'
    <2>1. o.at = "openExisting" /\ o.op = "file" /\ UNCHANGED names
      BY <1>1, <1>3 DEF openExistingFile, Under, Sound, EmptyHanded
    <2>2. o.made = Nothing
      BY <2>1 DEF OwnInv, Fresh
    <2> DEFINE i == name["path"]
    <2> DEFINE changes == [fd |-> i, at |-> "done", answer |-> TRUE, saving |-> FALSE]
    <2>3. Idles(Opened(o, changes))
      BY <1>1, <2>1, <2>2 DEF Idles, Opened, Fresh, Making, Copying, Fields
    <2>4. OpenedBy(a, i, changes) \/ Answers(a, FALSE)
      BY <1>3 DEF openExistingFile, Takes
    <2> QED BY <2>1, <2>2, <2>3, <2>4, OpenedByIdles, AnswersIdle
  <1> QED BY <1>2, <1>3, CreateFileOwns, OpenAnywayOwns, ChmodOwns, ReopenOwns DEF FileStep

LEMMA CopyStepOwns ==
  ASSUME IInv, OwnInv, NEW a \in Openers, CopyStep(a)
  PROVE  OwnInv'
  <1> DEFINE o == opener[a]
  <1>1. Sound(o) /\ DOMAIN o = Fields
    BY DEF IInv, Sound
  <1>2. ASSUME StartCopy(a)
        PROVE  OwnInv'
    <2> DEFINE at == IF name["path"] # Nothing /\ name["copy"] = Nothing
                     THEN "openSource" ELSE "done"
    <2>1. With(a, [op |-> "copy", at |-> at]) /\ UNCHANGED names /\ at \in {"openSource", "done"}
      BY <1>2 DEF StartCopy
    <2> HIDE DEF at
    <2>2. Idles(Laid(o, [op |-> "copy", at |-> at]))
      BY <1>1, <2>1 DEF Idles, Laid, Fresh, Making, Copying, Fields
    <2> QED BY <2>1, <2>2, WithIdles
  <1>3. ASSUME OpenSource(a)
        PROVE  OwnInv'
    <2>1. o.at = "openSource" /\ o.op = "copy" /\ UNCHANGED names
      BY <1>1, <1>3 DEF OpenSource, Under, Sound, EmptyHanded
    <2> DEFINE changes == [source |-> name["path"], opened |-> o.opened + 1, at |-> "create"]
    <2>2. Idles(Laid(o, changes))
      BY <1>1, <2>1 DEF Idles, Laid, Fresh, Making, Copying, Fields
    <2> QED BY <1>3, <2>1, <2>2, WithIdles, AnswersIdle DEF OpenSource
  <1>4. ASSUME NoCopy(a)
        PROVE  OwnInv'
    <2>1. o.at = "noCopy" /\ o.op = "copy" /\ UNCHANGED names
      BY <1>1, <1>4 DEF NoCopy, Under, Sound, EmptyHanded
    <2> QED BY <1>4, <2>1, AnswersIdle DEF NoCopy
  <1>5. ASSUME CopyLines(a)
        PROVE  OwnInv'
    <2> DEFINE at == IF o.saving THEN "reopenSaved" ELSE "done"
    <2> DEFINE changes == [source |-> Nothing, fd |-> Nothing, opened |-> o.opened - 2,
                           at |-> at, answer |-> TRUE]
    <2>1. With(a, changes) /\ UNCHANGED names /\ at \in {"reopenSaved", "done"} /\ o.op = "copy"
      BY <1>1, <1>5 DEF CopyLines, Under, Sound, HandsFull
    <2> HIDE DEF at
    <2>2. Idles(Laid(o, changes))
      BY <1>1, <2>1 DEF Idles, Laid, Fresh, Making, Copying, Fields
    <2> QED BY <2>1, <2>2, WithIdles
  <1>6. ASSUME CloseAndRemove(a)
        PROVE  OwnInv'
    <2> DEFINE changes == [fd |-> Nothing, opened |-> o.opened - 1, at |-> "remove"]
    <2>1. With(a, changes) /\ UNCHANGED names
      BY <1>6 DEF CloseAndRemove
    <2>2. Idles(Laid(o, changes))
      BY <1>1 DEF Idles, Laid, Fresh, Making, Copying, Fields
    <2> QED BY <2>1, <2>2, WithIdles
  <1>7. ASSUME remove(a)
        PROVE  OwnInv'
    <2> DEFINE changes == [at |-> "removed", answer |-> name["path"] # Nothing]
    <2>1. With(a, changes) /\ Unlinks(a) /\ UNCHANGED inode
      BY <1>7 DEF remove
    <2>2. Idles(Laid(o, changes))
      BY <1>1 DEF Idles, Laid, Fresh, Making, Copying, Fields
    <2> QED BY <2>1, <2>2, WithIsOwn, UnlinkingLeaves
  <1>8. ASSUME saveAs(a)
        PROVE  OwnInv'
    <2> DEFINE at == IF name["path"] # Nothing /\ name["copy"] = Nothing
                     THEN "openSource" ELSE "reopenSaved"
    <2> DEFINE changes == [op |-> "copy", saving |-> TRUE, fd |-> Nothing,
                           opened |-> o.opened - 1, made |-> Nothing, at |-> at]
    <2>1. With(a, changes) /\ UNCHANGED names /\ at \in {"openSource", "reopenSaved"}
      BY <1>8 DEF saveAs
    <2> HIDE DEF at
    <2>2. Idles(Laid(o, changes))
      BY <1>1, <2>1 DEF Idles, Laid, Fresh, Making, Copying, Fields
    <2> QED BY <2>1, <2>2, WithIdles
  <1>9. ASSUME ReopenSaved(a)
        PROVE  OwnInv'
    <2> DEFINE at == IF name["path"] = Nothing THEN "create" ELSE "openExisting"
    <2> DEFINE changes == [op |-> "file", saving |-> FALSE, made |-> Nothing, at |-> at]
    <2>1. With(a, changes) /\ UNCHANGED names
      BY <1>9 DEF ReopenSaved
    <2> HIDE DEF at
    <2>2. Idles(Laid(o, changes))
      BY <1>1 DEF Idles, Laid, Fresh, Making, Copying, Fields
    <2> QED BY <2>1, <2>2, WithIdles
  <1> QED BY <1>2, <1>3, <1>4, <1>5, <1>6, <1>7, <1>8, <1>9 DEF CopyStep

LEMMA ServerStepOwns ==
  ASSUME IInv, OwnInv, NEW a \in Openers, ServerStep(a)
  PROVE  OwnInv'
  <1> DEFINE o == opener[a]
  <1>1. DOMAIN o = Fields
    BY DEF IInv, Sound
  <1>2. ASSUME bind(a)
        PROVE  OwnInv'
    <2>1. ASSUME NEW i \in Inodes, Creates(a, i, "socket", "masked"),
                 With(a, [op |-> "server", at |-> "done", made |-> i, answer |-> TRUE])
          PROVE  OwnInv'
      <3>1. Idles(Laid(o, [op |-> "server", at |-> "done", made |-> i, answer |-> TRUE]))
        BY <1>1 DEF Idles, Laid, Fresh, Making, Copying, Fields
      <3> QED BY <2>1, <3>1, WithIsOwn, CreatingLeaves DEF Idles, Kinds, Modes
    <2>2. ASSUME With(a, [op |-> "server", at |-> "done"]), UNCHANGED names
          PROVE  OwnInv'
      <3>1. Idles(Laid(o, [op |-> "server", at |-> "done"]))
        BY <1>1 DEF Idles, Laid, Fresh, Making, Copying, Fields
      <3> QED BY <2>2, <3>1, WithIdles
    <2> QED BY <1>2, <2>1, <2>2 DEF bind, baseBind
  <1>3. ASSUME NEW at \in {"gone", "type", "unlinkSocket"}, With(a, [at |-> at]), UNCHANGED names
        PROVE  OwnInv'
    <2>1. Idles(Laid(o, [at |-> at]))
      BY <1>1 DEF Idles, Laid, Fresh, Making, Copying, Fields
    <2> QED BY <1>3, <2>1, WithIdles
  <1>4. ASSUME Destroy(a)
        PROVE  OwnInv'
    BY <1>3, <1>4 DEF Destroy
  <1>5. ASSUME LookAtType(a)
        PROVE  OwnInv'
    BY <1>3, <1>5 DEF LookAtType
  <1>6. ASSUME UnlinkSocket(a)
        PROVE  OwnInv'
    <2>1. Idles(Laid(o, [at |-> "gone"]))
      BY <1>1 DEF Idles, Laid, Fresh, Making, Copying, Fields
    <2> QED BY <1>6, <2>1, WithIsOwn, UnlinkingLeaves DEF UnlinkSocket
  <1> QED BY <1>2, <1>4, <1>5, <1>6 DEF ServerStep

-----------------------------------------------------------------------------

LEMMA InitOwns == Init => OwnInv
  <1> SUFFICES ASSUME Init
               PROVE  OwnInv
    OBVIOUS
  <1>1. Tables
    BY DEF Init, Tables, Unused, Kinds, Modes
  <1>2. \A a \in Openers : opener[a].at = "idle" /\ opener[a].made = Nothing
    BY DEF Init, NewOpener
  <1> QED BY <1>1, <1>2 DEF OwnInv, Fresh, Making, Copying

LEMMA NextOwns == IInv /\ OwnInv /\ [Next]_vars => OwnInv'
  <1> SUFFICES ASSUME IInv, OwnInv, [Next]_vars
               PROVE  OwnInv'
    OBVIOUS
  <1>1. CASE Next
    BY <1>1, PipeStepOwns, FileStepOwns, CopyStepOwns, ServerStepOwns DEF Next
  <1>2. CASE UNCHANGED vars
    BY <1>2 DEF vars, OwnInv, Tables, HasItsFile, Known
  <1> QED BY <1>1, <1>2

\* openNewFile: it opens what it made twice, by its name, and sets the permissions in
\* between; however many processes are about, a file device in whose way nobody changed
\* a name has this very file open in the end, with the permissions that were asked for,
\* whatever others did with the file meanwhile.
THEOREM OwnFileIsAnswered == Spec => []OwnFileAnswered
  <1>1. OwnInv => OwnFileAnswered
    BY DEF OwnInv, Making, HasItsFile, FileOf, OwnFileAnswered, Under
  <1>2. Init => IInv /\ OwnInv
    BY InitSound, InitOwns
  <1>3. IInv /\ OwnInv /\ [Next]_vars => (IInv /\ OwnInv)'
    BY NextSound, NextOwns
  <1> QED BY <1>1, <1>2, <1>3, PTL DEF Spec

-----------------------------------------------------------------------------
(* The names that lead to pipes and sockets                                *)
(*                                                                         *)
(* Only who makes a pipe or a socket takes its name away, as long as       *)
(* removed is empty: so the name is there until its maker is at the end,   *)
(* and a maker of a pipe that comes so far has that very pipe open.  One   *)
(* who waits in an open of the pipe was woken by it, unless both are for   *)
(* the same side.                                                          *)

KindOf(op) ==
    CASE op = "pipe" -> "fifo" [] op = "server" -> "socket" [] OTHER -> "file"

\* What an opener makes is of its kind, and each makes one pipe or socket at most.
Makes(o) ==
    /\ o.made # Nothing => o.made \in Inodes /\ inode[o.made].kind = KindOf(o.op)
    /\ o.at \in {"idle", "mkfifo"} => o.made = Nothing
    /\ o.at = "unlink" => o.made # Nothing
    /\ o.op = "pipe" => \E side \in Sides : o.sides = {side}
    /\ o.op = "server" /\ o.answer => o.made # Nothing
    /\ o.at \in {"type", "unlinkSocket"} => o.op = "server"

Leads(o) ==
    o.made # Nothing =>
        /\ o.op = "pipe" /\ o.at = "done" /\ o.answer => name["path"] # o.made
        /\ o.op = "pipe" /\ o.at \in {"openPipe", "waiting", "unlink"} /\ removed = {} =>
               name["path"] = o.made /\ (o.at # "openPipe" => o.fd = o.made)
        /\ o.op = "server" /\ o.at = "done" /\ removed = {} => name["path"] = o.made

Blocked(o) == o.at = "waiting" /\ o.waits

IsFifo(i) == i \in Inodes /\ inode[i].kind = "fifo"

\* Who is blocked can still be met, by the name or not at all.
CanBeMet(a) ==
    \/ name["path"] = opener[a].fd
    \/ \E b \in Maker(opener[a].fd) \ {a} : opener[b].sides = opener[a].sides

FoundInv ==
    /\ name \in [{"path", "copy"} -> Inodes \cup {Nothing}]
    /\ inode \in [Inodes -> [kind : Kinds, mode : Modes]]
    /\ removed \subseteq {"pipe", "file", "server"}
    /\ "pipe" \in removed => removed \cap {"file", "server"} # {}
    /\ \A a \in Openers :
          /\ Makes(opener[a]) /\ Leads(opener[a])
          /\ Blocked(opener[a]) => IsFifo(opener[a].fd) /\ (removed = {} => CanBeMet(a))
    /\ \A a \in Openers : \A b \in Openers \ {a} :
          /\ opener[a].made # Nothing => opener[b].made # opener[a].made
          /\ Blocked(opener[a]) /\ opener[b].fd = opener[a].fd =>
                 opener[b].sides \subseteq opener[a].sides

\* A step of a leaves the sides of the others too, and makes nobody wait.
Beside(a) ==
    \A b \in Openers \ {a} :
        /\ Alike(opener[b], opener'[b]) /\ opener'[b].sides = opener[b].sides
        /\ opener'[b].waits => opener[b].waits

LEMMA WithIsBeside ==
  ASSUME IInv, NEW a \in Openers, NEW changes, With(a, changes)
  PROVE  opener'[a] = Laid(opener[a], changes) /\ Beside(a)
  BY DEF With, Laid, Beside, Alike, IInv

\* An open wakes those whose other side it is.
LEMMA OpenedByIsBeside ==
  ASSUME IInv, NEW a \in Openers, NEW i, NEW changes, OpenedBy(a, i, changes)
  PROVE  /\ opener'[a] = Opened(opener[a], changes) /\ Beside(a)
         /\ \A c \in Openers \ {a} : Blocked(opener'[c]) /\ opener'[c].fd = i =>
               opener[a].sides \subseteq opener'[c].sides
  <1>1. opener'[a] = Opened(opener[a], changes)
    BY DEF OpenedBy, Opened
  <1>2. ASSUME NEW b \in Openers \ {a}
        PROVE  /\ Alike(opener[b], opener'[b]) /\ opener'[b].sides = opener[b].sides
               /\ opener'[b].waits => opener[b].waits
               /\ Blocked(opener'[b]) /\ opener'[b].fd = i =>
                     opener[a].sides \subseteq opener'[b].sides
    <2> DEFINE waits == opener[b].waits
                        /\ ~(Under(b) = "waiting" /\ opener[b].fd = i
                             /\ opener[a].sides \ opener[b].sides # {})
    <2>1. opener'[b] = [opener[b] EXCEPT !.waits = waits]
      BY DEF OpenedBy
    <2>2. DOMAIN opener[b] = Fields
      BY DEF IInv, Sound
    <2>3. Alike(opener[b], opener'[b]) /\ opener'[b].sides = opener[b].sides
      <3> HIDE DEF waits
      <3> QED BY <2>1, <2>2 DEF Alike, Fields
    <2>4. opener'[b].waits = waits
      <3> HIDE DEF waits
      <3> QED BY <2>1, <2>2 DEF Fields
    <2>5. opener'[b].waits => opener[b].waits
      BY <2>4
    <2>6. Blocked(opener'[b]) /\ opener'[b].fd = i => opener[a].sides \subseteq opener'[b].sides
      BY <2>3, <2>4 DEF Blocked, Alike, Under
    <2> QED BY <2>3, <2>5, <2>6
  <1> QED BY <1>1, <1>2 DEF Beside

\* A maker of a pipe stays its maker, for the same side.
StaysMaker(o, p) == o.op = "pipe" /\ o.made # Nothing => p.made = o.made /\ p.sides = o.sides

LEMMA BlockedStays ==
  ASSUME IInv, FoundInv, NEW a \in Openers, Beside(a), NEW c \in Openers \ {a},
         Blocked(opener'[c])
  PROVE  /\ Blocked(opener[c]) /\ opener'[c].fd = opener[c].fd
         /\ opener'[c].sides = opener[c].sides
         /\ opener[c].op = "pipe" /\ opener[c].fd # Nothing /\ IsFifo(opener[c].fd)
  <1>1. Blocked(opener[c]) /\ opener'[c].fd = opener[c].fd
        /\ opener'[c].sides = opener[c].sides
    BY DEF Beside, Alike, Blocked
  <1>2. opener[c].op = "pipe" /\ opener[c].fd # Nothing
    BY <1>1 DEF IInv, Sound, HandsFull, Blocked
  <1> QED BY <1>1, <1>2 DEF FoundInv

LEMMA MakersStay ==
  ASSUME FoundInv, NEW a \in Openers, Beside(a), StaysMaker(opener[a], opener'[a]),
         NEW c \in Openers \ {a}, NEW b \in Maker(opener[c].fd) \ {c}, IsFifo(opener[c].fd),
         opener'[c].fd = opener[c].fd, opener'[c].sides = opener[c].sides,
         opener[b].sides = opener[c].sides
  PROVE  CanBeMet(c)'
  <1>1. b \in Openers /\ opener[b].made = opener[c].fd /\ b # c
    BY DEF Maker
  <1>2. opener[b].op = "pipe" /\ opener[b].made # Nothing
    <2>1. KindOf(opener[b].op) = "fifo" /\ opener[b].made # Nothing
      BY <1>1, NothingAssumption DEF FoundInv, Makes, IsFifo
    <2> QED BY <2>1 DEF KindOf
  <1>3. opener'[b].made = opener[b].made /\ opener'[b].sides = opener[b].sides
    BY <1>1, <1>2 DEF StaysMaker, Beside, Alike
  <1> QED BY <1>1, <1>3 DEF CanBeMet, Maker

LEMMA FoundHere ==
  ASSUME IInv, FoundInv, NEW a \in Openers, Beside(a), UNCHANGED <<name, removed>>,
         inode' \in [Inodes -> [kind : Kinds, mode : Modes]],
         \A i \in Inodes : inode'[i].kind = inode[i].kind,
         Makes(opener'[a]), Leads(opener'[a]),
         opener'[a].made # Nothing => opener'[a].made = opener[a].made,
         StaysMaker(opener[a], opener'[a]),
         Blocked(opener'[a]) =>
             /\ IsFifo(opener'[a].fd) /\ name["path"] = opener'[a].fd
             /\ \A b \in Openers \ {a} : opener[b].fd = opener'[a].fd =>
                    opener[b].sides \subseteq opener'[a].sides,
         \A c \in Openers \ {a} : Blocked(opener'[c]) /\ opener'[a].fd = opener'[c].fd =>
             opener'[a].sides \subseteq opener'[c].sides
  PROVE  FoundInv'
  <1>1. \A i : IsFifo(i) => IsFifo(i)'
    BY DEF IsFifo
  <1>2. ASSUME NEW b \in Openers
        PROVE  Makes(opener[b])' /\ Leads(opener[b])'
    <2>1. Makes(opener'[b]) /\ Leads(opener'[b])
      BY DEF FoundInv, Beside, Alike, Makes, Leads
    <2> QED BY <2>1 DEF Makes, Leads
  <1>3. ASSUME NEW b \in Openers, Blocked(opener'[b])
        PROVE  IsFifo(opener[b].fd)' /\ (removed' = {} => CanBeMet(b)')
    <2>1. CASE b = a
      BY <1>1, <1>3, <2>1 DEF CanBeMet
    <2>2. CASE b # a
      <3>1. /\ Blocked(opener[b]) /\ opener'[b].fd = opener[b].fd
            /\ opener'[b].sides = opener[b].sides /\ IsFifo(opener[b].fd)
        BY <1>3, <2>2, BlockedStays
      <3>2. ASSUME removed = {}
            PROVE  CanBeMet(b)'
        <4>1. CASE name["path"] = opener[b].fd
          BY <3>1, <4>1 DEF CanBeMet
        <4>2. CASE \E c \in Maker(opener[b].fd) \ {b} : opener[c].sides = opener[b].sides
          BY <2>2, <3>1, <4>2, MakersStay
        <4> QED BY <3>1, <3>2, <4>1, <4>2 DEF FoundInv, CanBeMet
      <3> QED BY <1>1, <3>1, <3>2
    <2> QED BY <2>1, <2>2
  <1>4. ASSUME NEW b \in Openers, NEW c \in Openers \ {b}
        PROVE  /\ opener'[b].made # Nothing => opener'[c].made # opener'[b].made
               /\ Blocked(opener'[b]) /\ opener'[c].fd = opener'[b].fd =>
                      opener'[c].sides \subseteq opener'[b].sides
    <2>1. opener'[b].made # Nothing => opener'[c].made # opener'[b].made
      <3>1. opener'[b].made # Nothing => opener'[b].made = opener[b].made
        BY DEF Beside, Alike
      <3>2. opener'[c].made # Nothing => opener'[c].made = opener[c].made
        BY DEF Beside, Alike
      <3> QED BY <3>1, <3>2 DEF FoundInv
    <2>2. ASSUME Blocked(opener'[b]), opener'[c].fd = opener'[b].fd
          PROVE  opener'[c].sides \subseteq opener'[b].sides
      <3>1. CASE b = a
        BY <2>2, <3>1 DEF Beside, Alike
      <3>2. CASE c = a
        BY <2>2, <3>2
      <3>3. CASE b # a /\ c # a
        BY <2>2, <3>3, BlockedStays DEF Beside, Alike, FoundInv
      <3> QED BY <3>1, <3>2, <3>3
    <2> QED BY <2>1, <2>2
  <1> QED BY <1>2, <1>3, <1>4 DEF FoundInv

LEMMA FoundWhenCreated ==
  ASSUME IInv, FoundInv, NEW a \in Openers, Beside(a), NEW i \in Inodes,
         NEW kind \in Kinds \ {"none"}, NEW mode \in Modes,
         name[Target(a)] = Nothing, Creates(a, i, kind, mode), UNCHANGED removed,
         opener'[a].made = i, kind = KindOf(opener'[a].op), opener'[a].fd \in {Nothing, i},
         opener'[a].at \in {"openPipe", "chmod", "copyLines", "done"},
         opener[a].op = "pipe" => opener[a].made = Nothing,
         opener'[a].op \in {"pipe", "server"} => opener[a].op # "copy",
         opener'[a].op = "pipe" =>
             opener'[a].at = "openPipe" /\ \E side \in Sides : opener'[a].sides = {side}
  PROVE  FoundInv'
  <1>1. /\ inode[i] = Unused /\ Target(a) \in {"path", "copy"}
        /\ name' = [name EXCEPT ![Target(a)] = i]
        /\ inode' = [inode EXCEPT ![i] = [kind |-> kind, mode |-> mode]]
        /\ i # Nothing
    BY NothingAssumption DEF Creates, Target
  <1>2. /\ name' \in [{"path", "copy"} -> Inodes \cup {Nothing}]
        /\ inode' \in [Inodes -> [kind : Kinds, mode : Modes]]
        /\ \A j \in Inodes \ {i} : inode'[j] = inode[j]
        /\ inode'[i].kind = kind /\ inode[i].kind = "none"
    BY <1>1 DEF FoundInv, Unused
  <1>3. name["path"] # Nothing => name'["path"] = name["path"]
    BY <1>1 DEF FoundInv
  <1>4. name'["path"] \in {name["path"], i}
    BY <1>1 DEF FoundInv
  <1>5. ASSUME NEW b \in Openers, opener[b].made # Nothing
        PROVE  opener[b].made # i /\ opener[b].made \in Inodes
    <2>1. opener[b].made \in Inodes /\ inode[opener[b].made].kind = KindOf(opener[b].op)
      BY <1>5 DEF FoundInv, Makes
    <2> QED BY <1>2, <2>1 DEF KindOf
  <1>6. \A j : IsFifo(j) => IsFifo(j)' /\ j # i
    BY <1>2 DEF IsFifo
  <1>7. Makes(opener[a])' /\ Leads(opener[a])'
    <2>1. Makes(opener[a])'
      BY <1>1, <1>2 DEF Makes
    <2>2. opener'[a].op \in {"pipe", "server"} => name'["path"] = i
      BY <1>1 DEF Target, FoundInv
    <2>3. Leads(opener[a])'
      BY <2>2 DEF Leads
    <2> QED BY <2>1, <2>3
  <1>8. ASSUME NEW b \in Openers \ {a}
        PROVE  Makes(opener[b])' /\ Leads(opener[b])'
    <2>1. Makes(opener[b]) /\ Leads(opener[b]) /\ Alike(opener[b], opener'[b])
          /\ opener'[b].sides = opener[b].sides
      BY DEF FoundInv, Beside
    <2>2. Makes(opener[b])'
      BY <1>2, <1>5, <2>1 DEF Makes, Alike
    <2>3. Leads(opener[b])'
      BY <1>3, <1>4, <1>5, <2>1 DEF Leads, Alike
    <2> QED BY <2>2, <2>3
  <1>9. StaysMaker(opener[a], opener'[a])
    BY DEF StaysMaker
  <1>10. ASSUME NEW b \in Openers, Blocked(opener'[b])
         PROVE  IsFifo(opener[b].fd)' /\ (removed' = {} => CanBeMet(b)')
    <2>1. b # a
      BY <1>10 DEF Blocked
    <2>2. /\ Blocked(opener[b]) /\ opener'[b].fd = opener[b].fd /\ opener[b].fd # Nothing
          /\ opener'[b].sides = opener[b].sides /\ IsFifo(opener[b].fd)
      BY <1>10, <2>1, BlockedStays
    <2>3. ASSUME removed = {}
          PROVE  CanBeMet(b)'
      <3>1. CASE name["path"] = opener[b].fd
        BY <1>3, <2>2, <3>1 DEF CanBeMet
      <3>2. CASE \E c \in Maker(opener[b].fd) \ {b} : opener[c].sides = opener[b].sides
        BY <1>9, <2>1, <2>2, <3>2, MakersStay
      <3> QED BY <2>2, <2>3, <3>1, <3>2 DEF FoundInv, CanBeMet
    <2> QED BY <1>6, <2>2, <2>3
  <1>11. ASSUME NEW b \in Openers, NEW c \in Openers \ {b}
         PROVE  /\ opener'[b].made # Nothing => opener'[c].made # opener'[b].made
                /\ Blocked(opener'[b]) /\ opener'[c].fd = opener'[b].fd =>
                       opener'[c].sides \subseteq opener'[b].sides
    <2>1. opener'[b].made # Nothing => opener'[c].made # opener'[b].made
      <3>1. CASE b = a
        BY <1>1, <1>5, <3>1 DEF Beside, Alike
      <3>2. CASE c = a
        BY <1>1, <1>5, <3>2 DEF Beside, Alike
      <3>3. CASE b # a /\ c # a
        BY <3>3 DEF Beside, Alike, FoundInv
      <3> QED BY <3>1, <3>2, <3>3
    <2>2. ASSUME Blocked(opener'[b]), opener'[c].fd = opener'[b].fd
          PROVE  opener'[c].sides \subseteq opener'[b].sides
      <3>1. b # a
        BY <2>2 DEF Blocked
      <3>2. Blocked(opener[b]) /\ opener'[b].fd = opener[b].fd /\ opener[b].fd # Nothing
            /\ opener'[b].sides = opener[b].sides /\ IsFifo(opener[b].fd)
        BY <2>2, <3>1, BlockedStays
      <3>3. c # a
        BY <1>6, <2>2, <3>2
      <3> QED BY <2>2, <3>2, <3>3 DEF Beside, Alike, FoundInv
    <2> QED BY <2>1, <2>2
  <1> QED BY <1>2, <1>7, <1>8, <1>10, <1>11 DEF FoundInv

\* As long as removed is empty only its maker takes the name of a pipe away; and one who
\* is blocked in the pipe then wants the same side as the maker, who has it open.
LEMMA FoundWhenUnlinked ==
  ASSUME IInv, FoundInv, NEW a \in Openers, Beside(a), Unlinks(a), UNCHANGED inode,
         opener[a].op \in {"pipe", "file", "server"},
         opener[a].op = "pipe" => opener[a].at = "unlink",
         opener'[a].op = opener[a].op, opener'[a].made = opener[a].made,
         opener'[a].sides = opener[a].sides, opener'[a].fd = opener[a].fd,
         opener[a].op = "server" => opener'[a].answer = opener[a].answer,
         opener'[a].at \in {"done", "removed", "gone"},
         opener[a].op = "server" => opener'[a].at # "done"
  PROVE  FoundInv'
  <1> DEFINE o == opener[a]
  <1> DEFINE i == name["path"]
  <1>1. /\ name' = [name EXCEPT !["path"] = Nothing]
        /\ i # Nothing /\ inode[i].kind # "file" /\ o.made # i => removed' = removed \cup {o.op}
        /\ ~(i # Nothing /\ inode[i].kind # "file" /\ o.made # i) => removed' = removed
    BY DEF Unlinks
  <1>2. /\ name' \in [{"path", "copy"} -> Inodes \cup {Nothing}] /\ name'["path"] = Nothing
        /\ removed' \subseteq {"pipe", "file", "server"}
        /\ removed' = {} => removed = {}
        /\ removed' = {} /\ i # Nothing /\ inode[i].kind # "file" => o.made = i
    BY <1>1 DEF FoundInv
  <1>3. o.op = "pipe" /\ removed = {} => o.made # Nothing /\ i = o.made /\ o.fd = o.made
    BY DEF FoundInv, Makes, Leads
  <1>4. "pipe" \in removed' => removed' \cap {"file", "server"} # {}
    <2>1. CASE removed' = removed
      BY <2>1 DEF FoundInv
    <2>2. CASE removed' = removed \cup {o.op} /\ o.made # i
      <3>1. CASE removed = {}
        BY <1>3, <2>2, <3>1
      <3>2. CASE removed # {}
        <4>1. removed \cap {"file", "server"} # {}
          BY <3>2 DEF FoundInv
        <4> QED BY <2>2, <4>1
      <3> QED BY <3>1, <3>2
    <2> QED BY <1>1, <2>1, <2>2
  <1>5. ASSUME NEW b \in Openers
        PROVE  Makes(opener[b])' /\ Leads(opener[b])'
    <2>1. Makes(opener[b]) /\ Leads(opener[b])
      BY DEF FoundInv
    <2>2. CASE b = a
      <3>1. Makes(opener[b])'
        BY <2>1, <2>2 DEF Makes
      <3>2. Leads(opener[b])'
        BY <1>2, <2>1, <2>2 DEF Leads
      <3> QED BY <3>1, <3>2
    <2>3. CASE b # a
      <3>1. Alike(opener[b], opener'[b]) /\ opener'[b].sides = opener[b].sides
        BY <2>3 DEF Beside
      <3>2. Makes(opener[b])'
        BY <2>1, <3>1 DEF Makes, Alike
      <3>3. ASSUME removed' = {}, opener[b].made # Nothing, opener[b].op \in {"pipe", "server"}
            PROVE  i # opener[b].made
        <4>1. inode[opener[b].made].kind # "file"
          BY <2>1, <3>3 DEF Makes, KindOf
        <4>2. o.made # opener[b].made
          BY <2>3, <3>3 DEF FoundInv
        <4> QED BY <1>2, <3>3, <4>1, <4>2
      <3>4. Leads(opener[b])'
        BY <1>2, <2>1, <3>1, <3>3 DEF Leads, Alike
      <3> QED BY <3>2, <3>4
    <2> QED BY <2>2, <2>3
  <1>6. StaysMaker(opener[a], opener'[a])
    BY DEF StaysMaker
  <1>7. ASSUME NEW b \in Openers, Blocked(opener'[b])
        PROVE  IsFifo(opener[b].fd)' /\ (removed' = {} => CanBeMet(b)')
    <2>1. b # a
      BY <1>7 DEF Blocked
    <2>2. /\ Blocked(opener[b]) /\ opener'[b].fd = opener[b].fd /\ opener[b].fd # Nothing
          /\ opener'[b].sides = opener[b].sides /\ IsFifo(opener[b].fd)
          /\ opener[b].op = "pipe"
      BY <1>7, <2>1, BlockedStays
    <2>3. ASSUME removed' = {}
          PROVE  CanBeMet(b)'
      <3>1. CASE i = opener[b].fd
        <4>1. o.made = opener[b].fd
          BY <1>2, <2>2, <2>3, <3>1 DEF IsFifo
        <4>2. o.op = "pipe"
          BY <2>2, <4>1 DEF FoundInv, Makes, IsFifo, KindOf
        <4>3. o.fd = opener[b].fd
          BY <1>2, <1>3, <2>3, <4>1, <4>2
        <4>4. o.sides \subseteq opener[b].sides
          BY <2>1, <2>2, <4>3 DEF FoundInv
        <4>5. PICK s \in Sides : o.sides = {s}
          BY <4>2 DEF FoundInv, Makes
        <4>6. PICK t \in Sides : opener[b].sides = {t}
          BY <2>2 DEF FoundInv, Makes
        <4>7. o.sides = opener[b].sides
          BY <4>4, <4>5, <4>6
        <4>8. opener'[a].made = opener'[b].fd /\ opener'[a].sides = opener'[b].sides
          BY <2>2, <4>1, <4>7
        <4> QED BY <2>1, <4>8 DEF CanBeMet, Maker
      <3>2. CASE \E c \in Maker(opener[b].fd) \ {b} : opener[c].sides = opener[b].sides
        BY <1>6, <2>1, <2>2, <3>2, MakersStay
      <3> QED BY <1>2, <2>2, <2>3, <3>1, <3>2 DEF FoundInv, CanBeMet
    <2> QED BY <2>2, <2>3 DEF IsFifo
  <1>8. ASSUME NEW b \in Openers, NEW c \in Openers \ {b}
        PROVE  /\ opener'[b].made # Nothing => opener'[c].made # opener'[b].made
               /\ Blocked(opener'[b]) /\ opener'[c].fd = opener'[b].fd =>
                      opener'[c].sides \subseteq opener'[b].sides
    <2>1. \A d \in Openers : /\ opener'[d].made = opener[d].made /\ opener'[d].fd = opener[d].fd
                             /\ opener'[d].sides = opener[d].sides
      BY DEF Beside, Alike
    <2>2. Blocked(opener'[b]) => Blocked(opener[b])
      <3>1. CASE b = a
        BY <3>1 DEF Blocked
      <3>2. CASE b # a
        BY <3>2, BlockedStays
      <3> QED BY <3>1, <3>2
    <2> QED BY <2>1, <2>2 DEF FoundInv
  <1> QED BY <1>2, <1>4, <1>5, <1>7, <1>8 DEF FoundInv

-----------------------------------------------------------------------------
(* The steps again, for the names *)

\* Makes no pipe or socket, blocks nobody and has no more open than before.
Calm(o, p) ==
    /\ Makes(p) /\ Leads(p) /\ p.at # "waiting"
    /\ p.made # Nothing => p.made = o.made
    /\ StaysMaker(o, p)
    /\ p.fd = Nothing \/ (p.fd = o.fd /\ p.sides = o.sides)

LEMMA WithFound ==
  ASSUME IInv, FoundInv, NEW a \in Openers, NEW changes, With(a, changes), UNCHANGED names,
         Calm(opener[a], Laid(opener[a], changes))
  PROVE  FoundInv'
  <1> DEFINE o == opener[a]
  <1> DEFINE p == Laid(o, changes)
  <1>1. opener'[a] = p /\ Beside(a) /\ Calm(o, p)
    BY WithIsBeside
  <1> HIDE DEF p
  <1>2. ~Blocked(opener'[a])
    BY <1>1 DEF Calm, Blocked
  <1>3. ASSUME NEW c \in Openers \ {a}, Blocked(opener'[c]), opener'[a].fd = opener'[c].fd
        PROVE  opener'[a].sides \subseteq opener'[c].sides
    <2>1. /\ Blocked(opener[c]) /\ opener'[c].fd = opener[c].fd
          /\ opener'[c].sides = opener[c].sides /\ opener[c].fd # Nothing
      BY <1>1, <1>3, BlockedStays
    <2>2. opener'[a].fd = o.fd /\ opener'[a].sides = o.sides
      BY <1>1, <1>3, <2>1 DEF Calm
    <2> QED BY <1>3, <2>1, <2>2 DEF FoundInv
  <1>4. UNCHANGED <<name, inode, removed>>
    BY DEF names
  <1>5. inode' \in [Inodes -> [kind : Kinds, mode : Modes]]
    BY <1>4 DEF FoundInv
  <1> QED BY <1>1, <1>2, <1>3, <1>4, <1>5, FoundHere DEF Calm

LEMMA OpenedFound ==
  ASSUME IInv, FoundInv, NEW a \in Openers, NEW i, NEW changes, OpenedBy(a, i, changes),
         UNCHANGED names, NEW p, p = Opened(opener[a], changes),
         Makes(p), Leads(p), p.made = opener[a].made, p.sides = opener[a].sides, p.fd = i,
         Blocked(p) => /\ IsFifo(i) /\ name["path"] = i
                       /\ \A b \in Openers \ {a} : opener[b].fd = i =>
                              opener[b].sides \subseteq opener[a].sides
  PROVE  FoundInv'
  <1>1. /\ opener'[a] = p /\ Beside(a)
        /\ \A c \in Openers \ {a} : Blocked(opener'[c]) /\ opener'[c].fd = i =>
               opener[a].sides \subseteq opener'[c].sides
    BY OpenedByIsBeside
  <1>2. UNCHANGED <<name, inode, removed>>
    BY DEF names
  <1>3. inode' \in [Inodes -> [kind : Kinds, mode : Modes]]
    BY <1>2 DEF FoundInv
  <1>4. StaysMaker(opener[a], p)
    BY DEF StaysMaker
  <1> QED BY <1>1, <1>2, <1>3, <1>4, FoundHere

LEMMA AnswersFound ==
  ASSUME IInv, FoundInv, NEW a \in Openers, NEW answer \in BOOLEAN, Answers(a, answer),
         UNCHANGED names, opener[a].op \in {"pipe", "file", "copy"},
         answer => opener[a].op # "pipe" \/ opener[a].made = Nothing
  PROVE  FoundInv'
  <1> DEFINE o == opener[a]
  <1>1. DOMAIN o = Fields /\ Makes(o) /\ (o.saving => o.op = "copy")
    BY DEF IInv, Sound, FoundInv, Saving
  <1>2. o.saving => Calm(o, Laid(o, [at |-> "reopenSaved"]))
    BY <1>1 DEF Calm, Laid, Fields, Makes, Leads, StaysMaker
  <1>3. Calm(o, Laid(o, [at |-> "done", answer |-> answer]))
    BY <1>1 DEF Calm, Laid, Fields, Makes, Leads, StaysMaker
  <1> QED BY <1>2, <1>3, WithFound DEF Answers

LEMMA PipeStepFinds ==
  ASSUME IInv, FoundInv, NEW a \in Openers, PipeStep(a)
  PROVE  FoundInv'
  <1> DEFINE o == opener[a]
  <1>1. Sound(o) /\ DOMAIN o = Fields /\ Makes(o) /\ Leads(o)
    BY DEF IInv, Sound, FoundInv
  <1>2. ASSUME StartPipe(a)
        PROVE  FoundInv'
    <2> DEFINE at == IF name["path"] = Nothing THEN "mkfifo" ELSE "openPipe"
    <2> DEFINE changes(side, waits) ==
          [op |-> "pipe", sides |-> {side}, waits |-> waits, at |-> at]
    <2>1. PICK side \in Sides, non_blocking \in BOOLEAN : With(a, changes(side, ~non_blocking))
      BY <1>2 DEF StartPipe
    <2>2. at \in {"mkfifo", "openPipe"} /\ UNCHANGED names /\ o.at = "idle"
      BY <1>2 DEF StartPipe, Under
    <2>3. o.made = Nothing /\ o.fd = Nothing
      BY <1>1, <2>2 DEF Makes, Sound, EmptyHanded
    <2> HIDE DEF at
    <2>4. Calm(o, Laid(o, changes(side, ~non_blocking)))
      BY <1>1, <2>2, <2>3 DEF Calm, Laid, Fields, Makes, Leads, StaysMaker
    <2> QED BY <2>1, <2>2, <2>4, WithFound
  <1>3. ASSUME makefifo(a)
        PROVE  FoundInv'
    <2>1. o.at = "mkfifo" /\ o.op = "pipe" /\ o.made = Nothing /\ o.fd = Nothing
      BY <1>1, <1>3 DEF makefifo, Under, Sound, EmptyHanded, Makes
    <2>2. CASE name["path"] = Nothing
      <3>1. PICK i \in Inodes :
               Creates(a, i, "fifo", "asked") /\ With(a, [at |-> "openPipe", made |-> i])
        BY <1>3, <2>2 DEF makefifo
      <3> DEFINE p == Laid(o, [at |-> "openPipe", made |-> i])
      <3>2. /\ p.at = "openPipe" /\ p.made = i /\ p.op = "pipe" /\ p.sides = o.sides
            /\ p.fd = Nothing
        BY <1>1, <2>1 DEF Laid, Fields
      <3>3. opener'[a] = p /\ Beside(a)
        BY <3>1, WithIsBeside
      <3>4. \E side \in Sides : o.sides = {side}
        BY <1>1, <2>1 DEF Makes
      <3>5. name[Target(a)] = Nothing /\ UNCHANGED removed
        BY <1>3, <2>1, <2>2 DEF makefifo, Target
      <3> HIDE DEF p
      <3> QED BY <2>1, <3>1, <3>2, <3>3, <3>4, <3>5, FoundWhenCreated DEF KindOf, Kinds, Modes
    <2>3. CASE name["path"] # Nothing
      BY <1>3, <2>1, <2>3, AnswersFound DEF makefifo
    <2> QED BY <2>2, <2>3
  <1>4. ASSUME openPipe(a)
        PROVE  FoundInv'
    <2>1. o.at = "openPipe" /\ o.op = "pipe" /\ UNCHANGED names
      BY <1>1, <1>4 DEF openPipe, Under, Sound, EmptyHanded
    <2> DEFINE i == name["path"]
    <2> DEFINE waits == o.waits /\ inode[i].kind = "fifo" /\ Others(a, i) = {}
    <2> DEFINE changes == [fd |-> i, at |-> "waiting", waits |-> waits]
    <2>2. CASE Opens("path") /\ OpenedBy(a, i, changes)
      <3> DEFINE p == Opened(o, changes)
      <3> HIDE DEF waits
      <3>1. /\ p.fd = i /\ p.at = "waiting" /\ p.made = o.made /\ p.sides = o.sides
            /\ p.op = "pipe" /\ p.waits = waits
        BY <1>1, <2>1 DEF Opened, Fields
      <3> HIDE DEF p
      <3>2. Makes(p)
        BY <1>1, <2>1, <3>1 DEF Makes
      <3>3. Leads(p)
        BY <1>1, <2>1, <3>1 DEF Leads
      <3>4. i \in Inodes
        BY <2>2 DEF Opens, FoundInv
      <3>5. ASSUME Blocked(p)
            PROVE  /\ IsFifo(i)
                   /\ \A b \in Openers \ {a} : opener[b].fd = i =>
                          opener[b].sides \subseteq opener[a].sides
        BY <3>1, <3>4, <3>5 DEF Blocked, IsFifo, waits, Others
      <3> QED BY <2>1, <2>2, <3>1, <3>2, <3>3, <3>5, OpenedFound DEF p
    <2>3. CASE Answers(a, FALSE)
      BY <2>1, <2>3, AnswersFound
    <2> QED BY <1>4, <2>2, <2>3 DEF openPipe
  <1>5. ASSUME EnterPipe(a)
        PROVE  FoundInv'
    <2>1. o.at = "waiting" /\ o.op = "pipe" /\ UNCHANGED names
      BY <1>1, <1>5 DEF EnterPipe, Under, Sound, HandsFull
    <2>2. o.made # Nothing => Calm(o, Laid(o, [at |-> "unlink"]))
      BY <1>1, <2>1 DEF Calm, Laid, Fields, Makes, Leads, StaysMaker
    <2> QED BY <1>5, <2>1, <2>2, WithFound, AnswersFound DEF EnterPipe
  <1>6. ASSUME UnlinkPipe(a)
        PROVE  FoundInv'
    <2>1. o.at = "unlink" /\ o.op = "pipe" /\ ~o.saving /\ Unlinks(a) /\ UNCHANGED inode
      BY <1>1, <1>6 DEF UnlinkPipe, Under, Sound, HandsFull, Saving
    <2> DEFINE p == Laid(o, [at |-> "done", answer |-> TRUE])
    <2>2. opener'[a] = p /\ Beside(a)
      BY <1>6, <2>1, WithIsBeside DEF UnlinkPipe, Answers
    <2>3. p.op = o.op /\ p.made = o.made /\ p.sides = o.sides /\ p.fd = o.fd /\ p.at = "done"
      BY <1>1 DEF Laid, Fields
    <2> HIDE DEF p
    <2> QED BY <2>1, <2>2, <2>3, FoundWhenUnlinked
  <1> QED BY <1>2, <1>3, <1>4, <1>5, <1>6 DEF PipeStep

LEMMA FileStepFinds ==
  ASSUME IInv, FoundInv, NEW a \in Openers, FileStep(a)
  PROVE  FoundInv'
  <1> DEFINE o == opener[a]
  <1>1. Sound(o) /\ DOMAIN o = Fields /\ Makes(o) /\ Leads(o)
    BY DEF IInv, Sound, FoundInv
  <1>2. ASSUME StartFile(a)
        PROVE  FoundInv'
    <2> DEFINE at == IF name["path"] = Nothing THEN "create" ELSE "openExisting"
    <2> DEFINE changes == [op |-> "file", sides |-> Sides, at |-> at]
    <2>1. With(a, changes) /\ UNCHANGED names /\ at \in {"create", "openExisting"} /\ o.at = "idle"
      BY <1>2 DEF StartFile, Under
    <2>2. o.made = Nothing /\ o.fd = Nothing
      BY <1>1, <2>1 DEF Makes, Sound, EmptyHanded
    <2> HIDE DEF at
    <2>3. Calm(o, Laid(o, changes))
      BY <1>1, <2>1, <2>2 DEF Calm, Laid, Fields, Makes, Leads, StaysMaker
    <2> QED BY <2>1, <2>3, WithFound
  <1>3. ASSUME NEW i, NEW at \in {"done", "chmod", "copyLines"}, NEW changes,
               OpenedBy(a, i, changes), UNCHANGED names, o.op \in {"file", "copy"},
               Opened(o, changes).at = at, Opened(o, changes).op = o.op,
               Opened(o, changes).made = o.made, Opened(o, changes).sides = o.sides,
               Opened(o, changes).fd = i
        PROVE  FoundInv'
    <2> DEFINE p == Opened(o, changes)
    <2> HIDE DEF p
    <2>1. p = Opened(o, changes) /\ p.at = at /\ p.op = o.op /\ p.made = o.made
          /\ p.sides = o.sides /\ p.fd = i
      BY <1>3 DEF p
    <2>2. Makes(p) /\ Leads(p) /\ ~Blocked(p)
      BY <1>1, <1>3, <2>1 DEF Makes, Leads, Blocked
    <2> QED BY <1>3, <2>1, <2>2, OpenedFound
  <1>4. ASSUME openExistingFile(a)
        PROVE  FoundInv'
    <2>1. o.at = "openExisting" /\ o.op = "file" /\ UNCHANGED names
      BY <1>1, <1>4 DEF openExistingFile, Under, Sound, EmptyHanded
    <2> DEFINE i == name["path"]
    <2> DEFINE changes == [fd |-> i, at |-> "done", answer |-> TRUE, saving |-> FALSE]
    <2>2. /\ Opened(o, changes).at = "done" /\ Opened(o, changes).op = o.op
          /\ Opened(o, changes).made = o.made /\ Opened(o, changes).sides = o.sides
          /\ Opened(o, changes).fd = i
      BY <1>1 DEF Opened, Fields
    <2>3. OpenedBy(a, i, changes) \/ Answers(a, FALSE)
      BY <1>4 DEF openExistingFile, Takes
    <2> QED BY <1>3, <2>1, <2>2, <2>3, AnswersFound
  <1>5. ASSUME GivesUp(a), UNCHANGED names, o.op \in {"file", "copy"}
        PROVE  FoundInv'
    <2>1. Calm(o, Laid(o, [fd |-> Nothing, at |-> "noCopy"]))
      BY <1>1, <1>5 DEF Calm, Laid, Fields, Makes, Leads, StaysMaker
    <2>2. Calm(o, Laid(o, [fd |-> Nothing, at |-> "done", answer |-> FALSE, saving |-> FALSE]))
      BY <1>1, <1>5 DEF Calm, Laid, Fields, Makes, Leads, StaysMaker
    <2> QED BY <1>5, <2>1, <2>2, WithFound DEF GivesUp
  <1>6. ASSUME CreateFile(a)
        PROVE  FoundInv'
    <2>1. o.at = "create" /\ o.op \in {"file", "copy"}
      BY <1>1, <1>6 DEF CreateFile, Under, Sound, EmptyHanded
    <2>2. CASE name[Target(a)] = Nothing
      <3> DEFINE at == IF AsAsked(a, Made(a)) THEN NewFile(a) ELSE "chmod"
      <3> DEFINE changes(i) ==
            [made |-> i, fd |-> i, opened |-> o.opened + 1, at |-> at, answer |-> TRUE]
      <3>1. PICK i \in Inodes : Creates(a, i, "file", Made(a)) /\ With(a, changes(i))
        BY <1>6, <2>2 DEF CreateFile
      <3>2. at \in {"done", "copyLines", "chmod"} /\ Made(a) \in Modes /\ UNCHANGED removed
        BY <1>6, <2>2 DEF NewFile, Made, Modes, CreateFile
      <3> HIDE DEF at
      <3> DEFINE p == Laid(o, changes(i))
      <3>3. p.op = o.op /\ p.at = at /\ p.made = i /\ p.fd = i
        BY <1>1 DEF Laid, Fields
      <3>4. opener'[a] = p /\ Beside(a)
        BY <3>1, WithIsBeside
      <3> HIDE DEF p
      <3> QED BY <2>1, <2>2, <3>1, <3>2, <3>3, <3>4, FoundWhenCreated DEF KindOf, Kinds
    <2>3. CASE name[Target(a)] # Nothing
      <3>1. With(a, [at |-> "openAnyway"]) /\ UNCHANGED names
        BY <1>6, <2>3 DEF CreateFile
      <3>2. Calm(o, Laid(o, [at |-> "openAnyway"]))
        BY <1>1, <2>1 DEF Calm, Laid, Fields, Makes, Leads, StaysMaker
      <3> QED BY <3>1, <3>2, WithFound
    <2> QED BY <2>2, <2>3
  <1>7. ASSUME OpenAnyway(a)
        PROVE  FoundInv'
    <2>1. o.at = "openAnyway" /\ o.op \in {"file", "copy"} /\ UNCHANGED names
      BY <1>1, <1>7 DEF OpenAnyway, Under, Sound, EmptyHanded
    <2> DEFINE i == name[Target(a)]
    <2> DEFINE changes == [fd |-> i, at |-> "chmod"]
    <2>2. /\ Opened(o, changes).at = "chmod" /\ Opened(o, changes).op = o.op
          /\ Opened(o, changes).made = o.made /\ Opened(o, changes).sides = o.sides
          /\ Opened(o, changes).fd = i
      BY <1>1 DEF Opened, Fields
    <2>3. OpenedBy(a, i, changes) \/ GivesUp(a)
      BY <1>7 DEF OpenAnyway
    <2> QED BY <1>3, <1>5, <2>1, <2>2, <2>3
  <1>8. ASSUME Chmod(a)
        PROVE  FoundInv'
    <2> DEFINE changes == [at |-> "reopen", fd |-> Nothing, opened |-> o.opened - 1]
    <2> DEFINE p == Laid(o, changes)
    <2>1. /\ o.at = "chmod" /\ o.op \in {"file", "copy"} /\ With(a, changes)
          /\ UNCHANGED <<name, removed>> /\ inode' = [inode EXCEPT ![o.fd].mode = Asked(a)]
      BY <1>1, <1>8 DEF Chmod, CloseFirst, Under, Sound, HandsFull
    <2>2. Asked(a) \in Modes /\ inode \in [Inodes -> [kind : Kinds, mode : Modes]]
      BY DEF Asked, Modes, FoundInv
    <2>3. /\ inode' \in [Inodes -> [kind : Kinds, mode : Modes]]
          /\ \A i \in Inodes : inode'[i].kind = inode[i].kind
      BY <2>1, <2>2
    <2>4. opener'[a] = p /\ Beside(a)
      BY <2>1, WithIsBeside
    <2>5. Calm(o, p) /\ p.fd = Nothing
      BY <1>1, <2>1 DEF Calm, Laid, Fields, Makes, Leads, StaysMaker
    <2> HIDE DEF p
    <2>6. ~Blocked(p)
      BY <2>5 DEF Calm, Blocked
    <2>7. \A c \in Openers \ {a} : ~(Blocked(opener'[c]) /\ opener'[a].fd = opener'[c].fd)
      BY <2>4, <2>5, BlockedStays
    <2> QED BY <2>1, <2>3, <2>4, <2>5, <2>6, <2>7, FoundHere DEF Calm
  <1>9. ASSUME Reopen(a)
        PROVE  FoundInv'
    <2> DEFINE at == NewFile(a)
    <2>1. o.at = "reopen" /\ o.op \in {"file", "copy"} /\ UNCHANGED names
          /\ at \in {"done", "copyLines"}
      BY <1>1, <1>9 DEF Reopen, Under, Sound, EmptyHanded, NewFile
    <2> DEFINE i == name[Target(a)]
    <2> DEFINE changes == [fd |-> i, at |-> at, answer |-> TRUE]
    <2>2. OpenedBy(a, i, changes) \/ GivesUp(a)
      BY <1>9 DEF Reopen
    <2> HIDE DEF at
    <2>3. /\ Opened(o, changes).at = at /\ Opened(o, changes).op = o.op
          /\ Opened(o, changes).made = o.made /\ Opened(o, changes).sides = o.sides
          /\ Opened(o, changes).fd = i
      BY <1>1 DEF Opened, Fields
    <2> QED BY <1>3, <1>5, <2>1, <2>2, <2>3
  <1> QED BY <1>2, <1>4, <1>6, <1>7, <1>8, <1>9 DEF FileStep

LEMMA CopyStepFinds ==
  ASSUME IInv, FoundInv, NEW a \in Openers, CopyStep(a)
  PROVE  FoundInv'
  <1> DEFINE o == opener[a]
  <1>1. Sound(o) /\ DOMAIN o = Fields /\ Makes(o) /\ Leads(o)
    BY DEF IInv, Sound, FoundInv
  <1>2. ASSUME StartCopy(a)
        PROVE  FoundInv'
    <2> DEFINE at == IF name["path"] # Nothing /\ name["copy"] = Nothing
                     THEN "openSource" ELSE "done"
    <2> DEFINE changes == [op |-> "copy", at |-> at]
    <2>1. With(a, changes) /\ UNCHANGED names /\ at \in {"openSource", "done"} /\ o.at = "idle"
      BY <1>2 DEF StartCopy, Under
    <2>2. o.made = Nothing /\ o.fd = Nothing
      BY <1>1, <2>1 DEF Makes, Sound, EmptyHanded
    <2> HIDE DEF at
    <2>3. Calm(o, Laid(o, changes))
      BY <1>1, <2>1, <2>2 DEF Calm, Laid, Fields, Makes, Leads, StaysMaker
    <2> QED BY <2>1, <2>3, WithFound
  <1>3. ASSUME OpenSource(a)
        PROVE  FoundInv'
    <2>1. o.at = "openSource" /\ o.op = "copy" /\ UNCHANGED names
      BY <1>1, <1>3 DEF OpenSource, Under, Sound, EmptyHanded
    <2> DEFINE changes == [source |-> name["path"], opened |-> o.opened + 1, at |-> "create"]
    <2>2. Calm(o, Laid(o, changes))
      BY <1>1, <2>1 DEF Calm, Laid, Fields, Makes, Leads, StaysMaker
    <2> QED BY <1>3, <2>1, <2>2, WithFound, AnswersFound DEF OpenSource
  <1>4. ASSUME NoCopy(a)
        PROVE  FoundInv'
    <2>1. o.at = "noCopy" /\ o.op = "copy" /\ UNCHANGED names
      BY <1>1, <1>4 DEF NoCopy, Under, Sound, EmptyHanded
    <2> QED BY <1>4, <2>1, AnswersFound DEF NoCopy
  <1>5. ASSUME CopyLines(a)
        PROVE  FoundInv'
    <2> DEFINE at == IF o.saving THEN "reopenSaved" ELSE "done"
    <2> DEFINE changes == [source |-> Nothing, fd |-> Nothing, opened |-> o.opened - 2,
                           at |-> at, answer |-> TRUE]
    <2>1. With(a, changes) /\ UNCHANGED names /\ at \in {"reopenSaved", "done"} /\ o.op = "copy"
      BY <1>1, <1>5 DEF CopyLines, Under, Sound, HandsFull
    <2> HIDE DEF at
    <2>2. Calm(o, Laid(o, changes))
      BY <1>1, <2>1 DEF Calm, Laid, Fields, Makes, Leads, StaysMaker
    <2> QED BY <2>1, <2>2, WithFound
  <1>6. ASSUME CloseAndRemove(a)
        PROVE  FoundInv'
    <2> DEFINE changes == [fd |-> Nothing, opened |-> o.opened - 1, at |-> "remove"]
    <2>1. With(a, changes) /\ UNCHANGED names /\ o.op = "file"
      BY <1>6 DEF CloseAndRemove, Device
    <2>2. Calm(o, Laid(o, changes))
      BY <1>1, <2>1 DEF Calm, Laid, Fields, Makes, Leads, StaysMaker
    <2> QED BY <2>1, <2>2, WithFound
  <1>7. ASSUME remove(a)
        PROVE  FoundInv'
    <2> DEFINE changes == [at |-> "removed", answer |-> name["path"] # Nothing]
    <2> DEFINE p == Laid(o, changes)
    <2>1. o.at = "remove" /\ o.op = "file" /\ Unlinks(a) /\ UNCHANGED inode
      BY <1>1, <1>7 DEF remove, Under, Sound, EmptyHanded
    <2>2. opener'[a] = p /\ Beside(a)
      BY <1>7, WithIsBeside DEF remove
    <2>3. p.op = o.op /\ p.made = o.made /\ p.sides = o.sides /\ p.fd = o.fd /\ p.at = "removed"
      BY <1>1 DEF Laid, Fields
    <2> HIDE DEF p
    <2> QED BY <2>1, <2>2, <2>3, FoundWhenUnlinked
  <1>8. ASSUME saveAs(a)
        PROVE  FoundInv'
    <2> DEFINE at == IF name["path"] # Nothing /\ name["copy"] = Nothing
                     THEN "openSource" ELSE "reopenSaved"
    <2> DEFINE changes == [op |-> "copy", saving |-> TRUE, fd |-> Nothing,
                           opened |-> o.opened - 1, made |-> Nothing, at |-> at]
    <2>1. With(a, changes) /\ UNCHANGED names /\ at \in {"openSource", "reopenSaved"}
          /\ o.op = "file"
      BY <1>8 DEF saveAs, Device
    <2> HIDE DEF at
    <2>2. Calm(o, Laid(o, changes))
      BY <1>1, <2>1 DEF Calm, Laid, Fields, Makes, Leads, StaysMaker
    <2> QED BY <2>1, <2>2, WithFound
  <1>9. ASSUME ReopenSaved(a)
        PROVE  FoundInv'
    <2> DEFINE at == IF name["path"] = Nothing THEN "create" ELSE "openExisting"
    <2> DEFINE changes == [op |-> "file", saving |-> FALSE, made |-> Nothing, at |-> at]
    <2>1. With(a, changes) /\ UNCHANGED names /\ at \in {"create", "openExisting"}
          /\ o.op = "copy"
      BY <1>1, <1>9 DEF ReopenSaved, Under, Sound, EmptyHanded
    <2> HIDE DEF at
    <2>2. Calm(o, Laid(o, changes))
      BY <1>1, <2>1 DEF Calm, Laid, Fields, Makes, Leads, StaysMaker
    <2> QED BY <2>1, <2>2, WithFound
  <1> QED BY <1>2, <1>3, <1>4, <1>5, <1>6, <1>7, <1>8, <1>9 DEF CopyStep

LEMMA ServerStepFinds ==
  ASSUME IInv, FoundInv, NEW a \in Openers, ServerStep(a)
  PROVE  FoundInv'
  <1> DEFINE o == opener[a]
  <1>1. Sound(o) /\ DOMAIN o = Fields /\ Makes(o) /\ Leads(o)
    BY DEF IInv, Sound, FoundInv
  <1>2. ASSUME bind(a)
        PROVE  FoundInv'
    <2>1. o.at = "idle" /\ o.op = "none" /\ o.made = Nothing /\ o.fd = Nothing /\ ~o.answer
      BY <1>1, <1>2 DEF bind, Under, Makes, Sound, EmptyHanded
    <2>2. ASSUME NEW i \in Inodes, Creates(a, i, "socket", "masked"), name["path"] = Nothing,
                 With(a, [op |-> "server", at |-> "done", made |-> i, answer |-> TRUE]),
                 UNCHANGED removed
          PROVE  FoundInv'
      <3> DEFINE p == Laid(o, [op |-> "server", at |-> "done", made |-> i, answer |-> TRUE])
      <3>1. p.op = "server" /\ p.at = "done" /\ p.made = i /\ p.fd = Nothing
        BY <1>1, <2>1 DEF Laid, Fields
      <3>2. opener'[a] = p /\ Beside(a)
        BY <2>2, WithIsBeside
      <3>3. name[Target(a)] = Nothing
        BY <2>1, <2>2 DEF Target
      <3> HIDE DEF p
      <3> QED BY <2>1, <2>2, <3>1, <3>2, <3>3, FoundWhenCreated DEF KindOf, Kinds, Modes
    <2>3. ASSUME With(a, [op |-> "server", at |-> "done"]), UNCHANGED names
          PROVE  FoundInv'
      <3>1. Calm(o, Laid(o, [op |-> "server", at |-> "done"]))
        BY <1>1, <2>1 DEF Calm, Laid, Fields, Makes, Leads, StaysMaker
      <3> QED BY <2>3, <3>1, WithFound
    <2> QED BY <1>2, <2>2, <2>3 DEF bind, baseBind
  <1>3. ASSUME NEW at \in {"gone", "type", "unlinkSocket"}, With(a, [at |-> at]),
               UNCHANGED names, o.op = "server"
        PROVE  FoundInv'
    <2>1. Calm(o, Laid(o, [at |-> at]))
      BY <1>1, <1>3 DEF Calm, Laid, Fields, Makes, Leads, StaysMaker
    <2> QED BY <1>3, <2>1, WithFound
  <1>4. ASSUME Destroy(a)
        PROVE  FoundInv'
    BY <1>3, <1>4 DEF Destroy
  <1>5. ASSUME LookAtType(a)
        PROVE  FoundInv'
    BY <1>1, <1>3, <1>5 DEF LookAtType, Under, Makes
  <1>6. ASSUME UnlinkSocket(a)
        PROVE  FoundInv'
    <2> DEFINE p == Laid(o, [at |-> "gone"])
    <2>1. o.at = "unlinkSocket" /\ Unlinks(a) /\ UNCHANGED inode
      BY <1>6 DEF UnlinkSocket, Under
    <2>2. opener'[a] = p /\ Beside(a)
      BY <1>6, WithIsBeside DEF UnlinkSocket
    <2>3. /\ p.op = o.op /\ p.made = o.made /\ p.sides = o.sides /\ p.fd = o.fd /\ p.at = "gone"
          /\ p.answer = o.answer
      BY <1>1 DEF Laid, Fields
    <2>4. o.op = "server"
      BY <1>1, <2>1 DEF Makes
    <2> HIDE DEF p
    <2> QED BY <2>1, <2>2, <2>3, <2>4, FoundWhenUnlinked
  <1> QED BY <1>2, <1>4, <1>5, <1>6 DEF ServerStep

-----------------------------------------------------------------------------

LEMMA InitFinds == Init => FoundInv
  <1> SUFFICES ASSUME Init
               PROVE  FoundInv
    OBVIOUS
  <1>1. /\ name \in [{"path", "copy"} -> Inodes \cup {Nothing}]
        /\ inode \in [Inodes -> [kind : Kinds, mode : Modes]]
    BY DEF Init, Unused, Kinds, Modes
  <1>2. \A a \in Openers :
           opener[a].at = "idle" /\ opener[a].op = "none" /\ opener[a].made = Nothing
    BY DEF Init, NewOpener
  <1>3. removed = {}
    BY DEF Init
  <1> QED BY <1>1, <1>2, <1>3 DEF FoundInv, Makes, Leads, Blocked

LEMMA NextFinds == IInv /\ FoundInv /\ [Next]_vars => FoundInv'
  <1> SUFFICES ASSUME IInv, FoundInv, [Next]_vars
               PROVE  FoundInv'
    OBVIOUS
  <1>1. CASE Next
    BY <1>1, PipeStepFinds, FileStepFinds, CopyStepFinds, ServerStepFinds DEF Next
  <1>2. CASE UNCHANGED vars
    BY <1>2 DEF vars, FoundInv, Makes, Leads, CanBeMet, Maker, IsFifo
  <1> QED BY <1>1, <1>2

\* openPipe, ~AcceptorPolicy: for any number of processes, the name of a pipe that its
\* maker has opened is gone for good; who is blocked in an open of a pipe can be met by
\* its name, unless the pipe was made by another for the same side; the maker of a pipe
\* takes no other's name away and a server's name leads to its socket, until a file
\* device or a server that is destroyed has removed what was not its own.
THEOREM NamesCanBeFound == Spec => []NamesAreFound
  <1>1. IInv /\ FoundInv => NamesAreFound
    <2> SUFFICES ASSUME IInv, FoundInv
                 PROVE  NamesAreFound
      OBVIOUS
    <2>1. ASSUME NEW i \in Inodes, NEW a \in Maker(i), name["path"] = i,
                 inode[i].kind = "fifo", Under(a) = "done"
          PROVE  ~opener[a].answer
      <3>1. a \in Openers /\ opener[a].made = i /\ i # Nothing
        BY NothingAssumption DEF Maker
      <3>2. opener[a].op = "pipe"
        BY <2>1, <3>1 DEF FoundInv, Makes, KindOf
      <3> QED BY <2>1, <3>1, <3>2 DEF FoundInv, Leads, Under
    <2>2. ASSUME NEW a \in Openers, Under(a) = "waiting", opener[a].waits, removed = {}
          PROVE  CanBeMet(a)
      BY <2>2 DEF FoundInv, Blocked, Under
    <2>3. "pipe" \in removed => removed \cap {"file", "server"} # {}
      BY DEF FoundInv
    <2>4. ASSUME NEW a \in Openers, opener[a].op = "server", Under(a) = "done",
                 opener[a].answer, removed = {}
          PROVE  name["path"] = opener[a].made
      BY <2>4 DEF FoundInv, Makes, Leads, Under
    <2> QED BY <2>1, <2>2, <2>3, <2>4 DEF NamesAreFound, CanBeMet
  <1>2. Init => IInv /\ FoundInv
    BY InitSound, InitFinds
  <1>3. IInv /\ FoundInv /\ [Next]_vars => (IInv /\ FoundInv)'
    BY NextSound, NextFinds
  <1> QED BY <1>1, <1>2, <1>3, PTL DEF Spec

-----------------------------------------------------------------------------
(* StreamLoops: what a call under way has *)

FileCalls == {"readFile", "copyTo"}
StreamCalls == {"read", "readLine", "readInBuffer", "recv", "recvInBuffer"}

Reading == StreamCalls \cup FileCalls \cup {"none"}
Writing == {"none", "write", "send"}

ReadCall ==
    [op : Reading, len : Nat, from : Nat, result : Seq(Nat), total : Int, copied : Seq(Nat),
     waitall : BOOLEAN, first : BOOLEAN, busy : BOOLEAN]

WriteCall == [op : Writing, len : Nat, done : Nat, from : Nat, busy : BOOLEAN]

LoopsTypes ==
    /\ put \in Nat /\ put <= MaxBytes /\ taken \in Nat /\ taken <= put
    /\ newline \subseteq Nat
    /\ writing \in WriteCall
    /\ reading \in ReadCall /\ reading.from <= taken

\* What the kernel has is what the writer reports.
Written(w) ==
    /\ w.op # "none" => /\ put = w.from + w.done /\ medium # "file"
                        /\ w.done <= w.len /\ w.from + w.len <= MaxBytes
    /\ w.busy => w.op # "none"
    /\ w.op = "write" /\ ~w.busy /\ medium = "blocking" => w.done = w.len

\* The lengths a call is made with, and the medium it is made for.
Called(r, t) ==
    /\ r.op = "none" => ~r.busy
    /\ r.op = "readLine" => r.len = READ_BUFFER_SIZE
    /\ r.op \in FileCalls => medium = "file"
    /\ r.op = "copyTo" => r.from = 0
    /\ medium = "file" => r.op \in FileCalls \cup {"none"}
    /\ r.op \in {"readInBuffer", "readFile"} => r.len > 0
    /\ r.op = "recv" => r.len > 0

\* No line end among the bytes behind f, up to t.
Plain(f, t) == \A i \in (f + 1)..t : i \notin newline

Reads(r, t) == r.op = "read" => r.result = Bytes(r.from + 1, t)

\* While recv goes on it has all that it took; the count may be one less, after
\* the wait for all failed.  Without that wait, it goes on behind a full buffer.
Receives(r, t) ==
    r.op = "recv" =>
      /\ r.first => r.busy /\ r.waitall /\ t = r.from
      /\ r.busy =>
            /\ r.result = Bytes(r.from + 1, t) /\ r.total <= r.len
            /\ r.total = t - r.from \/ (r.waitall /\ r.total = t - r.from - 1)
            /\ r.waitall \/ r.total = 0 \/ r.total >= READ_BUFFER_SIZE
      /\ ~r.busy =>
            \/ r.result = Bytes(r.from + 1, t)
            \/ /\ r.total = r.len /\ (r.len >= READ_BUFFER_SIZE \/ r.waitall) /\ r.len < t - r.from
               /\ \E m \in r.from..t :
                     r.result = Bytes(r.from + 1, m) /\ t - m <= READ_BUFFER_SIZE

\* A buffer has all bytes while they fit, and stays full when they do not.
Fills(r, t, p) ==
    r.op \in {"readInBuffer", "readFile"} =>
      /\ r.total = t - r.from \/ (r.op = "readInBuffer" /\ ~r.busy /\ r.total = -1)
      /\ r.total = t - r.from =>
            /\ r.total <= BufferLength(r) => r.result = Bytes(r.from + 1, t)
            /\ r.total > BufferLength(r) => Len(r.result) = BufferLength(r)
      /\ r.busy => BufferLength(r) > 0 /\ (r.total = 0 \/ r.total >= BufferLength(r))
      /\ BufferLength(r) = 0 => t = r.from
      /\ r.op = "readFile" /\ ~r.busy => t = p \/ BufferLength(r) = 0

Lines(r, t) ==
    r.op = "readLine" =>
      /\ r.busy => r.result = Bytes(r.from + 1, t) /\ Plain(r.from, t)
      /\ ~r.busy =>
            \E m \in r.from..t :
               /\ r.result = Bytes(r.from + 1, m) /\ Plain(r.from, m)
               /\ m < t => m + 1 \in newline
               /\ t - m <= READ_BUFFER_SIZE

\* The lines that were copied, with the one under way.
Copied(r) == r.copied \o r.result

InOrder(s) == \A i \in 1..(Len(s) - 1) : s[i] < s[i + 1]

\* The bytes of s are of the first t, in order and no line ends, and all of those
\* before the first line end.
CopyOf(s, t) ==
    /\ InOrder(s)
    /\ \A i \in 1..Len(s) : s[i] \in 1..t /\ s[i] \notin newline
    /\ \A b \in 1..t : (\E i \in 1..Len(s) : s[i] = b) \/ (\E n \in newline : n <= b)

Copies(r, t, p) ==
    r.op = "copyTo" =>
      /\ CopyOf(Copied(r), t)
      /\ r.total = Len(r.result)
      /\ ~r.busy => r.result = <<>> /\ (t = p \/ \E n \in newline : n <= t)

CallInv(r, t, p) ==
    /\ Called(r, t) /\ Reads(r, t) /\ Receives(r, t)
    /\ Fills(r, t, p) /\ Lines(r, t) /\ Copies(r, t, p)

LoopsInv == LoopsTypes /\ Written(writing) /\ CallInv(reading, taken, put)

\* Where the program has undefined behaviour.
Beyond ==
    /\ LoopsTypes /\ Written(writing) /\ ~reading.busy
    /\ \/ /\ reading.op = "recv" /\ reading.len > READ_BUFFER_SIZE
          /\ taken - reading.from > READ_BUFFER_SIZE
       \/ reading.op = "readFile" /\ reading.len = 0 /\ put = reading.from

LoopsOrBeyond == undefined \in BOOLEAN /\ IF undefined THEN Beyond ELSE LoopsInv

-----------------------------------------------------------------------------
(* StreamLoops: runs of bytes *)

LEMMA SmallestOf ==
  ASSUME NEW T, T \subseteq Nat, T # {}
  PROVE  Min(T) \in T /\ \A y \in T : Min(T) <= y
  <1> DEFINE R == OpToRel(<, Nat)
  <1>1. IsWellFoundedOn(R, Nat)
    BY NatLessThanWellFounded
  <1> HIDE DEF R
  <1>2. PICK x \in T : \A y \in T : ~ (<<y, x>> \in R)
    BY <1>1, WFMin
  <1>3. \A y \in T : ~(y < x)
    BY <1>2 DEF R, OpToRel
  <1>4. \A y \in T : x <= y
    BY <1>3
  <1> QED BY <1>4 DEF Min

LEMMA RunIs ==
  ASSUME NEW f \in Nat, NEW t \in Nat, f <= t
  PROVE  /\ Bytes(f + 1, t) \in Seq(Nat)
         /\ Len(Bytes(f + 1, t)) = t - f
         /\ DOMAIN Bytes(f + 1, t) = 1..(t - f)
         /\ \A i \in 1..(t - f) : Bytes(f + 1, t)[i] = f + i
  <1> DEFINE s == [i \in 1..(t - f) |-> f + i]
  <1>1. Bytes(f + 1, t) = s
    BY DEF Bytes
  <1>2. t - f \in Nat /\ s \in [1..(t - f) -> Nat]
    OBVIOUS
  <1>3. s \in Seq(Nat)
    BY <1>2, IsASeq
  <1>4. Len(s) = t - f
    BY <1>2, <1>3, LenProperties
  <1> QED BY <1>1, <1>3, <1>4

LEMMA IsARun ==
  ASSUME NEW f \in Nat, NEW t \in Nat, f <= t, NEW s \in Seq(Nat),
         Len(s) = t - f, \A i \in 1..(t - f) : s[i] = f + i
  PROVE  s = Bytes(f + 1, t)
  <1>1. \A i \in 1..Len(s) : s[i] = Bytes(f + 1, t)[i]
    BY RunIs
  <1> QED BY <1>1, RunIs, SeqEqual

LEMMA RunsJoin ==
  ASSUME NEW f \in Nat, NEW t \in Nat, NEW u \in Nat, f <= t, t <= u
  PROVE  Bytes(f + 1, t) \o Bytes(t + 1, u) = Bytes(f + 1, u)
  <1> DEFINE a == Bytes(f + 1, t)
  <1> DEFINE b == Bytes(t + 1, u)
  <1>1. /\ a \in Seq(Nat) /\ Len(a) = t - f /\ \A i \in 1..(t - f) : a[i] = f + i
        /\ b \in Seq(Nat) /\ Len(b) = u - t /\ \A i \in 1..(u - t) : b[i] = t + i
    BY RunIs
  <1> HIDE DEF a, b
  <1>2. a \o b \in Seq(Nat) /\ Len(a \o b) = u - f
    <2>1. a \o b \in Seq(Nat) /\ Len(a \o b) = Len(a) + Len(b)
      BY <1>1, ConcatProperties
    <2> QED BY <1>1, <2>1
  <1>3. ASSUME NEW i \in 1..(u - f)
        PROVE  (a \o b)[i] = f + i
    <2>1. (a \o b)[i] = IF i <= t - f THEN a[i] ELSE b[i - (t - f)]
      <3>1. i \in 1..(Len(a) + Len(b))
        BY <1>1
      <3> QED BY <1>1, <3>1, ConcatProperties
    <2>2. CASE i <= t - f
      BY <2>1, <2>2, <1>1
    <2>3. CASE ~(i <= t - f)
      <3>1. i - (t - f) \in 1..(u - t) /\ t + (i - (t - f)) = f + i
        BY <2>3
      <3> QED BY <3>1, <2>1, <2>3, <1>1
    <2> QED BY <2>2, <2>3
  <1>4. f <= u
    OBVIOUS
  <1>5. a \o b = Bytes(f + 1, u)
    BY <1>2, <1>3, <1>4, IsARun
  <1> QED BY <1>5 DEF a, b

LEMMA FrontOfRun ==
  ASSUME NEW f \in Nat, NEW t \in Nat, NEW m \in Nat, f <= m, m <= t
  PROVE  SubSeq(Bytes(f + 1, t), 1, m - f) = Bytes(f + 1, m)
  <1> DEFINE a == Bytes(f + 1, t)
  <1>1. a \in Seq(Nat) /\ Len(a) = t - f /\ \A i \in 1..(t - f) : a[i] = f + i
    BY RunIs
  <1> HIDE DEF a
  <1> DEFINE s == SubSeq(a, 1, m - f)
  <1>2. /\ s \in Seq(Nat) /\ Len(s) = m - f
        /\ \A i \in 1..(m - f) : s[i] = a[i]
    BY <1>1, SubSeqProperties
  <1> HIDE DEF s
  <1>3. \A i \in 1..(m - f) : s[i] = f + i
    BY <1>1, <1>2
  <1>4. s = Bytes(f + 1, m)
    BY <1>2, <1>3, IsARun
  <1> QED BY <1>4 DEF s, a

LEMMA RunsArePrefixes ==
  ASSUME NEW f \in Nat, NEW t \in Nat, NEW m \in Nat, f <= m, m <= t
  PROVE  IsPrefix(Bytes(f + 1, m), Bytes(f + 1, t))
  <1>1. Bytes(f + 1, m) \in Seq(Nat) /\ Len(Bytes(f + 1, m)) = m - f /\ Len(Bytes(f + 1, t)) = t - f
    BY RunIs
  <1>2. SubSeq(Bytes(f + 1, m), 1, m - f) = Bytes(f + 1, m)
    BY FrontOfRun
  <1>3. SubSeq(Bytes(f + 1, t), 1, m - f) = Bytes(f + 1, m)
    BY FrontOfRun
  <1>4. m - f <= t - f
    OBVIOUS
  <1> QED BY <1>1, <1>2, <1>3, <1>4 DEF IsPrefix

\* What a run has before its first line end.
LEMMA UpToNewlineIs ==
  ASSUME NEW t \in Nat, NEW k \in Nat
  PROVE  \E m \in t..(t + k) :
            /\ UpToNewline(Bytes(t + 1, t + k)) = Bytes(t + 1, m)
            /\ Plain(t, m)
            /\ m < t + k => m + 1 \in newline
  <1> DEFINE b == Bytes(t + 1, t + k)
  <1> DEFINE ends == {i \in DOMAIN b : b[i] \in newline}
  <1>1. DOMAIN b = 1..k /\ \A i \in 1..k : b[i] = t + i
    <2>1. t + k \in Nat /\ t <= t + k /\ (t + k) - t = k
      OBVIOUS
    <2> QED BY <2>1, RunIs
  <1>2. ends = {i \in 1..k : t + i \in newline}
    BY <1>1
  <1>3. UpToNewline(b) = IF ends = {} THEN b ELSE SubSeq(b, 1, Min(ends) - 1)
    BY DEF UpToNewline
  <1>4. CASE ends = {}
    <2>1. Plain(t, t + k)
      <3>1. ASSUME NEW i \in (t + 1)..(t + k)
            PROVE  i \notin newline
        <4>1. i - t \in 1..k /\ t + (i - t) = i
          OBVIOUS
        <4> QED BY <4>1, <1>4, <1>2
      <3> QED BY <3>1 DEF Plain
    <2>2. UpToNewline(b) = Bytes(t + 1, t + k)
      BY <1>3, <1>4
    <2>3. t + k \in t..(t + k) /\ ~(t + k < t + k)
      OBVIOUS
    <2> QED BY <2>1, <2>2, <2>3
  <1>5. CASE ends # {}
    <2> DEFINE e == Min(ends)
    <2>1. e \in ends /\ \A y \in ends : e <= y
      BY <1>2, <1>5, SmallestOf
    <2>2. e \in 1..k /\ t + e \in newline
      BY <2>1, <1>2
    <2>3. UpToNewline(b) = SubSeq(b, 1, e - 1)
      BY <1>3, <1>5
    <2> HIDE DEF e
    <2> DEFINE m == t + e - 1
    <2>4. m \in t..(t + k) /\ m - t = e - 1 /\ m + 1 = t + e
      BY <2>2
    <2>5. SubSeq(b, 1, m - t) = Bytes(t + 1, m)
      <3>1. t + k \in Nat /\ m \in Nat /\ t <= m /\ m <= t + k
        BY <2>4
      <3> QED BY <3>1, FrontOfRun
    <2>6. Plain(t, m)
      <3>1. ASSUME NEW i \in (t + 1)..m, i \in newline
            PROVE  FALSE
        <4>1. i - t \in 1..k /\ t + (i - t) = i /\ i - t < e
          BY <2>2
        <4>2. i - t \in ends
          BY <4>1, <3>1, <1>2
        <4> QED BY <4>1, <4>2, <2>1, <2>2
      <3> QED BY <3>1 DEF Plain
    <2> QED BY <2>2, <2>3, <2>4, <2>5, <2>6
  <1> QED BY <1>4, <1>5

-----------------------------------------------------------------------------
(* StreamLoops: what each call makes of a chunk *)

\* A call r that has taken up to t is given k bytes more.
Given(r, t, k) == r \in ReadCall /\ t \in Nat /\ k \in Nat /\ k > 0 /\ r.from <= t

LEMMA ChunkIs ==
  ASSUME NEW r, NEW t, NEW k, Given(r, t, k)
  PROVE  /\ r.from \in Nat /\ t \in Nat /\ k \in Nat /\ t + k \in Nat
         /\ Bytes(t + 1, t + k) \in Seq(Nat) /\ Len(Bytes(t + 1, t + k)) = k
         /\ Bytes(r.from + 1, t) \o Bytes(t + 1, t + k) = Bytes(r.from + 1, t + k)
  <1>1. r.from \in Nat /\ t \in Nat /\ k \in Nat /\ t + k \in Nat
    BY DEF Given, ReadCall
  <1>2. r.from <= t /\ t <= t + k /\ (t + k) - t = k
    BY <1>1 DEF Given
  <1>3. Bytes(t + 1, t + k) \in Seq(Nat) /\ Len(Bytes(t + 1, t + k)) = k
    BY <1>1, <1>2, RunIs
  <1> QED BY <1>1, <1>2, <1>3, RunsJoin

LEMMA StaysACall ==
  ASSUME NEW r \in ReadCall, NEW result \in Seq(Nat), NEW total \in Int
  PROVE  /\ \A busy \in BOOLEAN :
               [r EXCEPT !.result = result, !.total = total, !.busy = busy] \in ReadCall
         /\ [r EXCEPT !.result = result, !.total = total, !.first = FALSE] \in ReadCall
  BY DEF ReadCall

LEMMA Grouped ==
  ASSUME NEW S, NEW a \in Seq(S), NEW b \in Seq(S), NEW c \in Seq(S)
  PROVE  (a \o b) \o c = a \o (b \o c)
  BY ConcatAssociative, SMTT(30)

LEMMA NextLineIsACall ==
  ASSUME NEW r \in ReadCall, NEW copied \in Seq(Nat), NEW result \in Seq(Nat), NEW total \in Int
  PROVE  /\ \A busy \in BOOLEAN :
               [r EXCEPT !.copied = copied, !.result = result, !.total = total, !.busy = busy]
                  \in ReadCall
         /\ [r EXCEPT !.copied = copied, !.result = result, !.total = total] \in ReadCall
  BY DEF ReadCall

LEMMA ReadTakesKeeps ==
  ASSUME NEW r, NEW t, NEW k, NEW p, Given(r, t, k), CallInv(r, t, p), r.op = "read"
  PROVE  LET s == ReadTakes(r, Bytes(t + 1, t + k))
         IN  s \in ReadCall /\ s.from = r.from /\ CallInv(s, t + k, p)
  <1> DEFINE b == Bytes(t + 1, t + k)
  <1>1. /\ r.from \in Nat /\ t \in Nat /\ k \in Nat
        /\ b \in Seq(Nat) /\ Len(b) = k /\ Bytes(r.from + 1, t) \o b = Bytes(r.from + 1, t + k)
    BY ChunkIs
  <1> HIDE DEF b
  <1> DEFINE s == [r EXCEPT !.result = @ \o b, !.total = @ + Len(b),
                            !.busy = (Len(b) = READ_BUFFER_SIZE)]
  <1>2. s = ReadTakes(r, b)
    BY DEF ReadTakes
  <1>3. r \in ReadCall /\ r.result = Bytes(r.from + 1, t) /\ medium # "file"
    BY DEF CallInv, Reads, Given, Called, FileCalls
  <1>4. s.op = "read" /\ s.from = r.from /\ s.result = Bytes(r.from + 1, t + k)
    BY <1>1, <1>3 DEF ReadCall
  <1>5. s \in ReadCall
    <2>1. r.result \in Seq(Nat) /\ r.total + Len(b) \in Int
      BY <1>1, <1>3 DEF ReadCall
    <2>2. r.result \o b \in Seq(Nat)
      BY <1>1, <2>1, ConcatProperties
    <2>3. (Len(b) = READ_BUFFER_SIZE) \in BOOLEAN
      OBVIOUS
    <2> QED BY <1>3, <2>1, <2>2, <2>3, StaysACall
  <1> HIDE DEF s
  <1>6. CallInv(s, t + k, p)
    BY <1>3, <1>4 DEF CallInv, Called, Reads, Receives, Fills, Lines, Copies, FileCalls
  <1> QED BY <1>2, <1>4, <1>5, <1>6 DEF b

LEMMA WaitAllTakesKeeps ==
  ASSUME NEW r, NEW t, NEW k, NEW p, Given(r, t, k), CallInv(r, t, p), r.op = "recv", r.first,
         k <= r.len
  PROVE  LET s == WaitAllTakes(r, Bytes(t + 1, t + k))
         IN  s \in ReadCall /\ s.from = r.from /\ CallInv(s, t + k, p)
  <1> DEFINE b == Bytes(t + 1, t + k)
  <1>1. /\ r.from \in Nat /\ t \in Nat /\ k \in Nat
        /\ b \in Seq(Nat) /\ Len(b) = k
    BY ChunkIs
  <1>2. r \in ReadCall /\ r.busy /\ r.waitall /\ t = r.from /\ medium # "file"
    BY DEF CallInv, Receives, Given, Called, FileCalls
  <1>3. b = Bytes(r.from + 1, t + k)
    BY <1>2
  <1> HIDE DEF b
  <1> DEFINE s == [r EXCEPT !.result = b, !.total = Len(b), !.first = FALSE]
  <1>4. s = WaitAllTakes(r, b)
    BY DEF WaitAllTakes
  <1>5. /\ s.op = "recv" /\ s.from = r.from /\ s.result = b /\ s.total = k /\ ~s.first
        /\ s.busy /\ s.waitall /\ s.len = r.len
    BY <1>1, <1>2 DEF ReadCall
  <1>6. s \in ReadCall
    <2>1. Len(b) \in Int
      BY <1>1
    <2> QED BY <1>1, <1>2, <2>1, StaysACall
  <1> HIDE DEF s
  <1>7. Receives(s, t + k)
    <2>1. s.total = (t + k) - s.from
      BY <1>1, <1>2, <1>5
    <2> QED BY <1>3, <1>5, <2>1 DEF Receives
  <1>8. Called(s, t + k)
    BY <1>2, <1>5 DEF CallInv, Called, FileCalls
  <1>9. CallInv(s, t + k, p)
    BY <1>5, <1>7, <1>8 DEF CallInv, Reads, Fills, Lines, Copies, FileCalls
  <1> QED BY <1>4, <1>5, <1>6, <1>9 DEF b

LEMMA RecvTakesKeeps ==
  ASSUME NEW r, NEW t, NEW k, NEW p, Given(r, t, k), CallInv(r, t, p), r.op = "recv", ~r.first,
         r.busy, k <= r.len, k <= READ_BUFFER_SIZE
  PROVE  LET s == RecvTakes(r, Bytes(t + 1, t + k))
         IN  s \in ReadCall /\ s.from = r.from /\ CallInv(s, t + k, p)
  <1> DEFINE b == Bytes(t + 1, t + k)
  <1>1. /\ r.from \in Nat /\ t \in Nat /\ k \in Nat /\ r.from <= t /\ k > 0
        /\ b \in Seq(Nat) /\ Len(b) = k /\ Bytes(r.from + 1, t) \o b = Bytes(r.from + 1, t + k)
    <2>1. r.from <= t /\ k > 0
      BY DEF Given
    <2> QED BY <2>1, ChunkIs
  <1>2. /\ r \in ReadCall /\ r.len \in Nat /\ r.total \in Int
        /\ READ_BUFFER_SIZE \in Nat
    BY SizesAssumption DEF Given, ReadCall
  <1>3. /\ r.result = Bytes(r.from + 1, t) /\ r.total <= r.len
        /\ r.total = t - r.from \/ (r.waitall /\ r.total = t - r.from - 1)
        /\ r.waitall \/ r.total = 0 \/ r.total >= READ_BUFFER_SIZE
        /\ medium # "file"
    BY DEF CallInv, Receives, Called, FileCalls
  <1>6. r.total <= r.len /\ (r.total = t - r.from \/ r.total = t - r.from - 1)
    BY <1>3
  <1>7. ASSUME ~r.waitall
        PROVE  /\ r.total = t - r.from
               /\ r.total = 0 \/ r.total >= READ_BUFFER_SIZE
    BY <1>3, <1>7
  <1>4. CASE r.total + k > r.len
    <2> DEFINE m == t + (r.len - r.total)
    <2>1. m \in Nat /\ t <= m /\ m <= t + k /\ m - t = r.len - r.total
      <3>1. /\ r.len - r.total \in Nat /\ r.len - r.total <= k
            /\ (t + (r.len - r.total)) - t = r.len - r.total
        <4>1. t \in Nat /\ k \in Nat
          BY <1>1
        <4> QED BY <4>1, <1>2, <1>6, <1>4
      <3> DEFINE d == r.len - r.total
      <3> HIDE DEF d
      <3>2. d \in Nat /\ d <= k /\ (t + d) - t = d
        BY <3>1 DEF d
      <3>3. t + d \in Nat /\ t <= t + d /\ t + d <= t + k
        BY <3>2, <1>1
      <3> QED BY <3>2, <3>3 DEF d
    <2>2. SubSeq(b, 1, m - t) = Bytes(t + 1, m)
      <3>1. t + k \in Nat
        BY <1>1
      <3> QED BY <3>1, <1>1, <2>1, FrontOfRun
    <2>3. Bytes(r.from + 1, t) \o Bytes(t + 1, m) = Bytes(r.from + 1, m)
      BY <1>1, <2>1, RunsJoin
    <2> HIDE DEF b
    <2> DEFINE front == SubSeq(b, 1, r.len - r.total)
    <2> DEFINE s == [r EXCEPT !.result = @ \o front, !.total = r.len, !.busy = FALSE]
    <2>4. r.result \o front = Bytes(r.from + 1, m)
      BY <2>1, <2>2, <2>3, <1>3
    <2>5. Bytes(r.from + 1, m) \in Seq(Nat)
      BY <1>1, <2>1, RunIs
    <2> HIDE DEF front, m
    <2>6. s = RecvTakes(r, b)
      BY <1>1, <1>2, <1>4 DEF RecvTakes, Returned, ReadCall, front
    <2>7. /\ s.op = "recv" /\ s.from = r.from /\ s.result = Bytes(r.from + 1, m)
          /\ s.total = r.len /\ s.len = r.len /\ s.waitall = r.waitall /\ s.first = r.first
          /\ ~s.busy
      BY <2>4, <1>2 DEF ReadCall
    <2>8. s \in ReadCall
      <3>1. FALSE \in BOOLEAN /\ r.len \in Int
        BY <1>2
      <3> QED BY <2>4, <2>5, <3>1, <1>2, StaysACall
    <2> HIDE DEF s
    <2>9. r.len >= READ_BUFFER_SIZE \/ r.waitall
      <3>1. ASSUME ~r.waitall
            PROVE  r.len >= READ_BUFFER_SIZE
        <4>1. r.total = 0 \/ r.total >= READ_BUFFER_SIZE
          BY <1>7, <3>1
        <4>2. CASE r.total = 0
          BY <4>2, <1>1, <1>2, <1>4
        <4>3. CASE r.total >= READ_BUFFER_SIZE
          BY <4>3, <1>2, <1>6
        <4> QED BY <4>1, <4>2, <4>3
      <3> QED BY <3>1
    <2>10. /\ m \in s.from..(t + k) /\ (t + k) - m <= READ_BUFFER_SIZE
           /\ s.len < (t + k) - s.from
      <3>1. /\ r.from \in Nat /\ t \in Nat /\ k \in Nat /\ r.from <= t /\ r.len \in Nat
            /\ READ_BUFFER_SIZE \in Nat /\ k <= READ_BUFFER_SIZE
        BY <1>1, <1>2
      <3>2. m \in Nat /\ t <= m /\ m <= t + k
        BY <2>1
      <3>3. m \in r.from..(t + k) /\ (t + k) - m <= READ_BUFFER_SIZE
        BY <3>1, <3>2
      <3>4. r.len < (t + k) - r.from
        BY <3>1, <1>2, <1>4, <1>6
      <3> QED BY <2>7, <3>3, <3>4
    <2>11. Receives(s, t + k)
      BY <2>7, <2>9, <2>10 DEF Receives
    <2>12. Called(s, t + k)
      BY <2>7, <1>3 DEF CallInv, Called, FileCalls
    <2>13. CallInv(s, t + k, p)
      BY <2>7, <2>11, <2>12 DEF CallInv, Reads, Fills, Lines, Copies, FileCalls
    <2> QED BY <2>6, <2>7, <2>8, <2>13 DEF b
  <1>5. CASE ~(r.total + k > r.len)
    <2> HIDE DEF b
    <2> DEFINE s == [r EXCEPT !.result = @ \o b, !.total = @ + Len(b),
                              !.busy = (Len(b) = READ_BUFFER_SIZE)]
    <2>1. s = RecvTakes(r, b)
      BY <1>1, <1>5 DEF RecvTakes
    <2>2. /\ s.op = "recv" /\ s.from = r.from /\ s.result = Bytes(r.from + 1, t + k)
          /\ s.total = r.total + k /\ s.len = r.len /\ s.waitall = r.waitall
          /\ s.first = r.first /\ s.busy = (k = READ_BUFFER_SIZE)
      BY <1>1, <1>2, <1>3 DEF ReadCall
    <2>3. s \in ReadCall
      <3>1. r.result \in Seq(Nat) /\ r.total + Len(b) \in Int
        BY <1>1, <1>2 DEF ReadCall
      <3>2. r.result \o b \in Seq(Nat)
        BY <1>1, <3>1, ConcatProperties
      <3>3. (Len(b) = READ_BUFFER_SIZE) \in BOOLEAN
        OBVIOUS
      <3> QED BY <1>2, <3>1, <3>2, <3>3, StaysACall
    <2> HIDE DEF s
    <2>4. /\ s.total <= s.len
          /\ s.total = (t + k) - s.from \/ (s.waitall /\ s.total = (t + k) - s.from - 1)
      <3>1. r.total + k <= r.len
        BY <1>1, <1>2, <1>5
      <3>2. r.total = t - r.from => r.total + k = (t + k) - r.from
        BY <1>1, <1>2
      <3>3. r.total = t - r.from - 1 => r.total + k = (t + k) - r.from - 1
        BY <1>1, <1>2
      <3> QED BY <2>2, <3>1, <3>2, <3>3, <1>3
    <2>5. s.busy => s.waitall \/ s.total = 0 \/ s.total >= READ_BUFFER_SIZE
      <3>1. ASSUME ~r.waitall, k = READ_BUFFER_SIZE
            PROVE  r.total + k >= READ_BUFFER_SIZE
        <4>1. r.total = 0 \/ r.total >= READ_BUFFER_SIZE
          BY <1>7, <3>1
        <4> QED BY <3>1, <4>1, <1>1, <1>2
      <3> QED BY <2>2, <3>1
    <2>6. Receives(s, t + k)
      BY <2>2, <2>4, <2>5 DEF Receives
    <2>7. Called(s, t + k)
      BY <2>2, <1>3 DEF CallInv, Called, FileCalls
    <2>8. CallInv(s, t + k, p)
      BY <2>2, <2>6, <2>7 DEF CallInv, Reads, Fills, Lines, Copies, FileCalls
    <2> QED BY <2>1, <2>2, <2>3, <2>8 DEF b
  <1> QED BY <1>4, <1>5

LEMMA OnceTakesKeeps ==
  ASSUME NEW r, NEW t, NEW k, NEW p, Given(r, t, k), CallInv(r, t, p), r.op = "recvInBuffer"
  PROVE  LET s == OnceTakes(r, Bytes(t + 1, t + k))
         IN  s \in ReadCall /\ s.from = r.from /\ CallInv(s, t + k, p)
  <1> DEFINE b == Bytes(t + 1, t + k)
  <1>1. b \in Seq(Nat) /\ Len(b) \in Int
    BY ChunkIs
  <1>2. r \in ReadCall /\ medium # "file"
    BY DEF CallInv, Given, Called, FileCalls
  <1> HIDE DEF b
  <1> DEFINE s == [r EXCEPT !.result = b, !.total = Len(b), !.busy = FALSE]
  <1>3. s = OnceTakes(r, b)
    BY <1>2 DEF OnceTakes, Returned, ReadCall
  <1>4. s.op = "recvInBuffer" /\ s.from = r.from
    BY <1>2 DEF ReadCall
  <1>5. s \in ReadCall
    <2>1. FALSE \in BOOLEAN
      OBVIOUS
    <2> QED BY <1>1, <1>2, <2>1, StaysACall
  <1> HIDE DEF s
  <1>6. CallInv(s, t + k, p)
    BY <1>2, <1>4 DEF CallInv, Called, Reads, Receives, Fills, Lines, Copies, FileCalls
  <1> QED BY <1>3, <1>4, <1>5, <1>6 DEF b

\* The first chunk is all of the result; a later one leaves a full buffer full.
LEMMA OverwrittenIs ==
  ASSUME NEW old \in Seq(Nat), NEW b \in Seq(Nat)
  PROVE  /\ Overwritten(old, b) \in Seq(Nat)
         /\ Len(old) = 0 => Overwritten(old, b) = b
         /\ Len(b) <= Len(old) => Len(Overwritten(old, b)) = Len(old)
  <1> DEFINE rest == SubSeq(old, Len(b) + 1, Len(old))
  <1>1. Len(old) \in Nat /\ Len(b) \in Nat
    BY LenProperties
  <1>2. \A i \in 1..Len(old) : old[i] \in Nat
    BY ElementOfSeq
  <1>3. \A i \in (Len(b) + 1)..Len(old) : old[i] \in Nat
    BY <1>1, <1>2
  <1>4. /\ rest \in Seq(Nat)
        /\ Len(rest) = IF Len(b) + 1 <= Len(old) THEN Len(old) - (Len(b) + 1) + 1 ELSE 0
    <2>1. Len(b) + 1 \in Int /\ Len(old) \in Int
      BY <1>1
    <2> QED BY <1>3, <2>1, SubSeqProperties
  <1>5. Len(old) = 0 => rest = <<>>
    <2>1. Len(b) + 1 \in Int /\ Len(old) \in Int /\ (Len(old) = 0 => Len(old) < Len(b) + 1)
      BY <1>1
    <2> QED BY <2>1, SubSeqEmpty
  <1> HIDE DEF rest
  <1>6. b \o rest \in Seq(Nat) /\ Len(b \o rest) = Len(b) + Len(rest)
    BY <1>4, ConcatProperties
  <1>7. b \o <<>> = b
    BY ConcatEmptySeq
  <1>8. Len(b) <= Len(old) => Len(b) + Len(rest) = Len(old)
    BY <1>1, <1>4
  <1> QED BY <1>5, <1>6, <1>7, <1>8 DEF rest, Overwritten

LEMMA BufferTakesKeeps ==
  ASSUME NEW r, NEW t, NEW k, NEW p, Given(r, t, k), CallInv(r, t, p),
         r.op \in {"readInBuffer", "readFile"}, r.busy, k <= BufferLength(r),
         r.op = "readFile" => k = BufferLength(r) \/ t + k = p
  PROVE  LET s == BufferTakes(r, Bytes(t + 1, t + k))
         IN  s \in ReadCall /\ s.from = r.from /\ CallInv(s, t + k, p)
  <1> DEFINE b == Bytes(t + 1, t + k)
  <1> DEFINE size == BufferLength(r)
  <1>1. /\ r.from \in Nat /\ t \in Nat /\ k \in Nat
        /\ b \in Seq(Nat) /\ Len(b) = k
    BY ChunkIs
  <1>2. /\ r \in ReadCall /\ r.result \in Seq(Nat) /\ r.from <= t /\ k > 0
    BY DEF Given, ReadCall
  <1>3. size \in Int /\ size > 0 /\ r.total = t - r.from
    <2>1. r.len \in Nat
      BY <1>2 DEF ReadCall
    <2>2. size \in Int
      BY <2>1 DEF BufferLength, SizeLessOne
    <2> QED BY <2>2 DEF CallInv, Fills
  <1>4. /\ r.total = 0 \/ r.total >= size
        /\ r.total <= size => r.result = Bytes(r.from + 1, t)
        /\ r.total > size => Len(r.result) = size
    BY <1>3 DEF CallInv, Fills
  <1> HIDE DEF size
  <1>5. Len(Bytes(r.from + 1, t)) = t - r.from
    BY <1>1, <1>2, RunIs
  <1> DEFINE result == Overwritten(r.result, b)
  <1>6. result \in Seq(Nat)
    BY <1>1, <1>2, OverwrittenIs
  <1>7. t \in Nat /\ k \in Nat /\ k > 0 /\ r.from \in Nat /\ r.from <= t
    BY <1>1, <1>2
  <1>8. ASSUME r.total = 0
        PROVE  result = Bytes(r.from + 1, t + k)
    <2>1. t = r.from /\ r.total <= size
      BY <1>3, <1>7, <1>8
    <2>2. Len(r.result) = 0
      BY <1>4, <1>5, <1>3, <1>8, <2>1
    <2>3. result = b
      BY <1>1, <1>2, <2>2, OverwrittenIs
    <2> QED BY <2>1, <2>3
  <1>9. ASSUME r.total >= size
        PROVE  Len(result) = size
    <2>1. r.total = size \/ r.total > size
      BY <1>3, <1>7, <1>9
    <2>2. r.total = size => r.total <= size
      BY <1>3
    <2>3. Len(r.result) = size
      BY <1>3, <1>4, <1>5, <2>1, <2>2
    <2>4. Len(b) <= Len(r.result)
      BY <1>1, <2>3 DEF size
    <2> QED BY <1>1, <1>2, <2>3, <2>4, OverwrittenIs
  <1> DEFINE s == [r EXCEPT !.result = result, !.total = @ + Len(b),
                            !.busy = (Len(b) = BufferLength(r))]
  <1>10. s = BufferTakes(r, b)
    BY DEF BufferTakes
  <1> HIDE DEF b, result
  <1>11. s.op = r.op /\ s.from = r.from /\ s.result = result /\ s.total = r.total + k /\ s.len = r.len
         /\ s.busy = (k = size)
    BY <1>1, <1>2 DEF ReadCall, size
  <1>12. s \in ReadCall
    <2>1. r.total + Len(b) \in Int /\ (Len(b) = BufferLength(r)) \in BOOLEAN
      BY <1>1, <1>2 DEF ReadCall
    <2> QED BY <1>2, <1>6, <2>1, StaysACall
  <1> HIDE DEF s
  <1>13. BufferLength(s) = size
    BY <1>11 DEF BufferLength, size
  <1>14. s.total = (t + k) - s.from
    BY <1>3, <1>7, <1>11
  <1>15. s.total <= size => s.result = Bytes(s.from + 1, t + k)
    <2>1. s.total <= size => ~(r.total >= size)
      BY <1>3, <1>7, <1>11
    <2> QED BY <2>1, <1>4, <1>8, <1>11
  <1>16. s.total > size => Len(s.result) = size
    <2>1. k <= size
      BY DEF size
    <2>2. s.total > size => ~(r.total = 0)
      BY <1>3, <1>7, <1>11, <2>1
    <2> QED BY <2>2, <1>4, <1>9, <1>11
  <1>17. s.busy => s.total >= size
    <2>1. k = size => r.total + k >= size
      BY <1>3, <1>7
    <2> QED BY <2>1, <1>11
  <1>18. s.op = "readFile" /\ ~s.busy => t + k = p
    BY <1>11 DEF size
  <1>19. Fills(s, t + k, p)
    <2>1. ~(size = 0)
      BY <1>3
    <2> QED BY <1>3, <1>13, <1>14, <1>15, <1>16, <1>17, <1>18, <2>1 DEF Fills
  <1>20. Called(s, t + k)
    BY <1>11 DEF CallInv, Called, FileCalls
  <1>21. CallInv(s, t + k, p)
    BY <1>11, <1>19, <1>20 DEF CallInv, Reads, Receives, Lines, Copies
  <1> QED BY <1>10, <1>11, <1>12, <1>21 DEF b

-----------------------------------------------------------------------------
(* StreamLoops: lines *)

\* Of the k bytes behind t, those up to m are the line's, or what there is of it.
LineTaken(r, t, k, m) ==
    /\ Plain(t, m)
    /\ m < t + k => m + 1 \in newline
    /\ LineTakes(r, Bytes(t + 1, t + k)) \in ReadCall
    /\ LineTakes(r, Bytes(t + 1, t + k)) =
          [r EXCEPT !.result = @ \o Bytes(t + 1, m), !.total = @ + (m - t), !.busy = (m = t + k)]

LEMMA LineTakesIs ==
  ASSUME NEW r, NEW t, NEW k, Given(r, t, k)
  PROVE  \E m \in t..(t + k) : LineTaken(r, t, k, m)
  <1> DEFINE b == Bytes(t + 1, t + k)
  <1>1. /\ r.from \in Nat /\ t \in Nat /\ k \in Nat
        /\ b \in Seq(Nat) /\ Len(b) = k
    BY ChunkIs
  <1>2. PICK m \in t..(t + k) :
               /\ UpToNewline(b) = Bytes(t + 1, m)
               /\ Plain(t, m)
               /\ m < t + k => m + 1 \in newline
    BY <1>1, UpToNewlineIs
  <1> DEFINE u == Bytes(t + 1, m)
  <1>3. m \in Nat /\ t <= m /\ t \in Nat /\ k \in Nat /\ m - t \in Nat
    BY <1>1, <1>2
  <1>4. u \in Seq(Nat) /\ Len(u) = m - t
    BY <1>3, RunIs
  <1>5. (Len(u) = Len(b)) = (m = t + k)
    <2>1. (m - t = k) = (m = t + k)
      BY <1>3
    <2> QED BY <2>1, <1>1, <1>4
  <1> HIDE DEF b
  <1> DEFINE s == LineTakes(r, b)
  <1>6. s = [r EXCEPT !.result = @ \o u, !.total = @ + Len(u), !.busy = (Len(u) = Len(b))]
    BY <1>2 DEF LineTakes
  <1>7. s = [r EXCEPT !.result = @ \o u, !.total = @ + (m - t), !.busy = (m = t + k)]
    BY <1>4, <1>5, <1>6
  <1>8. s \in ReadCall
    <2> HIDE DEF u
    <2>1. r \in ReadCall /\ r.result \in Seq(Nat) /\ r.total \in Int
      BY DEF Given, ReadCall
    <2>2. r.result \o u \in Seq(Nat)
      BY <1>4, <2>1, ConcatProperties
    <2>3. r.total + (m - t) \in Int /\ (m = t + k) \in BOOLEAN
      BY <1>3, <2>1
    <2> HIDE DEF s
    <2> QED BY <1>7, <2>1, <2>2, <2>3, StaysACall
  <1> HIDE DEF s
  <1>9. LineTaken(r, t, k, m)
    BY <1>2, <1>7, <1>8 DEF b, s, LineTaken
  <1> QED BY <1>9

LEMMA PlainOn ==
  ASSUME NEW f \in Nat, NEW t \in Nat, NEW m \in Nat, f <= t, t <= m, Plain(f, t), Plain(t, m)
  PROVE  Plain(f, m)
  <1>1. ASSUME NEW i \in (f + 1)..m
        PROVE  i \notin newline
    <2>1. CASE i <= t
      <3>1. i \in (f + 1)..t
        BY <2>1
      <3> QED BY <3>1 DEF Plain
    <2>2. CASE ~(i <= t)
      <3>1. i \in (t + 1)..m
        BY <2>2
      <3> QED BY <3>1 DEF Plain
    <2> QED BY <2>1, <2>2
  <1> QED BY <1>1 DEF Plain

LEMMA LineTakesKeeps ==
  ASSUME NEW r, NEW t, NEW k, NEW p, Given(r, t, k), CallInv(r, t, p), r.op = "readLine", r.busy,
         k <= READ_BUFFER_SIZE
  PROVE  LET s == LineTakes(r, Bytes(t + 1, t + k))
         IN  s \in ReadCall /\ s.from = r.from /\ CallInv(s, t + k, p)
  <1> DEFINE b == Bytes(t + 1, t + k)
  <1> DEFINE s == LineTakes(r, b)
  <1>1. PICK m \in t..(t + k) : LineTaken(r, t, k, m)
    BY LineTakesIs
  <1>2. /\ r.from \in Nat /\ t \in Nat /\ k \in Nat /\ r.from <= t /\ m \in Nat
        /\ t <= m /\ m <= t + k
    <2>1. r.from \in Nat /\ t \in Nat /\ k \in Nat /\ r.from <= t
      BY DEF Given, ReadCall
    <2> QED BY <1>1, <2>1
  <1>10. /\ Plain(t, m) /\ (m < t + k => m + 1 \in newline)
         /\ s \in ReadCall
         /\ s = [r EXCEPT !.result = @ \o Bytes(t + 1, m), !.total = @ + (m - t),
                          !.busy = (m = t + k)]
    BY <1>1 DEF LineTaken
  <1>3. /\ r \in ReadCall /\ r.result = Bytes(r.from + 1, t) /\ Plain(r.from, t) /\ medium # "file"
    BY DEF CallInv, Lines, Given, Called, FileCalls
  <1> HIDE DEF s
  <1>4. Bytes(r.from + 1, t) \o Bytes(t + 1, m) = Bytes(r.from + 1, m)
    BY <1>2, RunsJoin
  <1>5. Plain(r.from, m)
    BY <1>10, <1>2, <1>3, PlainOn
  <1>6. /\ s.op = "readLine" /\ s.from = r.from /\ s.result = Bytes(r.from + 1, m)
        /\ s.busy = (m = t + k) /\ s.len = r.len
    BY <1>10, <1>3, <1>4 DEF ReadCall
  <1>7. m \in s.from..(t + k) /\ (t + k) - m <= READ_BUFFER_SIZE
    <2>1. READ_BUFFER_SIZE \in Nat
      BY SizesAssumption
    <2> QED BY <1>2, <1>6, <2>1
  <1>8. Lines(s, t + k)
    BY <1>10, <1>5, <1>6, <1>7 DEF Lines
  <1>9. CallInv(s, t + k, p)
    BY <1>3, <1>6, <1>8 DEF CallInv, Called, Reads, Receives, Fills, Copies, FileCalls
  <1> QED BY <1>10, <1>6, <1>9 DEF s

LEMMA CopyGrows ==
  ASSUME NEW c \in Seq(Nat), NEW t \in Nat, NEW k \in Nat, NEW m \in t..(t + k), CopyOf(c, t),
         Plain(t, m), m < t + k => m + 1 \in newline
  PROVE  CopyOf(c \o Bytes(t + 1, m), t + k)
  <1> DEFINE u == Bytes(t + 1, m)
  <1> DEFINE d == c \o u
  <1>1. m \in Nat /\ t <= m /\ m <= t + k
    OBVIOUS
  <1>2. u \in Seq(Nat) /\ Len(u) = m - t /\ \A i \in 1..(m - t) : u[i] = t + i
    BY <1>1, RunIs
  <1>3. Len(c) \in Nat
    BY LenProperties
  <1> HIDE DEF u
  <1>4. /\ Len(d) = Len(c) + Len(u)
        /\ \A i \in 1..(Len(c) + Len(u)) : d[i] = IF i <= Len(c) THEN c[i] ELSE u[i - Len(c)]
    BY <1>2, ConcatProperties
  <1>5. Len(d) = Len(c) + (m - t)
    BY <1>2, <1>4
  <1>6. \A i \in 1..Len(c) : d[i] = c[i]
    <2>1. ASSUME NEW i \in 1..Len(c)
          PROVE  d[i] = c[i]
      <3>1. i \in 1..(Len(c) + Len(u)) /\ i <= Len(c)
        BY <1>1, <1>2, <1>3
      <3> QED BY <3>1, <1>4
    <2> QED BY <2>1
  <1>7. \A j \in 1..(m - t) : d[Len(c) + j] = t + j
    <2>1. ASSUME NEW j \in 1..(m - t)
          PROVE  d[Len(c) + j] = t + j
      <3>1. /\ Len(c) + j \in 1..(Len(c) + Len(u)) /\ ~(Len(c) + j <= Len(c))
            /\ (Len(c) + j) - Len(c) = j
        BY <1>1, <1>2, <1>3
      <3> QED BY <3>1, <1>2, <1>4
    <2> QED BY <2>1
  <1> HIDE DEF d
  <1> DEFINE n == Len(c)
  <1>8. /\ n \in Nat
        /\ \A i \in 1..(n - 1) : c[i] < c[i + 1]
        /\ \A i \in 1..n : c[i] \in 1..t /\ c[i] \notin newline
        /\ \A b \in 1..t : (\E i \in 1..n : c[i] = b) \/ (\E e \in newline : e <= b)
    BY <1>3 DEF CopyOf, InOrder
  <1> HIDE DEF n
  <1>9. /\ Len(d) = n + (m - t)
        /\ \A i \in 1..n : d[i] = c[i]
        /\ \A j \in 1..(m - t) : d[n + j] = t + j
    BY <1>5, <1>6, <1>7 DEF n
  <1>10. InOrder(d)
    <2>1. ASSUME NEW i \in 1..(n + (m - t) - 1)
          PROVE  d[i] < d[i + 1]
      <3>1. CASE i < n
        <4>1. i \in 1..(n - 1) /\ i \in 1..n /\ i + 1 \in 1..n
          BY <3>1, <1>8
        <4> QED BY <4>1, <1>8, <1>9
      <3>2. CASE i = n
        <4>1. i \in 1..n /\ 1 \in 1..(m - t)
          BY <3>2, <1>1, <1>8
        <4>2. d[i] \in 1..t /\ d[n + 1] = t + 1
          BY <4>1, <1>8, <1>9
        <4> QED BY <3>2, <4>2
      <3>3. CASE i > n
        <4>1. i - n \in 1..(m - t) /\ (i - n) + 1 \in 1..(m - t)
          BY <3>3, <1>1, <1>8
        <4>2. d[n + (i - n)] = t + (i - n) /\ d[n + ((i - n) + 1)] = t + ((i - n) + 1)
          BY <4>1, <1>9
        <4>3. n + (i - n) = i /\ n + ((i - n) + 1) = i + 1
          BY <1>8
        <4>4. t + (i - n) < t + ((i - n) + 1)
          BY <1>8
        <4> QED BY <4>2, <4>3, <4>4
      <3>4. n \in Nat
        BY <1>8
      <3>5. i < n \/ i = n \/ i > n
        BY <3>4
      <3> QED BY <3>1, <3>2, <3>3, <3>5
    <2>2. Len(d) - 1 = n + (m - t) - 1
      <3>1. Len(d) = n + (m - t) /\ n \in Nat
        BY <1>8, <1>9
      <3> QED BY <3>1
    <2> QED BY <2>1, <2>2 DEF InOrder
  <1>11. ASSUME NEW i \in 1..(n + (m - t))
         PROVE  d[i] \in 1..(t + k) /\ d[i] \notin newline
    <2>1. CASE i <= n
      <3>1. i \in 1..n
        BY <2>1, <1>8
      <3>2. d[i] \in 1..t /\ d[i] \notin newline
        BY <3>1, <1>8, <1>9
      <3> QED BY <3>2
    <2>2. CASE ~(i <= n)
      <3>1. i - n \in 1..(m - t) /\ n + (i - n) = i
        BY <2>2, <1>1, <1>8
      <3>2. d[i] = t + (i - n)
        BY <3>1, <1>9
      <3>3. t + (i - n) \in (t + 1)..m /\ t + (i - n) \in 1..(t + k)
        BY <3>1, <1>1, <1>8
      <3> QED BY <3>2, <3>3 DEF Plain
    <2> QED BY <2>1, <2>2
  <1>12. ASSUME NEW b \in 1..(t + k)
         PROVE  (\E i \in 1..(n + (m - t)) : d[i] = b) \/ (\E e \in newline : e <= b)
    <2>1. CASE b <= t
      <3>1. b \in 1..t
        BY <2>1
      <3>2. ASSUME NEW i \in 1..n, c[i] = b
            PROVE  i \in 1..(n + (m - t)) /\ d[i] = b
        BY <3>2, <1>1, <1>8, <1>9
      <3> QED BY <3>1, <3>2, <1>8
    <2>2. CASE t < b /\ b <= m
      <3>1. b - t \in 1..(m - t) /\ n + (b - t) \in 1..(n + (m - t)) /\ t + (b - t) = b
        BY <2>2, <1>1, <1>8
      <3>2. d[n + (b - t)] = b
        BY <3>1, <1>9
      <3> QED BY <3>1, <3>2
    <2>3. CASE m < b
      <3>1. m < t + k /\ m + 1 <= b
        BY <2>3, <1>1
      <3> QED BY <3>1
    <2> QED BY <2>1, <2>2, <2>3, <1>1
  <1>13. CopyOf(d, t + k)
    BY <1>9, <1>10, <1>11, <1>12 DEF CopyOf
  <1> QED BY <1>13 DEF d, u

LEMMA CopyTakesKeeps ==
  ASSUME NEW r, NEW t, NEW k, NEW p, Given(r, t, k), CallInv(r, t, p), r.op = "copyTo", r.busy
  PROVE  LET s == CopyTakes(r, Bytes(t + 1, t + k))
         IN  s \in ReadCall /\ s.from = r.from /\ CallInv(s, t + k, p)
  <1> DEFINE b == Bytes(t + 1, t + k)
  <1> DEFINE line == LineTakes(r, b)
  <1>1. PICK m \in t..(t + k) : LineTaken(r, t, k, m)
    BY LineTakesIs
  <1>2. /\ t \in Nat /\ k \in Nat /\ m \in Nat /\ t <= m /\ m <= t + k
    <2>1. t \in Nat /\ k \in Nat
      BY DEF Given
    <2> QED BY <1>1, <2>1
  <1> DEFINE u == Bytes(t + 1, m)
  <1>3. /\ Plain(t, m) /\ (m < t + k => m + 1 \in newline)
        /\ line \in ReadCall
        /\ line = [r EXCEPT !.result = @ \o u, !.total = @ + (m - t), !.busy = (m = t + k)]
    BY <1>1 DEF LineTaken
  <1>4. u \in Seq(Nat) /\ Len(u) = m - t
    BY <1>2, RunIs
  <1>5. /\ r \in ReadCall /\ r.result \in Seq(Nat) /\ r.copied \in Seq(Nat) /\ r.total = Len(r.result)
        /\ medium = "file" /\ r.from = 0
        /\ CopyOf(r.copied \o r.result, t)
    BY DEF CallInv, Copies, Copied, Called, Given, ReadCall, FileCalls
  <1> HIDE DEF b, line, u
  <1>6. /\ r.copied \o r.result \in Seq(Nat) /\ r.result \o u \in Seq(Nat)
        /\ Len(r.result \o u) = Len(r.result) + Len(u)
        /\ r.copied \o (r.result \o u) \in Seq(Nat)
    <2>1. u \in Seq(Nat) /\ r.result \in Seq(Nat) /\ r.copied \in Seq(Nat)
      BY <1>4, <1>5
    <2>2. r.result \o u \in Seq(Nat) /\ Len(r.result \o u) = Len(r.result) + Len(u)
      BY <2>1, ConcatProperties
    <2>3. r.copied \o r.result \in Seq(Nat)
      BY <2>1, ConcatProperties
    <2>4. r.copied \o (r.result \o u) \in Seq(Nat)
      BY <2>1, <2>2, ConcatProperties
    <2> QED BY <2>2, <2>3, <2>4
  <1>7. (r.copied \o r.result) \o u = r.copied \o (r.result \o u)
    <2>1. u \in Seq(Nat) /\ r.result \in Seq(Nat) /\ r.copied \in Seq(Nat)
      BY <1>4, <1>5
    <2> DEFINE x == r.copied
    <2> DEFINE y == r.result
    <2> HIDE DEF x, y
    <2>2. x \in Seq(Nat) /\ y \in Seq(Nat)
      BY <2>1 DEF x, y
    <2>3. (x \o y) \o u = x \o (y \o u)
      BY <2>1, <2>2, Grouped, SMTT(30)
    <2> QED BY <2>3 DEF x, y
  <1>8. CopyOf(r.copied \o (r.result \o u), t + k)
    <2>1. CopyOf((r.copied \o r.result) \o u, t + k)
      BY <1>2, <1>3, <1>5, <1>6, CopyGrows DEF u
    <2> QED BY <2>1, <1>7
  <1> DEFINE whole == r.result \o u
  <1>9. /\ line.op = "copyTo" /\ line.from = 0 /\ line.copied = r.copied /\ line.result = whole
        /\ line.total = r.total + (m - t) /\ line.busy = (m = t + k)
    BY <1>3, <1>5 DEF ReadCall
  <1>10. line.total = Len(whole)
    BY <1>4, <1>5, <1>6, <1>9
  <1>11. whole \in Seq(Nat) /\ r.copied \o whole \in Seq(Nat) /\ CopyOf(r.copied \o whole, t + k)
    BY <1>6, <1>8
  <1> HIDE DEF whole
  <1>12. CASE line.busy
    <2>1. CopyTakes(r, b) = line
      BY <1>12 DEF CopyTakes, line
    <2>2. Copies(line, t + k, p)
      BY <1>9, <1>10, <1>11, <1>12 DEF Copies, Copied
    <2>3. CallInv(line, t + k, p)
      BY <1>5, <1>9, <2>2 DEF CallInv, Called, Reads, Receives, Fills, Lines, FileCalls
    <2> QED BY <1>3, <1>5, <1>9, <2>1, <2>3 DEF b
  <1>13. CASE ~line.busy
    <2> DEFINE s == [r EXCEPT !.copied = @ \o whole, !.result = <<>>, !.total = 0,
                              !.busy = (line.total > 0)]
    <2>1. CopyTakes(r, b) = s
      BY <1>13, <1>9 DEF CopyTakes, line
    <2>2. /\ s.op = "copyTo" /\ s.from = 0 /\ s.copied = r.copied \o whole /\ s.result = <<>>
          /\ s.total = 0 /\ s.busy = (line.total > 0)
      BY <1>5 DEF ReadCall
    <2>3. s \in ReadCall
      <3>1. (line.total > 0) \in BOOLEAN
        OBVIOUS
      <3>2. <<>> \in Seq(Nat)
        BY EmptySeq
      <3>3. 0 \in Int
        OBVIOUS
      <3> QED BY <3>1, <3>2, <3>3, <1>5, <1>11, NextLineIsACall
    <2> HIDE DEF s
    <2>4. Copied(s) = r.copied \o whole
      BY <1>11, <2>2, ConcatEmptySeq DEF Copied
    <2>5. \E e \in newline : e <= t + k
      <3>1. m < t + k
        <4>1. m # t + k
          BY <1>9, <1>13
        <4> QED BY <4>1, <1>2
      <3>2. m + 1 \in newline /\ m + 1 <= t + k
        BY <3>1, <1>2, <1>3
      <3> QED BY <3>2
    <2>6. Copies(s, t + k, p)
      BY <1>11, <2>2, <2>4, <2>5 DEF Copies
    <2>7. CallInv(s, t + k, p)
      BY <1>5, <2>2, <2>6 DEF CallInv, Called, Reads, Receives, Fills, Lines, FileCalls
    <2> QED BY <1>5, <2>1, <2>2, <2>3, <2>7 DEF b
  <1> QED BY <1>12, <1>13

-----------------------------------------------------------------------------
(* StreamLoops: calls that begin, and calls that end without a chunk *)

LEMMA EmptyRun ==
  ASSUME NEW t \in Nat
  PROVE  Bytes(t + 1, t) = <<>> /\ Plain(t, t)
  <1>1. Bytes(t + 1, t) \in Seq(Nat) /\ Len(Bytes(t + 1, t)) = 0
    <2>1. t <= t /\ t - t = 0
      OBVIOUS
    <2> QED BY <2>1, RunIs
  <1>2. Bytes(t + 1, t) = <<>>
    BY <1>1, EmptySeq
  <1> QED BY <1>2 DEF Plain

LEMMA ReturnedKeeps ==
  ASSUME NEW r \in ReadCall, NEW t \in Nat, NEW p, CallInv(r, t, p), r.from <= t, r.busy,
         ~(r.op = "recv" /\ r.first), r.op \in FileCalls => t = p,
         r.op = "copyTo" => ~(r.total > 0)
  PROVE  Returned(r) \in ReadCall /\ Returned(r).from = r.from /\ CallInv(Returned(r), t, p)
  <1> DEFINE s == [r EXCEPT !.busy = FALSE]
  <1>1. s = Returned(r)
    BY DEF Returned
  <1>2. s \in ReadCall
    BY DEF ReadCall
  <1>3. /\ s.op = r.op /\ s.from = r.from /\ s.result = r.result /\ s.total = r.total
        /\ s.len = r.len /\ s.copied = r.copied /\ s.waitall = r.waitall /\ s.first = r.first
        /\ ~s.busy
    BY DEF ReadCall
  <1> HIDE DEF s
  <1>4. BufferLength(s) = BufferLength(r)
    BY <1>3 DEF BufferLength
  <1>5. Called(s, t) /\ Reads(s, t)
    BY <1>3 DEF CallInv, Called, Reads
  <1>6. Receives(s, t)
    BY <1>3 DEF CallInv, Receives
  <1>7. Fills(s, t, p)
    BY <1>3, <1>4 DEF CallInv, Fills, FileCalls
  <1>8. Lines(s, t)
    <2>1. ASSUME s.op = "readLine"
          PROVE  /\ t \in s.from..t /\ s.result = Bytes(s.from + 1, t) /\ Plain(s.from, t)
                 /\ ~(t < t) /\ t - t <= READ_BUFFER_SIZE
      <3>1. s.result = Bytes(s.from + 1, t) /\ Plain(s.from, t)
        BY <2>1, <1>3 DEF CallInv, Lines
      <3>2. r.from \in Nat
        BY DEF ReadCall
      <3> QED BY <3>1, <3>2, <1>3, SizesAssumption
    <2> QED BY <2>1, <1>3 DEF Lines
  <1>9. Copies(s, t, p)
    <2>1. ASSUME s.op = "copyTo"
          PROVE  s.result = <<>>
      <3>1. Len(s.result) = 0
        <4>1. s.total = Len(s.result) /\ ~(s.total > 0) /\ s.result \in Seq(Nat)
          BY <2>1, <1>2, <1>3 DEF CallInv, Copies, ReadCall
        <4>2. Len(s.result) \in Nat
          BY <4>1, LenProperties
        <4> QED BY <4>1, <4>2
      <3>2. s.result \in Seq(Nat)
        BY <1>2 DEF ReadCall
      <3> QED BY <3>1, <3>2, EmptySeq
    <2>2. Copied(s) = Copied(r)
      BY <1>3 DEF Copied
    <2> QED BY <2>1, <2>2, <1>3 DEF CallInv, Copies, FileCalls
  <1> QED BY <1>1, <1>2, <1>3, <1>5, <1>6, <1>7, <1>8, <1>9 DEF CallInv

\* -1 is returned, and the result is what it was.
LEMMA ErrorKeeps ==
  ASSUME NEW r \in ReadCall, NEW t \in Nat, NEW p, CallInv(r, t, p), r.from <= t,
         r.op \in {"read", "readInBuffer", "recvInBuffer"}
  PROVE  LET s == Returned([r EXCEPT !.total = -1])
         IN  s \in ReadCall /\ s.from = r.from /\ CallInv(s, t, p)
  <1> DEFINE s == Returned([r EXCEPT !.total = -1])
  <1>1. s = [r EXCEPT !.result = r.result, !.total = -1, !.busy = FALSE]
    BY DEF Returned, ReadCall
  <1>2. s \in ReadCall
    <2>1. r.result \in Seq(Nat) /\ -1 \in Int /\ FALSE \in BOOLEAN
      BY DEF ReadCall
    <2> HIDE DEF s
    <2> QED BY <1>1, <2>1, StaysACall
  <1> HIDE DEF s
  <1>3. /\ s.op = r.op /\ s.from = r.from /\ s.result = r.result /\ s.total = -1
        /\ s.len = r.len /\ s.waitall = r.waitall /\ ~s.busy
    BY <1>1 DEF ReadCall
  <1>4. BufferLength(s) = BufferLength(r)
    BY <1>3 DEF BufferLength
  <1>5. Called(s, t) /\ Reads(s, t)
    BY <1>3 DEF CallInv, Called, Reads
  <1>6. Fills(s, t, p)
    <2>1. ~(-1 = t - r.from)
      <3>1. r.from \in Nat
        BY DEF ReadCall
      <3> QED BY <3>1
    <2> QED BY <2>1, <1>3, <1>4 DEF CallInv, Fills
  <1>7. CallInv(s, t, p)
    BY <1>3, <1>5, <1>6 DEF CallInv, Receives, Lines, Copies
  <1> QED BY <1>2, <1>3, <1>7 DEF s

LEMMA WaitEndsKeeps ==
  ASSUME NEW r \in ReadCall, NEW t \in Nat, NEW p, CallInv(r, t, p), r.op = "recv", r.first
  PROVE  /\ LET s == [r EXCEPT !.first = FALSE]
             IN  s \in ReadCall /\ s.from = r.from /\ CallInv(s, t, p)
         /\ LET s == [r EXCEPT !.first = FALSE, !.total = -1]
             IN  s \in ReadCall /\ s.from = r.from /\ CallInv(s, t, p)
  <1>1. /\ r.busy /\ r.waitall /\ t = r.from /\ medium # "file"
        /\ r.result = Bytes(r.from + 1, t) /\ r.total <= r.len
        /\ r.total = t - r.from \/ (r.waitall /\ r.total = t - r.from - 1)
    BY DEF CallInv, Receives, Called, FileCalls
  <1>2. ASSUME NEW n \in {r.total, -1}
        PROVE  LET s == [r EXCEPT !.first = FALSE, !.total = n]
               IN  s \in ReadCall /\ s.from = r.from /\ CallInv(s, t, p)
    <2> DEFINE s == [r EXCEPT !.first = FALSE, !.total = n]
    <2>1. n \in Int /\ r.len \in Nat /\ n <= r.len
      BY <1>1, <1>2 DEF ReadCall
    <2>2. s \in ReadCall
      BY <2>1 DEF ReadCall
    <2>3. /\ s.op = "recv" /\ s.from = r.from /\ s.result = r.result /\ s.total = n
          /\ s.len = r.len /\ s.waitall /\ ~s.first /\ s.busy
      BY <1>1 DEF ReadCall
    <2>4. n = t - s.from \/ n = t - s.from - 1
      BY <1>1, <1>2, <2>3
    <2> HIDE DEF s
    <2>5. Receives(s, t)
      BY <1>1, <2>1, <2>3, <2>4 DEF Receives
    <2>6. CallInv(s, t, p)
      BY <1>1, <2>3, <2>5 DEF CallInv, Called, Reads, Fills, Lines, Copies, FileCalls
    <2> QED BY <2>2, <2>3, <2>6 DEF s
  <1>3. [r EXCEPT !.first = FALSE] = [r EXCEPT !.first = FALSE, !.total = r.total]
    BY DEF ReadCall
  <1> QED BY <1>2, <1>3

LEMMA NextLineKeeps ==
  ASSUME NEW r \in ReadCall, NEW t \in Nat, NEW p, CallInv(r, t, p), r.op = "copyTo", r.busy
  PROVE  LET s == [r EXCEPT !.copied = @ \o r.result, !.result = <<>>, !.total = 0]
         IN  s \in ReadCall /\ s.from = r.from /\ CallInv(s, t, p)
  <1> DEFINE s == [r EXCEPT !.copied = @ \o r.result, !.result = <<>>, !.total = 0]
  <1>1. r.copied \in Seq(Nat) /\ r.result \in Seq(Nat)
    BY DEF ReadCall
  <1>2. r.copied \o r.result \in Seq(Nat)
    BY <1>1, ConcatProperties
  <1>3. s \in ReadCall
    <2>1. <<>> \in Seq(Nat)
      BY EmptySeq
    <2>2. 0 \in Int
      OBVIOUS
    <2> QED BY <1>2, <2>1, <2>2, NextLineIsACall
  <1>4. /\ s.op = "copyTo" /\ s.from = r.from /\ s.result = <<>> /\ s.total = 0
        /\ s.copied = r.copied \o r.result /\ s.busy
    BY DEF ReadCall
  <1> HIDE DEF s
  <1>5. Copied(s) = Copied(r)
    BY <1>2, <1>4, ConcatEmptySeq DEF Copied
  <1>6. Copies(s, t, p)
    BY <1>4, <1>5 DEF CallInv, Copies
  <1>7. CallInv(s, t, p)
    BY <1>4, <1>6 DEF CallInv, Called, Reads, Receives, Fills, Lines, FileCalls
  <1> QED BY <1>3, <1>4, <1>7 DEF s

\* What a call begins with.
LEMMA StartKeeps ==
  ASSUME NEW op \in StreamCalls \cup FileCalls, NEW len \in Nat, NEW waitall \in BOOLEAN,
         Start(op, len, waitall),
         taken \in Nat, len > 0,
         op \in FileCalls => medium = "file",
         op = "copyTo" => taken = 0,
         medium = "file" => op \in FileCalls,
         op = "readLine" => len = READ_BUFFER_SIZE
  PROVE  reading' \in ReadCall /\ reading'.from = taken /\ CallInv(reading', taken, put)
  <1> DEFINE busy == (op = "readFile" => SizeLessOne(len) > 0)
  <1> DEFINE s == reading'
  <1>1. s = [NotReading EXCEPT !.op = op, !.len = len, !.from = taken, !.waitall = waitall,
                               !.first = waitall, !.busy = busy]
    BY DEF Start
  <1>2. busy \in BOOLEAN
    OBVIOUS
  <1>3. SizeLessOne(len) \in Nat
    BY DEF SizeLessOne
  <1>4. (op # "readFile" => busy) /\ (op = "readFile" /\ ~busy => SizeLessOne(len) = 0)
        /\ (op = "readFile" /\ busy => SizeLessOne(len) > 0)
    BY <1>3
  <1> HIDE DEF busy
  <1>5. s = [op |-> op, len |-> len, from |-> taken, result |-> <<>>, total |-> 0,
             copied |-> <<>>, waitall |-> waitall, first |-> waitall, busy |-> busy]
    BY <1>1 DEF NotReading
  <1> HIDE DEF s
  <1>6. s \in ReadCall
    <2>1. <<>> \in Seq(Nat)
      BY EmptySeq
    <2> QED BY <1>2, <1>5, <2>1 DEF ReadCall, Reading
  <1>7. /\ s.op = op /\ s.len = len /\ s.from = taken /\ s.result = <<>> /\ s.total = 0
        /\ s.copied = <<>> /\ s.waitall = waitall /\ s.first = waitall /\ s.busy = busy
    BY <1>5
  <1>8. Bytes(taken + 1, taken) = <<>> /\ Plain(taken, taken)
    BY EmptyRun
  <1>9. taken - taken = 0 /\ taken <= taken
    OBVIOUS
  <1>10. Called(s, taken) /\ Reads(s, taken)
    <2>1. op # "none"
      BY DEF StreamCalls, FileCalls
    <2> QED BY <1>7, <1>8, <2>1 DEF Called, Reads, StreamCalls, FileCalls
  <1>11. Receives(s, taken)
    <2>1. op = "recv" => busy
      BY <1>4
    <2> QED BY <1>7, <1>8, <1>9, <2>1 DEF Receives
  <1>12. Fills(s, taken, put)
    <2>1. BufferLength(s) \in Nat /\ (busy /\ op \in {"readInBuffer", "readFile"} => BufferLength(s) > 0)
      BY <1>3, <1>4, <1>7 DEF BufferLength
    <2>2. op = "readInBuffer" => busy
      BY <1>4
    <2>3. op = "readFile" /\ ~busy => BufferLength(s) = 0
      BY <1>4, <1>7 DEF BufferLength
    <2>4. s.total = taken - s.from
      BY <1>7, <1>9
    <2>5. s.total <= BufferLength(s) /\ ~(s.total > BufferLength(s))
      BY <1>7, <2>1
    <2> QED BY <1>7, <1>8, <2>1, <2>2, <2>3, <2>4, <2>5 DEF Fills
  <1>13. Lines(s, taken)
    <2>1. op = "readLine" => busy
      BY <1>4
    <2> QED BY <1>7, <1>8, <2>1 DEF Lines
  <1>14. Copies(s, taken, put)
    <2>1. Copied(s) = <<>> /\ Len(<<>>) = 0
      BY <1>7 DEF Copied
    <2>2. CopyOf(<<>>, 0)
      BY DEF CopyOf, InOrder
    <2>3. op = "copyTo" => busy /\ taken = 0
      BY <1>4 DEF FileCalls
    <2> QED BY <1>7, <2>1, <2>2, <2>3 DEF Copies
  <1> QED BY <1>6, <1>7, <1>10, <1>11, <1>12, <1>13, <1>14 DEF CallInv, s

-----------------------------------------------------------------------------
(* StreamLoops: the invariant is inductive *)

LEMMA SizesAre ==
  READ_BUFFER_SIZE \in Nat /\ READ_BUFFER_SIZE > 0 /\ MaxBytes \in Nat /\ Capacity \in Nat
  BY SizesAssumption

\* Neither the medium nor the line ends change.
LEMMA SameMedium ==
  ASSUME UNCHANGED <<medium, newline>>, CallInv(reading', taken', put')
  PROVE  CallInv(reading, taken, put)'
  <1>1. Called(reading, taken)' /\ Reads(reading, taken)'
    BY DEF CallInv, Called, Reads
  <1>2. Receives(reading, taken)' /\ Fills(reading, taken, put)'
    BY DEF CallInv, Receives, Fills
  <1>3. Lines(reading, taken)'
    BY DEF CallInv, Lines, Plain
  <1>4. Copies(reading, taken, put)'
    BY DEF CallInv, Copies, CopyOf
  <1> QED BY <1>1, <1>2, <1>3, <1>4 DEF CallInv

\* A step of the reader keeps what the writer's part says.
LEMMA ReaderKeeps ==
  ASSUME LoopsInv, UNCHANGED <<medium, newline, put, writing>>,
         taken' \in Nat, taken' <= put,
         reading' \in ReadCall, reading'.from <= taken', CallInv(reading', taken', put)
  PROVE  LoopsInv'
  <1>1. CallInv(reading, taken, put)'
    BY SameMedium
  <1>2. LoopsTypes'
    BY DEF LoopsInv, LoopsTypes, ReadCall
  <1>3. Written(writing)'
    BY DEF LoopsInv, Written
  <1> QED BY <1>1, <1>2, <1>3 DEF LoopsInv

\* And a step of the writer, what the reader's says: it does not write to files.
LEMMA WriterKeeps ==
  ASSUME LoopsInv, UNCHANGED <<medium, newline, taken, reading>>, medium # "file",
         put' \in Nat, put <= put', put' <= MaxBytes,
         writing' \in WriteCall,
         Written(writing)'
  PROVE  LoopsInv'
  <1>1. LoopsTypes'
    BY DEF LoopsInv, LoopsTypes, ReadCall
  <1>2. CallInv(reading, taken, put')
    BY DEF LoopsInv, CallInv, Called, Fills, Copies, FileCalls
  <1>3. CallInv(reading, taken, put)'
    BY <1>2, SameMedium
  <1> QED BY <1>1, <1>3 DEF LoopsInv

LEMMA ReadCallIs ==
  ASSUME NEW op \in Reading, NEW len \in Nat, NEW from \in Nat, NEW result \in Seq(Nat),
         NEW total \in Int, NEW copied \in Seq(Nat), NEW waitall \in BOOLEAN,
         NEW first \in BOOLEAN, NEW busy \in BOOLEAN
  PROVE  [op |-> op, len |-> len, from |-> from, result |-> result, total |-> total,
          copied |-> copied, waitall |-> waitall, first |-> first, busy |-> busy] \in ReadCall
  BY DEF ReadCall

LEMMA WriteCallIs ==
  ASSUME NEW op \in Writing, NEW len \in Nat, NEW done \in Nat, NEW from \in Nat,
         NEW busy \in BOOLEAN
  PROVE  [op |-> op, len |-> len, done |-> done, from |-> from, busy |-> busy] \in WriteCall
  BY DEF WriteCall

LEMMA LoopsBegin ==
  ASSUME LoopsInit
  PROVE  LoopsInv
  <1>1. /\ put \in Nat /\ put <= MaxBytes /\ newline \subseteq Nat
    BY SizesAre DEF LoopsInit
  <1>2. NotReading \in ReadCall /\ NotWriting \in WriteCall
    <2>1. /\ <<>> \in Seq(Nat) /\ "none" \in Reading /\ "none" \in Writing
          /\ 0 \in Nat /\ 0 \in Int /\ FALSE \in BOOLEAN
      BY EmptySeq DEF Reading, Writing
    <2> QED BY <2>1, ReadCallIs, WriteCallIs DEF NotReading, NotWriting
  <1>3. LoopsTypes
    <2>1. NotReading.from = 0 /\ 0 <= 0
      BY DEF NotReading
    <2>2. taken \in Nat /\ taken <= put /\ reading.from <= taken
      BY <1>1, <2>1 DEF LoopsInit
    <2> QED BY <1>1, <1>2, <2>2 DEF LoopsInit, LoopsTypes
  <1>4. Written(writing)
    BY DEF LoopsInit, Written, NotWriting
  <1>5. CallInv(reading, taken, put)
    BY DEF LoopsInit, NotReading, CallInv, Called, Reads, Receives, Fills, Lines, Copies, FileCalls
  <1> QED BY <1>3, <1>4, <1>5 DEF LoopsInv

LEMMA WritingKeeps ==
  ASSUME LoopsInv,
         \/ \E op \in {"write", "send"}, len \in 1..MaxBytes : StartWrite(op, len)
         \/ \E k \in 1..Capacity : Put(k)
         \/ PutFails \/ End
  PROVE  LoopsInv'
  <1>1. /\ put \in Nat /\ put <= MaxBytes /\ put <= put
        /\ writing \in WriteCall
        /\ Written(writing)
    BY DEF LoopsInv, LoopsTypes
  <1>2. ASSUME NEW op \in {"write", "send"}, NEW len \in 1..MaxBytes, StartWrite(op, len)
        PROVE  LoopsInv'
    <2>1. /\ writing' = [op |-> op, len |-> len, done |-> 0, from |-> put, busy |-> TRUE]
          /\ put' = put /\ medium' = medium /\ medium # "file" /\ put + len <= MaxBytes
          /\ UNCHANGED <<newline, taken, reading>>
      BY <1>2 DEF StartWrite
    <2>2. writing' \in WriteCall
      <3>1. op \in Writing /\ len \in Nat /\ 0 \in Nat /\ TRUE \in BOOLEAN
        BY SizesAre DEF Writing
      <3> QED BY <1>1, <2>1, <3>1, WriteCallIs
    <2>3. Written(writing)'
      BY <1>1, <2>1, SizesAre DEF Written
    <2> QED BY <1>1, <2>1, <2>2, <2>3, WriterKeeps
  <1>3. ASSUME NEW k \in 1..Capacity, Put(k)
        PROVE  LoopsInv'
    <2>1. /\ writing.busy /\ k <= writing.len - writing.done /\ put' = put + k
          /\ UNCHANGED <<medium, newline, taken, reading>>
          /\ writing' = [writing EXCEPT !.done = @ + k,
                            !.busy = WritesOn(writing.op, writing.done + k, writing.len)]
      BY <1>3 DEF Put
    <2>2. /\ writing.op # "none" /\ medium # "file" /\ put = writing.from + writing.done
          /\ writing.from + writing.len <= MaxBytes
      BY <1>1, <2>1 DEF Written
    <2>3. /\ writing.len \in Nat /\ writing.done \in Nat /\ writing.from \in Nat
      BY <1>1 DEF WriteCall
    <2>4. k \in Nat /\ writing.done + k <= writing.len /\ put' = writing.from + (writing.done + k)
      BY <2>1, <2>2, <2>3, SizesAre
    <2>5. put' \in Nat /\ put <= put' /\ put' <= MaxBytes
      BY <1>1, <2>1, <2>2, <2>3, <2>4, SizesAre
    <2> DEFINE busy == WritesOn(writing.op, writing.done + k, writing.len)
    <2>6. busy \in BOOLEAN /\ (writing.op = "write" /\ ~busy => writing.done + k = writing.len)
      BY <2>3, <2>4 DEF WritesOn
    <2> HIDE DEF busy
    <2>7. /\ writing'.op = writing.op /\ writing'.done = writing.done + k /\ writing'.len = writing.len
          /\ writing'.from = writing.from /\ writing'.busy = busy
      BY <1>1, <2>1 DEF busy, WriteCall
    <2>8. writing' \in WriteCall
      <3>1. writing.done + k \in Nat
        BY <2>3, <2>4
      <3> QED BY <1>1, <2>1, <2>6, <3>1 DEF busy, WriteCall
    <2>9. Written(writing)'
      BY <2>1, <2>2, <2>4, <2>6, <2>7 DEF Written
    <2> QED BY <2>1, <2>2, <2>5, <2>8, <2>9, WriterKeeps
  <1>4. ASSUME PutFails
        PROVE  LoopsInv'
    <2>1. /\ writing.busy /\ medium = "nonblocking" /\ put' = put
          /\ UNCHANGED <<medium, newline, taken, reading>>
          /\ writing' = [writing EXCEPT !.busy = FALSE]
      BY <1>4 DEF PutFails
    <2>2. writing' \in WriteCall
      BY <1>1, <2>1 DEF WriteCall
    <2>3. Written(writing)'
      BY <1>1, <2>1 DEF Written
    <2>4. medium # "file"
      BY <2>1
    <2> QED BY <1>1, <2>1, <2>2, <2>3, <2>4, WriterKeeps
  <1>5. ASSUME End
        PROVE  LoopsInv'
    <2>1. /\ medium # "file" /\ UNCHANGED <<medium, newline, put, taken, writing, reading>>
      BY <1>5 DEF End
    <2>2. Written(writing)'
      BY <1>1, <2>1 DEF Written
    <2> QED BY <1>1, <2>1, <2>2, WriterKeeps
  <1> QED BY <1>2, <1>3, <1>4, <1>5

LEMMA StreamCallKeeps ==
  ASSUME LoopsInv, StreamCall
  PROVE  LoopsInv'
  <1>1. PICK op \in StreamCalls, len \in Nat, waitall \in BOOLEAN :
               /\ Start(op, len, waitall) /\ len > 0
               /\ op = "readLine" => len = READ_BUFFER_SIZE
    <2>1. CASE \E op \in {"read", "readLine"} : Start(op, READ_BUFFER_SIZE, FALSE)
      <3>1. FALSE \in BOOLEAN
        OBVIOUS
      <3> QED BY <2>1, <3>1, SizesAre DEF StreamCalls
    <2>2. CASE \E len \in 1..Unlimited, waitall \in BOOLEAN : Start("recv", len, waitall)
      <3>1. PICK len \in 1..Unlimited, waitall \in BOOLEAN : Start("recv", len, waitall)
        BY <2>2
      <3>2. len \in Nat /\ len > 0
        BY SizesAre DEF Unlimited
      <3> QED BY <3>1, <3>2 DEF StreamCalls
    <2>3. CASE \E len \in 1..READ_BUFFER_SIZE : Start("readInBuffer", len, FALSE)
      <3>1. PICK len \in 1..READ_BUFFER_SIZE : Start("readInBuffer", len, FALSE)
        BY <2>3
      <3>2. len \in Nat /\ len > 0 /\ FALSE \in BOOLEAN
        BY SizesAre
      <3> QED BY <3>1, <3>2 DEF StreamCalls
    <2>4. CASE \E len \in 1..READ_BUFFER_SIZE, waitall \in BOOLEAN :
                  Start("recvInBuffer", len, waitall)
      <3>1. PICK len \in 1..READ_BUFFER_SIZE, waitall \in BOOLEAN :
                  Start("recvInBuffer", len, waitall)
        BY <2>4
      <3>2. len \in Nat /\ len > 0
        BY SizesAre
      <3> QED BY <3>1, <3>2 DEF StreamCalls
    <2> QED BY <2>1, <2>2, <2>3, <2>4 DEF StreamCall
  <1>2. /\ medium # "file" /\ op \in StreamCalls \cup FileCalls /\ op \notin FileCalls
        /\ op # "copyTo"
        /\ UNCHANGED <<medium, newline, put, taken, writing>>
    <2>1. UNCHANGED <<medium, newline, put, taken, writing>>
      BY <1>1 DEF Start
    <2>2. op \in StreamCalls \cup FileCalls /\ op \notin FileCalls /\ op # "copyTo"
      BY DEF StreamCalls, FileCalls
    <2> QED BY <2>1, <2>2 DEF StreamCall
  <1>3. taken \in Nat /\ taken <= put /\ taken <= taken
    BY DEF LoopsInv, LoopsTypes
  <1>4. reading' \in ReadCall /\ reading'.from = taken /\ CallInv(reading', taken, put)
    BY <1>1, <1>2, <1>3, StartKeeps
  <1> QED BY <1>2, <1>3, <1>4, ReaderKeeps

LEMMA LargestOfTwo ==
  ASSUME NEW a \in Int, NEW b \in Int
  PROVE  Max({a, b}) \in {a, b} /\ a <= Max({a, b}) /\ b <= Max({a, b})
  <1>1. \E x \in {a, b} : \A y \in {a, b} : x >= y
    <2>1. CASE a >= b
      BY <2>1
    <2>2. CASE ~(a >= b)
      BY <2>2
    <2> QED BY <2>1, <2>2
  <1>2. /\ Max({a, b}) \in {a, b}
        /\ \A y \in {a, b} : Max({a, b}) >= y
    BY <1>1 DEF Max
  <1> QED BY <1>2

LEMMA ResultSizeIs ==
  ASSUME LoopsInv, NEW had \in 0..(MaxBytes + 2)
  PROVE  ResultSize(had) \in Nat /\ Available <= ResultSize(had) /\ Available \in Nat
  <1>1. put \in Nat /\ taken \in Nat /\ taken <= put
    BY DEF LoopsInv, LoopsTypes
  <1>2. Available \in Nat /\ had \in Nat
    BY <1>1, SizesAre DEF Available
  <1>3. Max({had, Available}) \in {had, Available} /\ Available <= Max({had, Available})
    BY <1>2, LargestOfTwo
  <1> QED BY <1>2, <1>3 DEF ResultSize

LEMMA FileCallKeeps ==
  ASSUME LoopsInv, FileCall
  PROVE  LoopsInv'
  <1>1. PICK op \in FileCalls, len \in Nat :
               Start(op, len, FALSE) /\ len > 0 /\ (op = "copyTo" => taken = 0)
    <2>1. CASE \E had \in 0..(MaxBytes + 2) :
                  ResultSize(had) > 0 /\ Start("readFile", ResultSize(had), FALSE)
      <3>1. PICK had \in 0..(MaxBytes + 2) :
                  ResultSize(had) > 0 /\ Start("readFile", ResultSize(had), FALSE)
        BY <2>1
      <3>2. ResultSize(had) \in Nat
        BY ResultSizeIs
      <3> QED BY <3>1, <3>2 DEF FileCalls
    <2>2. CASE taken = 0 /\ Start("copyTo", READ_BUFFER_SIZE, FALSE)
      BY <2>2, SizesAre DEF FileCalls
    <2> QED BY <2>1, <2>2 DEF FileCall
  <1>2. /\ medium = "file" /\ op \in StreamCalls \cup FileCalls /\ op # "readLine"
        /\ UNCHANGED <<medium, newline, put, taken, writing>>
    <2>1. UNCHANGED <<medium, newline, put, taken, writing>>
      BY <1>1 DEF Start
    <2>2. op \in StreamCalls \cup FileCalls /\ op # "readLine"
      BY DEF FileCalls
    <2> QED BY <2>1, <2>2 DEF FileCall
  <1>3. taken \in Nat /\ taken <= put /\ taken <= taken
    BY DEF LoopsInv, LoopsTypes
  <1>4. FALSE \in BOOLEAN
    OBVIOUS
  <1>5. reading' \in ReadCall /\ reading'.from = taken /\ CallInv(reading', taken, put)
    BY <1>1, <1>2, <1>3, <1>4, StartKeeps
  <1> QED BY <1>2, <1>3, <1>5, ReaderKeeps

LEMMA TakeKeeps ==
  ASSUME LoopsInv, NEW k \in 1..(MaxBytes + 2), Take(k)
  PROVE  LoopsInv'
  <1> DEFINE r == reading
  <1> DEFINE b == Bytes(taken + 1, taken + k)
  <1> DEFINE s == CallTakes(r, b)
  <1>1. /\ r.busy /\ taken' = taken + k /\ reading' = s
        /\ UNCHANGED <<medium, newline, put, writing>>
        /\ Enough(k)
    BY DEF Take
  <1>2. /\ put \in Nat /\ put <= MaxBytes /\ taken \in Nat /\ taken <= put
        /\ r \in ReadCall /\ r.from <= taken /\ CallInv(r, taken, put)
    BY DEF LoopsInv, LoopsTypes
  <1>3. k \in Nat /\ k > 0
    BY SizesAre
  <1>4. taken + k <= put /\ taken + k <= MaxBytes /\ taken + k \in Nat /\ taken <= taken + k
    <2>1. k <= put - taken
      BY <1>1 DEF Enough, MayGive, Available
    <2> QED BY <2>1, <1>2, <1>3, SizesAre
  <1>5. Given(r, taken, k)
    BY <1>2, <1>3 DEF Given
  <1>6. k <= BufferLength(r) /\ (r.op = "recv" => k <= READ_BUFFER_SIZE)
    BY <1>1, <1>3, SizesAre DEF Enough, MayGive, Overruns
  <1>7. medium = "file" => k = BufferLength(r) \/ taken + k = put
    <2> DEFINE two == {BufferLength(r), put - taken}
    <2>1. BufferLength(r) \in Nat
      <3>1. r.len \in Nat
        BY <1>2 DEF ReadCall
      <3>2. r.len = 0 => BufferLength(r) # r.len - 1
        <4>1. BufferLength(r) = r.len \/ BufferLength(r) = r.len - 1
          BY DEF BufferLength, SizeLessOne
        <4> QED BY <4>1, <1>3, <1>6, <3>1
      <3> QED BY <3>1, <3>2, <1>3, <1>6 DEF BufferLength, SizeLessOne
    <2>2. two \subseteq Nat /\ two # {}
      BY <2>1, <1>2
    <2>3. Min(two) \in two
      BY <2>2, SmallestOf
    <2>4. medium = "file" => k = Min(two)
      BY <1>1 DEF Enough, Available
    <2>5. k = put - taken => taken + k = put
      BY <1>2
    <2> QED BY <2>3, <2>4, <2>5
  <1>8. s \in ReadCall /\ s.from = r.from /\ CallInv(s, taken + k, put)
    <2>1. CASE r.op = "read"
      <3>1. s = ReadTakes(r, b)
        BY <2>1 DEF CallTakes
      <3> HIDE DEF s
      <3> QED BY <1>2, <1>5, <2>1, <3>1, ReadTakesKeeps
    <2>2. CASE r.op = "readLine"
      <3>1. s = LineTakes(r, b)
        BY <2>2 DEF CallTakes
      <3>2. k <= READ_BUFFER_SIZE
        BY <1>2, <1>6, <2>2 DEF CallInv, Called, BufferLength
      <3> HIDE DEF s
      <3> QED BY <1>1, <1>2, <1>5, <2>2, <3>1, <3>2, LineTakesKeeps
    <2>3. CASE r.op \in {"readInBuffer", "readFile"}
      <3>1. s = BufferTakes(r, b)
        BY <2>3 DEF CallTakes
      <3>2. r.op = "readFile" => medium = "file"
        BY <1>2 DEF CallInv, Called, FileCalls
      <3> HIDE DEF s
      <3> QED BY <1>1, <1>2, <1>5, <1>6, <1>7, <2>3, <3>1, <3>2, BufferTakesKeeps
    <2>4. CASE r.op = "recv" /\ r.first
      <3>1. s = WaitAllTakes(r, b)
        BY <2>4 DEF CallTakes
      <3>2. k <= r.len
        BY <1>6, <2>4 DEF BufferLength
      <3> HIDE DEF s
      <3> QED BY <1>2, <1>5, <2>4, <3>1, <3>2, WaitAllTakesKeeps
    <2>5. CASE r.op = "recv" /\ ~r.first
      <3>1. s = RecvTakes(r, b)
        BY <2>5 DEF CallTakes
      <3>2. k <= r.len
        BY <1>6, <2>5 DEF BufferLength
      <3> HIDE DEF s
      <3> QED BY <1>1, <1>2, <1>4, <1>5, <1>6, <2>5, <3>1, <3>2, RecvTakesKeeps
    <2>6. CASE r.op = "recvInBuffer"
      <3>1. s = OnceTakes(r, b)
        BY <2>6 DEF CallTakes
      <3> HIDE DEF s
      <3> QED BY <1>2, <1>5, <2>6, <3>1, OnceTakesKeeps
    <2>7. CASE r.op = "copyTo"
      <3>1. s = CopyTakes(r, b)
        BY <2>7 DEF CallTakes
      <3> HIDE DEF s
      <3> QED BY <1>1, <1>2, <1>5, <2>7, <3>1, CopyTakesKeeps
    <2>8. r.op \in {"read", "readLine", "readInBuffer", "readFile", "recv", "recvInBuffer", "copyTo"}
      BY <1>1, <1>2 DEF ReadCall, Reading, CallInv, Called, StreamCalls, FileCalls
    <2> QED BY <2>1, <2>2, <2>3, <2>4, <2>5, <2>6, <2>7, <2>8
  <1> HIDE DEF s
  <1>9. reading' \in ReadCall /\ reading'.from = r.from /\ CallInv(reading', taken', put)
    BY <1>1, <1>8
  <1>10. taken' \in Nat /\ taken' <= put /\ reading'.from <= taken'
    <2>1. r.from \in Nat
      BY <1>2 DEF ReadCall
    <2> QED BY <1>1, <1>2, <1>4, <1>9, <2>1
  <1> QED BY <1>1, <1>9, <1>10, ReaderKeeps

LEMMA TakeNothingKeeps ==
  ASSUME LoopsInv, TakeNothing
  PROVE  LoopsInv'
  <1> DEFINE r == reading
  <1>1. /\ r.busy /\ put - taken = 0 /\ UNCHANGED <<medium, newline, put, taken, writing>>
    BY DEF TakeNothing, Available
  <1>2. /\ put \in Nat /\ taken \in Nat /\ taken <= put /\ r \in ReadCall /\ r.from <= taken
        /\ CallInv(r, taken, put)
    BY DEF LoopsInv, LoopsTypes
  <1>3. taken = put
    BY <1>1, <1>2
  <1>4. reading' \in ReadCall /\ reading'.from = r.from /\ CallInv(reading', taken, put)
    <2>1. CASE r.op = "recv" /\ r.first
      <3>1. reading' = [r EXCEPT !.first = FALSE]
        BY <2>1 DEF TakeNothing
      <3> QED BY <1>2, <2>1, <3>1, WaitEndsKeeps
    <2>2. CASE r.op = "copyTo" /\ r.total > 0
      <3>1. reading' = [r EXCEPT !.copied = @ \o r.result, !.result = <<>>, !.total = 0]
        BY <2>2 DEF TakeNothing
      <3> QED BY <1>1, <1>2, <2>2, <3>1, NextLineKeeps
    <2>3. CASE ~(r.op = "recv" /\ r.first) /\ ~(r.op = "copyTo" /\ r.total > 0)
      <3>1. reading' = Returned(r)
        BY <2>3 DEF TakeNothing
      <3> QED BY <1>1, <1>2, <1>3, <2>3, <3>1, ReturnedKeeps
    <2> QED BY <2>1, <2>2, <2>3
  <1>5. taken' \in Nat /\ taken' <= put /\ reading'.from <= taken' /\ CallInv(reading', taken', put)
    BY <1>1, <1>2, <1>4
  <1> QED BY <1>1, <1>4, <1>5, ReaderKeeps

LEMMA TakeFailsKeeps ==
  ASSUME LoopsInv, TakeFails
  PROVE  LoopsInv'
  <1> DEFINE r == reading
  <1>1. /\ r.busy /\ medium = "nonblocking" /\ UNCHANGED <<medium, newline, put, taken, writing>>
    BY DEF TakeFails
  <1>2. /\ put \in Nat /\ taken \in Nat /\ taken <= put /\ r \in ReadCall /\ r.from <= taken
        /\ CallInv(r, taken, put)
    BY DEF LoopsInv, LoopsTypes
  <1>3. r.op \notin FileCalls /\ r.op # "copyTo"
    BY <1>1, <1>2 DEF CallInv, Called, FileCalls
  <1> DEFINE fails == \/ r.op \in {"read", "readInBuffer"}
                      \/ r.op = "recvInBuffer" /\ r.waitall
  <1>4. reading' \in ReadCall /\ reading'.from = r.from /\ CallInv(reading', taken, put)
    <2>1. CASE r.op = "recv" /\ r.first
      <3>1. reading' = [r EXCEPT !.first = FALSE, !.total = -1]
        BY <2>1 DEF TakeFails
      <3> QED BY <1>2, <2>1, <3>1, WaitEndsKeeps
    <2>2. CASE fails
      <3>1. reading' = Returned([r EXCEPT !.total = -1])
        BY <2>2 DEF TakeFails
      <3>2. r.op \in {"read", "readInBuffer", "recvInBuffer"}
        BY <2>2
      <3> QED BY <1>2, <3>1, <3>2, ErrorKeeps
    <2>3. CASE ~(r.op = "recv" /\ r.first) /\ ~fails
      <3>1. reading' = Returned(r)
        BY <2>3 DEF TakeFails
      <3> QED BY <1>1, <1>2, <1>3, <2>3, <3>1, ReturnedKeeps
    <2> QED BY <2>1, <2>2, <2>3
  <1>5. taken' \in Nat /\ taken' <= put /\ reading'.from <= taken' /\ CallInv(reading', taken', put)
    BY <1>1, <1>2, <1>4
  <1> QED BY <1>1, <1>4, <1>5, ReaderKeeps

LEMMA LoopsStutter ==
  ASSUME LoopsInv, UNCHANGED loopsVars
  PROVE  LoopsInv'
  <1>1. UNCHANGED <<medium, newline, put, taken, writing>> /\ reading' = reading
    BY DEF loopsVars
  <1>2. /\ taken \in Nat /\ taken <= put /\ reading \in ReadCall /\ reading.from <= taken
        /\ CallInv(reading, taken, put)
    BY DEF LoopsInv, LoopsTypes
  <1> QED BY <1>1, <1>2, ReaderKeeps

\* A recv of more than its buffer, given more than that.
LEMMA OverrunIsBeyond ==
  ASSUME LoopsInv, NEW k \in 1..Capacity, TakeOverruns(k)
  PROVE  Beyond'
  <1> DEFINE r == reading
  <1>1. /\ r.busy /\ MayGive(k) /\ Overruns(k) /\ taken' = taken + k /\ reading' = Returned(r)
        /\ UNCHANGED <<medium, newline, put, writing>>
    BY DEF TakeOverruns
  <1>2. /\ put \in Nat /\ put <= MaxBytes /\ taken \in Nat /\ taken <= put /\ r \in ReadCall
        /\ r.from <= taken /\ r.from \in Nat /\ r.len \in Nat
    BY DEF LoopsInv, LoopsTypes, ReadCall
  <1>3. /\ reading' \in ReadCall /\ reading'.op = r.op /\ reading'.len = r.len
        /\ reading'.from = r.from /\ ~reading'.busy
    BY <1>1, <1>2 DEF Returned, ReadCall
  <1>4. /\ k \in Nat /\ k <= put - taken /\ k > READ_BUFFER_SIZE /\ r.op = "recv" /\ k <= r.len
    BY <1>1, SizesAre DEF MayGive, Overruns, Available, BufferLength
  <1>5. taken' \in Nat /\ taken' <= put /\ r.from <= taken'
    BY <1>1, <1>2, <1>4
  <1>6. LoopsTypes'
    BY <1>1, <1>3, <1>5 DEF LoopsInv, LoopsTypes
  <1>7. Written(writing)'
    BY <1>1 DEF LoopsInv, Written
  <1>8. r.len > READ_BUFFER_SIZE /\ taken' - r.from > READ_BUFFER_SIZE
    BY <1>1, <1>2, <1>4, SizesAre
  <1> QED BY <1>3, <1>4, <1>6, <1>7, <1>8 DEF Beyond

\* A read of nothing into an empty result.
LEMMA NothingIsBeyond ==
  ASSUME LoopsInv, ReadOfNothing
  PROVE  Beyond'
  <1>1. /\ Start("readFile", 0, FALSE) /\ ResultSize(0) = 0
        /\ UNCHANGED <<medium, newline, put, taken, writing>>
    BY DEF ReadOfNothing, Start
  <1>2. put \in Nat /\ taken \in Nat /\ taken <= put
    BY DEF LoopsInv, LoopsTypes
  <1>3. put = taken
    <2>1. 0 \in 0..(MaxBytes + 2)
      BY SizesAre
    <2>2. Available \in Nat /\ Available <= 0
      BY <1>1, <2>1, ResultSizeIs
    <2> QED BY <2>2, <1>2 DEF Available
  <1> DEFINE busy == ("readFile" = "readFile" => SizeLessOne(0) > 0)
  <1>4. ~busy
    BY DEF SizeLessOne
  <1> HIDE DEF busy
  <1>5. reading' = [op |-> "readFile", len |-> 0, from |-> taken, result |-> <<>>, total |-> 0,
                    copied |-> <<>>, waitall |-> FALSE, first |-> FALSE, busy |-> FALSE]
    <2>1. reading' = [NotReading EXCEPT !.op = "readFile", !.len = 0, !.from = taken,
                                        !.waitall = FALSE, !.first = FALSE, !.busy = FALSE]
      BY <1>1, <1>4 DEF Start, busy
    <2> QED BY <2>1 DEF NotReading
  <1>6. reading' \in ReadCall
    <2>1. <<>> \in Seq(Nat) /\ "readFile" \in Reading /\ 0 \in Nat /\ 0 \in Int /\ FALSE \in BOOLEAN
      BY EmptySeq DEF Reading, FileCalls
    <2> QED BY <1>2, <1>5, <2>1, ReadCallIs
  <1>7. /\ reading'.op = "readFile" /\ reading'.len = 0 /\ reading'.from = taken /\ ~reading'.busy
    BY <1>5
  <1>8. LoopsTypes'
    BY <1>1, <1>2, <1>6, <1>7 DEF LoopsInv, LoopsTypes
  <1>9. Written(writing)'
    BY <1>1 DEF LoopsInv, Written
  <1> QED BY <1>1, <1>3, <1>7, <1>8, <1>9 DEF Beyond

LEMMA StepKeeps ==
  ASSUME LoopsInv, Step
  PROVE  LoopsInv'
  <1>1. CASE \/ \E op \in {"write", "send"}, len \in 1..MaxBytes : StartWrite(op, len)
             \/ \E k \in 1..Capacity : Put(k)
             \/ PutFails \/ End
    BY <1>1, WritingKeeps
  <1>2. CASE StreamCall
    BY <1>2, StreamCallKeeps
  <1>3. CASE FileCall
    BY <1>3, FileCallKeeps
  <1>4. CASE \E k \in 1..(MaxBytes + 2) : Take(k)
    BY <1>4, TakeKeeps
  <1>5. CASE TakeNothing
    BY <1>5, TakeNothingKeeps
  <1>6. CASE TakeFails
    BY <1>6, TakeFailsKeeps
  <1> QED BY <1>1, <1>2, <1>3, <1>4, <1>5, <1>6 DEF Step

LEMMA LoopsInvHolds == LoopsSpec => []LoopsOrBeyond
  <1>1. LoopsInit => LoopsOrBeyond
    <2> SUFFICES ASSUME LoopsInit
                 PROVE  LoopsOrBeyond
      OBVIOUS
    <2>1. undefined = FALSE
      BY DEF LoopsInit
    <2> QED BY <2>1, LoopsBegin DEF LoopsOrBeyond
  <1>2. LoopsOrBeyond /\ [LoopsNext]_loopsVars => LoopsOrBeyond'
    <2> SUFFICES ASSUME LoopsOrBeyond, [LoopsNext]_loopsVars
                 PROVE  LoopsOrBeyond'
      OBVIOUS
    <2>1. CASE LoopsNext
      <3>1. ~undefined /\ LoopsInv
        BY <2>1 DEF LoopsNext, LoopsOrBeyond
      <3>2. CASE Step /\ UNCHANGED undefined
        <4>1. LoopsInv'
          BY <3>1, <3>2, StepKeeps
        <4> QED BY <3>1, <3>2, <4>1 DEF LoopsOrBeyond
      <3>3. CASE \E k \in 1..Capacity : TakeOverruns(k)
        <4>1. undefined' = TRUE
          BY <3>3 DEF TakeOverruns
        <4>2. Beyond'
          BY <3>1, <3>3, OverrunIsBeyond
        <4> QED BY <4>1, <4>2 DEF LoopsOrBeyond
      <3>4. CASE ReadOfNothing
        <4>1. undefined' = TRUE
          BY <3>4 DEF ReadOfNothing
        <4>2. Beyond'
          BY <3>1, <3>4, NothingIsBeyond
        <4> QED BY <4>1, <4>2 DEF LoopsOrBeyond
      <3> QED BY <2>1, <3>2, <3>3, <3>4 DEF LoopsNext
    <2>2. CASE UNCHANGED loopsVars
      <3>1. undefined' = undefined
        BY <2>2 DEF loopsVars
      <3>2. CASE ~undefined
        <4>1. LoopsInv'
          BY <2>2, <3>2, LoopsStutter DEF LoopsOrBeyond
        <4> QED BY <3>1, <3>2, <4>1 DEF LoopsOrBeyond
      <3>3. CASE undefined
        <4>1. Beyond
          BY <3>3 DEF LoopsOrBeyond
        <4>2. Beyond'
          BY <2>2, <4>1 DEF Beyond, LoopsTypes, Written, loopsVars
        <4> QED BY <3>1, <3>3, <4>2 DEF LoopsOrBeyond
      <3> QED BY <3>2, <3>3
    <2> QED BY <2>1, <2>2
  <1> QED BY <1>1, <1>2, PTL DEF LoopsSpec

-----------------------------------------------------------------------------
(* StreamLoops: what the calls return *)

\* NothingLost, for every size of the buffer and of what the kernel keeps, and every
\* length a call asks for: read returns all that it took; recv a prefix of it, and all
\* unless it went on behind a full buffer or waited for all, and then drops no more
\* than a buffer; a buffer has all that fits; a file, empty or read again too, is
\* whole in a result of more than what it has left; and what a write reports is what
\* the kernel has.  Nothing else than a recv of more than its buffer, that is given
\* more, and a read of nothing into an empty result writes behind its buffer.
THEOREM NothingLostHolds == LoopsSpec => []NothingLost
  <1>1. LoopsInv /\ ~undefined => NothingLost
    <2> SUFFICES ASSUME LoopsInv, ~undefined
                 PROVE  NothingLost
      OBVIOUS
    <2> DEFINE r == reading
    <2> DEFINE given == Bytes(r.from + 1, taken)
    <2>1. /\ put \in Nat /\ taken \in Nat /\ taken <= put /\ r \in ReadCall
          /\ r.from \in Nat /\ r.len \in Nat /\ r.from <= taken /\ CallInv(r, taken, put)
          /\ Written(writing)
      BY DEF LoopsInv, LoopsTypes, ReadCall
    <2>2. given = GivenToCall /\ Len(given) = taken - r.from
      BY <2>1, RunIs DEF GivenToCall
    <2>3. /\ writing.op # "none" => put = writing.from + writing.done
          /\ writing.op = "write" /\ ~writing.busy /\ medium = "blocking" => writing.done = writing.len
      BY <2>1 DEF Written
    <2>4. r.op = "read" => r.result = given
      BY <2>1 DEF CallInv, Reads
    <2>5. ASSUME r.op = "recv"
          PROVE  /\ IsPrefix(r.result, given)
                 /\ r.result # given =>
                       /\ r.len >= READ_BUFFER_SIZE \/ r.waitall
                       /\ r.total = r.len /\ r.len < Len(given)
                       /\ Len(given) - Len(r.result) <= READ_BUFFER_SIZE
      <3>1. CASE r.result = given
        <4>1. taken <= taken
          BY <2>1
        <4> QED BY <2>1, <3>1, <4>1, RunsArePrefixes
      <3>2. CASE r.result # given
        <4>1. /\ r.total = r.len /\ (r.len >= READ_BUFFER_SIZE \/ r.waitall)
              /\ r.len < taken - r.from
              /\ \E m \in r.from..taken :
                    r.result = Bytes(r.from + 1, m) /\ taken - m <= READ_BUFFER_SIZE
          BY <2>1, <2>5, <3>2 DEF CallInv, Receives
        <4>2. PICK m \in r.from..taken :
                 r.result = Bytes(r.from + 1, m) /\ taken - m <= READ_BUFFER_SIZE
          BY <4>1
        <4>3. m \in Nat /\ r.from <= m /\ m <= taken
          BY <2>1, <4>2
        <4>4. Len(r.result) = m - r.from
          BY <2>1, <4>2, <4>3, RunIs
        <4>5. IsPrefix(r.result, given)
          BY <2>1, <4>2, <4>3, RunsArePrefixes
        <4>6. Len(given) - Len(r.result) <= READ_BUFFER_SIZE /\ r.len < Len(given)
          <5>1. (taken - r.from) - (m - r.from) = taken - m
            BY <2>1, <4>3
          <5> QED BY <2>2, <4>1, <4>2, <4>4, <5>1
        <4> QED BY <4>1, <4>5, <4>6
      <3> QED BY <3>1, <3>2
    <2>6. ASSUME Finished("readInBuffer"), r.total > 0
          PROVE  r.total = Len(given) /\ (r.result = given <=> r.total <= r.len)
      <3>1. /\ BufferLength(r) = r.len
            /\ r.total = taken - r.from \/ r.total = -1
            /\ r.total = taken - r.from =>
                  /\ r.total <= r.len => r.result = given
                  /\ r.total > r.len => Len(r.result) = r.len
        BY <2>1, <2>6 DEF CallInv, Fills, Finished, BufferLength
      <3>2. r.total = taken - r.from
        BY <3>1, <2>6
      <3>3. r.total > r.len => Len(r.result) # Len(given)
        BY <2>1, <2>2, <3>1, <3>2
      <3>4. r.total <= r.len \/ r.total > r.len
        BY <2>1, <3>2
      <3>5. r.total > r.len => ~(r.total <= r.len)
        BY <2>1, <3>2
      <3> QED BY <2>2, <3>1, <3>2, <3>3, <3>4, <3>5
    <2>7. ASSUME Finished("readFile")
          PROVE  r.result = Bytes(r.from + 1, put) <=> put - r.from < r.len
      <3> DEFINE left == put - r.from
      <3>1. /\ BufferLength(r) = r.len - 1 /\ medium = "file" /\ r.len > 0
            /\ r.total = taken - r.from
            /\ r.total <= r.len - 1 => r.result = given
            /\ r.total > r.len - 1 => Len(r.result) = r.len - 1
            /\ r.len - 1 = 0 => taken = r.from
            /\ taken = put \/ r.len - 1 = 0
        BY <2>1, <2>7 DEF CallInv, Fills, Called, Finished, BufferLength, SizeLessOne, FileCalls
      <3>2. left \in Nat /\ r.from <= put /\ Len(Bytes(r.from + 1, put)) = left
        <4>1. r.from <= put /\ put - r.from \in Nat
          BY <2>1
        <4> QED BY <2>1, <4>1, RunIs
      <3>3. CASE taken = put
        <4>1. r.total = left
          BY <3>1, <3>3
        <4>2. given = Bytes(r.from + 1, put)
          BY <3>3
        <4>3. CASE left <= r.len - 1
          <5>1. left < r.len
            BY <2>1, <3>2, <4>3
          <5> QED BY <3>1, <4>1, <4>2, <4>3, <5>1
        <4>4. CASE left > r.len - 1
          <5>1. ~(left < r.len) /\ r.len - 1 # left
            BY <2>1, <3>2, <4>4
          <5>2. Len(r.result) = r.len - 1
            BY <3>1, <4>1, <4>4
          <5> QED BY <3>2, <5>1, <5>2
        <4>5. left <= r.len - 1 \/ left > r.len - 1
          BY <2>1, <3>2
        <4> QED BY <4>3, <4>4, <4>5
      <3>4. CASE r.len - 1 = 0 /\ taken # put
        <4>1. r.total = 0 /\ r.total <= r.len - 1
          BY <2>1, <3>1, <3>4
        <4>2. Len(r.result) = 0
          BY <2>1, <2>2, <3>1, <3>4, <4>1
        <4>3. ~(left < r.len) /\ left # 0
          BY <2>1, <3>1, <3>4
        <4> QED BY <3>2, <4>2, <4>3
      <3> QED BY <3>1, <3>3, <3>4
    <2> QED BY <2>2, <2>3, <2>4, <2>5, <2>6, <2>7 DEF NothingLost
  <1>2. Beyond /\ undefined => NothingLost
    <2> SUFFICES ASSUME Beyond, undefined
                 PROVE  NothingLost
      OBVIOUS
    <2>1. /\ taken \in Nat /\ reading.from \in Nat /\ reading.from <= taken
      BY DEF Beyond, LoopsTypes, ReadCall
    <2>2. Len(GivenToCall) = taken - reading.from
      BY <2>1, RunIs DEF GivenToCall
    <2>3. reading.op \in {"recv", "readFile"}
      BY DEF Beyond
    <2> QED BY <2>2, <2>3 DEF Beyond, NothingLost, Finished, Written
  <1>3. LoopsOrBeyond => NothingLost
    BY <1>1, <1>2 DEF LoopsOrBeyond
  <1> QED BY <1>3, LoopsInvHolds, PTL

\* LinesInOrder: readLine returns what is before the first line end it met and
\* drops no more than a buffer behind it; copyTo copies bytes once and in order, no
\* line end, and all that is before the file's first.
THEOREM LinesInOrderHolds == LoopsSpec => []LinesInOrder
  <1>1. LoopsInv => LinesInOrder
    <2> SUFFICES ASSUME LoopsInv
                 PROVE  LinesInOrder
      OBVIOUS
    <2> DEFINE r == reading
    <2> DEFINE given == Bytes(r.from + 1, taken)
    <2>1. /\ put \in Nat /\ taken \in Nat /\ taken <= put /\ r \in ReadCall
          /\ r.from \in Nat /\ r.from <= taken /\ CallInv(r, taken, put)
          /\ r.copied \in Seq(Nat) /\ newline \subseteq Nat
      BY DEF LoopsInv, LoopsTypes, ReadCall
    <2>2. /\ given = GivenToCall /\ Len(given) = taken - r.from
          /\ \A i \in 1..(taken - r.from) : given[i] = r.from + i
      BY <2>1, RunIs DEF GivenToCall
    <2>3. ASSUME Finished("readLine")
          PROVE  /\ IsPrefix(r.result, given) /\ Range(r.result) \cap newline = {}
                 /\ r.result # given => given[Len(r.result) + 1] \in newline
                 /\ Len(given) - Len(r.result) <= READ_BUFFER_SIZE
      <3>1. PICK m \in r.from..taken :
               /\ r.result = Bytes(r.from + 1, m) /\ Plain(r.from, m)
               /\ m < taken => m + 1 \in newline
               /\ taken - m <= READ_BUFFER_SIZE
        BY <2>1, <2>3 DEF CallInv, Lines, Finished
      <3>2. m \in Nat /\ r.from <= m /\ m <= taken
        BY <2>1, <3>1
      <3>3. /\ Len(r.result) = m - r.from /\ DOMAIN r.result = 1..(m - r.from)
            /\ \A i \in 1..(m - r.from) : r.result[i] = r.from + i
        <4> DEFINE line == Bytes(r.from + 1, m)
        <4>1. /\ Len(line) = m - r.from /\ DOMAIN line = 1..(m - r.from)
              /\ \A i \in 1..(m - r.from) : line[i] = r.from + i
          BY <2>1, <3>2, RunIs
        <4>2. r.result = line
          BY <3>1
        <4> HIDE DEF line
        <4> QED BY <4>1, <4>2
      <3>4. IsPrefix(r.result, given)
        BY <2>1, <3>1, <3>2, RunsArePrefixes
      <3>5. Range(r.result) \cap newline = {}
        <4>1. ASSUME NEW i \in 1..(m - r.from)
              PROVE  r.result[i] \notin newline
          <5>1. r.from + i \in (r.from + 1)..m
            BY <2>1, <3>2
          <5> QED BY <3>1, <3>3, <5>1 DEF Plain
        <4> QED BY <4>1, <3>3 DEF Range
      <3>6. ASSUME r.result # given
            PROVE  given[Len(r.result) + 1] \in newline
        <4>1. m # taken
          BY <3>1, <3>6
        <4>2. m < taken /\ (m - r.from) + 1 \in 1..(taken - r.from)
              /\ r.from + ((m - r.from) + 1) = m + 1
          BY <2>1, <3>2, <4>1
        <4> QED BY <2>2, <3>1, <3>3, <4>2
      <3>7. Len(given) - Len(r.result) <= READ_BUFFER_SIZE
        <4>1. (taken - r.from) - (m - r.from) = taken - m
          BY <2>1, <3>2
        <4> QED BY <2>2, <3>1, <3>3, <4>1
      <3> QED BY <3>4, <3>5, <3>6, <3>7
    <2>4. ASSUME Finished("copyTo")
          PROVE  /\ \A i \in 1..(Len(r.copied) - 1) : r.copied[i] < r.copied[i + 1]
                 /\ \A b \in 1..put : b \in Range(r.copied) \/ \E n \in newline : n <= b
                 /\ Range(r.copied) \cap newline = {}
      <3>1. /\ CopyOf(r.copied \o r.result, taken) /\ r.result = <<>>
            /\ taken = put \/ \E n \in newline : n <= taken
        BY <2>1, <2>4 DEF CallInv, Copies, Copied, Finished
      <3>2. r.copied \o <<>> = r.copied
        BY <2>1, ConcatEmptySeq
      <3>3. CopyOf(r.copied, taken)
        BY <3>1, <3>2
      <3>4. DOMAIN r.copied = 1..Len(r.copied)
        BY <2>1, LenProperties
      <3>5. ASSUME NEW b \in 1..put
            PROVE  b \in Range(r.copied) \/ \E n \in newline : n <= b
        <4>1. CASE b <= taken
          <5>1. b \in 1..taken
            BY <2>1, <4>1
          <5> QED BY <5>1, <3>3, <3>4 DEF CopyOf, Range
        <4>2. CASE b > taken
          <5>1. taken # put
            BY <2>1, <4>2
          <5>2. \E n \in newline : n <= taken
            BY <3>1, <5>1
          <5>3. PICK n \in newline : n <= taken
            BY <5>2
          <5>4. n \in Nat
            BY <2>1
          <5>5. n <= b
            BY <2>1, <4>2, <5>3, <5>4
          <5> QED BY <5>5
        <4> QED BY <2>1, <4>1, <4>2
      <3>6. Range(r.copied) \cap newline = {}
        BY <3>3, <3>4 DEF CopyOf, Range
      <3> QED BY <3>3, <3>5, <3>6 DEF CopyOf, InOrder
    <2> QED BY <2>2, <2>3, <2>4 DEF LinesInOrder
  <1>2. Beyond => LinesInOrder
    BY DEF Beyond, LinesInOrder, Finished
  <1>3. LoopsOrBeyond => LinesInOrder
    BY <1>1, <1>2 DEF LoopsOrBeyond
  <1> QED BY <1>3, LoopsInvHolds, PTL

-----------------------------------------------------------------------------
(* FileStatusCalls *)

Descriptions ==
    [access : {"RDONLY", "WRONLY", "RDWR"}, flags : SUBSET Status!StatusFlag]

\* What is kept of the file is what the kernel has, since nobody else sets a flag
\* of it; the status is valid, since the descriptor is open.
FileInv ==
    /\ file \in Descriptions
    /\ DOMAIN flags = {"open", "access", "mask"} /\ flags.open /\ flags.mask = file
    /\ asked.ok => (asked.flag \subseteq file.flags <=> asked.requested)
    /\ DOMAIN permissions = {"mask", "array"}
    /\ permissions.array = [i \in Status!Permission |-> i \in permissions.mask]

\* fcntl tells the flags of a file that is open.
LEMMA OpenIsNotClosed ==
  ASSUME NEW f \in Descriptions
  PROVE  f # Status!Closed /\ Status!F_GETFL(f) = f
  BY DEF Descriptions, Status!Closed, Status!F_GETFL

LEMMA FileInvInit ==
  FileInit => FileInv
  <1> SUFFICES ASSUME FileInit PROVE FileInv
    OBVIOUS
  <1>1. file \in Descriptions /\ file # Status!Closed /\ Status!F_GETFL(file) = file
    BY OpenIsNotClosed, OpenAssumption DEF FileInit, Descriptions
  <1>2. DOMAIN flags = {"open", "access", "mask"} /\ flags.open /\ flags.mask = file
    <2> DEFINE new == [open |-> TRUE, access |-> "E_UNDEFINED", mask |-> Status!NoFlags]
               read == Status!settAccessModeFlag(new, file)
    <2>1. DOMAIN new = {"open", "access", "mask"} /\ new.open
      OBVIOUS
    <2> HIDE DEF new
    <2>2. DOMAIN read = {"open", "access", "mask"} /\ read.open
      BY <2>1 DEF Status!settAccessModeFlag
    <2> HIDE DEF read
    <2>3. Status!valid(read)
      BY <2>2 DEF Status!valid
    <2>4. flags = Status!setFlagsMask(read, file).status
      BY <1>1, <2>3 DEF FileInit, Status!FileStatusFlags, read, new
    <2>5. flags = [read EXCEPT !.mask = file]
      BY <2>3, <2>4 DEF Status!setFlagsMask
    <2> QED
      BY <2>2, <2>5
  <1>3. ~asked.ok
    BY DEF FileInit, NotAsked
  <1>4. /\ DOMAIN permissions = {"mask", "array"}
        /\ permissions.array = [i \in Status!Permission |-> i \in permissions.mask]
    BY DEF FileInit, Status!FilePermissions
  <1> QED
    BY <1>1, <1>2, <1>3, <1>4 DEF FileInv

\* One call of a setter.
LEMMA FlagSet ==
  ASSUME FileInv, NEW flag \in Flags, NEW requested \in BOOLEAN, NEW refused
  PROVE  LET done == Status!setSingleFlag(flags, file, flag, requested, refused) IN
         /\ done.file \in Descriptions
         /\ DOMAIN done.status = {"open", "access", "mask"}
         /\ done.status.open /\ done.status.mask = done.file
         /\ done.ok => (flag \subseteq done.file.flags <=> requested)
  <1> DEFINE done == Status!setSingleFlag(flags, file, flag, requested, refused)
             new == IF requested THEN file.flags \cup flag ELSE file.flags \ flag
             changed == [file EXCEPT !.flags = new]
             after == Status!F_SETFL(file, new, refused)
             set == Status!setFlagsMask(flags, after)
  <1>1. /\ file \in Descriptions
        /\ DOMAIN flags = {"open", "access", "mask"} /\ flags.open /\ flags.mask = file
        /\ Status!valid(flags)
    BY DEF FileInv, Status!valid
  <1>2. flag # {} /\ flag \subseteq Status!Modifiable
    BY FlagsAssumption DEF Status!Setters
  <1>3. new \subseteq Status!StatusFlag /\ changed \in Descriptions /\ changed.flags = new
    BY <1>1, <1>2 DEF Descriptions, Status!StatusFlag
  <1>4. after \in Descriptions /\ Status!F_GETFL(after) = after
    <2>1. after \in Descriptions
      <3> HIDE DEF new
      <3> QED
        BY <1>1, <1>3 DEF Status!F_SETFL, Descriptions, Status!StatusFlag
    <2> QED
      BY <2>1, OpenIsNotClosed
  <1>5. set.ok = (file # after) /\ set.status = [flags EXCEPT !.mask = after]
    BY <1>1 DEF Status!setFlagsMask
  <1>6. done = IF requested = Status!getSingleFlag(flags, flag)
               THEN [ok |-> FALSE, status |-> flags, file |-> file]
               ELSE [ok |-> set.ok /\ changed = after, status |-> set.status, file |-> after]
    BY <1>1, <1>4 DEF Status!setSingleFlag
  <1> HIDE DEF done, set, after, changed
  <1>7. CASE requested = Status!getSingleFlag(flags, flag)
    <2>1. /\ done.file = file /\ ~done.ok
          /\ done.status = flags
      BY <1>6, <1>7
    <2> QED
      BY <1>1, <2>1 DEF done
  <1>8. CASE requested # Status!getSingleFlag(flags, flag)
    <2>1. done.file = after /\ done.status = [flags EXCEPT !.mask = after]
          /\ (done.ok => changed = after)
      BY <1>5, <1>6, <1>8
    <2>2. /\ DOMAIN [flags EXCEPT !.mask = after] = {"open", "access", "mask"}
          /\ [flags EXCEPT !.mask = after].open /\ [flags EXCEPT !.mask = after].mask = after
      BY <1>1
    <2>3. flag \subseteq new <=> requested
      BY <1>2
    <2>4. done.ok => done.file.flags = new
      BY <2>1, <1>3
    <2> HIDE DEF new
    <2>5. done.ok => (flag \subseteq done.file.flags <=> requested)
      BY <2>3, <2>4
    <2> QED
      BY <2>1, <2>2, <2>5, <1>4 DEF done
  <1> QED
    BY <1>7, <1>8

LEMMA FileInvStep ==
  FileInv /\ [FileNext]_fileVars => FileInv'
  <1> SUFFICES ASSUME FileInv, [FileNext]_fileVars PROVE FileInv'
    OBVIOUS
  <1>1. ASSUME NEW flag \in Flags, NEW requested \in BOOLEAN, NEW refused \in Refusals,
               SetFlag(flag, requested, refused)
        PROVE  FileInv'
    <2> DEFINE done == Status!setSingleFlag(flags, file, flag, requested, refused)
    <2>1. /\ done.file \in Descriptions
          /\ DOMAIN done.status = {"open", "access", "mask"}
          /\ done.status.open /\ done.status.mask = done.file
          /\ done.ok => (flag \subseteq done.file.flags <=> requested)
      BY FlagSet
    <2>2. /\ file' = done.file /\ flags' = done.status
          /\ asked' = [flag |-> flag, requested |-> requested, ok |-> done.ok]
          /\ permissions' = permissions
      BY <1>1 DEF SetFlag
    <2> HIDE DEF done
    <2>3. asked'.ok => (asked'.flag \subseteq file'.flags <=> asked'.requested)
      BY <2>1, <2>2
    <2> QED
      BY <2>1, <2>2, <2>3 DEF FileInv
  <1>2. ASSUME NEW index \in Indices, NEW value \in BOOLEAN, SetPermission(index, value)
        PROVE  FileInv'
    <2> DEFINE array == permissions.array
               mask == permissions.mask
               newArray == [array EXCEPT ![index] = value]
               newMask == IF value THEN mask \cup {index} ELSE mask \ {index}
    <2>1. CASE index >= Status!E_LAST \/ value = array[index]
      BY <1>2, <2>1 DEF SetPermission, Status!set, FileInv
    <2>2. CASE ~(index >= Status!E_LAST \/ value = array[index])
      <3>1. permissions' = [array |-> newArray, mask |-> newMask]
        BY <1>2, <2>2 DEF SetPermission, Status!set
      <3>2. index \in Status!Permission
        BY <2>2, IndicesAssumption DEF Status!E_LAST, Status!Permission
      <3>3. array = [i \in Status!Permission |-> i \in mask]
        BY DEF FileInv
      <3> HIDE DEF array, mask
      <3>4. newArray = [i \in Status!Permission |-> i \in newMask]
        <4>1. newArray = [i \in Status!Permission |-> IF i = index THEN value ELSE i \in mask]
          BY <3>2, <3>3
        <4>2. \A i : (IF i = index THEN value ELSE i \in mask) <=> i \in newMask
          OBVIOUS
        <4> QED
          BY <4>1, <4>2
      <3> HIDE DEF newArray, newMask
      <3> QED
        BY <1>2, <3>1, <3>4 DEF FileInv, SetPermission
    <2> QED
      BY <2>1, <2>2
  <1>3. ASSUME NEW mask \in Masks, SetPermissions(mask)
        PROVE  FileInv'
    <2>1. permissions' = [[permissions EXCEPT !.mask = mask] EXCEPT
                             !.array = [i \in Status!Permission |-> i \in mask]]
      BY <1>3 DEF SetPermissions, Status!setPermissions, Status!fillArray
    <2> QED
      BY <1>3, <2>1 DEF SetPermissions, FileInv
  <1>4. ASSUME UNCHANGED fileVars
        PROVE  FileInv'
    BY <1>4 DEF fileVars, FileInv
  <1> QED
    BY <1>1, <1>2, <1>3, <1>4 DEF FileNext

\* FileStatusFlags.cpp, FilePermissions.cpp: for any description the file is opened
\* with, any flags that the kernel refuses and any masks, what is kept is the file's.
THEOREM StatusIsTheFilesHolds ==
  FileSpec => []StatusIsTheFiles
  <1>1. FileInv => StatusIsTheFiles
    BY OpenIsNotClosed DEF FileInv, StatusIsTheFiles
  <1> QED
    BY <1>1, FileInvInit, FileInvStep, PTL DEF FileSpec

=============================================================================
