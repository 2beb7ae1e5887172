----------------------------- MODULE FileOpening -----------------------------
(***************************************************************************)
(* Opening by name: named pipes (NamedPipeDevice), files (FileDevice,      *)
(* TemporaryFileDevice), copies (LinuxIOUtilities) and the sockets of UNIX *)
(* servers (AcceptorPolicy).  Each opener makes several system calls and   *)
(* others may change the name between any two; a step is one system call.  *)
(* All processes have one owner without special rights.                    *)
(***************************************************************************)
EXTENDS Integers, FiniteSets

CONSTANTS
    Openers,      \* one device each, in a process of its own
    Inodes,       \* bound: what can be created
    Nothing       \* no inode

ASSUME OpenersAssumption == IsFiniteSet(Openers)
ASSUME NothingAssumption == Nothing \notin Inodes

VARIABLES
    name,       \* the inode of the name, and of the name of the copy
    inode,      \* what each inode is, and its permissions
    opener,     \* how far each opener is
    removed,    \* history: who took the name of a pipe or socket of another
    disturbed   \* history: openers in whose way another changed a name

vars == <<name, inode, opener, removed, disturbed>>

Sides == {"read", "write"}

NewOpener ==
    [op |-> "none", at |-> "idle", sides |-> {}, waits |-> FALSE, made |-> Nothing,
     fd |-> Nothing, source |-> Nothing, opened |-> 0, answer |-> FALSE, saving |-> FALSE]

Unused == [kind |-> "none", mode |-> "none"]

\* The copy's name is the one that copyTo and saveAs write to.
Target(a) == IF opener[a].op = "copy" THEN "copy" ELSE "path"

-----------------------------------------------------------------------------
(* Helpers.  A record of changes is laid over an opener. *)

Under(a) == opener[a].at
With(a, changes) ==
    opener' = [opener EXCEPT ![a] =
                  [f \in DOMAIN @ |-> IF f \in DOMAIN changes THEN changes[f] ELSE @[f]]]

\* An open gets a descriptor, and lets those go on who wait for its side of a pipe.
OpenedBy(a, i, changes) ==
    opener' = [b \in Openers |->
        IF b = a
        THEN [f \in DOMAIN opener[a] |->
                 IF f \in DOMAIN changes THEN changes[f]
                 ELSE IF f = "opened" THEN opener[a].opened + 1 ELSE opener[a][f]]
        ELSE [opener[b] EXCEPT !.waits =
                 @ /\ ~(Under(b) = "waiting" /\ opener[b].fd = i
                        /\ opener[a].sides \ opener[b].sides # {})]]

Answers(a, answer) ==
    IF opener[a].saving THEN With(a, [at |-> "reopenSaved"])
    ELSE With(a, [at |-> "done", answer |-> answer])

Ended == {"done", "removed", "gone"}
Disturbs(a) ==
    disturbed' = disturbed \cup {b \in Openers \ {a} : Under(b) \notin Ended \cup {"idle"}}

Creates(a, i, kind, mode) ==
    /\ inode[i] = Unused
    /\ name' = [name EXCEPT ![Target(a)] = i]
    /\ inode' = [inode EXCEPT ![i] = [kind |-> kind, mode |-> mode]]
    /\ Disturbs(a)

Unlinks(a) ==
    LET i == name["path"]
    IN  /\ name' = [name EXCEPT !["path"] = Nothing]
        /\ removed' = IF i # Nothing /\ inode[i].kind # "file" /\ opener[a].made # i
                      THEN removed \cup {opener[a].op} ELSE removed
        /\ Disturbs(a)

\* open of a name without O_CREAT, other than for one side of a pipe.
Opens(n) ==
    name[n] # Nothing /\ inode[name[n]].mode # "none" /\ inode[name[n]].kind # "socket"

names == <<name, inode, removed, disturbed>>

-----------------------------------------------------------------------------
(* NamedPipeDevice::openPipe *)

StartPipe(a) ==
    /\ Under(a) = "idle"
    /\ \E side \in Sides, non_blocking \in BOOLEAN :
          With(a, [op |-> "pipe", sides |-> {side}, waits |-> ~non_blocking,
                   at |-> IF name["path"] = Nothing THEN "mkfifo" ELSE "openPipe"])
    /\ UNCHANGED names

\* mkfifo fails when the name is there by now.
makefifo(a) ==
    /\ Under(a) = "mkfifo"
    /\ \/ /\ name["path"] = Nothing
          /\ \E i \in Inodes : Creates(a, i, "fifo", "asked") /\ With(a, [at |-> "openPipe", made |-> i])
          /\ UNCHANGED removed
       \/ name["path"] # Nothing /\ Answers(a, FALSE) /\ UNCHANGED names

\* Who has the pipe open for the other side, or is waiting in its own open.
Others(a, i) == {b \in Openers \ {a} : opener[b].fd = i /\ opener[b].sides \ opener[a].sides # {}}

\* An open that fails leaves a pipe that was made for it behind.
openPipe(a) ==
    LET i == name["path"]
        enters == /\ Opens("path")
                  /\ inode[i].kind = "fifo" /\ ~opener[a].waits /\ opener[a].sides = {"write"} =>
                         Others(a, i) # {}
    IN  /\ Under(a) = "openPipe"
        /\ IF enters
           THEN OpenedBy(a, i, [fd |-> i, at |-> "waiting", waits |-> opener[a].waits /\ inode[i].kind = "fifo"
                                                                /\ Others(a, i) = {}])
           ELSE Answers(a, FALSE)
        /\ UNCHANGED names

\* A blocking open returns when the other side is there, and counts for it until
\* then; the one who made the pipe unlinks the name.
UnlinksAnyway(a) ==                  \* mutant: new_pipe_created is not asked
    /\ Under(a) = "waiting" /\ ~opener[a].waits
    /\ With(a, [at |-> "unlink"])
    /\ UNCHANGED names
EnterPipe(a) ==
    /\ Under(a) = "waiting" /\ ~opener[a].waits
    /\ IF opener[a].made # Nothing THEN With(a, [at |-> "unlink"]) ELSE Answers(a, TRUE)
    /\ UNCHANGED names

UnlinkPipe(a) ==
    /\ Under(a) = "unlink"
    /\ Unlinks(a) /\ Answers(a, TRUE)
    /\ UNCHANGED inode

-----------------------------------------------------------------------------
(* FileDevice::openFileImpl, LinuxIOUtilities::openExistingFile *)

StartFile(a) ==
    /\ Under(a) = "idle"
    /\ With(a, [op |-> "file", sides |-> Sides,
                at |-> IF name["path"] = Nothing THEN "create" ELSE "openExisting"])
    /\ UNCHANGED names

Takes(a, n, at) ==
    OpenedBy(a, name[n], [fd |-> name[n], at |-> at, answer |-> TRUE, saving |-> FALSE])

openExistingFile(a) ==
    /\ Under(a) = "openExisting"
    /\ IF Opens("path") THEN Takes(a, "path", "done") ELSE Answers(a, FALSE)
    /\ UNCHANGED names

-----------------------------------------------------------------------------
(* LinuxIOUtilities::openNewFile *)

\* Where openNewFile returns to.
NewFile(a) == IF opener[a].op = "copy" THEN "copyLines" ELSE "done"
GivesUp(a) ==
    IF opener[a].op = "copy" THEN With(a, [fd |-> Nothing, at |-> "noCopy"])
    ELSE With(a, [fd |-> Nothing, at |-> "done", answer |-> FALSE, saving |-> FALSE])

\* The permissions that a file is made with.  The umask takes some of those asked
\* for away; a copy is made with its source's status flags in their place, which
\* are no permissions at all.
Made(a) == IF opener[a].op = "copy" THEN "none" ELSE "masked"

\* st_mode has the kind of file among its bits, and so a regular file never has the
\* permissions asked for; a copy's flags happen to be that bit.
TakenAsAsked(a, mode) == TRUE        \* mutant: the permissions are not compared
AsAsked(a, mode) == opener[a].op = "copy" /\ mode = "none"

CreateFile(a) ==
    /\ Under(a) = "create"
    /\ \/ /\ name[Target(a)] = Nothing
          /\ \E i \in Inodes :
                /\ Creates(a, i, "file", Made(a))
                /\ With(a, [made |-> i, fd |-> i, opened |-> opener[a].opened + 1,
                            at |-> IF AsAsked(a, Made(a)) THEN NewFile(a) ELSE "chmod",
                            answer |-> TRUE])
          /\ UNCHANGED removed
       \/ /\ name[Target(a)] # Nothing
          /\ With(a, [at |-> "openAnyway"])
          /\ UNCHANGED names

\* Somebody else's by now, and taken for the new file.
OpenAnyway(a) ==
    /\ Under(a) = "openAnyway"
    /\ IF Opens(Target(a))
       THEN OpenedBy(a, name[Target(a)], [fd |-> name[Target(a)], at |-> "chmod"])
       ELSE GivesUp(a)
    /\ UNCHANGED names

\* The permissions are set and the descriptor is closed, to open the name again.
StaysOpen(opened) == opened          \* mutant: close is forgotten
CloseFirst(opened) == opened - 1

Asked(a) == IF opener[a].op = "copy" THEN "none" ELSE "asked"

Chmod(a) ==
    /\ Under(a) = "chmod"
    /\ inode' = [inode EXCEPT ![opener[a].fd].mode = Asked(a)]
    /\ With(a, [at |-> "reopen", fd |-> Nothing, opened |-> CloseFirst(opener[a].opened)])
    /\ UNCHANGED <<name, removed, disturbed>>

Reopen(a) ==
    /\ Under(a) = "reopen"
    /\ IF Opens(Target(a))
       THEN OpenedBy(a, name[Target(a)], [fd |-> name[Target(a)], at |-> NewFile(a), answer |-> TRUE])
       ELSE GivesUp(a)
    /\ UNCHANGED names

-----------------------------------------------------------------------------
(* LinuxIOUtilities::copyTo.  One check of each name before anything is    *)
(* opened; without the new file the source is not closed.                  *)

StartCopy(a) ==
    /\ Under(a) = "idle"
    /\ With(a, [op |-> "copy",
                at |-> IF name["path"] # Nothing /\ name["copy"] = Nothing
                       THEN "openSource" ELSE "done"])
    /\ UNCHANGED names

\* Bound: the source is no pipe, in which the copy would wait for a writer.
OpenSource(a) ==
    /\ Under(a) = "openSource"
    /\ name["path"] # Nothing => inode[name["path"]].kind = "file"
    /\ IF Opens("path")
       THEN With(a, [source |-> name["path"], opened |-> opener[a].opened + 1, at |-> "create"])
       ELSE Answers(a, FALSE)
    /\ UNCHANGED names

NoCopy(a) ==
    /\ Under(a) = "noCopy"
    /\ Answers(a, FALSE)
    /\ UNCHANGED names

CopyLines(a) ==
    /\ Under(a) = "copyLines"
    /\ With(a, [source |-> Nothing, fd |-> Nothing, opened |-> opener[a].opened - 2,
                at |-> IF opener[a].saving THEN "reopenSaved" ELSE "done", answer |-> TRUE])
    /\ UNCHANGED names

-----------------------------------------------------------------------------
(* FileDevice::remove, TemporaryFileDevice::saveAs, on a device that is open *)

Device(a) == Under(a) = "done" /\ opener[a].op = "file" /\ opener[a].fd # Nothing

CloseAndRemove(a) ==
    /\ Device(a)
    /\ With(a, [fd |-> Nothing, opened |-> opener[a].opened - 1, at |-> "remove"])
    /\ UNCHANGED names

remove(a) ==
    /\ Under(a) = "remove"
    /\ Unlinks(a)
    /\ With(a, [at |-> "removed", answer |-> name["path"] # Nothing])
    /\ UNCHANGED inode

\* The device is closed, copied by name and opened again; the answer is that of
\* the last, whatever became of the copy.  Bound: none after a copy that failed.
saveAs(a) ==
    /\ Device(a) /\ opener[a].source = Nothing
    /\ With(a, [op |-> "copy", saving |-> TRUE, fd |-> Nothing, opened |-> opener[a].opened - 1,
                made |-> Nothing,
                at |-> IF name["path"] # Nothing /\ name["copy"] = Nothing
                       THEN "openSource" ELSE "reopenSaved"])
    /\ UNCHANGED names

ReopenSaved(a) ==
    /\ Under(a) = "reopenSaved"
    /\ With(a, [op |-> "file", saving |-> FALSE, made |-> Nothing,
                at |-> IF name["path"] = Nothing THEN "create" ELSE "openExisting"])
    /\ UNCHANGED names

-----------------------------------------------------------------------------
(* AcceptorPolicy of a UNIX server: bind, and what its destructor does     *)
(* with the name.  The name is kept before it is known whether the bind    *)
(* succeeds.                                                               *)

baseBind(a) ==
    \/ /\ name["path"] = Nothing
       /\ \E i \in Inodes :
             /\ Creates(a, i, "socket", "masked")
             /\ With(a, [op |-> "server", at |-> "done", made |-> i, answer |-> TRUE])
       /\ UNCHANGED removed
    \/ /\ name["path"] # Nothing
       /\ With(a, [op |-> "server", at |-> "done"])
       /\ UNCHANGED names

bind(a) == Under(a) = "idle" /\ baseBind(a)

\* exists; then FileInfo's type; then remove.
Destroy(a) ==
    /\ Under(a) = "done" /\ opener[a].op = "server"
    /\ With(a, [at |-> IF name["path"] = Nothing THEN "gone" ELSE "type"])
    /\ UNCHANGED names

IsSocket(a) == name["path"] # Nothing /\ inode[name["path"]].kind = "socket"

LookAtType(a) ==
    /\ Under(a) = "type"
    /\ With(a, [at |-> IF IsSocket(a) THEN "unlinkSocket" ELSE "gone"])
    /\ UNCHANGED names

UnlinkSocket(a) ==
    /\ Under(a) = "unlinkSocket"
    /\ Unlinks(a) /\ With(a, [at |-> "gone"])
    /\ UNCHANGED inode

-----------------------------------------------------------------------------
Init ==
    /\ name = [n \in {"path", "copy"} |-> Nothing]
    /\ inode = [i \in Inodes |-> Unused]
    /\ opener = [a \in Openers |-> NewOpener]
    /\ removed = {} /\ disturbed = {}

PipeStep(a) == StartPipe(a) \/ makefifo(a) \/ openPipe(a) \/ EnterPipe(a) \/ UnlinkPipe(a)

FileStep(a) ==
    \/ StartFile(a) \/ openExistingFile(a) \/ CreateFile(a) \/ OpenAnyway(a) \/ Chmod(a) \/ Reopen(a)

CopyStep(a) ==
    \/ StartCopy(a) \/ OpenSource(a) \/ NoCopy(a) \/ CopyLines(a)
    \/ CloseAndRemove(a) \/ remove(a) \/ saveAs(a) \/ ReopenSaved(a)

ServerStep(a) == bind(a) \/ Destroy(a) \/ LookAtType(a) \/ UnlinkSocket(a)

Next == \E a \in Openers : PipeStep(a) \/ FileStep(a) \/ CopyStep(a) \/ ServerStep(a)

Spec == Init /\ [][Next]_vars

-----------------------------------------------------------------------------
(* Properties *)

Number(i) == IF i = Nothing THEN 0 ELSE 1

\* openPipe, openFileImpl, openNewFile, copyTo: the descriptors that are open are
\* those that the device knows of, and an opener that answered TRUE has one; one
\* that answered FALSE has none, but for the source of a copy that could not be made.
DescriptorsAccounted ==
    \A a \in Openers :
        LET o == opener[a]
        IN  /\ o.opened = Number(o.fd) + Number(o.source)
            /\ o.at = "done" /\ o.op \in {"pipe", "file"} => (o.answer <=> o.fd # Nothing)
            /\ o.at = "done" /\ o.op = "copy" => o.fd = Nothing /\ (o.answer => o.source = Nothing)

Maker(i) == {a \in Openers : opener[a].made = i}

\* NamedPipeDevice::openPipe, ~AcceptorPolicy: a name that leads to a pipe still is
\* there only while its maker is under way or because it failed to open it; and who
\* waits in an open can still be met, unless the pipe was made by somebody for the
\* same side, who has unlinked it without meeting anyone, or its name was taken by a
\* FileDevice or a server that is destroyed; only after that the maker of a pipe may
\* unlink the name of another.  So a server's name leads to its socket, unless a
\* FileDevice or another server, maybe one whose bind failed, removed it.
NamesAreFound ==
    /\ \A i \in Inodes, a \in Openers :
          name["path"] = i /\ a \in Maker(i) /\ inode[i].kind = "fifo" /\ Under(a) = "done" =>
              ~opener[a].answer
    /\ \A a \in Openers :
          LET i == opener[a].fd
          IN  Under(a) = "waiting" /\ opener[a].waits /\ removed = {} =>
                  \/ name["path"] = i
                  \/ \E b \in Maker(i) \ {a} : opener[b].sides = opener[a].sides
    /\ "pipe" \in removed => removed \cap {"file", "server"} # {}
    /\ \A a \in Openers :
          opener[a].op = "server" /\ Under(a) = "done" /\ opener[a].answer /\ removed = {} =>
              name["path"] = opener[a].made

\* openNewFile: a file device that made its file and was not disturbed has this very
\* file open, with the permissions that were asked for, although it opened it twice.
OwnFileAnswered ==
    \A a \in Openers \ disturbed :
        Under(a) = "done" /\ opener[a].op = "file" /\ opener[a].made # Nothing =>
            /\ opener[a].answer /\ opener[a].fd = opener[a].made
            /\ inode[opener[a].made] = [kind |-> "file", mode |-> "asked"]

=============================================================================
