----------------------------- MODULE FileStatus ------------------------------
(***************************************************************************)
(* What the library keeps of an open file: its status flags with the       *)
(* access mode beside them, its permissions as a mask with an array beside *)
(* it, and what stat told.  A mask is the set of its bits, in several      *)
(* parts where the kernel's constant has several.                          *)
(***************************************************************************)
EXTENDS Integers, Sequences

-----------------------------------------------------------------------------
(* FileIODefinitions.h: the flags, of which F_SETFL changes some. *)

O_SYNC == {"SYNC", "DSYNC"}
Modifiable == {"APPEND", "NONBLOCK", "NOATIME", "ASYNC", "DIRECT"}
StatusFlag == Modifiable \cup O_SYNC

\* -1 read as a mask has every bit, the access mode's included.
Failed == [access |-> "both", flags |-> StatusFlag]

\* The kernel's file description; a descriptor that is closed has none.
Closed == [access |-> "none", flags |-> {}]

F_GETFL(file) == IF file = Closed THEN Failed ELSE file

\* Refused as a whole when a flag that it would add is not permitted.
F_SETFL(file, flags, refused) ==
    IF file = Closed \/ (flags \ file.flags) \cap refused # {} THEN file
    ELSE [file EXCEPT !.flags = (@ \ Modifiable) \cup (flags \cap Modifiable)]

-----------------------------------------------------------------------------
(* FileStatusFlags.cpp *)

\* The access mode of a mask; the value 3 leaves it as it was.
settAccessModeFlag(status, mask) ==
    [status EXCEPT !.access =
        CASE mask.access = "RDONLY" -> "E_READ_ONLY"
          [] mask.access = "WRONLY" -> "E_WRITE_ONLY"
          [] mask.access = "RDWR" -> "E_READ_WRITE"
          [] OTHER -> @]

valid(status) == status.access # "E_UNDEFINED" \/ status.open

\* Answers whether the mask changed; an invalid status has none.
KeepsOldMask(status, mask) ==
    [ok |-> valid(status) /\ status.mask # mask, status |-> status]
setFlagsMask(status, mask) ==
    [ok |-> valid(status) /\ status.mask # mask,
     status |-> IF valid(status) THEN [status EXCEPT !.mask = mask] ELSE status]

NoFlags == [access |-> "RDONLY", flags |-> {}]

\* A number that was never a descriptor is negative; one that was closed is not.
FileStatusFlags(open, file) ==
    LET new == [open |-> open, access |-> "E_UNDEFINED", mask |-> NoFlags]
        read == settAccessModeFlag(new, F_GETFL(file))
    IN  IF file = Closed THEN new
        ELSE IF valid(read) THEN setFlagsMask(read, F_GETFL(file)).status ELSE read

getSingleFlag(status, flag) == valid(status) /\ status.mask.flags \cap flag # {}

\* Both fcntl calls answer without an error being looked at.
setSingleFlag(status, file, flag, requested, refused) ==
    LET changed == [status.mask EXCEPT !.flags = IF requested THEN @ \cup flag ELSE @ \ flag]
        after == F_SETFL(file, changed.flags, refused)
        set == setFlagsMask(status, F_GETFL(after))
    IN  IF ~valid(status) \/ requested = getSingleFlag(status, flag)
        THEN [ok |-> FALSE, status |-> status, file |-> file]
        ELSE [ok |-> set.ok /\ changed = F_GETFL(after), status |-> set.status, file |-> after]

\* Named the setter of all flags; it tells the kernel nothing.
setFlags(status, mask) ==
    LET set == setFlagsMask(settAccessModeFlag(status, mask), mask)
    IN  [ok |-> set.ok,
         status |-> IF set.ok \/ status.access = "E_UNDEFINED" THEN set.status
                    ELSE [set.status EXCEPT !.access = status.access]]

\* The setters and getters by their flags; sync answers for either of its bits.
Setters == {{f} : f \in Modifiable}
Getters == Setters \cup {{"DSYNC"}, O_SYNC}

getAccessModeFlag(access) ==
    CASE access = "E_READ_ONLY" -> NoFlags
      [] access = "E_WRITE_ONLY" -> [NoFlags EXCEPT !.access = "WRONLY"]
      [] access = "E_READ_WRITE" -> [NoFlags EXCEPT !.access = "RDWR"]
      [] access = "E_APPEND" -> [access |-> "WRONLY", flags |-> {"APPEND"}]
      [] OTHER -> NoFlags

-----------------------------------------------------------------------------
(* FilePermissions.cpp: the nine permissions, and the bits of st_mode that *)
(* are none of them.                                                       *)

Permission == 0..8
E_LAST == 9

fillArray(permissions, mask) ==
    [permissions EXCEPT !.array = [i \in Permission |-> i \in mask]]

FilePermissions(mask) == [mask |-> mask, array |-> [i \in Permission |-> i \in mask]]

setPermissions(permissions, mask) == fillArray([permissions EXCEPT !.mask = mask], mask)

set(permissions, index, value) ==
    IF index >= E_LAST \/ value = permissions.array[index] THEN permissions
    ELSE [array |-> [permissions.array EXCEPT ![index] = value],
          mask |-> IF value THEN permissions.mask \cup {index} ELSE permissions.mask \ {index}]

\* The constructor with a list sets one after another.
Initial[list \in Seq(Permission)] ==
    IF list = <<>> THEN FilePermissions({})
    ELSE set(Initial[SubSeq(list, 1, Len(list) - 1)], list[Len(list)], TRUE)

permissionsToString(permissions) ==
    [i \in 1..9 |-> IF permissions.array[i - 1] THEN <<"r", "w", "x">>[((i - 1) % 3) + 1] ELSE "-"]

-----------------------------------------------------------------------------
(* FileInfo.cpp.  What a stat tells: the kind of file, its permissions and *)
(* its size; or that there is none.                                        *)

\* The kinds of file by their bit in st_mode, behind the permissions' bits; others
\* have none of these.
Kinds ==
    [kind \in 11..17 |->
        <<"E_REGULAR", "E_DIRECTORY", "E_CHARACTER_DEVICE", "E_BLOCK_DEVICE",
          "E_SYMBOLIC_LINK", "E_NAMED_PIPE", "E_LOCAL_SOCKET">>[kind - 10]]

getFileType(kind) == IF kind \in DOMAIN Kinds THEN Kinds[kind] ELSE "E_UNDEFINED"

NoFile == [kind |-> -1, permissions |-> {}, size |-> 0]

NewInfo == [type |-> "E_UNDEFINED", permissions |-> FilePermissions({}), availableSize |-> 0]

\* The permissions' mask is all of st_mode, with the kind of file among its bits.
setFields(info, stats) ==
    [type |-> getFileType(stats.kind), availableSize |-> stats.size,
     permissions |-> setPermissions(info.permissions, stats.permissions \cup {stats.kind})]

\* A descriptor's file, or that of the pathname if there is no descriptor.
FileInfo(descriptor, byDescriptor, byPath) ==
    LET stats == IF descriptor = -1 THEN byPath ELSE byDescriptor
    IN  IF stats = NoFile THEN NewInfo ELSE setFields(NewInfo, stats)

existingDirectory(byPath) ==
    FileInfo(-1, NoFile, byPath).type = "E_DIRECTORY" /\ byPath # NoFile

-----------------------------------------------------------------------------
(* ResourceStatusPolicy.hpp, SeekableOperations.hpp *)

isReadable(open, file) ==
    open /\ FileStatusFlags(open, file).access \in {"E_READ_ONLY", "E_READ_WRITE"}

isWritable(open, file) ==
    FileStatusFlags(open, file).access \in {"E_WRITE_ONLY", "E_READ_WRITE"}

bytesAvailable(stats) == FileInfo(0, stats, NoFile).availableSize

\* lseek: a position, or -1 for a descriptor that cannot seek or a target before
\* the start.
lseek(position, distance, size, origin) ==
    LET target == distance + (CASE origin = "E_SEEK_SET" -> 0
                                [] origin = "E_SEEK_CUR" -> position
                                [] origin = "E_SEEK_END" -> size)
    IN  IF position = -1 \/ target < 0 THEN -1 ELSE target

seek(position, distance, size, origin) == lseek(position, distance, size, origin) # -1

\* Back by the position itself; the test for -1 is made on an unsigned number
\* that -1 was converted to, and holds.
goToStartPosition(position, size) ==
    position # -1 /\ seek(position, -position, size, "E_SEEK_CUR")

=============================================================================
