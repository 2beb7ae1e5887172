--------------------------- MODULE FileStatusCalls ---------------------------
(***************************************************************************)
(* An open file whose status flags and permissions a client sets one at a  *)
(* time, while the kernel may refuse any of the flags.                     *)
(***************************************************************************)
EXTENDS Integers, Sequences

Status == INSTANCE FileStatus

CONSTANTS
    OpenFiles,   \* the kernel's descriptions that the file may have when opened
    Flags,       \* those whose setters are called
    Refusals,    \* sets of flags that the kernel may not permit
    Masks,       \* the masks of permissions that a file may have
    Indices      \* of the permissions that are set; E_LAST and others are none

\* A description of an open file has one of three access modes.
ASSUME OpenAssumption ==
    OpenFiles \subseteq [access : {"RDONLY", "WRONLY", "RDWR"}, flags : SUBSET Status!StatusFlag]
ASSUME FlagsAssumption == Flags \subseteq Status!Setters
ASSUME IndicesAssumption == Indices \subseteq Nat

VARIABLES
    file,         \* the kernel's description
    flags,        \* FileStatusFlags
    asked,        \* the last call that set a flag, with its answer
    permissions   \* FilePermissions

fileVars == <<file, flags, asked, permissions>>

NotAsked == [flag |-> {}, requested |-> FALSE, ok |-> FALSE]

\* A setter of FileStatusFlags.  setFlags is none of them: it tells the kernel nothing.
SetFlag(flag, requested, refused) ==
    LET done == Status!setSingleFlag(flags, file, flag, requested, refused)
    IN  /\ file' = done.file /\ flags' = done.status
        /\ asked' = [flag |-> flag, requested |-> requested, ok |-> done.ok]
        /\ UNCHANGED permissions

SetPermission(index, value) ==
    /\ permissions' = Status!set(permissions, index, value)
    /\ UNCHANGED <<file, flags, asked>>

SetPermissions(mask) ==
    /\ permissions' = Status!setPermissions(permissions, mask)
    /\ UNCHANGED <<file, flags, asked>>

FileInit ==
    /\ file \in OpenFiles /\ flags = Status!FileStatusFlags(TRUE, file)
    /\ asked = NotAsked
    /\ permissions \in {Status!FilePermissions(mask) : mask \in Masks}

FileNext ==
    \/ \E flag \in Flags, requested \in BOOLEAN, refused \in Refusals :
          SetFlag(flag, requested, refused)
    \/ \E index \in Indices, value \in BOOLEAN : SetPermission(index, value)
    \/ \E mask \in Masks : SetPermissions(mask)

FileSpec == FileInit /\ [][FileNext]_fileVars

-----------------------------------------------------------------------------
\* FileStatusFlags.cpp, FilePermissions.cpp: after any calls the mask that is kept
\* is the kernel's, also when the kernel refused, and the answer TRUE is that the
\* flag is as requested; the array of permissions says what their mask says.
StatusIsTheFiles ==
    /\ flags.mask = Status!F_GETFL(file)
    /\ asked.ok => (asked.flag \subseteq file.flags <=> asked.requested)
    /\ \A i \in Status!Permission : permissions.array[i] <=> i \in permissions.mask

=============================================================================
