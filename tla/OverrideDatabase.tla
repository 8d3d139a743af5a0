------------------------- MODULE OverrideDatabase -------------------------
(***************************************************************************)
(* launchd's record of `launchctl enable' and `disable' (pkgs/launchd,     *)
(* daemon.cpp): a map in memory and a property list on disk, replaced by   *)
(* writing a sibling file and renaming it.  The steps are the system calls *)
(* of setOverride, any of which may fail, be the last one before the       *)
(* process is killed, or be followed by a loss of power.                   *)
(*                                                                         *)
(* The text of the property list is the map it encodes; a file of which    *)
(* only a part was written, or whose data never reached the disk, is Torn, *)
(* which parsePlist refuses.                                               *)
(***************************************************************************)
EXTENDS Naturals

CONSTANTS
    Labels,     \* the labels that commands name
    Shipped     \* the database of the image

Unset == "unset"
Values == {Unset, "disabled", "enabled"}
NoOverrides == [l \in Labels |-> Unset]
\* A database that is not there, and one that cannot be parsed.
Absent == [l \in Labels |-> "absent"]
Torn == [l \in Labels |-> "torn"]
Contents == [Labels -> Values] \union {Absent, Torn}

ASSUME OverrideAssumption == Shipped \in [Labels -> Values]

VARIABLES
    loaded,     \* a launchd is running that has read the database
    overrides,  \* overrides_
    updated,    \* the map that setOverride is writing
    step,       \* where setOverride is; "idle" outside it
    tmp,        \* the sibling file: Absent, or what was written and synced
    db,         \* the database as open() sees it
    surviving,  \* what the database may be after a loss of power
    unread,     \* history: memory is empty because a read of the database failed
    versions    \* history: every map that was ever the intended one

ovars == <<loaded, overrides, updated, step, tmp, db, surviving, unread, versions>>

NoFile == [written |-> "none", synced |-> FALSE]

OverrideTypeOK ==
    /\ loaded \in BOOLEAN
    /\ overrides \in [Labels -> Values]
    /\ updated \in [Labels -> Values]
    /\ step \in {"idle", "unlink", "create", "write", "sync", "rename"}
    /\ tmp \in [written : {"none", "empty", "part", "whole"}, synced : BOOLEAN]
    /\ db \in Contents
    /\ surviving \subseteq Contents
    /\ unread \in BOOLEAN
    /\ versions \subseteq [Labels -> Values]

OverrideInit ==
    /\ loaded = FALSE
    /\ overrides = NoOverrides
    /\ updated = NoOverrides
    /\ step = "idle"
    /\ tmp = NoFile
    /\ db = Shipped
    /\ surviving = {Shipped}
    /\ unread = FALSE
    /\ versions = {Shipped}

-----------------------------------------------------------------------------
\* readOverrides: whatever goes wrong with a database that is there counts as
\* an empty one.  It may not parse; it may also be whole and not be `readable',
\* when open or read fails, readFile does not trust its owner, mode or size, or
\* it has more values than parsePlist takes.
readOverrides ==
    /\ ~loaded
    /\ loaded' = TRUE
    /\ \E readable \in BOOLEAN :
          /\ overrides' = IF readable /\ db \notin {Absent, Torn} THEN db ELSE NoOverrides
          /\ unread' = (~readable /\ db # Absent)
    /\ UNCHANGED <<updated, step, tmp, db, surviving, versions>>

\* The beginning of setOverride: the new map, from the one in memory.
BeginOverride(label, value) ==
    /\ loaded
    /\ step = "idle"
    /\ updated' = [overrides EXCEPT ![label] = value]
    /\ versions' = versions \union {updated'}
    /\ step' = "unlink"
    /\ UNCHANGED <<loaded, overrides, tmp, db, surviving, unread>>

\* The sibling that an earlier attempt left is in the way of O_EXCL.
UnlinkTemporary ==
    /\ step = "unlink"
    /\ tmp' = NoFile
    /\ step' = "create"
    /\ UNCHANGED <<loaded, overrides, updated, db, surviving, unread, versions>>

CreateTemporary ==
    /\ step = "create"
    /\ tmp.written = "none"
    /\ tmp' = [written |-> "empty", synced |-> FALSE]
    /\ step' = "write"
    /\ UNCHANGED <<loaded, overrides, updated, db, surviving, unread, versions>>

\* write() takes some or all of what is left; the loop ends with the last byte.
WriteTemporary ==
    /\ step = "write"
    /\ \E amount \in {"part", "whole"} \ {tmp.written} :
          /\ tmp' = [tmp EXCEPT !.written = amount]
          /\ step' = IF amount = "whole" THEN "sync" ELSE "write"
    /\ UNCHANGED <<loaded, overrides, updated, db, surviving, unread, versions>>

\* Mutant: the file is not synced.
SyncTemporaryForgotten ==
    /\ step = "sync"
    /\ step' = "rename"
    /\ UNCHANGED <<loaded, overrides, updated, tmp, db, surviving, unread, versions>>

SyncTemporary ==
    /\ step = "sync"
    /\ tmp' = [tmp EXCEPT !.synced = TRUE]
    /\ step' = "rename"
    /\ UNCHANGED <<loaded, overrides, updated, db, surviving, unread, versions>>

\* rename() replaces the database, and then setOverride ends with memory
\* updated.  The directory is not synced, so that a loss of power may still
\* bring back an earlier database.
RenameTemporary ==
    LET content == IF tmp.written = "whole" THEN updated ELSE Torn
    IN  /\ step = "rename"
        /\ db' = content
        /\ surviving' = surviving \union
                           (IF tmp.synced THEN {content} ELSE {content, Torn})
        /\ tmp' = NoFile
        /\ overrides' = updated
        /\ unread' = FALSE
        /\ step' = "idle"
        /\ UNCHANGED <<loaded, updated, versions>>

\* A system call fails: setOverride throws, and what it wrote so far stays.
OverrideFails ==
    /\ step # "idle"
    /\ step' = "idle"
    /\ UNCHANGED <<loaded, overrides, updated, tmp, db, surviving, unread, versions>>

\* The process is gone; files are as they were.
OverrideKilled ==
    /\ loaded' = FALSE
    /\ step' = "idle"
    /\ overrides' = NoOverrides
    /\ updated' = NoOverrides
    /\ unread' = FALSE
    /\ UNCHANGED <<tmp, db, surviving, versions>>

\* The machine loses power: a rename that was not synced may be undone, and of
\* the sibling anything or nothing is left.
OverridePowerLoss ==
    /\ loaded' = FALSE
    /\ step' = "idle"
    /\ overrides' = NoOverrides
    /\ updated' = NoOverrides
    /\ unread' = FALSE
    /\ db' \in surviving
    /\ surviving' = {db'}
    /\ tmp' \in {NoFile, tmp}
    /\ UNCHANGED versions

WriteStep ==
    \/ UnlinkTemporary \/ CreateTemporary \/ WriteTemporary
    \/ SyncTemporary \/ RenameTemporary

OverrideNext ==
    \/ readOverrides
    \/ \E label \in Labels, value \in {"disabled", "enabled"} :
          BeginOverride(label, value)
    \/ WriteStep
    \/ OverrideFails
    \/ OverrideKilled
    \/ OverridePowerLoss

OverrideSpec == OverrideInit /\ [][OverrideNext]_ovars

-----------------------------------------------------------------------------
\* After any kill, failed write or loss of power, a launchd that starts again
\* applies a map that enable and disable once meant to record, never a part of
\* one and never the empty map of a file that setOverride left unparsable.  The
\* one exception is readOverrides' own: a whole database that it could not read
\* counts as empty, and the next command then records a map made from that.
OverridesAreWhole ==
    loaded => overrides \in versions \/ (unread /\ overrides = NoOverrides)

\* What launchd applies to the next load is what the disk holds: a command that
\* fails at any system call changes neither, one that succeeds changes both
\* (setOverride).  Only a read that failed leaves memory empty beside a database
\* that is not, until a command succeeds (readOverrides).
MemoryMatchesDisk ==
    loaded => IF unread THEN overrides = NoOverrides ELSE overrides = db
=============================================================================
