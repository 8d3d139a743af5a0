------------------------------ MODULE Install ------------------------------
(***************************************************************************)
(* One run of mdpkg install, from the resolved package to the last receipt *)
(* (install.c, receipts.c), in the running root and in the staged copy of  *)
(* an offline one.  Live, the run writes in place and keeps a journal; a   *)
(* failure undoes the journal.  Offline, the copy is thrown away on a      *)
(* failure and published otherwise, which the module Transaction models.   *)
(*                                                                         *)
(* Every system call that changes the tree is a step.  Between two of them *)
(* another program may write to the running root, the run may fail or be   *)
(* killed.  The packages' scripts make any changes of the set ScriptOps.   *)
(***************************************************************************)
EXTENDS PayloadPaths, FiniteSets

CONSTANTS
    Trees,          \* the roots to install into
    Packages,       \* sequences of components
    ScriptOps,      \* [path, node]: what a script does; node Missing removes
    OtherPaths      \* where another program may create a file

PayloadEntry == [path : Paths, kind : {"dir", "file", "link"}, to : Seq(STRING)]
Component == [payload : Seq(PayloadEntry), hooks : SUBSET {"pre", "post"},
              plist : Names, bom : Names, inventory : Names]

(* A root is a tree whose nodes are neither mdpkg's nor being written.  The  *)
(* components of a package have different identifiers, from which their     *)
(* records have their names (package.c:85-87, receipts.c:191-225).          *)
ASSUME InstallAssumption ==
    /\ MaxNames \in Nat
    /\ {"receipts", "mdpkg", ".mdpkg-scripts", ".lock"} \subseteq Names
    /\ {"/", ".", ".."} \cap Names = {}
    /\ \A t \in Trees :
          /\ t = [p \in DOMAIN t |-> t[p]] /\ DOMAIN t \subseteq Paths /\ IsDir(t, <<>>)
          /\ \A p \in DOMAIN t : t[p].kind \in Kinds /\ t[p].by = "base"
          /\ \A p \in DOMAIN t : \A d \in Above(p) : IsDir(t, d)
    /\ Packages \subseteq Seq(Component) \ {<<>>}
    /\ \A s \in Packages : \A i, j \in DOMAIN s : i # j => s[i].inventory # s[j].inventory
    /\ \A op \in ScriptOps :
          /\ op.path \in Paths \ {<<>>}
          /\ op.node = Missing \/ (op.node.kind \in Kinds /\ op.node.by = "script")
    /\ OtherPaths \subseteq Paths \ {<<>>}

VARIABLES
    live,           \* tx.live: the target is the running root
    base,           \* the root as it was when the run began
    pkg,            \* the components, their payload as packaged
    placed,         \* their payload as place_payload left it
    fs,             \* base_dir(): the root, or the staged copy
    journal,        \* the paths this run created, oldest first
    phase, at, entry,   \* where install_component is
    changes,        \* the script changes the inventories record
    touched,        \* what scripts and other programs changed, and astray
    astray,         \* what the undo removed through a link
    stuck           \* a removal of the undo failed

vars == <<live, base, pkg, placed, fs, journal, phase, at, entry, changes,
          touched, astray, stuck>>
run == <<live, base, pkg>>

ReceiptsDir == <<"receipts">>
InventoryDir == <<"mdpkg">>
ScriptsDir == <<".mdpkg-scripts">>
LockFile == Append(InventoryDir, ".lock")

Reserved(p) == \E d \in {ReceiptsDir, InventoryDir, ScriptsDir} : IsPrefix(d, p)

Records(c) == {Append(ReceiptsDir, c.plist), Append(ReceiptsDir, c.bom),
               Append(InventoryDir, c.inventory)}

Over == {"done", "failed", "killed"}
Following == [pre |-> "extract", extract |-> "links", links |-> "post", post |-> "plist",
              plist |-> "bom", bom |-> "inventory"]
Phases == DOMAIN Following \cup Over \cup {"lock", "preflight", "inventory", "restore", "undo"}
Authors == {"base", "mdpkg", "lock", "script", "other"}

TypeOK ==
    /\ live \in BOOLEAN /\ stuck \in BOOLEAN
    /\ \A p \in DOMAIN fs : fs[p].kind \in Kinds /\ fs[p].by \in Authors
    /\ \A p \in DOMAIN fs : p # <<>> => IsDir(fs, Front(p))
    /\ phase \in Phases
    /\ at \in 1..Len(pkg) /\ (entry = 1 \/ entry \in DOMAIN pkg[at].payload)
    /\ live \/ journal = <<>>

Init ==
    /\ live \in BOOLEAN
    /\ base \in Trees
    /\ pkg \in Packages
    /\ placed = [i \in DOMAIN pkg |-> pkg[i].payload]
    /\ fs = base
    /\ journal = <<>>
    /\ phase = (IF live THEN "lock" ELSE "preflight")
    /\ at = 1 /\ entry = 1
    /\ changes = {} /\ touched = {} /\ astray = {}
    /\ stuck = FALSE

-----------------------------------------------------------------------------
(* die(): the hook, once it is set, undoes the journal. *)
Die ==
    /\ phase' = IF live /\ phase \notin {"lock", "preflight"} THEN "undo" ELSE "failed"
    /\ UNCHANGED <<run, placed, journal, at, entry, changes, astray, stuck>>

(* A system call or a check fails. *)
Fail ==
    /\ phase \notin Over \cup {"undo"}
    /\ Die
    /\ UNCHANGED <<fs, touched>>

(* live_lock: no hook is set yet, so neither the directory nor the lock     *)
(* file is journalled, and both stay.                                      *)
Lock ==
    /\ phase = "lock"
    /\ IF Exists(fs, InventoryDir)
       THEN /\ IsDir(fs, InventoryDir)
            /\ fs' = IF Exists(fs, LockFile) THEN fs ELSE Put(fs, LockFile, File("lock"))
            /\ phase' = "preflight"
       ELSE /\ fs' = Put(fs, InventoryDir, Dir("lock"))
            /\ UNCHANGED phase
    /\ UNCHANGED <<run, placed, journal, at, entry, changes, touched, astray, stuck>>

(* preflight's checks of one component, its payload placed. *)
ComponentFits(c, payload) ==
    /\ \A p \in Records(c) : ParentsAreDirs(fs, p) /\ ~Exists(fs, p)
    /\ \A e \in Range(payload) :
          /\ e.path # Refused /\ FitsPathMax(e.path) /\ ~Reserved(e.path)
          /\ ParentsAreDirs(fs, e.path)
          /\ Exists(fs, e.path) => (e.kind = "dir" /\ IsDir(fs, e.path))

(* place_payload, then the checks, before anything is written.  The links   *)
(* of the payload passed symlink_check_lexical when it was loaded.          *)
Preflight ==
    /\ phase = "preflight"
    /\ \A c \in Range(pkg) : \A e \in Range(c.payload) : e.kind = "link" => LinkStays(e)
    /\ placed' = [i \in DOMAIN pkg |-> [j \in DOMAIN pkg[i].payload |->
                     [pkg[i].payload[j] EXCEPT !.path = Place(fs, live, pkg[i].payload[j])]]]
    /\ PathsAreDistinct(placed')
    /\ \A i \in DOMAIN pkg : ComponentFits(pkg[i], placed'[i])
    /\ ~Exists(fs, ScriptsDir)
    /\ phase' = "pre"
    /\ UNCHANGED <<run, fs, journal, at, entry, changes, touched, astray, stuck>>

-----------------------------------------------------------------------------
C == pkg[at]
Entry == placed[at][entry]

(* What comes after this phase of this component. *)
Advance ==
    \/ /\ phase = "extract" /\ entry < Len(C.payload)
       /\ entry' = entry + 1 /\ UNCHANGED <<phase, at>>
    \/ /\ phase \in DOMAIN Following
       /\ phase = "extract" => entry >= Len(C.payload)
       /\ entry' = 1 /\ phase' = Following[phase] /\ UNCHANGED at
    \/ /\ phase = "inventory" /\ at < Len(pkg)
       /\ entry' = 1 /\ phase' = "pre" /\ at' = at + 1
    \/ /\ phase = "inventory" /\ at = Len(pkg)
       /\ phase' = (IF live THEN "done" ELSE "restore") /\ UNCHANGED <<at, entry>>

(* The file, directory or link that extract and receipts_write make next. *)
Target ==
    CASE phase = "extract" -> Entry.path
      [] phase = "plist" -> Append(ReceiptsDir, C.plist)
      [] phase = "bom" -> Append(ReceiptsDir, C.bom)
      [] phase = "inventory" -> Append(InventoryDir, C.inventory)

NewNode ==
    IF phase # "extract" THEN Part("mdpkg")
    ELSE CASE Entry.kind = "dir" -> Dir("mdpkg")
           [] Entry.kind = "link" -> Link("mdpkg", Entry.to)
           [] Entry.kind = "file" -> Part("mdpkg")

Extracting == phase = "extract" /\ C.payload # <<>>
Writing == Extracting \/ phase \in {"plist", "bom", "inventory"}

\* Mutant: only what extract itself makes is journalled.
JournalEntries(p) ==
    journal' = IF live /\ Node(fs', p).kind # "dir" THEN Append(journal, p) ELSE journal

(* journal_add, called by extract itself and as path_parents' and           *)
(* file_create's hook.                                                     *)
Journal(p) == journal' = IF live THEN Append(journal, p) ELSE journal

(* path_parents makes the topmost directory that is missing. *)
MakeParent ==
    /\ Writing
    /\ ParentsAreDirs(fs, Target)
    /\ \E d \in Above(Target) :
          /\ ~Exists(fs, d)
          /\ \A q \in Above(d) : Exists(fs, q)
          /\ fs' = Put(fs, d, Dir("mdpkg"))
          /\ Journal(d)
    /\ UNCHANGED <<run, placed, phase, at, entry, changes, touched, astray, stuck>>

HaveParents == ParentsAreDirs(fs, Target) /\ \A d \in Above(Target) : Exists(fs, d)

(* extract, for a component without a payload. *)
NoPayload ==
    /\ phase = "extract" /\ ~Extracting
    /\ Advance
    /\ UNCHANGED <<run, placed, fs, journal, changes, touched, astray, stuck>>

(* extract keeps a directory that is there. *)
Keep ==
    /\ Extracting /\ Entry.kind = "dir"
    /\ HaveParents
    /\ IsDir(fs, Target)
    /\ Advance
    /\ UNCHANGED <<run, placed, fs, journal, changes, touched, astray, stuck>>

\* Mutant: what is there is written over.
CreateOver ==
    /\ Writing
    /\ HaveParents
    /\ Node(fs, Target) # Part("mdpkg")
    /\ fs' = Put(fs, Target, NewNode)
    /\ Journal(Target)
    /\ IF NewNode.kind = "part" THEN UNCHANGED <<phase, at, entry>> ELSE Advance
    /\ UNCHANGED <<run, placed, changes, touched, astray, stuck>>

(* mkdir, symlink or open with O_EXCL.  The inventory records every payload *)
(* entry as it is now, so a missing one is an error.                       *)
Create ==
    /\ Writing
    /\ HaveParents
    /\ ~Exists(fs, Target)
    /\ phase = "inventory" => \A e \in Range(placed[at]) : Exists(fs, Reached(fs, e.path))
    /\ fs' = Put(fs, Target, NewNode)
    /\ Journal(Target)
    /\ IF NewNode.kind = "part" THEN UNCHANGED <<phase, at, entry>> ELSE Advance
    /\ UNCHANGED <<run, placed, changes, touched, astray, stuck>>

(* write_all and file_finish. *)
Finish ==
    /\ Writing /\ NewNode.kind = "part"
    /\ Node(fs, Target) = Part("mdpkg")
    /\ fs' = Put(fs, Target, File("mdpkg"))
    /\ Advance
    /\ UNCHANGED <<run, placed, journal, changes, touched, astray, stuck>>

(* check_payload_symlinks: a chain of links may not leave the root either. *)
CheckLinks ==
    /\ phase = "links"
    /\ \A e \in Range(placed[at]) :
          e.kind = "link" => Resolve(fs, live, Front(e.path) \o e.to, TRUE) # Refused
    /\ Advance
    /\ UNCHANGED <<run, placed, fs, journal, changes, touched, astray, stuck>>

-----------------------------------------------------------------------------
(* What a script's command makes of a tree; it changes nothing when the     *)
(* directory is not there.                                                 *)
Apply(tree, op) ==
    IF op.node = Missing
    THEN [q \in {q \in DOMAIN tree : ~IsPrefix(op.path, q)} |-> tree[q]]
    ELSE IF IsDir(tree, Front(op.path)) /\ ~IsDir(tree, op.path)
         THEN Put(tree, op.path, op.node)
         ELSE tree

Differ(before, after) ==
    {p \in DOMAIN before \cup DOMAIN after : Node(before, p) # Node(after, p)}

\* Mutant: what a script removed is not recorded.
ChangesStillThere(before, after) == {p \in DOMAIN after : Node(before, p) # after[p]}

(* script_changes: created or modified, and removed. *)
script_changes(before, after) ==
    {p \in DOMAIN after : Node(before, p) # after[p]} \cup (DOMAIN before \ DOMAIN after)

(* run_hook, for the two hooks before the payload or the two after it.  A    *)
(* hook may fail after it changed something.                               *)
RunHooks ==
    /\ phase \in {"pre", "post"}
    /\ IF phase \notin C.hooks
       THEN Advance /\ UNCHANGED <<run, placed, fs, journal, changes, touched, astray, stuck>>
       ELSE \E first, second \in ScriptOps :
              LET after == Apply(Apply(fs, first), second)
              IN  /\ fs' = after
                  /\ touched' = touched \cup Differ(fs, after)
                  /\ \/ /\ Advance
                        /\ changes' = IF live THEN changes
                                      ELSE changes \cup script_changes(fs, after)
                        /\ UNCHANGED <<run, placed, journal, astray, stuck>>
                     \/ Die

(* Another program of the running system creates a file. *)
Other ==
    /\ live /\ phase \notin Over
    /\ \A p \in DOMAIN fs : fs[p].by # "other"
    /\ \E p \in OtherPaths :
          /\ ~Exists(fs, p) /\ IsDir(fs, Front(p))
          /\ fs' = Put(fs, p, File("other"))
          /\ touched' = touched \cup {p}
    /\ UNCHANGED <<run, placed, journal, phase, at, entry, changes, astray, stuck>>

(* restore_base_directories: the copy's directories are still there.  The    *)
(* modes and times it puts back are not modelled.                          *)
Restore ==
    /\ phase = "restore"
    /\ \A p \in DOMAIN base : IsDir(base, p) => IsDir(fs, p)
    /\ phase' = "done"
    /\ UNCHANGED <<run, placed, fs, journal, at, entry, changes, touched, astray, stuck>>

-----------------------------------------------------------------------------
(* journal_undo removes what it reaches by a path of the journal.  What is    *)
(* no longer there is skipped and a directory that was filled stays.  The    *)
(* root is never removed.                                                    *)
Removable(p) == p # <<>> /\ Exists(fs, p) /\ Inside(fs, p) = {}

Remove(p) ==
    LET found == Reached(fs, p)
    IN  /\ fs' = IF Removable(found) THEN Without(fs, found) ELSE fs
        /\ astray' = IF Removable(found) /\ found # p THEN astray \cup {found} ELSE astray
        /\ touched' = touched \cup astray'

\* Mutant: the journal is undone in the order it was written.
UndoForwards ==
    /\ phase = "undo" /\ journal # <<>>
    /\ Remove(Head(journal))
    /\ journal' = Tail(journal)
    /\ UNCHANGED <<run, placed, phase, at, entry, changes, stuck>>

(* The newest path first; a failure is only reported. *)
Undo ==
    /\ phase = "undo" /\ journal # <<>>
    /\ \/ Remove(Last(journal)) /\ UNCHANGED stuck
       \/ UNCHANGED <<fs, touched, astray>> /\ stuck' = TRUE
    /\ journal' = Front(journal)
    /\ UNCHANGED <<run, placed, phase, at, entry, changes>>

Undone ==
    /\ phase = "undo" /\ journal = <<>>
    /\ phase' = "failed"
    /\ UNCHANGED <<run, placed, fs, journal, at, entry, changes, touched, astray, stuck>>

Kill ==
    /\ phase \notin Over
    /\ phase' = "killed"
    /\ UNCHANGED <<run, placed, fs, journal, at, entry, changes, touched, astray, stuck>>

Mdpkg ==
    \/ Fail \/ Lock \/ Preflight \/ MakeParent \/ NoPayload \/ Keep \/ Create \/ Finish
    \/ CheckLinks \/ Restore \/ Undo \/ Undone

Next == Mdpkg \/ RunHooks \/ Other \/ Kill

Spec == Init /\ [][Next]_vars

-----------------------------------------------------------------------------
(* A failed live install leaves nothing of its own behind: whatever it made *)
(* is gone, up to the lock, and to a directory that holds something a       *)
(* script or another program put there (install.c:449-460), or that was     *)
(* made anew after a script removed it: of such a one the journal has       *)
(* entries older than itself, and what comes to be there holds it up until  *)
(* they are undone.  What held a directory up may itself be removed later,  *)
(* when the undo goes astray (NothingIsReplaced).  It holds whichever step  *)
(* failed, unless a removal failed too.                                     *)
NothingIsLeft ==
    (phase = "failed" /\ live /\ ~stuck) =>
        \A p \in DOMAIN fs :
            fs[p].by = "mdpkg" =>
                /\ fs[p].kind = "dir"
                /\ \E q \in touched :
                      IsPrefix(p, q) /\ (Exists(fs, q) \/ q \in astray)

(* Nothing existing is ever replaced (README.md:199): no step of mdpkg       *)
(* changes or removes what it did not make, but for two removals of the     *)
(* undo.  It removes what a script or another program put where mdpkg had   *)
(* made something; and where a script put a link in the place of a          *)
(* directory, it removes what the path of the journal now leads to, which   *)
(* may have been in the root before.                                        *)
NothingIsReplaced ==
    [][Mdpkg => \A p \in DOMAIN fs :
           \/ Node(fs', p) = fs[p]
           \/ fs[p].by = "mdpkg"
           \/ /\ phase = "undo" /\ p = Reached(fs, Last(journal))
              /\ IF p = Last(journal) THEN p \in touched
                 ELSE \E d \in Above(Last(journal)) \cap touched : ~IsDir(fs, d)]_vars

(* An inventory is the last thing written and the first one undone, so that *)
(* at every moment, a kill during the undo included, an inventory that is   *)
(* whole describes a component that is whole: its receipts and every entry  *)
(* of its payload are there, up to what scripts and other programs changed  *)
(* and to what the undo removed through a link of theirs.                   *)
InventoryIsLast ==
    ~stuck =>
        \A i \in DOMAIN pkg :
            Node(fs, Append(InventoryDir, pkg[i].inventory)) = File("mdpkg") =>
                /\ \A p \in Records(pkg[i]) \ touched : Node(fs, p).kind = "file"
                /\ \A e \in Range(placed[i]) :
                      e.path \in touched \/ Node(fs, e.path).kind = e.kind

(* The inventories account for an offline install (README.md, "every payload *)
(* entry as installed ... and every entry the package's scripts created,    *)
(* modified or removed"): where the published tree differs from the old     *)
(* root there is a payload entry, a recorded change of a script, one of the *)
(* records, or a directory made to hold one of these.                       *)
InventoryExplains ==
    (phase = "done" /\ ~live) =>
        LET payload == {e.path : e \in UNION {Range(placed[i]) : i \in DOMAIN placed}}
            told == payload \cup changes \cup UNION {Records(c) : c \in Range(pkg)}
        IN  Differ(base, fs) \subseteq told \cup UNION {Above(p) : p \in told}

(* A link whose target climbs after a name means one thing while that name *)
(* is missing and another once it is a link.                                *)
ClimbsBack(node) ==
    \E i, j \in DOMAIN node.to : i < j /\ node.to[i] \notin {"..", "/"} /\ node.to[j] = ".."

(* Packaged paths keep their meaning (resolve_target_path): once the install *)
(* is done, looking up the path the package gives, through the links of the *)
(* root and those the package itself brought, ends at the entry it is the   *)
(* path of.  Scripts and other programs that moved things are excused, and  *)
(* so are links that climb back over a missing directory.                   *)
InstalledWhereNamed ==
    (/\ phase = "done" /\ touched = {}
     /\ ~\E p \in DOMAIN fs : ClimbsBack(fs[p])) =>
        \A i \in DOMAIN pkg : \A j \in DOMAIN placed[i] :
            LET e == pkg[i].payload[j]
            IN  Lookup(fs)[e.path, e.kind = "dir", MaxHops] = placed[i][j].path

=============================================================================
