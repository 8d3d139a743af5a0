---------------------------- MODULE Transaction ----------------------------
(***************************************************************************)
(* mdpkg installing packages into one offline root (pkgs/installer,        *)
(* install.c): the lock, recovery of an interrupted run, the transaction   *)
(* directory, publication by two renames, and rollback.                    *)
(*                                                                         *)
(* Run k installs package k.  A run may be killed between any two system   *)
(* calls that change the file system, and started again; a step may also   *)
(* fail, which calls die() and the rollback hook.  A tree is the packages  *)
(* in it, whether it is whole, and the packages whose scripts changed it   *)
(* behind the back of the run that owns it.  File contents, modes and      *)
(* owners are left out.                                                    *)
(***************************************************************************)
EXTENDS FiniteSets

CONSTANTS
    Packages,   \* the packages, each installed by a run of its own
    Scripted    \* those with a script that a runner executes

Nobody == "nobody"

ASSUME TransactionAssumption ==
    /\ Scripted \subseteq Packages
    /\ Nobody \notin Packages

VARIABLES
    lock,       \* the run holding ROOT.mdpkg-lock, or Nobody
    pc,         \* where each run is; "exit" when there is no process
    published,  \* tx.published of each run
    root,       \* the tree at ROOT
    dir,        \* whether ROOT.mdpkg-transaction exists
    marker,     \* its file target: "none", "partial" or "whole"
    stage,      \* the tree at new/ in it
    original,   \* the tree at original/ in it
    orphans,    \* packages whose script outlived the run that started it
    killedAt    \* history: where the last run that was killed was

fs == <<root, dir, marker, stage, original>>
vars == <<lock, pc, published, fs, orphans, killedAt>>

\* A tree, or its absence.
None == [kind |-> "none", packages |-> {}, foreign |-> {}]
Whole(S, F) == [kind |-> "whole", packages |-> S, foreign |-> F]
Part(t) == [t EXCEPT !.kind = "part"]

Exists(t) == t.kind # "none"

Goto(k, from, to) ==
    /\ pc[k] = from
    /\ pc' = [pc EXCEPT ![k] = to]

Exit(k) ==
    /\ pc' = [pc EXCEPT ![k] = "exit"]
    /\ lock' = Nobody
    /\ published' = [published EXCEPT ![k] = FALSE]

-----------------------------------------------------------------------------
(* lock_and_recover and preflight: a failure here has no rollback hook.    *)

\* flock(LOCK_EX | LOCK_NB): a run that does not get the lock dies.
Lock(k) ==
    /\ Goto(k, "exit", IF dir THEN "recover" ELSE "preflight")
    /\ lock = Nobody
    /\ lock' = k
    /\ UNCHANGED <<published, fs, orphans, killedAt>>

\* recover() cannot tell whose transaction this is, and dies.
RecoverRefuses(k) ==
    /\ pc[k] = "recover"
    /\ marker # "whole"
    /\ Exit(k)
    /\ UNCHANGED <<fs, orphans, killedAt>>

\* Mutant: the test for the root is the wrong way round.
RecoverInverted(k) ==
    /\ Goto(k, "recover", "recoverRemove")
    /\ marker = "whole"
    /\ Exists(original)
    /\ Exists(root)
    /\ root' = original
    /\ original' = None
    /\ UNCHANGED <<lock, published, dir, marker, stage, orphans, killedAt>>

RecoverRollsBack(k) ==
    /\ Goto(k, "recover", "recoverRemove")
    /\ marker = "whole"
    /\ Exists(original)
    /\ ~Exists(root)
    /\ root' = original
    /\ original' = None
    /\ UNCHANGED <<lock, published, dir, marker, stage, orphans, killedAt>>

RecoverKeeps(k) ==
    /\ Goto(k, "recover", "recoverRemove")
    /\ marker = "whole"
    /\ ~Exists(original) \/ Exists(root)
    /\ UNCHANGED <<lock, published, fs, orphans, killedAt>>

\* The package resolves, nothing collides, and it has no receipt in the root.
Preflight(k) ==
    /\ Goto(k, "preflight", "mkdir")
    /\ Exists(root)
    /\ k \notin root.packages
    /\ UNCHANGED <<lock, published, fs, orphans, killedAt>>

\* die() before the rollback hook is set.
DieEarly(k) ==
    /\ pc[k] \in {"recover", "preflight", "mkdir"}
    /\ Exit(k)
    /\ UNCHANGED <<fs, orphans, killedAt>>

-----------------------------------------------------------------------------
(* The transaction directory and the staged copy.                          *)

MakeDir(k) ==
    /\ Goto(k, "mkdir", "marker")
    /\ dir' = TRUE
    /\ UNCHANGED <<lock, published, root, marker, stage, original, orphans,
                   killedAt>>

\* file_write: the file is created, and then filled and synced.
CreateMarker(k) ==
    /\ pc[k] = "marker"
    /\ marker = "none"
    /\ marker' = "partial"
    /\ UNCHANGED <<lock, pc, published, root, dir, stage, original, orphans,
                   killedAt>>

WriteMarker(k) ==
    /\ Goto(k, "marker", "copy")
    /\ marker = "partial"
    /\ marker' = "whole"
    /\ UNCHANGED <<lock, published, root, dir, stage, original, orphans, killedAt>>

\* Mutant: the copy starts from an empty tree.
StageCopyEmpty(k) ==
    /\ Goto(k, "copy", "components")
    /\ stage' = Part(Whole({}, {}))
    /\ UNCHANGED <<lock, published, root, dir, marker, original, orphans, killedAt>>

\* stage_copy up to its last entry.
StageCopy(k) ==
    /\ Goto(k, "copy", "components")
    /\ stage' = Part(root)
    /\ UNCHANGED <<lock, published, root, dir, marker, original, orphans, killedAt>>

\* A hook is forked, and waited for.
RunHook(k) ==
    /\ k \in Scripted
    /\ Goto(k, "components", "hook")
    /\ UNCHANGED <<lock, published, fs, orphans, killedAt>>

HookReturns(k) ==
    /\ Goto(k, "hook", "receipts")
    /\ UNCHANGED <<lock, published, fs, orphans, killedAt>>

\* Mutant: no receipt is written.
FinishStageUnrecorded(k) ==
    /\ \/ k \in Scripted /\ Goto(k, "receipts", "aside")
       \/ k \notin Scripted /\ Goto(k, "components", "aside")
    /\ stage' = Whole(stage.packages, stage.foreign)
    /\ UNCHANGED <<lock, published, root, dir, marker, original, orphans, killedAt>>

\* The payload is extracted, receipts are written, the scripts directory is
\* removed and the base directories are restored.
FinishStage(k) ==
    /\ \/ k \in Scripted /\ Goto(k, "receipts", "aside")
       \/ k \notin Scripted /\ Goto(k, "components", "aside")
    /\ stage' = Whole(stage.packages \union {k}, stage.foreign)
    /\ UNCHANGED <<lock, published, root, dir, marker, original, orphans, killedAt>>

-----------------------------------------------------------------------------
(* publish().                                                              *)

MoveAside(k) ==
    /\ Goto(k, "aside", "publish")
    /\ original' = root
    /\ root' = None
    /\ UNCHANGED <<lock, published, dir, marker, stage, orphans, killedAt>>

Publish(k) ==
    /\ Goto(k, "publish", "published")
    /\ root' = stage
    /\ stage' = None
    /\ published' = [published EXCEPT ![k] = TRUE]
    /\ UNCHANGED <<lock, dir, marker, original, orphans, killedAt>>

\* Both directories are synced; what is left is to remove the transaction.
Synced(k) ==
    /\ Goto(k, "published", "publishRemove")
    /\ UNCHANGED <<lock, published, fs, orphans, killedAt>>

-----------------------------------------------------------------------------
(* die() with the rollback hook set.                                       *)

Die(k) ==
    /\ pc[k] \in {"marker", "copy", "components", "hook", "receipts", "aside",
                  "publish", "published"}
    /\ pc' = [pc EXCEPT ![k] = "rollback"]
    /\ UNCHANGED <<lock, published, fs, orphans, killedAt>>

MustRestore(k) == ~published[k] /\ Exists(original) /\ ~Exists(root)

RollbackRestores(k) ==
    /\ Goto(k, "rollback", "rollbackRemove")
    /\ MustRestore(k)
    /\ root' = original
    /\ original' = None
    /\ UNCHANGED <<lock, published, dir, marker, stage, orphans, killedAt>>

\* The original cannot be put back: it is retained for the next run.
RollbackRetains(k) ==
    /\ pc[k] = "rollback"
    /\ MustRestore(k)
    /\ Exit(k)
    /\ UNCHANGED <<fs, orphans, killedAt>>

RollbackKeeps(k) ==
    /\ Goto(k, "rollback", "rollbackRemove")
    /\ ~MustRestore(k)
    /\ UNCHANGED <<lock, published, fs, orphans, killedAt>>

-----------------------------------------------------------------------------
(* remove_tree(tx.dir): entries in the order of readdir, then rmdir.       *)

Removing == {"recoverRemove", "publishRemove", "rollbackRemove"}

\* A tree is first no longer whole, then gone.
Shrunk(t) == IF t.kind = "whole" THEN Part(t) ELSE None

RemoveEntry(k) ==
    /\ pc[k] \in Removing
    /\ \/ /\ marker # "none"
          /\ marker' = "none"
          /\ UNCHANGED <<stage, original>>
       \/ /\ Exists(stage)
          /\ stage' = Shrunk(stage)
          /\ UNCHANGED <<marker, original>>
       \/ /\ Exists(original)
          /\ original' = Shrunk(original)
          /\ UNCHANGED <<marker, stage>>
    /\ UNCHANGED <<lock, pc, published, root, dir, orphans, killedAt>>

\* What remove_tree is followed by: the checks of a recovered root, or exit.
Leave(k) ==
    IF pc[k] = "recoverRemove"
    THEN pc' = [pc EXCEPT ![k] = "preflight"] /\ UNCHANGED <<lock, published>>
    ELSE Exit(k)

RemoveDir(k) ==
    /\ pc[k] \in Removing
    /\ marker = "none" /\ ~Exists(stage) /\ ~Exists(original)
    /\ dir' = FALSE
    /\ Leave(k)
    /\ UNCHANGED <<root, marker, stage, original, orphans, killedAt>>

\* An entry cannot be removed: recovery dies, the other two only say so.
RemoveFails(k) ==
    /\ pc[k] \in Removing
    /\ Exit(k)
    /\ UNCHANGED <<fs, orphans, killedAt>>

-----------------------------------------------------------------------------
(* Interruption.                                                           *)

\* mdpkg is killed.  The lock goes with it; a script it was running does not.
Kill(k) ==
    /\ pc[k] # "exit"
    /\ Exit(k)
    /\ killedAt' = pc[k]
    /\ orphans' = IF pc[k] = "hook" THEN orphans \union {k} ELSE orphans
    /\ UNCHANGED fs

\* A script left behind still writes to the path of the staged root.
OrphanWrites(k) ==
    /\ k \in orphans
    /\ Exists(stage)
    /\ stage' = [stage EXCEPT !.foreign = @ \union {k}]
    /\ UNCHANGED <<lock, pc, published, root, dir, marker, original, orphans,
                   killedAt>>

OrphanExits(k) ==
    /\ k \in orphans
    /\ orphans' = orphans \ {k}
    /\ UNCHANGED <<lock, pc, published, fs, killedAt>>

-----------------------------------------------------------------------------
Init ==
    /\ lock = Nobody
    /\ pc = [k \in Packages |-> "exit"]
    /\ published = [k \in Packages |-> FALSE]
    /\ root = Whole({}, {})
    /\ dir = FALSE
    /\ marker = "none"
    /\ stage = None
    /\ original = None
    /\ orphans = {}
    /\ killedAt = "none"

Step(k) ==
    \/ Lock(k) \/ RecoverRefuses(k) \/ RecoverRollsBack(k) \/ RecoverKeeps(k)
    \/ Preflight(k) \/ DieEarly(k) \/ MakeDir(k) \/ CreateMarker(k)
    \/ WriteMarker(k) \/ StageCopy(k) \/ RunHook(k) \/ HookReturns(k)
    \/ FinishStage(k) \/ MoveAside(k) \/ Publish(k) \/ Synced(k)
    \/ Die(k) \/ RollbackRestores(k) \/ RollbackRetains(k) \/ RollbackKeeps(k)
    \/ RemoveEntry(k) \/ RemoveDir(k) \/ RemoveFails(k)
    \/ Kill(k) \/ OrphanWrites(k) \/ OrphanExits(k)

Next == \E k \in Packages : Step(k)

Spec == Init /\ [][Next]_vars

\* Somebody installs again as long as the root needs it, a run takes its next
\* step unless it is killed, and not every recovery is killed or denied its
\* rename.
Fairness ==
    /\ WF_vars(\E k \in Packages : Step(k))
    /\ \A k \in Packages : SF_vars(Lock(k)) /\ SF_vars(RecoverRollsBack(k))

FairSpec == Spec /\ Fairness

-----------------------------------------------------------------------------
(* Properties.                                                             *)

Tree == [kind : {"none", "part", "whole"}, packages : SUBSET Packages,
         foreign : SUBSET Packages]

Places == {"exit", "recover", "preflight", "mkdir", "marker", "copy",
           "components", "hook", "receipts", "aside", "publish", "published",
           "rollback"} \union Removing

\* The type invariant of the runs and of the files they share.
TypeOK ==
    /\ lock \in Packages \union {Nobody}
    /\ pc \in [Packages -> Places]
    /\ published \in [Packages -> BOOLEAN]
    /\ {root, stage, original} \subseteq Tree
    /\ dir \in BOOLEAN
    /\ marker \in {"none", "partial", "whole"}
    /\ orphans \subseteq Packages
    /\ killedAt \in Places \union {"none"}

\* The tree that ROOT is, or will be once an interrupted publication is rolled
\* back.
current == IF Exists(root) THEN root ELSE original

\* Whatever run is killed, fails or is denied, and wherever: ROOT is a whole
\* tree, or it does not exist, the original is whole, and the marker that
\* recover() insists on is there.
RootRecoverable ==
    /\ current.kind = "whole"
    /\ ~Exists(root) => marker = "whole"

Atomic == INSTANCE AtomicInstall WITH content <- current.packages

\* Installing is atomic: no kill, failure, rollback or recovery adds anything
\* but one whole package, or loses one.
ImplementsAtomicInstall == Atomic!Spec

\* Places where the run has checked its package against the root, which it has
\* not moved yet.
Staging == {"mkdir", "marker", "copy", "components", "hook", "receipts", "aside"}

\* The inductive strengthening of RootRecoverable: what the run holding the
\* lock finds in the file system at each place it can be at.
TransactionInvariant ==
    /\ TypeOK
    /\ RootRecoverable
    /\ ~dir => marker = "none" /\ ~Exists(stage) /\ ~Exists(original)
    /\ \A k \in Packages :
          /\ pc[k] # "exit" => lock = k
          /\ published[k] =>
                /\ Exists(root)
                /\ pc[k] \in {"published", "publishRemove", "rollback",
                              "rollbackRemove"}
          /\ pc[k] \in {"preflight", "mkdir"} => ~dir
          /\ pc[k] \in Staging => Exists(root) /\ k \notin root.packages
          /\ pc[k] \in Staging => ~Exists(original)
          /\ pc[k] \in Staging \ {"mkdir"} => dir
          /\ pc[k] \in {"mkdir", "marker", "copy"} => ~Exists(stage)
          /\ pc[k] \in Staging \ {"mkdir", "marker"} => marker = "whole"
          /\ pc[k] \in {"components", "hook", "receipts"} =>
                stage.packages = root.packages
          /\ pc[k] = "aside" =>
                stage.kind = "whole" /\ stage.packages = root.packages \union {k}
          /\ pc[k] = "publish" =>
                /\ ~Exists(root)
                /\ k \notin original.packages
                /\ stage.kind = "whole"
                /\ stage.packages = original.packages \union {k}
                /\ dir
          /\ pc[k] \in {"published", "publishRemove"} =>
                Exists(root) /\ k \in root.packages /\ ~Exists(stage)
          /\ pc[k] \in Removing \union {"published", "rollback"} => dir
          /\ pc[k] \in Removing => Exists(root)

\* A root that is missing between the two renames comes back.
RootComesBack == ~Exists(root) ~> Exists(root)

\* README.md, Offline roots: a run interrupted inside step 5 is resolved by the
\* next mdpkg install on that root.  So recover() never refuses a transaction
\* whose run was killed in publish().
InterruptedPublicationIsResolved ==
    \A k \in Packages :
        pc[k] = "recover" /\ marker # "whole" =>
            killedAt \notin {"publish", "published", "publishRemove"}

=============================================================================
