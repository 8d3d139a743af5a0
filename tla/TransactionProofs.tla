-------------------------- MODULE TransactionProofs --------------------------
(***************************************************************************)
(* Proofs about Transaction: its invariant is inductive, so a root is      *)
(* never lost, and it implements AtomicInstall, for any set of packages    *)
(* and any number of interrupted runs.                                     *)
(***************************************************************************)
EXTENDS Transaction, TLAPS

\* Every step of a run, of the kernel or of a stray script keeps the invariant.
LEMMA StepKeepsInvariant ==
    ASSUME TransactionInvariant, NEW k \in Packages, Step(k)
    PROVE  TransactionInvariant'
<1> USE TransactionAssumption DEF TransactionInvariant, TypeOK, RootRecoverable,
        current, Exists, Tree, Places, Removing, Staging, Goto, None, Whole, Part, fs,
        Nobody
<1>1. CASE Lock(k)
  BY <1>1 DEF Lock
<1>2. CASE RecoverRefuses(k)
  BY <1>2 DEF RecoverRefuses, Exit
<1>3. CASE RecoverRollsBack(k)
  BY <1>3 DEF RecoverRollsBack
<1>4. CASE RecoverKeeps(k)
  BY <1>4 DEF RecoverKeeps
<1>5. CASE Preflight(k)
  BY <1>5 DEF Preflight
<1>6. CASE DieEarly(k)
  BY <1>6 DEF DieEarly, Exit
<1>7. CASE MakeDir(k)
  BY <1>7 DEF MakeDir
<1>8. CASE CreateMarker(k)
  BY <1>8 DEF CreateMarker
<1>9. CASE WriteMarker(k)
  BY <1>9 DEF WriteMarker
<1>10. CASE StageCopy(k)
  BY <1>10 DEF StageCopy
<1>11. CASE RunHook(k)
  BY <1>11 DEF RunHook
<1>12. CASE HookReturns(k)
  BY <1>12 DEF HookReturns
<1>13. CASE FinishStage(k)
  BY <1>13 DEF FinishStage
<1>14. CASE MoveAside(k)
  BY <1>14 DEF MoveAside
<1>15. CASE Publish(k)
  BY <1>15 DEF Publish
<1>16. CASE Synced(k)
  BY <1>16 DEF Synced
<1>17. CASE Die(k)
  BY <1>17 DEF Die
<1>18. CASE RollbackRestores(k)
  BY <1>18 DEF RollbackRestores, MustRestore
<1>19. CASE RollbackRetains(k)
  BY <1>19 DEF RollbackRetains, MustRestore, Exit
<1>20. CASE RollbackKeeps(k)
  BY <1>20 DEF RollbackKeeps, MustRestore
<1>21. CASE RemoveEntry(k)
  <2>1. CASE marker' = "none" /\ UNCHANGED <<stage, original>>
    BY <1>21, <2>1 DEF RemoveEntry
  <2>2. CASE stage' = Shrunk(stage) /\ UNCHANGED <<marker, original>>
    BY <1>21, <2>2 DEF RemoveEntry, Shrunk
  <2>3. CASE original' = Shrunk(original) /\ UNCHANGED <<marker, stage>>
    BY <1>21, <2>3 DEF RemoveEntry, Shrunk
  <2> QED
    BY <1>21, <2>1, <2>2, <2>3 DEF RemoveEntry
<1>22. CASE RemoveDir(k)
  <2>1. dir' \in BOOLEAN /\ ~dir'
    BY <1>22, Zenon DEF RemoveDir
  <2>2. CASE pc[k] = "recoverRemove"
    BY <1>22, <2>1, <2>2 DEF RemoveDir, Leave
  <2>3. CASE pc[k] # "recoverRemove"
    <3>1. Exit(k) /\ UNCHANGED <<root, marker, stage, original, orphans, killedAt>>
      BY <1>22, <2>3 DEF RemoveDir, Leave
    <3>2. \A j \in Packages : pc'[j] = "exit"
      BY <1>22, <3>1 DEF RemoveDir, Exit
    <3>3. TypeOK'
      BY <2>1, <3>1 DEF Exit
    <3>4. \A j \in Packages : ~published'[j]
      BY <1>22, <3>1 DEF RemoveDir, Exit
    <3> QED
      BY <1>22, <2>1, <3>1, <3>2, <3>3, <3>4 DEF RemoveDir
  <2> QED
    BY <2>2, <2>3
<1>23. CASE RemoveFails(k)
  BY <1>23 DEF RemoveFails, Exit
<1>24. CASE Kill(k)
  BY <1>24 DEF Kill, Exit
<1>25. CASE OrphanWrites(k)
  BY <1>25 DEF OrphanWrites
<1>26. CASE OrphanExits(k)
  BY <1>26 DEF OrphanExits
<1> QED
  BY Zenon, <1>1, <1>2, <1>3, <1>4, <1>5, <1>6, <1>7, <1>8, <1>9, <1>10, <1>11, <1>12, <1>13,
     <1>14, <1>15, <1>16, <1>17, <1>18, <1>19, <1>20, <1>21, <1>22, <1>23, <1>24, <1>25, <1>26
     DEF Step

\* Spec => []TransactionInvariant: whatever runs are killed, fail or are
\* repeated, the run holding the lock finds the file system as its place in
\* install_package, publish, rollback or recover requires.
THEOREM InvariantHolds == Spec => []TransactionInvariant
<1>1. Init => TransactionInvariant
  <2> SUFFICES ASSUME Init PROVE TransactionInvariant
    OBVIOUS
  <2>1. TypeOK
    <3>1. {root, stage, original} \subseteq Tree
      BY DEF Init, Tree, None, Whole
    <3>2. dir \in BOOLEAN /\ published \in [Packages -> BOOLEAN]
      BY Zenon DEF Init
    <3> QED
      BY <3>1, <3>2 DEF Init, TypeOK, Places
  <2>2. RootRecoverable
    BY DEF Init, RootRecoverable, current, Exists, Whole
  <2>3. \A k \in Packages : pc[k] = "exit" /\ ~published[k]
    BY Zenon DEF Init
  <2> QED
    BY <2>1, <2>2, <2>3 DEF Init, TransactionInvariant, Exists, Removing, Staging, None
<1>2. TransactionInvariant /\ [Next]_vars => TransactionInvariant'
  <2> SUFFICES ASSUME TransactionInvariant, [Next]_vars
               PROVE  TransactionInvariant'
    OBVIOUS
  <2>1. CASE UNCHANGED vars
    BY <2>1 DEF TransactionInvariant, TypeOK, RootRecoverable, current, Exists, vars, fs
  <2>2. CASE Next
    BY <2>2, StepKeepsInvariant DEF Next
  <2> QED
    BY <2>1, <2>2
<1> QED
  BY <1>1, <1>2, PTL DEF Spec

\* ROOT is never lost: it is a whole tree, or recover() can put the whole
\* original back.
THEOREM RootIsRecoverable == Spec => []RootRecoverable
  BY InvariantHolds, PTL DEF TransactionInvariant

\* What the users of mdpkg see changes only by one whole package at a time.
LEMMA StepInstallsOrStutters ==
    ASSUME TransactionInvariant, NEW k \in Packages, Step(k)
    PROVE  Atomic!Install(k) \/ UNCHANGED current.packages
<1> USE DEF Atomic!Install, current, Exists, fs
<1>1. CASE RecoverRollsBack(k) \/ RollbackRestores(k)
  BY <1>1 DEF RecoverRollsBack, RollbackRestores, MustRestore, None
<1>2. CASE MoveAside(k)
  BY <1>2 DEF MoveAside, TransactionInvariant, Staging, Goto, None
<1>3. CASE Publish(k)
  BY <1>3 DEF Publish, TransactionInvariant, Goto, None
<1>4. CASE RemoveEntry(k)
  BY <1>4 DEF RemoveEntry, TransactionInvariant, Removing
<1>5. ASSUME UNCHANGED <<root, original>>
      PROVE  UNCHANGED current.packages
  BY <1>5
<1> QED
  BY <1>1, <1>2, <1>3, <1>4, <1>5
  DEF Step, Lock, RecoverRefuses, RecoverKeeps, Preflight, DieEarly, MakeDir,
      CreateMarker, WriteMarker, StageCopy, RunHook, HookReturns, FinishStage,
      Synced, Die, RollbackRetains, RollbackKeeps, RemoveDir, RemoveFails,
      Kill, OrphanWrites, OrphanExits

\* mdpkg implements the atomic installation of AtomicInstall.
THEOREM InstallationIsAtomic == Spec => ImplementsAtomicInstall
<1>1. Init => Atomic!Init
  BY DEF Init, Atomic!Init, current, Exists, Whole
<1>2. TransactionInvariant /\ [Next]_vars => [Atomic!Next]_(current.packages)
  <2> SUFFICES ASSUME TransactionInvariant, [Next]_vars
               PROVE  Atomic!Next \/ UNCHANGED current.packages
    OBVIOUS
  <2>1. CASE UNCHANGED vars
    BY <2>1 DEF vars, fs, current, Exists
  <2>2. CASE Next
    BY <2>2, StepInstallsOrStutters DEF Next, Atomic!Next
  <2> QED
    BY <2>1, <2>2
<1> QED
  BY <1>1, <1>2, InvariantHolds, PTL DEF Spec, ImplementsAtomicInstall, Atomic!Spec
==============================================================================
