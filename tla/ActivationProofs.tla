-------------------------- MODULE ActivationProofs --------------------------
(***************************************************************************)
(* Proofs about the activation transaction: what clean-up may destroy, who *)
(* holds the published plist, whose job is loaded, and that a transaction  *)
(* which reports that it undid its work has undone it.                     *)
(*                                                                         *)
(* The invariant follows each transaction from one program point to the    *)
(* next.  Two facts are shared: as long as nobody else touches the plist,  *)
(* it belongs to the one transaction between link(2) and its unlink, and   *)
(* a loaded job of a transaction is the job of the plist's owner.          *)
(***************************************************************************)
EXTENDS Activation, TLAPS

\* Program points up to the query that freezes the socket.
Unpublished == {"new", "stage", "lease", "staged", "job", "auth", "link", "linked",
                "rollback"}
Unfrozen == Unpublished \cup {"bootstrap", "booted"}

\* Program points from the bootstrap to the clean-up's unlink of the plist.
Registration == {"bootstrap", "refused", "booted", "outcheck", "bootout", "clean",
                 "cleanBooted", "unlink", "unlinkBooted", "body"}
Revocation == {"revokeJob", "revokeBootout", "revokeSocket", "rename", "moved",
               "restore", "revokePlist", "revokeUnlink"}
Holding == Registration \cup Revocation

\* Program points where the transaction has seen that its job is not loaded.
JobSeenGone == {"clean", "cleanBooted", "unlink", "unlinkBooted", "cleaned",
                "revokeSocket", "rename", "moved", "restore", "revokePlist",
                "revokeUnlink", "revoked"}

\* What is frozen is frozen once, and a socket is only in the quarantine while
\* it is judged, or after an error that the receipt will tell.
SocketTracked(t) ==
    /\ pc[t] \in Unfrozen => sock[t] = 0
    /\ pc[t] = "moved" => quar[t] # 0
    /\ quar[t] # 0 =>
         \/ pc[t] \in {"moved", "restore"}
         \/ err[t] /\ pc[t] \in {"revokePlist", "revokeUnlink", "revoked"}
         \/ pc[t] = "done" /\ state[t] \notin {"REVOKED", "ROLLED_BACK"}

\* A final state is only in the receipt of a transaction that is over; before
\* the plist is published the state says so, and the bootstrap has its own.
StateTold(t) ==
    /\ state[t] = "REVOKED" => pc[t] = "done"
    /\ state[t] = "ROLLED_BACK" => pc[t] \in {"raised", "done"}
    /\ pc[t] = "bootstrap" => state[t] = "BOOTSTRAPPING"
    /\ pc[t] \in {"new", "stage"} => state[t] = "NEW"
    /\ pc[t] \in Unpublished \ {"new", "stage"} => state[t] = "STAGED"

\* A lease of unknown identity ends the transaction; a stage file that is still
\* there means that nothing was registered.
FilesTracked(t) ==
    /\ lease[t] = "left" => pc[t] = "done" /\ state[t] \notin {"REVOKED", "ROLLED_BACK"}
    /\ state[t] \in {"REVOKED", "ROLLED_BACK"} => stage[t] # "own" /\ lease[t] = "none"
    /\ pc[t] \in Holding \cup {"cleaned", "revoked"} => stage[t] # "own"
    /\ pc[t] \in {"raised", "revoke"} /\ state[t] # "STAGED" /\ pid[t] # Nobody =>
         stage[t] # "own"
    /\ pc[t] \in Unpublished => pid[t] = Nobody

\* The job of a transaction is loaded by its bootstrap, and not after it was
\* seen to be gone.
JobTracked(t) ==
    /\ state[t] \in {"NEW", "STAGED", "REVOKED", "ROLLED_BACK"} => job # t
    /\ pc[t] \in JobSeenGone => job # t

\* Unless somebody else touched it, the plist belongs to the transaction that
\* linked it until that transaction unlinks it.
PlistHeld(t) ==
    "plist" \notin touched =>
        /\ pc[t] = "linked" => plist \in {t, Foreign}
        /\ pc[t] \in Holding => plist = t /\ pid[t] = t
        /\ pid[t] \in {t, Foreign, Nobody}
        /\ pc[t] \in {"raised", "revoke"} /\ state[t] # "STAGED" => pid[t] # Foreign

\* The job of a transaction is loaded from the plist of that transaction.
JobOfPlist == "plist" \notin touched /\ job \in Txn => plist = job

Local(t) == SocketTracked(t) /\ StateTold(t) /\ FilesTracked(t) /\ JobTracked(t)

ActivationInv ==
    /\ TypeOK
    /\ \A t \in Txn : Local(t) /\ PlistHeld(t)
    /\ JobOfPlist
    /\ OnlyFrozenDestroyed

-----------------------------------------------------------------------------
(* What a step leaves alone *)

\* One step of a transaction.
TxnStep(t) == Preparing(t) \/ Registering(t) \/ Managing(t) \/ Revoking(t)

USE ActivationAssumption

\* A step of one transaction leaves the records of the others alone.
LEMMA OthersStand ==
    ASSUME TypeOK, NEW t \in Txn, TxnStep(t), NEW u \in Txn, u # t
    PROVE  /\ pc'[u] = pc[u] /\ state'[u] = state[u] /\ stage'[u] = stage[u]
           /\ lease'[u] = lease[u] /\ pid'[u] = pid[u] /\ sock'[u] = sock[u]
           /\ quar'[u] = quar[u] /\ err'[u] = err[u]
<1>1. CASE SpecRefused(t)
  BY <1>1 DEF SpecRefused, Goto, Step, TypeOK, ownVars
<1>2. CASE Prepare(t)
  BY <1>2 DEF Prepare, Goto, Step, TypeOK, ownVars
<1>3. CASE WriteStage(t)
  BY <1>3 DEF WriteStage, Goto, Step, WriteFails, TypeOK
<1>4. CASE WriteLease(t)
  BY <1>4 DEF WriteLease, Goto, Step, StageRemovable, TypeOK
<1>5. CASE RevalidateFiles(t)
  BY <1>5 DEF RevalidateFiles, Goto, Step, TypeOK, ownVars
<1>6. CASE RevalidateJob(t)
  BY <1>6 DEF RevalidateJob, Undecided, Goto, Step, QueryJob, TypeOK, ownVars
<1>7. CASE RevalidateAuth(t)
  BY <1>7 DEF RevalidateAuth, Goto, Step, TypeOK, ownVars
<1>8. CASE ArtifactChanged(t)
  BY <1>8 DEF ArtifactChanged, Undecided, Goto, Step, TypeOK, ownVars
<1>9. CASE RollBack(t)
  BY <1>9 DEF RollBack, Goto, Step, StageRemovable, WithoutLease, LeaseRemovable, TypeOK
<1>10. CASE Link(t)
  BY <1>10 DEF Link, Goto, Step, StageRemovable, WithoutLease, LeaseRemovable, TypeOK
<1>11. CASE Published(t)
  BY <1>11 DEF Published, Goto, Step, StageRemovable, TypeOK
<1>12. CASE Bootstrap(t)
  BY <1>12 DEF Bootstrap, Goto, Step, Loads, TypeOK, ownVars
<1>13. CASE Refused(t)
  BY <1>13 DEF Refused, Goto, Step, Matches, TypeOK, ownVars
<1>14. CASE Booted(t)
  BY <1>14 DEF Booted, Goto, Step, FreezeSocket, Matches, TypeOK
<1>15. CASE RollbackQuery(t)
  BY <1>15 DEF RollbackQuery, Goto, Step, TypeOK, ownVars
<1>16. CASE RollbackBootout(t)
  BY <1>16 DEF RollbackBootout, Goto, Step, Unloads, TypeOK, ownVars
<1>17. CASE RemovePlist(t)
  BY <1>17 DEF RemovePlist, Goto, Step, CleanFails, TypeOK, ownVars
<1>18. CASE UnlinkPlist(t)
  BY <1>18 DEF UnlinkPlist, Goto, Step, CleanFails, TypeOK, ownVars
<1>19. CASE RolledBack(t)
  BY <1>19 DEF RolledBack, Undecided, Goto, Step, WithoutLease, LeaseRemovable,
        FinishAuth, TypeOK
<1>20. CASE Verify(t)
  BY <1>20 DEF Verify, Goto, Step, TypeOK, ownVars
<1>21. CASE EndBody(t)
  BY <1>21 DEF EndBody, Goto, Step, TypeOK, ownVars
<1>22. CASE Rescue(t)
  BY <1>22 DEF Rescue, Goto, Step, TypeOK
<1>23. CASE RevokeStaged(t)
  BY <1>23 DEF RevokeStaged, Step, StageRemovable, WithoutLease, LeaseRemovable,
        FinishAuth,
        Raises, TypeOK
<1>24. CASE Revoke(t)
  BY <1>24 DEF Revoke, Goto, Step, Raises, TypeOK, ownVars
<1>25. CASE RevokeQuery(t)
  BY <1>25 DEF RevokeQuery, Goto, Step, Raises, Matches, TypeOK, ownVars
<1>26. CASE RevokeBootout(t)
  BY <1>26 DEF RevokeBootout, Goto, Step, Raises, Unloads, TypeOK, ownVars
<1>27. CASE RevokeSocket(t)
  BY <1>27 DEF RevokeSocket, Goto, Step, TypeOK
<1>28. CASE RenameSocket(t)
  BY <1>28 DEF RenameSocket, Goto, Step, TypeOK
<1>29. CASE JudgeMoved(t)
  BY <1>29 DEF JudgeMoved, Goto, Step, TypeOK
<1>30. CASE RestoreMoved(t)
  BY <1>30 DEF RestoreMoved, Goto, Step, TypeOK
<1>31. CASE RevokePlist(t)
  BY <1>31 DEF RevokePlist, Goto, Step, Raises, TypeOK, ownVars
<1>32. CASE RevokeUnlink(t)
  BY <1>32 DEF RevokeUnlink, Goto, Step, Raises, TypeOK, ownVars
<1>33. CASE Revoked(t)
  BY <1>33 DEF Revoked, Raises, Step, WithoutLease, LeaseRemovable, FinishAuth, TypeOK
<1>q. QED
  BY <1>1, <1>2, <1>3, <1>4, <1>5, <1>6, <1>7, <1>8, <1>9, <1>10, <1>11,
        <1>12, <1>13, <1>14, <1>15, <1>16, <1>17, <1>18, <1>19, <1>20, <1>21,
        <1>22, <1>23, <1>24, <1>25, <1>26, <1>27, <1>28, <1>29, <1>30, <1>31,
        <1>32, <1>33
      DEF TxnStep, Preparing, Registering, Managing, Revoking

\* Type correctness is preserved by the step of a transaction.
LEMMA TypeOfStep ==
    ASSUME TypeOK, NEW t \in Txn, TxnStep(t), Local(t)
    PROVE  TypeOK'
<1>1. CASE SpecRefused(t)
  BY <1>1 DEF SpecRefused, Goto, Step, TypeOK, ownVars, world, Who, Local,
        SocketTracked
<1>2. CASE Prepare(t)
  BY <1>2 DEF Prepare, Goto, Step, TypeOK, ownVars, world, Who, Local,
        SocketTracked
<1>3. CASE WriteStage(t)
  BY <1>3 DEF WriteStage, Goto, Step, WriteFails, TypeOK, world, Who, Local,
        SocketTracked
<1>4. CASE WriteLease(t)
  BY <1>4 DEF WriteLease, Goto, Step, StageRemovable, TypeOK, world, Who,
        Local, SocketTracked
<1>5. CASE RevalidateFiles(t)
  BY <1>5 DEF RevalidateFiles, Goto, Step, TypeOK, ownVars, world, Who, Local,
        SocketTracked
<1>6. CASE RevalidateJob(t)
  BY <1>6 DEF RevalidateJob, Undecided, Goto, Step, QueryJob, TypeOK, ownVars, world,
        Who, Local, SocketTracked
<1>7. CASE RevalidateAuth(t)
  BY <1>7 DEF RevalidateAuth, Goto, Step, TypeOK, ownVars, world, Who, Local,
        SocketTracked
<1>8. CASE ArtifactChanged(t)
  BY <1>8 DEF ArtifactChanged, Undecided, Goto, Step, TypeOK, ownVars, world, Who,
        Local,
        SocketTracked
<1>9. CASE RollBack(t)
  BY <1>9 DEF RollBack, Goto, Step, StageRemovable, WithoutLease, LeaseRemovable,
        TypeOK,
        world, Who, Local, SocketTracked
<1>10. CASE Link(t)
  BY <1>10 DEF Link, Goto, Step, StageRemovable, WithoutLease, LeaseRemovable,
        TypeOK, Who,
        Local, SocketTracked
<1>11. CASE Published(t)
  BY <1>11 DEF Published, Goto, Step, StageRemovable, TypeOK, world, Who,
        Local, SocketTracked
<1>12. CASE Bootstrap(t)
  BY <1>12 DEF Bootstrap, Goto, Step, Loads, TypeOK, ownVars, Who, Local,
        SocketTracked
<1>13. CASE Refused(t)
  BY <1>13 DEF Refused, Goto, Step, Matches, TypeOK, ownVars, world, Who,
        Local, SocketTracked
<1>14. CASE Booted(t)
  BY <1>14 DEF Booted, Goto, Step, FreezeSocket, Matches, TypeOK, world, Who,
        Local, SocketTracked
<1>15. CASE RollbackQuery(t)
  BY <1>15 DEF RollbackQuery, Goto, Step, TypeOK, ownVars, world, Who, Local,
        SocketTracked
<1>16. CASE RollbackBootout(t)
  BY <1>16 DEF RollbackBootout, Goto, Step, Unloads, TypeOK, ownVars, Who,
        Local, SocketTracked
<1>17. CASE RemovePlist(t)
  BY <1>17 DEF RemovePlist, Goto, Step, CleanFails, TypeOK, ownVars, world,
        Who, Local, SocketTracked
<1>18. CASE UnlinkPlist(t)
  BY <1>18 DEF UnlinkPlist, Goto, Step, CleanFails, TypeOK, ownVars, Who,
        Local, SocketTracked
<1>19. CASE RolledBack(t)
  BY <1>19 DEF RolledBack, Undecided, Goto, Step, WithoutLease, LeaseRemovable,
        FinishAuth, TypeOK,
        world, Who, Local, SocketTracked
<1>20. CASE Verify(t)
  BY <1>20 DEF Verify, Goto, Step, TypeOK, ownVars, world, Who, Local,
        SocketTracked
<1>21. CASE EndBody(t)
  BY <1>21 DEF EndBody, Goto, Step, TypeOK, ownVars, world, Who, Local,
        SocketTracked
<1>22. CASE Rescue(t)
  BY <1>22 DEF Rescue, Goto, Step, TypeOK, world, Who, Local, SocketTracked
<1>23. CASE RevokeStaged(t)
  BY <1>23 DEF RevokeStaged, Step, StageRemovable, WithoutLease, LeaseRemovable,
        FinishAuth,
        Raises, TypeOK, world, Who, Local, SocketTracked
<1>24. CASE Revoke(t)
  BY <1>24 DEF Revoke, Goto, Step, Raises, TypeOK, ownVars, world, Who, Local,
        SocketTracked
<1>25. CASE RevokeQuery(t)
  BY <1>25 DEF RevokeQuery, Goto, Step, Raises, Matches, TypeOK, ownVars,
        world, Who, Local, SocketTracked
<1>26. CASE RevokeBootout(t)
  BY <1>26 DEF RevokeBootout, Goto, Step, Raises, Unloads, TypeOK, ownVars,
        Who, Local, SocketTracked
<1>27. CASE RevokeSocket(t)
  <2>1. err' \in [Txn -> BOOLEAN]
    BY <1>27 DEF RevokeSocket, TypeOK
  <2>2. TypeOK'
    BY <1>27, <2>1 DEF RevokeSocket, Goto, Step, TypeOK,
        world, Who, Local, SocketTracked
  <2>q. QED
    BY <2>2
<1>28. CASE RenameSocket(t)
  BY <1>28 DEF RenameSocket, Goto, Step, TypeOK, Who, Local, SocketTracked
<1>29. CASE JudgeMoved(t)
  <2>1. err' \in [Txn -> BOOLEAN]
    BY <1>29 DEF JudgeMoved, TypeOK
  <2>2. destroyed' \subseteq 1 .. made
    <3>1. quar[t] \in 0 .. made /\ quar[t] # 0 /\ made \in Nat
      BY <1>29 DEF JudgeMoved, TypeOK, Local, SocketTracked
    <3>2. destroyed' \in {destroyed, destroyed \cup {quar[t]}}
      BY <1>29 DEF JudgeMoved
    <3>q. QED
      BY <3>1, <3>2 DEF TypeOK
  <2>3. quar' \in [Txn -> 0 .. made]
    BY <1>29 DEF JudgeMoved, TypeOK
  <2>q. QED
    BY <1>29, <2>1, <2>2, <2>3 DEF JudgeMoved, Goto, Step, TypeOK, Who
<1>30. CASE RestoreMoved(t)
  BY <1>30 DEF RestoreMoved, Goto, Step, TypeOK, Who, Local, SocketTracked
<1>31. CASE RevokePlist(t)
  BY <1>31 DEF RevokePlist, Goto, Step, Raises, TypeOK, ownVars, world, Who,
        Local, SocketTracked
<1>32. CASE RevokeUnlink(t)
  BY <1>32 DEF RevokeUnlink, Goto, Step, Raises, TypeOK, ownVars, Who, Local,
        SocketTracked
<1>33. CASE Revoked(t)
  BY <1>33 DEF Revoked, Raises, Step, WithoutLease, LeaseRemovable, FinishAuth,
        TypeOK, world, Who,
        Local, SocketTracked
<1>q. QED
  BY <1>1, <1>2, <1>3, <1>4, <1>5, <1>6, <1>7, <1>8, <1>9, <1>10, <1>11,
        <1>12, <1>13, <1>14, <1>15, <1>16, <1>17, <1>18, <1>19, <1>20, <1>21,
        <1>22, <1>23, <1>24, <1>25, <1>26, <1>27, <1>28, <1>29, <1>30, <1>31,
        <1>32, <1>33
      DEF TxnStep, Preparing, Registering, Managing, Revoking

-----------------------------------------------------------------------------
(* The records of one transaction *)

\* The step of a transaction keeps its own records true.
LEMMA LocalOfStep ==
    ASSUME TypeOK, NEW t \in Txn, TxnStep(t), Local(t)
    PROVE  Local(t)'
<1>1. CASE SpecRefused(t)
  BY <1>1 DEF SpecRefused, Goto, Step, TypeOK, ownVars, world, Local,
        SocketTracked, StateTold, FilesTracked, JobTracked, Unpublished,
        Unfrozen, Holding, Registration, Revocation, JobSeenGone
<1>2. CASE Prepare(t)
  BY <1>2 DEF Prepare, Goto, Step, TypeOK, ownVars, world, Local,
        SocketTracked, StateTold, FilesTracked, JobTracked, Unpublished,
        Unfrozen, Holding, Registration, Revocation, JobSeenGone
<1>3. CASE WriteStage(t)
  BY <1>3 DEF WriteStage, Goto, Step, WriteFails, TypeOK, world, Local,
        SocketTracked, StateTold, FilesTracked, JobTracked, Unpublished,
        Unfrozen, Holding, Registration, Revocation, JobSeenGone
<1>4. CASE WriteLease(t)
  BY <1>4 DEF WriteLease, Goto, Step, StageRemovable, TypeOK, world, Local,
        SocketTracked, StateTold, FilesTracked, JobTracked, Unpublished,
        Unfrozen, Holding, Registration, Revocation, JobSeenGone
<1>5. CASE RevalidateFiles(t)
  BY <1>5 DEF RevalidateFiles, Goto, Step, TypeOK, ownVars, world, Local,
        SocketTracked, StateTold, FilesTracked, JobTracked, Unpublished,
        Unfrozen, Holding, Registration, Revocation, JobSeenGone
<1>6. CASE RevalidateJob(t)
  BY <1>6 DEF RevalidateJob, Undecided, Goto, Step, QueryJob, TypeOK, ownVars, world,
        Local, SocketTracked, StateTold, FilesTracked, JobTracked,
        Unpublished, Unfrozen, Holding, Registration, Revocation, JobSeenGone
<1>7. CASE RevalidateAuth(t)
  BY <1>7 DEF RevalidateAuth, Goto, Step, TypeOK, ownVars, world, Local,
        SocketTracked, StateTold, FilesTracked, JobTracked, Unpublished,
        Unfrozen, Holding, Registration, Revocation, JobSeenGone
<1>8. CASE ArtifactChanged(t)
  BY <1>8 DEF ArtifactChanged, Undecided, Goto, Step, TypeOK, ownVars, world, Local,
        SocketTracked, StateTold, FilesTracked, JobTracked, Unpublished,
        Unfrozen, Holding, Registration, Revocation, JobSeenGone
<1>9. CASE RollBack(t)
  BY <1>9 DEF RollBack, Goto, Step, StageRemovable, WithoutLease, LeaseRemovable,
        TypeOK,
        world, Local, SocketTracked, StateTold, FilesTracked, JobTracked,
        Unpublished, Unfrozen, Holding, Registration, Revocation, JobSeenGone
<1>10. CASE Link(t)
  BY <1>10 DEF Link, Goto, Step, StageRemovable, WithoutLease, LeaseRemovable,
        TypeOK, Local,
        SocketTracked, StateTold, FilesTracked, JobTracked, Unpublished,
        Unfrozen, Holding, Registration, Revocation, JobSeenGone
<1>11. CASE Published(t)
  BY <1>11 DEF Published, Goto, Step, StageRemovable, TypeOK, world, Local,
        SocketTracked, StateTold, FilesTracked, JobTracked, Unpublished,
        Unfrozen, Holding, Registration, Revocation, JobSeenGone
<1>12. CASE Bootstrap(t)
  BY <1>12 DEF Bootstrap, Goto, Step, Loads, TypeOK, ownVars, Local,
        SocketTracked, StateTold, FilesTracked, JobTracked, Unpublished,
        Unfrozen, Holding, Registration, Revocation, JobSeenGone
<1>13. CASE Refused(t)
  BY <1>13 DEF Refused, Goto, Step, Matches, TypeOK, ownVars, world, Local,
        SocketTracked, StateTold, FilesTracked, JobTracked, Unpublished,
        Unfrozen, Holding, Registration, Revocation, JobSeenGone
<1>14. CASE Booted(t)
  BY <1>14 DEF Booted, Goto, Step, FreezeSocket, Matches, TypeOK, world,
        Local, SocketTracked, StateTold, FilesTracked, JobTracked,
        Unpublished, Unfrozen, Holding, Registration, Revocation, JobSeenGone
<1>15. CASE RollbackQuery(t)
  BY <1>15 DEF RollbackQuery, Goto, Step, TypeOK, ownVars, world, Local,
        SocketTracked, StateTold, FilesTracked, JobTracked, Unpublished,
        Unfrozen, Holding, Registration, Revocation, JobSeenGone
<1>16. CASE RollbackBootout(t)
  BY <1>16 DEF RollbackBootout, Goto, Step, Unloads, TypeOK, ownVars, Local,
        SocketTracked, StateTold, FilesTracked, JobTracked, Unpublished,
        Unfrozen, Holding, Registration, Revocation, JobSeenGone
<1>17. CASE RemovePlist(t)
  BY <1>17 DEF RemovePlist, Goto, Step, CleanFails, TypeOK, ownVars, world,
        Local, SocketTracked, StateTold, FilesTracked, JobTracked,
        Unpublished, Unfrozen, Holding, Registration, Revocation, JobSeenGone
<1>18. CASE UnlinkPlist(t)
  BY <1>18 DEF UnlinkPlist, Goto, Step, CleanFails, TypeOK, ownVars, Local,
        SocketTracked, StateTold, FilesTracked, JobTracked, Unpublished,
        Unfrozen, Holding, Registration, Revocation, JobSeenGone
<1>19. CASE RolledBack(t)
  BY <1>19 DEF RolledBack, Undecided, Goto, Step, WithoutLease, LeaseRemovable,
        FinishAuth, TypeOK,
        world, Local, SocketTracked, StateTold, FilesTracked, JobTracked,
        Unpublished, Unfrozen, Holding, Registration, Revocation, JobSeenGone
<1>20. CASE Verify(t)
  BY <1>20 DEF Verify, Goto, Step, TypeOK, ownVars, world, Local,
        SocketTracked, StateTold, FilesTracked, JobTracked, Unpublished,
        Unfrozen, Holding, Registration, Revocation, JobSeenGone
<1>21. CASE EndBody(t)
  BY <1>21 DEF EndBody, Goto, Step, TypeOK, ownVars, world, Local,
        SocketTracked, StateTold, FilesTracked, JobTracked, Unpublished,
        Unfrozen, Holding, Registration, Revocation, JobSeenGone
<1>22. CASE Rescue(t)
  BY <1>22 DEF Rescue, Goto, Step, TypeOK, world, Local, SocketTracked,
        StateTold, FilesTracked, JobTracked, Unpublished, Unfrozen, Holding,
        Registration, Revocation, JobSeenGone
<1>23. CASE RevokeStaged(t)
  BY <1>23 DEF RevokeStaged, Step, StageRemovable, WithoutLease, LeaseRemovable,
        FinishAuth,
        Raises, TypeOK, world, Local, SocketTracked, StateTold, FilesTracked,
        JobTracked, Unpublished, Unfrozen, Holding, Registration, Revocation,
        JobSeenGone
<1>24. CASE Revoke(t)
  BY <1>24 DEF Revoke, Goto, Step, Raises, TypeOK, ownVars, world, Local,
        SocketTracked, StateTold, FilesTracked, JobTracked, Unpublished,
        Unfrozen, Holding, Registration, Revocation, JobSeenGone
<1>25. CASE RevokeQuery(t)
  BY <1>25 DEF RevokeQuery, Goto, Step, Raises, Matches, TypeOK, ownVars,
        world, Local, SocketTracked, StateTold, FilesTracked, JobTracked,
        Unpublished, Unfrozen, Holding, Registration, Revocation, JobSeenGone
<1>26. CASE RevokeBootout(t)
  BY <1>26 DEF RevokeBootout, Goto, Step, Raises, Unloads, TypeOK, ownVars,
        Local, SocketTracked, StateTold, FilesTracked, JobTracked,
        Unpublished, Unfrozen, Holding, Registration, Revocation, JobSeenGone
<1>27. CASE RevokeSocket(t)
  BY <1>27 DEF RevokeSocket, Goto, Step, TypeOK, world, Local, SocketTracked,
        StateTold, FilesTracked, JobTracked, Unpublished, Unfrozen, Holding,
        Registration, Revocation, JobSeenGone
<1>28. CASE RenameSocket(t)
  BY <1>28 DEF RenameSocket, Goto, Step, TypeOK, Local, SocketTracked,
        StateTold, FilesTracked, JobTracked, Unpublished, Unfrozen, Holding,
        Registration, Revocation, JobSeenGone
<1>29. CASE JudgeMoved(t)
  BY <1>29 DEF JudgeMoved, Goto, Step, TypeOK, Local, SocketTracked,
        StateTold, FilesTracked, JobTracked, Unpublished, Unfrozen, Holding,
        Registration, Revocation, JobSeenGone
<1>30. CASE RestoreMoved(t)
  BY <1>30 DEF RestoreMoved, Goto, Step, TypeOK, Local, SocketTracked,
        StateTold, FilesTracked, JobTracked, Unpublished, Unfrozen, Holding,
        Registration, Revocation, JobSeenGone
<1>31. CASE RevokePlist(t)
  BY <1>31 DEF RevokePlist, Goto, Step, Raises, TypeOK, ownVars, world, Local,
        SocketTracked, StateTold, FilesTracked, JobTracked, Unpublished,
        Unfrozen, Holding, Registration, Revocation, JobSeenGone
<1>32. CASE RevokeUnlink(t)
  BY <1>32 DEF RevokeUnlink, Goto, Step, Raises, TypeOK, ownVars, Local,
        SocketTracked, StateTold, FilesTracked, JobTracked, Unpublished,
        Unfrozen, Holding, Registration, Revocation, JobSeenGone
<1>33. CASE Revoked(t)
  BY <1>33 DEF Revoked, Raises, Step, WithoutLease, LeaseRemovable, FinishAuth,
        TypeOK, world, Local,
        SocketTracked, StateTold, FilesTracked, JobTracked, Unpublished,
        Unfrozen, Holding, Registration, Revocation, JobSeenGone
<1>q. QED
  BY <1>1, <1>2, <1>3, <1>4, <1>5, <1>6, <1>7, <1>8, <1>9, <1>10, <1>11,
        <1>12, <1>13, <1>14, <1>15, <1>16, <1>17, <1>18, <1>19, <1>20, <1>21,
        <1>22, <1>23, <1>24, <1>25, <1>26, <1>27, <1>28, <1>29, <1>30, <1>31,
        <1>32, <1>33
      DEF TxnStep, Preparing, Registering, Managing, Revoking

\* The job of a transaction is only ever loaded by that transaction.
LEMMA JobOfOthers ==
    ASSUME TypeOK, NEW t \in Txn, TxnStep(t), NEW u \in Txn, u # t, job # u
    PROVE  job' # u
<1>1. CASE SpecRefused(t)
  BY <1>1 DEF SpecRefused, Goto, Step, TypeOK, world
<1>2. CASE Prepare(t)
  BY <1>2 DEF Prepare, Goto, Step, TypeOK, world
<1>3. CASE WriteStage(t)
  BY <1>3 DEF WriteStage, Goto, Step, WriteFails, TypeOK, world
<1>4. CASE WriteLease(t)
  BY <1>4 DEF WriteLease, Goto, Step, StageRemovable, TypeOK, world
<1>5. CASE RevalidateFiles(t)
  BY <1>5 DEF RevalidateFiles, Goto, Step, TypeOK, world
<1>6. CASE RevalidateJob(t)
  BY <1>6 DEF RevalidateJob, Undecided, Goto, Step, QueryJob, TypeOK, world
<1>7. CASE RevalidateAuth(t)
  BY <1>7 DEF RevalidateAuth, Goto, Step, TypeOK, world
<1>8. CASE ArtifactChanged(t)
  BY <1>8 DEF ArtifactChanged, Undecided, Goto, Step, TypeOK, world
<1>9. CASE RollBack(t)
  BY <1>9 DEF RollBack, Goto, Step, StageRemovable, WithoutLease, LeaseRemovable,
        TypeOK,
        world
<1>10. CASE Link(t)
  BY <1>10 DEF Link, Goto, Step, StageRemovable, WithoutLease, LeaseRemovable, TypeOK
<1>11. CASE Published(t)
  BY <1>11 DEF Published, Goto, Step, StageRemovable, TypeOK, world
<1>12. CASE Bootstrap(t)
  BY <1>12 DEF Bootstrap, Goto, Step, Loads, TypeOK
<1>13. CASE Refused(t)
  BY <1>13 DEF Refused, Goto, Step, Matches, TypeOK, world
<1>14. CASE Booted(t)
  BY <1>14 DEF Booted, Goto, Step, FreezeSocket, Matches, TypeOK, world
<1>15. CASE RollbackQuery(t)
  BY <1>15 DEF RollbackQuery, Goto, Step, TypeOK, world
<1>16. CASE RollbackBootout(t)
  BY <1>16 DEF RollbackBootout, Goto, Step, Unloads, TypeOK
<1>17. CASE RemovePlist(t)
  BY <1>17 DEF RemovePlist, Goto, Step, CleanFails, TypeOK, world
<1>18. CASE UnlinkPlist(t)
  BY <1>18 DEF UnlinkPlist, Goto, Step, CleanFails, TypeOK
<1>19. CASE RolledBack(t)
  BY <1>19 DEF RolledBack, Undecided, Goto, Step, WithoutLease, LeaseRemovable,
        FinishAuth, TypeOK, world
<1>20. CASE Verify(t)
  BY <1>20 DEF Verify, Goto, Step, TypeOK, world
<1>21. CASE EndBody(t)
  BY <1>21 DEF EndBody, Goto, Step, TypeOK, world
<1>22. CASE Rescue(t)
  BY <1>22 DEF Rescue, Goto, Step, TypeOK, world
<1>23. CASE RevokeStaged(t)
  BY <1>23 DEF RevokeStaged, Step, StageRemovable, WithoutLease, LeaseRemovable,
        FinishAuth,
        Raises, TypeOK, world
<1>24. CASE Revoke(t)
  BY <1>24 DEF Revoke, Goto, Step, Raises, TypeOK, world
<1>25. CASE RevokeQuery(t)
  BY <1>25 DEF RevokeQuery, Goto, Step, Raises, Matches, TypeOK, world
<1>26. CASE RevokeBootout(t)
  BY <1>26 DEF RevokeBootout, Goto, Step, Raises, Unloads, TypeOK
<1>27. CASE RevokeSocket(t)
  BY <1>27 DEF RevokeSocket, Goto, Step, TypeOK, world
<1>28. CASE RenameSocket(t)
  BY <1>28 DEF RenameSocket, Goto, Step, TypeOK
<1>29. CASE JudgeMoved(t)
  BY <1>29 DEF JudgeMoved, Goto, Step, TypeOK
<1>30. CASE RestoreMoved(t)
  BY <1>30 DEF RestoreMoved, Goto, Step, TypeOK
<1>31. CASE RevokePlist(t)
  BY <1>31 DEF RevokePlist, Goto, Step, Raises, TypeOK, world
<1>32. CASE RevokeUnlink(t)
  BY <1>32 DEF RevokeUnlink, Goto, Step, Raises, TypeOK
<1>33. CASE Revoked(t)
  BY <1>33 DEF Revoked, Raises, Step, WithoutLease, LeaseRemovable, FinishAuth,
        TypeOK, world
<1>q. QED
  BY <1>1, <1>2, <1>3, <1>4, <1>5, <1>6, <1>7, <1>8, <1>9, <1>10, <1>11,
        <1>12, <1>13, <1>14, <1>15, <1>16, <1>17, <1>18, <1>19, <1>20, <1>21,
        <1>22, <1>23, <1>24, <1>25, <1>26, <1>27, <1>28, <1>29, <1>30, <1>31,
        <1>32, <1>33
      DEF TxnStep, Preparing, Registering, Managing, Revoking

\* The step of a transaction keeps the records of the others true.
LEMMA LocalOfOthers ==
    ASSUME TypeOK, NEW t \in Txn, TxnStep(t), NEW u \in Txn, u # t, Local(u)
    PROVE  Local(u)'
<1>1. /\ pc'[u] = pc[u] /\ state'[u] = state[u] /\ stage'[u] = stage[u]
      /\ lease'[u] = lease[u] /\ pid'[u] = pid[u] /\ sock'[u] = sock[u]
      /\ quar'[u] = quar[u] /\ err'[u] = err[u]
  BY OthersStand
<1>2. job # u => job' # u
  BY JobOfOthers
<1>3. SocketTracked(u)'
  BY <1>1 DEF Local, SocketTracked
<1>4. StateTold(u)'
  BY <1>1 DEF Local, StateTold
<1>5. FilesTracked(u)'
  BY <1>1 DEF Local, FilesTracked
<1>6. JobTracked(u)'
  BY <1>1, <1>2 DEF Local, JobTracked
<1>q. QED
  BY <1>3, <1>4, <1>5, <1>6 DEF Local

-----------------------------------------------------------------------------
(* The plist and the job *)

\* The step of a transaction keeps what it knows of the plist true.
LEMMA PlistOfStep ==
    ASSUME TypeOK, NEW t \in Txn, TxnStep(t), Local(t), PlistHeld(t)
    PROVE  PlistHeld(t)'
<1>1. CASE SpecRefused(t)
  BY <1>1 DEF SpecRefused, Goto, Step, TypeOK, ownVars, world, Who, Local,
        StateTold, FilesTracked, PlistHeld, Unpublished, Holding,
        Registration, Revocation
<1>2. CASE Prepare(t)
  BY <1>2 DEF Prepare, Goto, Step, TypeOK, ownVars, world, Who, Local,
        StateTold, FilesTracked, PlistHeld, Unpublished, Holding,
        Registration, Revocation
<1>3. CASE WriteStage(t)
  BY <1>3 DEF WriteStage, Goto, Step, WriteFails, TypeOK, world, Who, Local,
        StateTold, FilesTracked, PlistHeld, Unpublished, Holding,
        Registration, Revocation
<1>4. CASE WriteLease(t)
  BY <1>4 DEF WriteLease, Goto, Step, StageRemovable, TypeOK, world, Who,
        Local, StateTold, FilesTracked, PlistHeld, Unpublished, Holding,
        Registration, Revocation
<1>5. CASE RevalidateFiles(t)
  BY <1>5 DEF RevalidateFiles, Goto, Step, TypeOK, ownVars, world, Who, Local,
        StateTold, FilesTracked, PlistHeld, Unpublished, Holding,
        Registration, Revocation
<1>6. CASE RevalidateJob(t)
  BY <1>6 DEF RevalidateJob, Undecided, Goto, Step, QueryJob, TypeOK, ownVars, world,
        Who, Local, StateTold, FilesTracked, PlistHeld, Unpublished, Holding,
        Registration, Revocation
<1>7. CASE RevalidateAuth(t)
  BY <1>7 DEF RevalidateAuth, Goto, Step, TypeOK, ownVars, world, Who, Local,
        StateTold, FilesTracked, PlistHeld, Unpublished, Holding,
        Registration, Revocation
<1>8. CASE ArtifactChanged(t)
  BY <1>8 DEF ArtifactChanged, Undecided, Goto, Step, TypeOK, ownVars, world, Who,
        Local,
        StateTold, FilesTracked, PlistHeld, Unpublished, Holding,
        Registration, Revocation
<1>9. CASE RollBack(t)
  BY <1>9 DEF RollBack, Goto, Step, StageRemovable, WithoutLease, LeaseRemovable,
        TypeOK,
        world, Who, Local, StateTold, FilesTracked, PlistHeld, Unpublished,
        Holding, Registration, Revocation
<1>10. CASE Link(t)
  <2>1. pid[t] = Nobody /\ pid' = pid /\ touched' = touched
    BY <1>10 DEF Link, Local, FilesTracked, Unpublished
  <2>2. \/ pc'[t] = "linked" /\ plist' \in {t, Foreign}
        \/ pc'[t] = "raised"
    BY <1>10 DEF Link, Goto, Step, TypeOK
  <2>q. QED
    BY <2>1, <2>2 DEF PlistHeld, Holding, Registration, Revocation
<1>11. CASE Published(t)
  BY <1>11 DEF Published, Goto, Step, StageRemovable, TypeOK, world, Who,
        Local, StateTold, FilesTracked, PlistHeld, Unpublished, Holding,
        Registration, Revocation
<1>12. CASE Bootstrap(t)
  BY <1>12 DEF Bootstrap, Goto, Step, Loads, TypeOK, ownVars, Who, Local,
        StateTold, FilesTracked, PlistHeld, Unpublished, Holding,
        Registration, Revocation
<1>13. CASE Refused(t)
  BY <1>13 DEF Refused, Goto, Step, Matches, TypeOK, ownVars, world, Who,
        Local, StateTold, FilesTracked, PlistHeld, Unpublished, Holding,
        Registration, Revocation
<1>14. CASE Booted(t)
  BY <1>14 DEF Booted, Goto, Step, FreezeSocket, Matches, TypeOK, world, Who,
        Local, StateTold, FilesTracked, PlistHeld, Unpublished, Holding,
        Registration, Revocation
<1>15. CASE RollbackQuery(t)
  BY <1>15 DEF RollbackQuery, Goto, Step, TypeOK, ownVars, world, Who, Local,
        StateTold, FilesTracked, PlistHeld, Unpublished, Holding,
        Registration, Revocation
<1>16. CASE RollbackBootout(t)
  BY <1>16 DEF RollbackBootout, Goto, Step, Unloads, TypeOK, ownVars, Who,
        Local, StateTold, FilesTracked, PlistHeld, Unpublished, Holding,
        Registration, Revocation
<1>17. CASE RemovePlist(t)
  BY <1>17 DEF RemovePlist, Goto, Step, CleanFails, TypeOK, ownVars, world,
        Who, Local, StateTold, FilesTracked, PlistHeld, Unpublished, Holding,
        Registration, Revocation
<1>18. CASE UnlinkPlist(t)
  BY <1>18 DEF UnlinkPlist, Goto, Step, CleanFails, TypeOK, ownVars, Who,
        Local, StateTold, FilesTracked, PlistHeld, Unpublished, Holding,
        Registration, Revocation
<1>19. CASE RolledBack(t)
  BY <1>19 DEF RolledBack, Undecided, Goto, Step, WithoutLease, LeaseRemovable,
        FinishAuth, TypeOK,
        world, Who, Local, StateTold, FilesTracked, PlistHeld, Unpublished,
        Holding, Registration, Revocation
<1>20. CASE Verify(t)
  BY <1>20 DEF Verify, Goto, Step, TypeOK, ownVars, world, Who, Local,
        StateTold, FilesTracked, PlistHeld, Unpublished, Holding,
        Registration, Revocation
<1>21. CASE EndBody(t)
  BY <1>21 DEF EndBody, Goto, Step, TypeOK, ownVars, world, Who, Local,
        StateTold, FilesTracked, PlistHeld, Unpublished, Holding,
        Registration, Revocation
<1>22. CASE Rescue(t)
  BY <1>22 DEF Rescue, Goto, Step, TypeOK, world, Who, Local, StateTold,
        FilesTracked, PlistHeld, Unpublished, Holding, Registration,
        Revocation
<1>23. CASE RevokeStaged(t)
  BY <1>23 DEF RevokeStaged, Step, StageRemovable, WithoutLease, LeaseRemovable,
        FinishAuth,
        Raises, TypeOK, world, Who, Local, StateTold, FilesTracked, PlistHeld,
        Unpublished, Holding, Registration, Revocation
<1>24. CASE Revoke(t)
  BY <1>24 DEF Revoke, Goto, Step, Raises, TypeOK, ownVars, world, Who, Local,
        StateTold, FilesTracked, PlistHeld, Unpublished, Holding,
        Registration, Revocation
<1>25. CASE RevokeQuery(t)
  BY <1>25 DEF RevokeQuery, Goto, Step, Raises, Matches, TypeOK, ownVars,
        world, Who, Local, StateTold, FilesTracked, PlistHeld, Unpublished,
        Holding, Registration, Revocation
<1>26. CASE RevokeBootout(t)
  BY <1>26 DEF RevokeBootout, Goto, Step, Raises, Unloads, TypeOK, ownVars,
        Who, Local, StateTold, FilesTracked, PlistHeld, Unpublished, Holding,
        Registration, Revocation
<1>27. CASE RevokeSocket(t)
  BY <1>27 DEF RevokeSocket, Goto, Step, TypeOK, world, Who, Local, StateTold,
        FilesTracked, PlistHeld, Unpublished, Holding, Registration,
        Revocation
<1>28. CASE RenameSocket(t)
  BY <1>28 DEF RenameSocket, Goto, Step, TypeOK, Who, Local, StateTold,
        FilesTracked, PlistHeld, Unpublished, Holding, Registration,
        Revocation
<1>29. CASE JudgeMoved(t)
  BY <1>29 DEF JudgeMoved, Goto, Step, TypeOK, Who, Local, StateTold,
        FilesTracked, PlistHeld, Unpublished, Holding, Registration,
        Revocation
<1>30. CASE RestoreMoved(t)
  BY <1>30 DEF RestoreMoved, Goto, Step, TypeOK, Who, Local, StateTold,
        FilesTracked, PlistHeld, Unpublished, Holding, Registration,
        Revocation
<1>31. CASE RevokePlist(t)
  BY <1>31 DEF RevokePlist, Goto, Step, Raises, TypeOK, ownVars, world, Who,
        Local, StateTold, FilesTracked, PlistHeld, Unpublished, Holding,
        Registration, Revocation
<1>32. CASE RevokeUnlink(t)
  BY <1>32 DEF RevokeUnlink, Goto, Step, Raises, TypeOK, ownVars, Who, Local,
        StateTold, FilesTracked, PlistHeld, Unpublished, Holding,
        Registration, Revocation
<1>33. CASE Revoked(t)
  BY <1>33 DEF Revoked, Raises, Step, WithoutLease, LeaseRemovable, FinishAuth,
        TypeOK, world, Who,
        Local, StateTold, FilesTracked, PlistHeld, Unpublished, Holding,
        Registration, Revocation
<1>q. QED
  BY <1>1, <1>2, <1>3, <1>4, <1>5, <1>6, <1>7, <1>8, <1>9, <1>10, <1>11,
        <1>12, <1>13, <1>14, <1>15, <1>16, <1>17, <1>18, <1>19, <1>20, <1>21,
        <1>22, <1>23, <1>24, <1>25, <1>26, <1>27, <1>28, <1>29, <1>30, <1>31,
        <1>32, <1>33
      DEF TxnStep, Preparing, Registering, Managing, Revoking

\* Where a transaction changes the plist there is none, or it is its own.
LEMMA PlistMoves ==
    ASSUME TypeOK, NEW t \in Txn, TxnStep(t), Local(t), PlistHeld(t)
    PROVE  /\ touched' = touched
           /\ "plist" \notin touched => plist' = plist \/ plist \in {Nobody, t}
<1>1. CASE SpecRefused(t)
  BY <1>1 DEF SpecRefused, Goto, Step, TypeOK, world, PlistHeld, Holding,
        Registration, Revocation
<1>2. CASE Prepare(t)
  BY <1>2 DEF Prepare, Goto, Step, TypeOK, world, PlistHeld, Holding,
        Registration, Revocation
<1>3. CASE WriteStage(t)
  BY <1>3 DEF WriteStage, Goto, Step, WriteFails, TypeOK, world, PlistHeld,
        Holding, Registration, Revocation
<1>4. CASE WriteLease(t)
  BY <1>4 DEF WriteLease, Goto, Step, StageRemovable, TypeOK, world,
        PlistHeld, Holding, Registration, Revocation
<1>5. CASE RevalidateFiles(t)
  BY <1>5 DEF RevalidateFiles, Goto, Step, TypeOK, world, PlistHeld, Holding,
        Registration, Revocation
<1>6. CASE RevalidateJob(t)
  BY <1>6 DEF RevalidateJob, Undecided, Goto, Step, QueryJob, TypeOK, world, PlistHeld,
        Holding, Registration, Revocation
<1>7. CASE RevalidateAuth(t)
  BY <1>7 DEF RevalidateAuth, Goto, Step, TypeOK, world, PlistHeld, Holding,
        Registration, Revocation
<1>8. CASE ArtifactChanged(t)
  BY <1>8 DEF ArtifactChanged, Undecided, Goto, Step, TypeOK, world, PlistHeld, Holding,
        Registration, Revocation
<1>9. CASE RollBack(t)
  BY <1>9 DEF RollBack, Goto, Step, StageRemovable, WithoutLease, LeaseRemovable,
        TypeOK,
        world, PlistHeld, Holding, Registration, Revocation
<1>10. CASE Link(t)
  BY <1>10 DEF Link, Goto, Step, StageRemovable, WithoutLease, LeaseRemovable, TypeOK,
        PlistHeld, Holding, Registration, Revocation
<1>11. CASE Published(t)
  BY <1>11 DEF Published, Goto, Step, StageRemovable, TypeOK, world,
        PlistHeld, Holding, Registration, Revocation
<1>12. CASE Bootstrap(t)
  BY <1>12 DEF Bootstrap, Goto, Step, Loads, TypeOK, PlistHeld, Holding,
        Registration, Revocation
<1>13. CASE Refused(t)
  BY <1>13 DEF Refused, Goto, Step, Matches, TypeOK, world, PlistHeld,
        Holding, Registration, Revocation
<1>14. CASE Booted(t)
  BY <1>14 DEF Booted, Goto, Step, FreezeSocket, Matches, TypeOK, world,
        PlistHeld, Holding, Registration, Revocation
<1>15. CASE RollbackQuery(t)
  BY <1>15 DEF RollbackQuery, Goto, Step, TypeOK, world, PlistHeld, Holding,
        Registration, Revocation
<1>16. CASE RollbackBootout(t)
  BY <1>16 DEF RollbackBootout, Goto, Step, Unloads, TypeOK, PlistHeld,
        Holding, Registration, Revocation
<1>17. CASE RemovePlist(t)
  BY <1>17 DEF RemovePlist, Goto, Step, CleanFails, TypeOK, world, PlistHeld,
        Holding, Registration, Revocation
<1>18. CASE UnlinkPlist(t)
  BY <1>18 DEF UnlinkPlist, Goto, Step, CleanFails, TypeOK, PlistHeld,
        Holding, Registration, Revocation
<1>19. CASE RolledBack(t)
  BY <1>19 DEF RolledBack, Undecided, Goto, Step, WithoutLease, LeaseRemovable,
        FinishAuth, TypeOK,
        world, PlistHeld, Holding, Registration, Revocation
<1>20. CASE Verify(t)
  BY <1>20 DEF Verify, Goto, Step, TypeOK, world, PlistHeld, Holding,
        Registration, Revocation
<1>21. CASE EndBody(t)
  BY <1>21 DEF EndBody, Goto, Step, TypeOK, world, PlistHeld, Holding,
        Registration, Revocation
<1>22. CASE Rescue(t)
  BY <1>22 DEF Rescue, Goto, Step, TypeOK, world, PlistHeld, Holding,
        Registration, Revocation
<1>23. CASE RevokeStaged(t)
  BY <1>23 DEF RevokeStaged, Step, StageRemovable, WithoutLease, LeaseRemovable,
        FinishAuth,
        Raises, TypeOK, world, PlistHeld, Holding, Registration, Revocation
<1>24. CASE Revoke(t)
  BY <1>24 DEF Revoke, Goto, Step, Raises, TypeOK, world, PlistHeld, Holding,
        Registration, Revocation
<1>25. CASE RevokeQuery(t)
  BY <1>25 DEF RevokeQuery, Goto, Step, Raises, Matches, TypeOK, world,
        PlistHeld, Holding, Registration, Revocation
<1>26. CASE RevokeBootout(t)
  BY <1>26 DEF RevokeBootout, Goto, Step, Raises, Unloads, TypeOK, PlistHeld,
        Holding, Registration, Revocation
<1>27. CASE RevokeSocket(t)
  BY <1>27 DEF RevokeSocket, Goto, Step, TypeOK, world, PlistHeld, Holding,
        Registration, Revocation
<1>28. CASE RenameSocket(t)
  BY <1>28 DEF RenameSocket, Goto, Step, TypeOK, PlistHeld, Holding,
        Registration, Revocation
<1>29. CASE JudgeMoved(t)
  BY <1>29 DEF JudgeMoved, Goto, Step, TypeOK, PlistHeld, Holding,
        Registration, Revocation
<1>30. CASE RestoreMoved(t)
  BY <1>30 DEF RestoreMoved, Goto, Step, TypeOK, PlistHeld, Holding,
        Registration, Revocation
<1>31. CASE RevokePlist(t)
  BY <1>31 DEF RevokePlist, Goto, Step, Raises, TypeOK, world, PlistHeld,
        Holding, Registration, Revocation
<1>32. CASE RevokeUnlink(t)
  BY <1>32 DEF RevokeUnlink, Goto, Step, Raises, TypeOK, PlistHeld, Holding,
        Registration, Revocation
<1>33. CASE Revoked(t)
  BY <1>33 DEF Revoked, Raises, Step, WithoutLease, LeaseRemovable, FinishAuth,
        TypeOK, world,
        PlistHeld, Holding, Registration, Revocation
<1>q. QED
  BY <1>1, <1>2, <1>3, <1>4, <1>5, <1>6, <1>7, <1>8, <1>9, <1>10, <1>11,
        <1>12, <1>13, <1>14, <1>15, <1>16, <1>17, <1>18, <1>19, <1>20, <1>21,
        <1>22, <1>23, <1>24, <1>25, <1>26, <1>27, <1>28, <1>29, <1>30, <1>31,
        <1>32, <1>33
      DEF TxnStep, Preparing, Registering, Managing, Revoking

\* A transaction removes the plist only from the name it holds, and publishes
\* one only where there is none.
LEMMA PlistOfOthers ==
    ASSUME TypeOK, NEW t \in Txn, TxnStep(t), Local(t), PlistHeld(t),
           NEW u \in Txn, u # t, PlistHeld(u)
    PROVE  PlistHeld(u)'
<1>1. pc'[u] = pc[u] /\ state'[u] = state[u] /\ pid'[u] = pid[u]
  BY OthersStand
<1>2. touched' = touched /\ ("plist" \notin touched => plist' = plist \/ plist \in {Nobody, t})
  BY PlistMoves
<1>q. QED
  BY <1>1, <1>2 DEF PlistHeld

\* A job is loaded from the plist of its transaction, and that plist stays as
\* long as the job may be loaded.
LEMMA JobOfStep ==
    ASSUME TypeOK, NEW t \in Txn, TxnStep(t), Local(t), PlistHeld(t), JobOfPlist
    PROVE  JobOfPlist'
<1>1. CASE SpecRefused(t)
  BY <1>1 DEF SpecRefused, Goto, Step, TypeOK, world, PlistHeld, Holding,
        Registration, Revocation, JobOfPlist, Local, JobTracked, JobSeenGone
<1>2. CASE Prepare(t)
  BY <1>2 DEF Prepare, Goto, Step, TypeOK, world, PlistHeld, Holding,
        Registration, Revocation, JobOfPlist, Local, JobTracked, JobSeenGone
<1>3. CASE WriteStage(t)
  BY <1>3 DEF WriteStage, Goto, Step, WriteFails, TypeOK, world, PlistHeld,
        Holding, Registration, Revocation, JobOfPlist, Local, JobTracked,
        JobSeenGone
<1>4. CASE WriteLease(t)
  BY <1>4 DEF WriteLease, Goto, Step, StageRemovable, TypeOK, world,
        PlistHeld, Holding, Registration, Revocation, JobOfPlist, Local,
        JobTracked, JobSeenGone
<1>5. CASE RevalidateFiles(t)
  BY <1>5 DEF RevalidateFiles, Goto, Step, TypeOK, world, PlistHeld, Holding,
        Registration, Revocation, JobOfPlist, Local, JobTracked, JobSeenGone
<1>6. CASE RevalidateJob(t)
  BY <1>6 DEF RevalidateJob, Undecided, Goto, Step, QueryJob, TypeOK, world, PlistHeld,
        Holding, Registration, Revocation, JobOfPlist, Local, JobTracked,
        JobSeenGone
<1>7. CASE RevalidateAuth(t)
  BY <1>7 DEF RevalidateAuth, Goto, Step, TypeOK, world, PlistHeld, Holding,
        Registration, Revocation, JobOfPlist, Local, JobTracked, JobSeenGone
<1>8. CASE ArtifactChanged(t)
  BY <1>8 DEF ArtifactChanged, Undecided, Goto, Step, TypeOK, world, PlistHeld, Holding,
        Registration, Revocation, JobOfPlist, Local, JobTracked, JobSeenGone
<1>9. CASE RollBack(t)
  BY <1>9 DEF RollBack, Goto, Step, StageRemovable, WithoutLease, LeaseRemovable,
        TypeOK,
        world, PlistHeld, Holding, Registration, Revocation, JobOfPlist,
        Local, JobTracked, JobSeenGone
<1>10. CASE Link(t)
  BY <1>10 DEF Link, Goto, Step, StageRemovable, WithoutLease, LeaseRemovable, TypeOK,
        PlistHeld, Holding, Registration, Revocation, JobOfPlist, Local,
        JobTracked, JobSeenGone
<1>11. CASE Published(t)
  BY <1>11 DEF Published, Goto, Step, StageRemovable, TypeOK, world,
        PlistHeld, Holding, Registration, Revocation, JobOfPlist, Local,
        JobTracked, JobSeenGone
<1>12. CASE Bootstrap(t)
  BY <1>12 DEF Bootstrap, Goto, Step, Loads, TypeOK, PlistHeld, Holding,
        Registration, Revocation, JobOfPlist, Local, JobTracked, JobSeenGone
<1>13. CASE Refused(t)
  BY <1>13 DEF Refused, Goto, Step, Matches, TypeOK, world, PlistHeld,
        Holding, Registration, Revocation, JobOfPlist, Local, JobTracked,
        JobSeenGone
<1>14. CASE Booted(t)
  BY <1>14 DEF Booted, Goto, Step, FreezeSocket, Matches, TypeOK, world,
        PlistHeld, Holding, Registration, Revocation, JobOfPlist, Local,
        JobTracked, JobSeenGone
<1>15. CASE RollbackQuery(t)
  BY <1>15 DEF RollbackQuery, Goto, Step, TypeOK, world, PlistHeld, Holding,
        Registration, Revocation, JobOfPlist, Local, JobTracked, JobSeenGone
<1>16. CASE RollbackBootout(t)
  BY <1>16 DEF RollbackBootout, Goto, Step, Unloads, TypeOK, PlistHeld,
        Holding, Registration, Revocation, JobOfPlist, Local, JobTracked,
        JobSeenGone
<1>17. CASE RemovePlist(t)
  BY <1>17 DEF RemovePlist, Goto, Step, CleanFails, TypeOK, world, PlistHeld,
        Holding, Registration, Revocation, JobOfPlist, Local, JobTracked,
        JobSeenGone
<1>18. CASE UnlinkPlist(t)
  BY <1>18 DEF UnlinkPlist, Goto, Step, CleanFails, TypeOK, PlistHeld,
        Holding, Registration, Revocation, JobOfPlist, Local, JobTracked,
        JobSeenGone
<1>19. CASE RolledBack(t)
  BY <1>19 DEF RolledBack, Undecided, Goto, Step, WithoutLease, LeaseRemovable,
        FinishAuth, TypeOK,
        world, PlistHeld, Holding, Registration, Revocation, JobOfPlist,
        Local, JobTracked, JobSeenGone
<1>20. CASE Verify(t)
  BY <1>20 DEF Verify, Goto, Step, TypeOK, world, PlistHeld, Holding,
        Registration, Revocation, JobOfPlist, Local, JobTracked, JobSeenGone
<1>21. CASE EndBody(t)
  BY <1>21 DEF EndBody, Goto, Step, TypeOK, world, PlistHeld, Holding,
        Registration, Revocation, JobOfPlist, Local, JobTracked, JobSeenGone
<1>22. CASE Rescue(t)
  BY <1>22 DEF Rescue, Goto, Step, TypeOK, world, PlistHeld, Holding,
        Registration, Revocation, JobOfPlist, Local, JobTracked, JobSeenGone
<1>23. CASE RevokeStaged(t)
  BY <1>23 DEF RevokeStaged, Step, StageRemovable, WithoutLease, LeaseRemovable,
        FinishAuth,
        Raises, TypeOK, world, PlistHeld, Holding, Registration, Revocation,
        JobOfPlist, Local, JobTracked, JobSeenGone
<1>24. CASE Revoke(t)
  BY <1>24 DEF Revoke, Goto, Step, Raises, TypeOK, world, PlistHeld, Holding,
        Registration, Revocation, JobOfPlist, Local, JobTracked, JobSeenGone
<1>25. CASE RevokeQuery(t)
  BY <1>25 DEF RevokeQuery, Goto, Step, Raises, Matches, TypeOK, world,
        PlistHeld, Holding, Registration, Revocation, JobOfPlist, Local,
        JobTracked, JobSeenGone
<1>26. CASE RevokeBootout(t)
  BY <1>26 DEF RevokeBootout, Goto, Step, Raises, Unloads, TypeOK, PlistHeld,
        Holding, Registration, Revocation, JobOfPlist, Local, JobTracked,
        JobSeenGone
<1>27. CASE RevokeSocket(t)
  BY <1>27 DEF RevokeSocket, Goto, Step, TypeOK, world, PlistHeld, Holding,
        Registration, Revocation, JobOfPlist, Local, JobTracked, JobSeenGone
<1>28. CASE RenameSocket(t)
  BY <1>28 DEF RenameSocket, Goto, Step, TypeOK, PlistHeld, Holding,
        Registration, Revocation, JobOfPlist, Local, JobTracked, JobSeenGone
<1>29. CASE JudgeMoved(t)
  BY <1>29 DEF JudgeMoved, Goto, Step, TypeOK, PlistHeld, Holding,
        Registration, Revocation, JobOfPlist, Local, JobTracked, JobSeenGone
<1>30. CASE RestoreMoved(t)
  BY <1>30 DEF RestoreMoved, Goto, Step, TypeOK, PlistHeld, Holding,
        Registration, Revocation, JobOfPlist, Local, JobTracked, JobSeenGone
<1>31. CASE RevokePlist(t)
  BY <1>31 DEF RevokePlist, Goto, Step, Raises, TypeOK, world, PlistHeld,
        Holding, Registration, Revocation, JobOfPlist, Local, JobTracked,
        JobSeenGone
<1>32. CASE RevokeUnlink(t)
  BY <1>32 DEF RevokeUnlink, Goto, Step, Raises, TypeOK, PlistHeld, Holding,
        Registration, Revocation, JobOfPlist, Local, JobTracked, JobSeenGone
<1>33. CASE Revoked(t)
  BY <1>33 DEF Revoked, Raises, Step, WithoutLease, LeaseRemovable, FinishAuth,
        TypeOK, world,
        PlistHeld, Holding, Registration, Revocation, JobOfPlist, Local,
        JobTracked, JobSeenGone
<1>q. QED
  BY <1>1, <1>2, <1>3, <1>4, <1>5, <1>6, <1>7, <1>8, <1>9, <1>10, <1>11,
        <1>12, <1>13, <1>14, <1>15, <1>16, <1>17, <1>18, <1>19, <1>20, <1>21,
        <1>22, <1>23, <1>24, <1>25, <1>26, <1>27, <1>28, <1>29, <1>30, <1>31,
        <1>32, <1>33
      DEF TxnStep, Preparing, Registering, Managing, Revoking

\* A socket is only unlinked by the transaction that had frozen it.
LEMMA DestroyedOfStep ==
    ASSUME TypeOK, NEW t \in Txn, TxnStep(t), Local(t), OnlyFrozenDestroyed
    PROVE  OnlyFrozenDestroyed'
<1>1. CASE SpecRefused(t)
  BY <1>1 DEF SpecRefused, Goto, Step, TypeOK, world, ownVars,
        OnlyFrozenDestroyed, Local, SocketTracked, Unfrozen, Unpublished
<1>2. CASE Prepare(t)
  BY <1>2 DEF Prepare, Goto, Step, TypeOK, world, ownVars,
        OnlyFrozenDestroyed, Local, SocketTracked, Unfrozen, Unpublished
<1>3. CASE WriteStage(t)
  BY <1>3 DEF WriteStage, Goto, Step, WriteFails, TypeOK, world,
        OnlyFrozenDestroyed, Local, SocketTracked, Unfrozen, Unpublished
<1>4. CASE WriteLease(t)
  BY <1>4 DEF WriteLease, Goto, Step, StageRemovable, TypeOK, world,
        OnlyFrozenDestroyed, Local, SocketTracked, Unfrozen, Unpublished
<1>5. CASE RevalidateFiles(t)
  BY <1>5 DEF RevalidateFiles, Goto, Step, TypeOK, world, ownVars,
        OnlyFrozenDestroyed, Local, SocketTracked, Unfrozen, Unpublished
<1>6. CASE RevalidateJob(t)
  BY <1>6 DEF RevalidateJob, Undecided, Goto, Step, QueryJob, TypeOK, world, ownVars,
        OnlyFrozenDestroyed, Local, SocketTracked, Unfrozen, Unpublished
<1>7. CASE RevalidateAuth(t)
  BY <1>7 DEF RevalidateAuth, Goto, Step, TypeOK, world, ownVars,
        OnlyFrozenDestroyed, Local, SocketTracked, Unfrozen, Unpublished
<1>8. CASE ArtifactChanged(t)
  BY <1>8 DEF ArtifactChanged, Undecided, Goto, Step, TypeOK, world, ownVars,
        OnlyFrozenDestroyed, Local, SocketTracked, Unfrozen, Unpublished
<1>9. CASE RollBack(t)
  BY <1>9 DEF RollBack, Goto, Step, StageRemovable, WithoutLease, LeaseRemovable,
        TypeOK,
        world, OnlyFrozenDestroyed, Local, SocketTracked, Unfrozen,
        Unpublished
<1>10. CASE Link(t)
  BY <1>10 DEF Link, Goto, Step, StageRemovable, WithoutLease, LeaseRemovable, TypeOK,
        OnlyFrozenDestroyed, Local, SocketTracked, Unfrozen, Unpublished
<1>11. CASE Published(t)
  BY <1>11 DEF Published, Goto, Step, StageRemovable, TypeOK, world,
        OnlyFrozenDestroyed, Local, SocketTracked, Unfrozen, Unpublished
<1>12. CASE Bootstrap(t)
  BY <1>12 DEF Bootstrap, Goto, Step, Loads, TypeOK, ownVars,
        OnlyFrozenDestroyed, Local, SocketTracked, Unfrozen, Unpublished
<1>13. CASE Refused(t)
  BY <1>13 DEF Refused, Goto, Step, Matches, TypeOK, world, ownVars,
        OnlyFrozenDestroyed, Local, SocketTracked, Unfrozen, Unpublished
<1>14. CASE Booted(t)
  BY <1>14 DEF Booted, Goto, Step, FreezeSocket, Matches, TypeOK, world,
        OnlyFrozenDestroyed, Local, SocketTracked, Unfrozen, Unpublished
<1>15. CASE RollbackQuery(t)
  BY <1>15 DEF RollbackQuery, Goto, Step, TypeOK, world, ownVars,
        OnlyFrozenDestroyed, Local, SocketTracked, Unfrozen, Unpublished
<1>16. CASE RollbackBootout(t)
  BY <1>16 DEF RollbackBootout, Goto, Step, Unloads, TypeOK, ownVars,
        OnlyFrozenDestroyed, Local, SocketTracked, Unfrozen, Unpublished
<1>17. CASE RemovePlist(t)
  BY <1>17 DEF RemovePlist, Goto, Step, CleanFails, TypeOK, world, ownVars,
        OnlyFrozenDestroyed, Local, SocketTracked, Unfrozen, Unpublished
<1>18. CASE UnlinkPlist(t)
  BY <1>18 DEF UnlinkPlist, Goto, Step, CleanFails, TypeOK, ownVars,
        OnlyFrozenDestroyed, Local, SocketTracked, Unfrozen, Unpublished
<1>19. CASE RolledBack(t)
  BY <1>19 DEF RolledBack, Undecided, Goto, Step, WithoutLease, LeaseRemovable,
        FinishAuth, TypeOK,
        world, OnlyFrozenDestroyed, Local, SocketTracked, Unfrozen,
        Unpublished
<1>20. CASE Verify(t)
  BY <1>20 DEF Verify, Goto, Step, TypeOK, world, ownVars,
        OnlyFrozenDestroyed, Local, SocketTracked, Unfrozen, Unpublished
<1>21. CASE EndBody(t)
  BY <1>21 DEF EndBody, Goto, Step, TypeOK, world, ownVars,
        OnlyFrozenDestroyed, Local, SocketTracked, Unfrozen, Unpublished
<1>22. CASE Rescue(t)
  BY <1>22 DEF Rescue, Goto, Step, TypeOK, world, OnlyFrozenDestroyed, Local,
        SocketTracked, Unfrozen, Unpublished
<1>23. CASE RevokeStaged(t)
  BY <1>23 DEF RevokeStaged, Step, StageRemovable, WithoutLease, LeaseRemovable,
        FinishAuth,
        Raises, TypeOK, world, OnlyFrozenDestroyed, Local, SocketTracked,
        Unfrozen, Unpublished
<1>24. CASE Revoke(t)
  BY <1>24 DEF Revoke, Goto, Step, Raises, TypeOK, world, ownVars,
        OnlyFrozenDestroyed, Local, SocketTracked, Unfrozen, Unpublished
<1>25. CASE RevokeQuery(t)
  BY <1>25 DEF RevokeQuery, Goto, Step, Raises, Matches, TypeOK, world,
        ownVars, OnlyFrozenDestroyed, Local, SocketTracked, Unfrozen,
        Unpublished
<1>26. CASE RevokeBootout(t)
  BY <1>26 DEF RevokeBootout, Goto, Step, Raises, Unloads, TypeOK, ownVars,
        OnlyFrozenDestroyed, Local, SocketTracked, Unfrozen, Unpublished
<1>27. CASE RevokeSocket(t)
  BY <1>27 DEF RevokeSocket, Goto, Step, TypeOK, world, OnlyFrozenDestroyed,
        Local, SocketTracked, Unfrozen, Unpublished
<1>28. CASE RenameSocket(t)
  BY <1>28 DEF RenameSocket, Goto, Step, TypeOK, OnlyFrozenDestroyed, Local,
        SocketTracked, Unfrozen, Unpublished
<1>29. CASE JudgeMoved(t)
  <2>1. sock' = sock
    BY <1>29 DEF JudgeMoved
  <2>2. destroyed' = destroyed \/ destroyed' = destroyed \cup {sock[t]}
    BY <1>29 DEF JudgeMoved
  <2>q. QED
    BY <2>1, <2>2 DEF OnlyFrozenDestroyed
<1>30. CASE RestoreMoved(t)
  BY <1>30 DEF RestoreMoved, Goto, Step, TypeOK, OnlyFrozenDestroyed, Local,
        SocketTracked, Unfrozen, Unpublished
<1>31. CASE RevokePlist(t)
  BY <1>31 DEF RevokePlist, Goto, Step, Raises, TypeOK, world, ownVars,
        OnlyFrozenDestroyed, Local, SocketTracked, Unfrozen, Unpublished
<1>32. CASE RevokeUnlink(t)
  BY <1>32 DEF RevokeUnlink, Goto, Step, Raises, TypeOK, ownVars,
        OnlyFrozenDestroyed, Local, SocketTracked, Unfrozen, Unpublished
<1>33. CASE Revoked(t)
  BY <1>33 DEF Revoked, Raises, Step, WithoutLease, LeaseRemovable, FinishAuth,
        TypeOK, world,
        OnlyFrozenDestroyed, Local, SocketTracked, Unfrozen, Unpublished
<1>q. QED
  BY <1>1, <1>2, <1>3, <1>4, <1>5, <1>6, <1>7, <1>8, <1>9, <1>10, <1>11,
        <1>12, <1>13, <1>14, <1>15, <1>16, <1>17, <1>18, <1>19, <1>20, <1>21,
        <1>22, <1>23, <1>24, <1>25, <1>26, <1>27, <1>28, <1>29, <1>30, <1>31,
        <1>32, <1>33
      DEF TxnStep, Preparing, Registering, Managing, Revoking

\* A transaction unloads a job by a bootout, and by nothing else.
LEMMA JobEnds ==
    ASSUME TypeOK, NEW t \in Txn, TxnStep(t), job \in Txn, job' = Nobody
    PROVE  pc[t] \in {"bootout", "revokeBootout"}
<1>1. CASE SpecRefused(t)
  BY <1>1 DEF SpecRefused, Goto, Step, TypeOK, world
<1>2. CASE Prepare(t)
  BY <1>2 DEF Prepare, Goto, Step, TypeOK, world
<1>3. CASE WriteStage(t)
  BY <1>3 DEF WriteStage, Goto, Step, WriteFails, TypeOK, world
<1>4. CASE WriteLease(t)
  BY <1>4 DEF WriteLease, Goto, Step, StageRemovable, TypeOK, world
<1>5. CASE RevalidateFiles(t)
  BY <1>5 DEF RevalidateFiles, Goto, Step, TypeOK, world
<1>6. CASE RevalidateJob(t)
  BY <1>6 DEF RevalidateJob, Undecided, Goto, Step, QueryJob, TypeOK, world
<1>7. CASE RevalidateAuth(t)
  BY <1>7 DEF RevalidateAuth, Goto, Step, TypeOK, world
<1>8. CASE ArtifactChanged(t)
  BY <1>8 DEF ArtifactChanged, Undecided, Goto, Step, TypeOK, world
<1>9. CASE RollBack(t)
  BY <1>9 DEF RollBack, Goto, Step, StageRemovable, WithoutLease, LeaseRemovable,
        TypeOK,
        world
<1>10. CASE Link(t)
  BY <1>10 DEF Link, Goto, Step, StageRemovable, WithoutLease, LeaseRemovable, TypeOK
<1>11. CASE Published(t)
  BY <1>11 DEF Published, Goto, Step, StageRemovable, TypeOK, world
<1>12. CASE Bootstrap(t)
  BY <1>12 DEF Bootstrap, Goto, Step, Loads, TypeOK
<1>13. CASE Refused(t)
  BY <1>13 DEF Refused, Goto, Step, Matches, TypeOK, world
<1>14. CASE Booted(t)
  BY <1>14 DEF Booted, Goto, Step, FreezeSocket, Matches, TypeOK, world
<1>15. CASE RollbackQuery(t)
  BY <1>15 DEF RollbackQuery, Goto, Step, TypeOK, world
<1>16. CASE RollbackBootout(t)
  BY <1>16 DEF RollbackBootout, Goto, Step, Unloads, TypeOK
<1>17. CASE RemovePlist(t)
  BY <1>17 DEF RemovePlist, Goto, Step, CleanFails, TypeOK, world
<1>18. CASE UnlinkPlist(t)
  BY <1>18 DEF UnlinkPlist, Goto, Step, CleanFails, TypeOK
<1>19. CASE RolledBack(t)
  BY <1>19 DEF RolledBack, Undecided, Goto, Step, WithoutLease, LeaseRemovable,
        FinishAuth, TypeOK, world
<1>20. CASE Verify(t)
  BY <1>20 DEF Verify, Goto, Step, TypeOK, world
<1>21. CASE EndBody(t)
  BY <1>21 DEF EndBody, Goto, Step, TypeOK, world
<1>22. CASE Rescue(t)
  BY <1>22 DEF Rescue, Goto, Step, TypeOK, world
<1>23. CASE RevokeStaged(t)
  BY <1>23 DEF RevokeStaged, Step, StageRemovable, WithoutLease, LeaseRemovable,
        FinishAuth,
        Raises, TypeOK, world
<1>24. CASE Revoke(t)
  BY <1>24 DEF Revoke, Goto, Step, Raises, TypeOK, world
<1>25. CASE RevokeQuery(t)
  BY <1>25 DEF RevokeQuery, Goto, Step, Raises, Matches, TypeOK, world
<1>26. CASE RevokeBootout(t)
  BY <1>26 DEF RevokeBootout, Goto, Step, Raises, Unloads, TypeOK
<1>27. CASE RevokeSocket(t)
  BY <1>27 DEF RevokeSocket, Goto, Step, TypeOK, world
<1>28. CASE RenameSocket(t)
  BY <1>28 DEF RenameSocket, Goto, Step, TypeOK
<1>29. CASE JudgeMoved(t)
  BY <1>29 DEF JudgeMoved, Goto, Step, TypeOK
<1>30. CASE RestoreMoved(t)
  BY <1>30 DEF RestoreMoved, Goto, Step, TypeOK
<1>31. CASE RevokePlist(t)
  BY <1>31 DEF RevokePlist, Goto, Step, Raises, TypeOK, world
<1>32. CASE RevokeUnlink(t)
  BY <1>32 DEF RevokeUnlink, Goto, Step, Raises, TypeOK
<1>33. CASE Revoked(t)
  BY <1>33 DEF Revoked, Raises, Step, WithoutLease, LeaseRemovable, FinishAuth,
        TypeOK, world
<1>q. QED
  BY <1>1, <1>2, <1>3, <1>4, <1>5, <1>6, <1>7, <1>8, <1>9, <1>10, <1>11,
        <1>12, <1>13, <1>14, <1>15, <1>16, <1>17, <1>18, <1>19, <1>20, <1>21,
        <1>22, <1>23, <1>24, <1>25, <1>26, <1>27, <1>28, <1>29, <1>30, <1>31,
        <1>32, <1>33
      DEF TxnStep, Preparing, Registering, Managing, Revoking

-----------------------------------------------------------------------------
(* Somebody else, and the whole system *)

\* Somebody else changes the plist only with a mark, loads no transaction's
\* job, and never touches what a transaction keeps to itself.
LEMMA EnvironmentMoves ==
    ASSUME TypeOK, Environment
    PROVE  /\ UNCHANGED <<destroyed, pc, state, pid, sock, quar, err>>
           /\ touched \subseteq touched'
           /\ "plist" \notin touched' => plist' = plist
           /\ job' \in {job, Foreign, Nobody}
           /\ \A t \in Txn : stage'[t] = "own" => stage[t] = "own"
           /\ \A t \in Txn :
                \/ lease'[t] = lease[t]
                \/ lease[t] = "own" /\ lease'[t] \in {"none", "foreign"}
<1>1. CASE ForeignPlist
  BY <1>1 DEF ForeignPlist, Interferes
<1>2. CASE ForeignSocket
  BY <1>2 DEF ForeignSocket, Interferes
<1>3. CASE ForeignJob
  BY <1>3 DEF ForeignJob, Interferes
<1>4. CASE ParentChanges
  BY <1>4 DEF ParentChanges, Interferes
<1>5. CASE AuthChanges
  BY <1>5 DEF AuthChanges, Interferes
<1>6. ASSUME NEW t \in Txn, ForeignStage(t)
      PROVE  /\ UNCHANGED <<destroyed, pc, state, lease, pid, sock, quar, err, plist, job>>
             /\ touched \subseteq touched'
             /\ \A u \in Txn : stage'[u] = "own" => stage[u] = "own"
  BY <1>6 DEF ForeignStage, Interferes, TypeOK
<1>7. ASSUME NEW t \in Txn, ForeignLease(t)
      PROVE  /\ UNCHANGED <<destroyed, pc, state, stage, pid, sock, quar, err, plist, job>>
             /\ touched \subseteq touched'
             /\ \A u \in Txn :
                  \/ lease'[u] = lease[u]
                  \/ lease[u] = "own" /\ lease'[u] \in {"none", "foreign"}
  BY <1>7 DEF ForeignLease, Interferes, TypeOK
<1>q. QED
  BY <1>1, <1>2, <1>3, <1>4, <1>5, <1>6, <1>7 DEF Environment

\* Type correctness is preserved by what somebody else does.
LEMMA TypeOfEnvironment ==
    ASSUME TypeOK, Environment
    PROVE  TypeOK'
<1>1. CASE ForeignPlist
  BY <1>1 DEF ForeignPlist, Interferes, TypeOK, Who
<1>2. CASE ForeignSocket
  BY <1>2 DEF ForeignSocket, Interferes, TypeOK
<1>3. CASE ForeignJob
  BY <1>3 DEF ForeignJob, Interferes, TypeOK, Who
<1>4. CASE ParentChanges
  <2>1. parents' \in BOOLEAN
    BY <1>4 DEF ParentChanges
  <2>2. touched' \subseteq {"plist", "socket", "job", "stage", "lease", "parents", "auth"}
    BY <1>4 DEF ParentChanges, Interferes, TypeOK
  <2>3. meddled' \in 0 .. Meddles
    BY <1>4 DEF ParentChanges, Interferes, TypeOK
  <2>q. QED
    BY <1>4, <2>1, <2>2, <2>3 DEF ParentChanges, Interferes, TypeOK
<1>5. CASE AuthChanges
  <2>1. auth' \in BOOLEAN
    BY <1>5 DEF AuthChanges
  <2>2. touched' \subseteq {"plist", "socket", "job", "stage", "lease", "parents", "auth"}
    BY <1>5 DEF AuthChanges, Interferes, TypeOK
  <2>3. meddled' \in 0 .. Meddles
    BY <1>5 DEF AuthChanges, Interferes, TypeOK
  <2>q. QED
    BY <1>5, <2>1, <2>2, <2>3 DEF AuthChanges, Interferes, TypeOK
<1>6. ASSUME NEW t \in Txn, ForeignStage(t)
      PROVE  TypeOK'
  BY <1>6 DEF ForeignStage, Interferes, TypeOK
<1>7. ASSUME NEW t \in Txn, ForeignLease(t)
      PROVE  TypeOK'
  BY <1>7 DEF ForeignLease, Interferes, TypeOK
<1>q. QED
  BY <1>1, <1>2, <1>3, <1>4, <1>5, <1>6, <1>7 DEF Environment

\* The invariant is preserved by what somebody else does.
LEMMA EnvironmentKeeps ==
    ASSUME ActivationInv, Environment
    PROVE  ActivationInv'
<1> USE DEF ActivationInv
<1>1. /\ UNCHANGED <<destroyed, pc, state, pid, sock, quar, err>>
      /\ touched \subseteq touched'
      /\ "plist" \notin touched' => plist' = plist
      /\ job' \in {job, Foreign, Nobody}
      /\ \A t \in Txn : stage'[t] = "own" => stage[t] = "own"
      /\ \A t \in Txn :
           \/ lease'[t] = lease[t]
           \/ lease[t] = "own" /\ lease'[t] \in {"none", "foreign"}
  BY EnvironmentMoves
<1>2. TypeOK'
  BY TypeOfEnvironment
<1>3. ASSUME NEW t \in Txn
      PROVE  Local(t)' /\ PlistHeld(t)'
  <2>1. SocketTracked(t)'
    BY <1>1 DEF Local, SocketTracked
  <2>2. StateTold(t)'
    BY <1>1 DEF Local, StateTold
  <2>3. FilesTracked(t)'
    BY <1>1 DEF Local, FilesTracked
  <2>4. JobTracked(t)'
    BY <1>1 DEF Local, JobTracked
  <2>5. PlistHeld(t)'
    BY <1>1 DEF PlistHeld
  <2>q. QED
    BY <2>1, <2>2, <2>3, <2>4, <2>5 DEF Local
<1>4. JobOfPlist'
  BY <1>1 DEF JobOfPlist
<1>5. OnlyFrozenDestroyed'
  BY <1>1 DEF OnlyFrozenDestroyed
<1>q. QED
  BY <1>2, <1>3, <1>4, <1>5

\* The invariant holds when no transaction has begun.
LEMMA InvInit == Init => ActivationInv
<1> SUFFICES ASSUME Init PROVE ActivationInv
  OBVIOUS
<1>1. TypeOK
  BY DEF Init, TypeOK, Who
<1>2. ASSUME NEW t \in Txn
      PROVE  Local(t) /\ PlistHeld(t)
  BY DEF Init, Local, SocketTracked, StateTold, FilesTracked, JobTracked, PlistHeld,
         Unpublished, Unfrozen, Holding, Registration, Revocation, JobSeenGone
<1>3. JobOfPlist /\ OnlyFrozenDestroyed
  BY DEF Init, JobOfPlist, OnlyFrozenDestroyed
<1>q. QED
  BY <1>1, <1>2, <1>3 DEF ActivationInv

\* The invariant is preserved by every step.
LEMMA InvNext == ActivationInv /\ [Next]_vars => ActivationInv'
<1> SUFFICES ASSUME ActivationInv, [Next]_vars PROVE ActivationInv'
  OBVIOUS
<1>1. ASSUME NEW t \in Txn, TxnStep(t)
      PROVE  ActivationInv'
  <2>1. TypeOK /\ Local(t) /\ PlistHeld(t) /\ JobOfPlist /\ OnlyFrozenDestroyed
    BY DEF ActivationInv
  <2>2. TypeOK'
    BY <1>1, <2>1, TypeOfStep
  <2>3. Local(t)' /\ PlistHeld(t)'
    BY <1>1, <2>1, LocalOfStep, PlistOfStep
  <2>4. ASSUME NEW u \in Txn, u # t
        PROVE  Local(u)' /\ PlistHeld(u)'
    <3>1. Local(u) /\ PlistHeld(u)
      BY DEF ActivationInv
    <3>q. QED
      BY <1>1, <2>1, <2>4, <3>1, LocalOfOthers, PlistOfOthers
  <2>5. JobOfPlist' /\ OnlyFrozenDestroyed'
    BY <1>1, <2>1, JobOfStep, DestroyedOfStep
  <2>q. QED
    BY <2>2, <2>3, <2>4, <2>5 DEF ActivationInv
<1>2. CASE Environment
  BY <1>2, EnvironmentKeeps
<1>3. CASE UNCHANGED vars
  BY <1>3 DEF vars, world, ownVars, ActivationInv, TypeOK, Local, SocketTracked,
        StateTold,
              FilesTracked, JobTracked, PlistHeld, JobOfPlist, OnlyFrozenDestroyed
<1>q. QED
  BY <1>1, <1>2, <1>3 DEF Next, TxnStep

\* The invariant holds throughout.
LEMMA Invariant == Spec => []ActivationInv
  BY InvInit, InvNext, PTL DEF Spec

-----------------------------------------------------------------------------
(* Theorems *)

\* Every variable of every transaction keeps its type, whatever fails and
\* whatever somebody else does to the files, the socket and the job.
THEOREM TypeCorrect == Spec => []TypeOK
<1>1. ActivationInv => TypeOK
  BY DEF ActivationInv
<1>q. QED
  BY <1>1, Invariant, PTL

\* The clean-up of _remove_owned_public_socket never unlinks a socket that no
\* transaction had frozen after its bootstrap.
THEOREM OnlyOwnSocketsGo == Spec => []OnlyFrozenDestroyed
<1>1. ActivationInv => OnlyFrozenDestroyed
  BY DEF ActivationInv
<1>q. QED
  BY <1>1, Invariant, PTL

\* Of any number of transactions that revalidate and publish at the same time,
\* at most one is registered, as long as nobody else takes the plist away.
THEOREM OneRegistration == Spec => []SoleRegistration
<1>1. ActivationInv => SoleRegistration
  BY DEF ActivationInv, PlistHeld, SoleRegistration, Holding, Registration
<1>q. QED
  BY <1>1, Invariant, PTL

\* A receipt that says REVOKED or ROLLED_BACK is true: the transaction's job is
\* not loaded, its stage and lease are gone and its quarantine is empty.
THEOREM CleanEndIsClean == Spec => []EndsClean
<1>1. ActivationInv => EndsClean
  <2> SUFFICES ASSUME ActivationInv, NEW t \in Txn, pc[t] = "done",
                      state[t] \in {"REVOKED", "ROLLED_BACK"}
               PROVE  job # t /\ stage[t] # "own" /\ lease[t] = "none" /\ quar[t] = 0
    BY DEF EndsClean
  <2>1. job # t
    BY DEF ActivationInv, Local, JobTracked
  <2>2. stage[t] # "own" /\ lease[t] = "none"
    BY DEF ActivationInv, Local, FilesTracked
  <2>3. quar[t] = 0
    BY DEF ActivationInv, Local, SocketTracked
  <2>q. QED
    BY <2>1, <2>2, <2>3
<1>q. QED
  BY <1>1, Invariant, PTL

\* A transaction's bootout never takes the job of another transaction, unless
\* somebody else took a published plist away, although label, path and
\* arguments of the two jobs are the same.
THEOREM JobOfAnotherStands == Spec => OthersJobStands
<1>1. ActivationInv /\ [Next]_vars =>
        [\A t, u \in Txn : t # u /\ job = u /\ job' = Nobody /\ pc'[t] # pc[t] =>
            "plist" \in touched]_vars
  <2> SUFFICES ASSUME ActivationInv, Next, NEW t \in Txn, NEW u \in Txn, t # u,
                      job = u, job' = Nobody, pc'[t] # pc[t], "plist" \notin touched
               PROVE  FALSE
    OBVIOUS
  <2>0. TypeOK /\ PlistHeld(t) /\ JobOfPlist
    BY DEF ActivationInv
  <2>1. TxnStep(t)
    <3>1. ~Environment
      BY <2>0, EnvironmentMoves
    <3>2. PICK v \in Txn : TxnStep(v)
      BY <3>1 DEF Next, TxnStep
    <3>3. v = t
      BY <2>0, <3>2, OthersStand
    <3>q. QED
      BY <3>2, <3>3
  <2>2. pc[t] \in {"bootout", "revokeBootout"}
    BY <2>0, <2>1, JobEnds
  <2>3. plist = t
    BY <2>0, <2>2 DEF PlistHeld, Holding, Registration, Revocation
  <2>4. plist = u
    BY <2>0 DEF JobOfPlist
  <2>q. QED
    BY <2>3, <2>4
<1>q. QED
  BY <1>1, Invariant, PTL DEF Spec, OthersJobStands
=============================================================================
