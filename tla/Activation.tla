----------------------------- MODULE Activation -----------------------------
(***************************************************************************)
(* The activation transaction that registers the native service with       *)
(* launchd (activation_transaction.py): prepare, register, verify and      *)
(* revoke, under the rollback of managed().  Several transactions may run  *)
(* for the same label at once, and somebody else may create, replace or    *)
(* remove the same objects between any two system calls.                   *)
(*                                                                         *)
(* A file is named by who wrote it (a transaction or Foreign), a socket by *)
(* a serial number that stands for its (dev, ino), the loaded job by who   *)
(* bootstrapped it.  All transactions use the fixed label and plist path   *)
(* and the same program arguments, so the job of one matches every other.  *)
(* One action is the code between two system calls that others can come    *)
(* between; a check and the removal that relies on it are two actions.     *)
(***************************************************************************)
EXTENDS Naturals

CONSTANTS
    Txn,      \* the activation transactions
    Foreign,  \* anybody else
    Nobody,   \* no file, no job
    Meddles   \* how often somebody else interferes (bound)

ASSUME ActivationAssumption ==
    Foreign \notin Txn /\ Nobody \notin Txn \cup {Foreign} /\ Meddles \in Nat

Who == Txn \cup {Foreign, Nobody}

VARIABLES
    plist,      \* the LaunchAgents plist
    socket,     \* the public socket, 0 if none
    made,       \* serial number of the last socket made
    job,        \* the job loaded under the label
    parents,    \* the frozen parent directories are what they were
    auth,       \* the credential files are what the baseline says
    touched,    \* the objects somebody else interfered with
    meddled,    \* how often that happened
    destroyed,  \* sockets a transaction unlinked
    pc,         \* where each transaction is
    state,      \* receipt["state"]
    stage,      \* the stage file of each transaction
    lease,      \* its lease record; "left" when its identity is not known
    pid,        \* plist_identity
    sock,       \* public_socket_identity, 0 if not frozen
    quar,       \* the socket in the quarantine directory
    err,        \* public_socket_error of revoke
    rescue      \* revoke runs in the except clause of managed

world   == <<plist, socket, made, job, parents, auth, touched, meddled, destroyed>>
ownVars == <<stage, lease, pid, sock, quar, err, rescue>>
vars == <<world, pc, state, ownVars>>

TypeOK ==
    /\ plist \in Who /\ job \in Who
    /\ socket \in 0 .. made /\ made \in Nat /\ destroyed \subseteq 1 .. made
    /\ parents \in BOOLEAN /\ auth \in BOOLEAN
    /\ touched \subseteq {"plist", "socket", "job", "stage", "lease", "parents", "auth"}
    /\ meddled \in 0 .. Meddles
    /\ pc \in [Txn -> {"new", "stage", "lease", "staged", "job", "auth", "rollback",
                       "link", "linked", "bootstrap", "refused", "booted", "outcheck",
                       "bootout", "clean", "cleanBooted", "unlink", "unlinkBooted",
                       "body", "raised", "revoke", "revokeJob", "revokeBootout",
                       "revokeSocket", "rename", "moved", "restore", "revokePlist",
                       "revokeUnlink", "revoked", "cleaned", "done"}]
    /\ state \in [Txn -> {"NEW", "STAGED", "BOOTSTRAPPING", "REGISTERED", "VERIFIED",
                          "REVOKED", "ROLLED_BACK", "UNKNOWN"}]
    /\ stage \in [Txn -> {"none", "own", "foreign"}]
    /\ lease \in [Txn -> {"none", "own", "foreign", "left"}]
    /\ pid \in [Txn -> Who]
    /\ sock \in [Txn -> 0 .. made] /\ quar \in [Txn -> 0 .. made]
    /\ err \in [Txn -> BOOLEAN] /\ rescue \in [Txn -> BOOLEAN]

Init ==
    /\ plist = Nobody /\ job = Nobody
    /\ socket = 0 /\ made = 0 /\ destroyed = {}
    /\ parents = TRUE /\ auth = TRUE /\ touched = {} /\ meddled = 0
    /\ pc = [t \in Txn |-> "new"]
    /\ state = [t \in Txn |-> "NEW"]
    /\ stage = [t \in Txn |-> "none"]
    /\ lease = [t \in Txn |-> "none"]
    /\ pid = [t \in Txn |-> Nobody]
    /\ sock = [t \in Txn |-> 0]
    /\ quar = [t \in Txn |-> 0]
    /\ err = [t \in Txn |-> FALSE]
    /\ rescue = [t \in Txn |-> FALSE]

Step(t, where, s) ==
    /\ pc' = [pc EXCEPT ![t] = where]
    /\ state' = [state EXCEPT ![t] = s]

Goto(t, where) == Step(t, where, state[t])

\* _finish_auth: a changed credential file, or a guard that fails, is UNKNOWN.
FinishAuth(s) == {IF auth THEN s ELSE "UNKNOWN", "UNKNOWN"}

\* _directory_is_safe, _freeze_parents and _check_frozen_parents.
ParentsFrozen == parents

\* _must_absent, for the plist and the public socket.
PathsAbsent == plist = Nobody /\ socket = 0

\* launchctl print: the truth, or an answer that cannot be read.
QueryJob == {IF job = Nobody THEN "absent" ELSE "present", "error"}

\* _identity and _same_identity of the stage file.
StageIsOwn(t) == stage[t] = "own"

\* _unlink_if_own for the stage file, after the parents.
StageRemovable(t) == ParentsFrozen /\ stage[t] # "foreign"

\* _remove_lease raises when somebody replaced the lease record.
LeaseRemovable(t) == ParentsFrozen /\ lease[t] # "foreign"

\* _unlink_if_own and _remove_lease: a lease of unknown identity is left.
WithoutLease(t) ==
    [lease EXCEPT ![t] = IF @ = "own" /\ LeaseRemovable(t) THEN "none" ELSE @]

------------------------------------------------------------------------------
(* prepare *)

\* _validate_spec, or an artifact that is not what its hash says, refuses.
SpecRefused(t) ==
    /\ pc[t] = "new" /\ Goto(t, "done")
    /\ UNCHANGED <<world, ownVars>>

\* Every object must be absent; else it raises.
Prepare(t) ==
    /\ pc[t] = "new"
    /\ \E answer \in QueryJob :
         Goto(t, IF ParentsFrozen /\ PathsAbsent /\ answer = "absent"
                 THEN "stage" ELSE "done")
    /\ UNCHANGED <<world, ownVars>>

\* _write_exclusive fails before the file exists, with the file removed again,
\* or too late to remove it.
WriteFails == {"none", "own"}

WriteStage(t) ==
    /\ pc[t] = "stage"
    /\ \/ stage' = [stage EXCEPT ![t] = "own"] /\ Step(t, "lease", "STAGED")
       \/ /\ \E s \in WriteFails : stage' = [stage EXCEPT ![t] = s]
          /\ Goto(t, "done")
    /\ UNCHANGED <<world, lease, pid, sock, quar, err, rescue>>

WriteLease(t) ==
    /\ pc[t] = "lease"
    /\ \/ /\ lease' = [lease EXCEPT ![t] = "own"]
          /\ Goto(t, "staged")
          /\ UNCHANGED stage
       \/ /\ \E l \in {"none", "left"} : lease' = [lease EXCEPT ![t] = l]
          /\ IF StageRemovable(t)
               THEN stage' = [stage EXCEPT ![t] = "none"] /\ Step(t, "done", "UNKNOWN")
               ELSE UNCHANGED stage /\ Goto(t, "done")
    /\ UNCHANGED <<world, pid, sock, quar, err, rescue>>

------------------------------------------------------------------------------
(* register *)

\* _revalidate_before_publish: files, then the job, then artifacts and auth.
\* An ambiguous answer is UNKNOWN, a plain refusal is rolled back.
RevalidateFiles(t) ==
    /\ pc[t] = "staged"
    /\ IF ParentsFrozen /\ StageIsOwn(t)
         THEN Goto(t, IF PathsAbsent THEN "job" ELSE "rollback")
         ELSE Step(t, "raised", "UNKNOWN")
    /\ UNCHANGED <<world, ownVars>>

\* What is neither a yes nor a no: UnknownStateError is UNKNOWN, a launchctl that
\* times out or a file that is gone raises past register's handler.
Undecided(t) == Step(t, "raised", "UNKNOWN") \/ Goto(t, "raised")

RevalidateJob(t) ==
    /\ pc[t] = "job"
    /\ \E answer \in QueryJob :
         \/ answer = "absent"  /\ Goto(t, "auth")
         \/ answer = "present" /\ Goto(t, "rollback")
         \/ answer = "error"   /\ Undecided(t)
    /\ UNCHANGED <<world, ownVars>>

RevalidateAuth(t) ==
    /\ pc[t] = "auth" /\ auth
    /\ Goto(t, "link")
    /\ UNCHANGED <<world, ownVars>>

\* _validate_artifact, or a credential check that says no, or fails.
ArtifactChanged(t) ==
    /\ pc[t] = "auth"
    /\ Goto(t, "rollback") \/ Undecided(t)
    /\ UNCHANGED <<world, ownVars>>

\* Stage and lease go; one that somebody replaced is left, and the state stays.
RollBack(t) ==
    /\ pc[t] = "rollback"
    /\ stage' = [stage EXCEPT ![t] = IF StageRemovable(t) THEN "none" ELSE @]
    /\ IF StageRemovable(t) /\ LeaseRemovable(t)
         THEN lease' = WithoutLease(t) /\ Step(t, "raised", "ROLLED_BACK")
         ELSE Goto(t, "raised") /\ UNCHANGED lease
    /\ UNCHANGED <<world, pid, sock, quar, err, rescue>>

\* Mutant: the plist is published by renaming the stage file over it.
LinkOver(t) ==
    /\ pc[t] = "link"
    /\ plist' = t
    /\ Goto(t, "linked")
    /\ UNCHANGED <<socket, made, job, parents, auth, touched, meddled, destroyed, ownVars>>

\* os.link publishes the stage file, never replacing a plist.
Link(t) ==
    /\ pc[t] = "link"
    /\ IF plist = Nobody /\ stage[t] # "none"
         THEN /\ plist' = IF stage[t] = "own" THEN t ELSE Foreign
              /\ Goto(t, "linked")
              /\ UNCHANGED <<stage, lease>>
         ELSE /\ Goto(t, "raised")
              /\ UNCHANGED plist
              /\ IF StageRemovable(t)
                   THEN /\ stage' = [stage EXCEPT ![t] = "none"]
                        /\ lease' = IF plist = Nobody THEN lease ELSE WithoutLease(t)
                   ELSE UNCHANGED <<stage, lease>>
    /\ UNCHANGED <<socket, made, job, parents, auth, touched, meddled, destroyed,
                   pid, sock, quar, err, rescue>>

\* The identity of the published file, and the removal of the stage: a failure
\* raises with the state still STAGED.
Published(t) ==
    /\ pc[t] = "linked"
    /\ stage' = [stage EXCEPT ![t] = IF StageRemovable(t) THEN "none" ELSE @]
    /\ \/ /\ plist = t /\ StageRemovable(t)
          /\ pid' = [pid EXCEPT ![t] = t]
          /\ Step(t, "bootstrap", "BOOTSTRAPPING")
       \/ /\ pid' = [pid EXCEPT ![t] = plist]
          /\ plist # t \/ ~StageRemovable(t)
          /\ Goto(t, "raised")
       \/ Goto(t, "raised") /\ UNCHANGED pid
    /\ UNCHANGED <<world, lease, sock, quar, err, rescue>>

\* launchctl bootstrap loads whatever the path holds and makes the socket.
Loads(t) ==
    /\ job = Nobody /\ plist # Nobody
    /\ job' = IF plist = Foreign THEN Foreign ELSE t
    /\ IF socket = 0 THEN made' = made + 1 /\ socket' = made + 1
       ELSE UNCHANGED <<made, socket>>

\* Its exit status says little: it may fail, or time out, with the job loaded.
Bootstrap(t) ==
    /\ pc[t] = "bootstrap"
    /\ Loads(t) \/ UNCHANGED <<job, made, socket>>
    /\ \/ Goto(t, "booted") \/ Goto(t, "refused") \/ Step(t, "raised", "UNKNOWN")
    /\ UNCHANGED <<plist, parents, auth, touched, meddled, destroyed, ownVars>>

\* _matches_own_job.
Matches == job \in Txn

\* Mutant: a refused bootstrap is taken to have loaded nothing.
RefusedIsAbsent(t) ==
    /\ pc[t] = "refused"
    /\ Goto(t, "clean")
    /\ UNCHANGED <<world, ownVars>>

\* The query after a refusal: an own job is booted out first.
Refused(t) ==
    /\ pc[t] = "refused"
    /\ \E answer \in QueryJob :
         IF answer = "error" THEN Step(t, "raised", "UNKNOWN")
         ELSE Goto(t, IF Matches THEN "outcheck" ELSE "clean")
    /\ UNCHANGED <<world, ownVars>>

\* _freeze_public_socket: whatever private socket is at the name now is the
\* transaction's from here on.
FreezeSocket(t) ==
    /\ ParentsFrozen /\ socket # 0
    /\ sock' = [sock EXCEPT ![t] = socket]

\* The query after a success.
Booted(t) ==
    /\ pc[t] = "booted"
    /\ \/ Step(t, "raised", "UNKNOWN") /\ UNCHANGED sock
       \/ ~Matches /\ Goto(t, "cleanBooted") /\ UNCHANGED sock
       \/ Matches /\ FreezeSocket(t) /\ Step(t, "body", "REGISTERED")
       \/ Matches /\ Step(t, "outcheck", "UNKNOWN") /\ UNCHANGED sock
    /\ UNCHANGED <<world, stage, lease, pid, quar, err, rescue>>

\* _rollback_job_if_own: query, bootout, query.
RollbackQuery(t) ==
    /\ pc[t] = "outcheck"
    /\ \/ Goto(t, IF job = Nobody THEN "clean" ELSE "bootout") /\ job # Foreign
       \/ Step(t, "raised", "UNKNOWN")
    /\ UNCHANGED <<world, ownVars>>

\* launchctl bootout: the job goes, and launchd may take the socket with it.
Unloads ==
    \/ UNCHANGED <<job, socket>>
    \/ job' = Nobody /\ socket' \in {0, socket}

RollbackBootout(t) ==
    /\ pc[t] = "bootout"
    /\ Unloads
    /\ \/ job' = Nobody /\ Goto(t, "clean")
       \/ Step(t, "raised", "UNKNOWN")
    /\ UNCHANGED <<plist, made, parents, auth, touched, meddled, destroyed, ownVars>>

\* Where a failure of _remove_plist or _remove_lease leaves register: UNKNOWN
\* after a refused bootstrap, BOOTSTRAPPING still after a successful one.
CleanFails(t) ==
    Step(t, "raised", IF pc[t] \in {"clean", "unlink"} THEN "UNKNOWN" ELSE state[t])

\* _remove_plist looks at the file, and unlinks it when it is its own.
RemovePlist(t) ==
    /\ pc[t] \in {"clean", "cleanBooted"}
    /\ IF ~ParentsFrozen \/ plist \notin {pid[t], Nobody} THEN CleanFails(t)
       ELSE Goto(t, IF plist = Nobody THEN "cleaned"
                    ELSE IF pc[t] = "clean" THEN "unlink" ELSE "unlinkBooted")
    /\ UNCHANGED <<world, ownVars>>

UnlinkPlist(t) ==
    /\ pc[t] \in {"unlink", "unlinkBooted"}
    /\ IF plist = Nobody THEN CleanFails(t) ELSE Goto(t, "cleaned")
    /\ plist' = Nobody
    /\ UNCHANGED <<socket, made, job, parents, auth, touched, meddled, destroyed, ownVars>>

RolledBack(t) ==
    /\ pc[t] = "cleaned"
    /\ pid' = [pid EXCEPT ![t] = Nobody]
    /\ lease' = WithoutLease(t)
    /\ IF ~LeaseRemovable(t) THEN Undecided(t)
       ELSE IF state[t] = "UNKNOWN" THEN Goto(t, "raised")
       ELSE \E s \in FinishAuth("ROLLED_BACK") : Step(t, "raised", s)
    /\ UNCHANGED <<world, stage, sock, quar, err, rescue>>

------------------------------------------------------------------------------
(* verify, and managed *)

\* verify: the job and the plist are still the registered ones.
Verify(t) ==
    /\ pc[t] = "body"
    /\ IF Matches /\ plist = pid[t]
         THEN Step(t, "body", "VERIFIED")
         ELSE Goto(t, "raised")
    /\ UNCHANGED <<world, ownVars>>

\* The body of managed ends, or raises.
EndBody(t) ==
    /\ pc[t] = "body"
    /\ Goto(t, "revoke") \/ Goto(t, "raised")
    /\ UNCHANGED <<world, ownVars>>

\* The except clause: what is not rolled back already is revoked.
Rescue(t) ==
    /\ pc[t] = "raised"
    /\ Goto(t, IF state[t] = "ROLLED_BACK" THEN "done" ELSE "revoke")
    /\ rescue' = [rescue EXCEPT ![t] = TRUE]
    /\ UNCHANGED <<world, stage, lease, pid, sock, quar, err>>

------------------------------------------------------------------------------
(* revoke *)

\* An exception leaves the state as it is, unless managed catches it.
Raises(t) == Step(t, "done", IF rescue[t] THEN "UNKNOWN" ELSE state[t])

\* A transaction that published nothing removes its stage and lease only.
RevokeStaged(t) ==
    /\ pc[t] = "revoke" /\ state[t] = "STAGED"
    /\ stage' = [stage EXCEPT ![t] = IF StageRemovable(t) THEN "none" ELSE @]
    /\ IF StageRemovable(t) /\ LeaseRemovable(t)
         THEN /\ lease' = WithoutLease(t)
              /\ \E s \in FinishAuth(IF socket = 0 THEN "REVOKED" ELSE "UNKNOWN") :
                   Step(t, "done", s)
         ELSE Raises(t) /\ UNCHANGED lease
    /\ UNCHANGED <<world, pid, sock, quar, err, rescue>>

\* Mutant: revoke does not look at the plist before it asks for the job.
RevokeBlindly(t) ==
    /\ pc[t] = "revoke" /\ state[t] # "STAGED"
    /\ Goto(t, "revokeJob")
    /\ UNCHANGED <<world, ownVars>>

\* What was published must still be there under its own identity.
Revoke(t) ==
    /\ pc[t] = "revoke" /\ state[t] # "STAGED"
    /\ IF pid[t] # Nobody /\ plist = pid[t] THEN Goto(t, "revokeJob") ELSE Raises(t)
    /\ UNCHANGED <<world, ownVars>>

RevokeQuery(t) ==
    /\ pc[t] = "revokeJob"
    /\ \/ job = Nobody /\ Goto(t, "revokeSocket")
       \/ Matches /\ Goto(t, "revokeBootout")
       \/ Raises(t)
    /\ UNCHANGED <<world, ownVars>>

RevokeBootout(t) ==
    /\ pc[t] = "revokeBootout"
    /\ Unloads
    /\ (job' = Nobody /\ Goto(t, "revokeSocket")) \/ Raises(t)
    /\ UNCHANGED <<plist, made, parents, auth, touched, meddled, destroyed, ownVars>>

\* The head of _remove_owned_public_socket: a socket that is not the frozen one
\* is an error kept for later, and is not touched.
RevokeSocket(t) ==
    /\ pc[t] = "revokeSocket"
    /\ IF socket # 0 /\ socket = sock[t] /\ ParentsFrozen
         THEN Goto(t, "rename") /\ UNCHANGED err
         ELSE /\ err' = [err EXCEPT ![t] = socket # 0 \/ sock[t] = 0]
              /\ Goto(t, "revokePlist")
    /\ UNCHANGED <<world, stage, lease, pid, sock, quar, rescue>>

\* Whatever is at the name now moves into the private quarantine.
RenameSocket(t) ==
    /\ pc[t] = "rename"
    /\ quar' = [quar EXCEPT ![t] = socket]
    /\ socket' = 0
    /\ Goto(t, IF socket = 0 THEN "revokePlist" ELSE "moved")
    /\ UNCHANGED <<plist, made, job, parents, auth, touched, meddled, destroyed,
                   stage, lease, pid, sock, err, rescue>>

\* Mutant: what was moved is deleted unseen.
DeleteMoved(t) ==
    /\ pc[t] = "moved"
    /\ destroyed' = destroyed \cup {quar[t]}
    /\ quar' = [quar EXCEPT ![t] = 0]
    /\ err' = [err EXCEPT ![t] = socket # 0]
    /\ Goto(t, "revokePlist")
    /\ UNCHANGED <<plist, socket, made, job, parents, auth, touched, meddled,
                   stage, lease, pid, sock, rescue>>

\* Only the frozen socket is deleted, and its name must stay free.
JudgeMoved(t) ==
    /\ pc[t] = "moved"
    /\ IF quar[t] = sock[t]
         THEN /\ destroyed' = destroyed \cup {quar[t]}
              /\ quar' = [quar EXCEPT ![t] = 0]
              /\ err' = [err EXCEPT ![t] = socket # 0]
              /\ Goto(t, "revokePlist")
         ELSE Goto(t, "restore") /\ UNCHANGED <<destroyed, quar, err>>
    /\ UNCHANGED <<plist, socket, made, job, parents, auth, touched, meddled,
                   stage, lease, pid, sock, rescue>>

\* Another's socket goes back with link(2), or stays where it is.
RestoreMoved(t) ==
    /\ pc[t] = "restore"
    /\ IF socket = 0
         THEN socket' = quar[t] /\ quar' = [quar EXCEPT ![t] = 0]
         ELSE UNCHANGED <<socket, quar>>
    /\ err' = [err EXCEPT ![t] = TRUE]
    /\ Goto(t, "revokePlist")
    /\ UNCHANGED <<plist, made, job, parents, auth, touched, meddled, destroyed,
                   stage, lease, pid, sock, rescue>>

RevokePlist(t) ==
    /\ pc[t] = "revokePlist"
    /\ IF ~ParentsFrozen \/ plist \notin {pid[t], Nobody} THEN Raises(t)
       ELSE Goto(t, IF plist = Nobody THEN "revoked" ELSE "revokeUnlink")
    /\ UNCHANGED <<world, ownVars>>

RevokeUnlink(t) ==
    /\ pc[t] = "revokeUnlink"
    /\ IF plist = Nobody THEN Raises(t) ELSE Goto(t, "revoked")
    /\ plist' = Nobody
    /\ UNCHANGED <<socket, made, job, parents, auth, touched, meddled, destroyed, ownVars>>

Revoked(t) ==
    /\ pc[t] = "revoked"
    /\ pid' = [pid EXCEPT ![t] = Nobody]
    /\ lease' = WithoutLease(t)
    /\ IF LeaseRemovable(t)
         THEN \E s \in FinishAuth(IF err[t] THEN "UNKNOWN" ELSE "REVOKED") : Step(t, "done", s)
         ELSE Raises(t)
    /\ UNCHANGED <<world, stage, sock, quar, err, rescue>>

------------------------------------------------------------------------------
(* Somebody else *)

Interferes(what) ==
    /\ meddled < Meddles
    /\ meddled' = meddled + 1
    /\ touched' = touched \cup {what}
    /\ UNCHANGED <<destroyed, pc, state, pid, sock, quar, err, rescue>>

ForeignPlist ==
    /\ Interferes("plist")
    /\ plist' \in {Foreign, Nobody} \ {plist}
    /\ UNCHANGED <<socket, made, job, parents, auth, stage, lease>>

ForeignSocket ==
    /\ Interferes("socket")
    /\ \/ made' = made + 1 /\ socket' = made + 1
       \/ socket # 0 /\ socket' = 0 /\ UNCHANGED made
    /\ UNCHANGED <<plist, job, parents, auth, stage, lease>>

ForeignJob ==
    /\ Interferes("job")
    /\ job' = IF job = Nobody THEN Foreign ELSE Nobody
    /\ UNCHANGED <<plist, socket, made, parents, auth, stage, lease>>

ForeignStage(t) ==
    /\ Interferes("stage")
    /\ stage[t] = "own"
    /\ \E s \in {"none", "foreign"} : stage' = [stage EXCEPT ![t] = s]
    /\ UNCHANGED <<plist, socket, made, job, parents, auth, lease>>

ForeignLease(t) ==
    /\ Interferes("lease")
    /\ lease[t] = "own"
    /\ \E l \in {"none", "foreign"} : lease' = [lease EXCEPT ![t] = l]
    /\ UNCHANGED <<plist, socket, made, job, parents, auth, stage>>

ParentChanges ==
    /\ Interferes("parents") /\ parents
    /\ parents' = FALSE
    /\ UNCHANGED <<plist, socket, made, job, auth, stage, lease>>

AuthChanges ==
    /\ Interferes("auth") /\ auth
    /\ auth' = FALSE
    /\ UNCHANGED <<plist, socket, made, job, parents, stage, lease>>

Preparing(t)   == SpecRefused(t) \/ Prepare(t) \/ WriteStage(t) \/ WriteLease(t)
Registering(t) ==
    \/ RevalidateFiles(t) \/ RevalidateJob(t) \/ RevalidateAuth(t)
    \/ ArtifactChanged(t) \/ RollBack(t)
    \/ Link(t) \/ Published(t) \/ Bootstrap(t) \/ Refused(t) \/ Booted(t)
    \/ RollbackQuery(t) \/ RollbackBootout(t) \/ RemovePlist(t) \/ UnlinkPlist(t)
    \/ RolledBack(t)
Managing(t)    == Verify(t) \/ EndBody(t) \/ Rescue(t)
Revoking(t)    ==
    \/ RevokeStaged(t) \/ Revoke(t) \/ RevokeQuery(t) \/ RevokeBootout(t)
    \/ RevokeSocket(t) \/ RenameSocket(t) \/ JudgeMoved(t) \/ RestoreMoved(t)
    \/ RevokePlist(t) \/ RevokeUnlink(t) \/ Revoked(t)

Environment ==
    \/ ForeignPlist \/ ForeignSocket \/ ForeignJob \/ ParentChanges \/ AuthChanges
    \/ \E t \in Txn : ForeignStage(t) \/ ForeignLease(t)

Next ==
    \/ \E t \in Txn : Preparing(t) \/ Registering(t) \/ Managing(t) \/ Revoking(t)
    \/ Environment

Spec == Init /\ [][Next]_vars

------------------------------------------------------------------------------
(* Properties *)

\* A transaction that ends REVOKED or ROLLED_BACK has undone what it did: the
\* job it bootstrapped is not loaded, its stage and lease are gone, and no
\* socket is left in its quarantine, whatever failed or was replaced meanwhile.
EndsClean ==
    \A t \in Txn :
        pc[t] = "done" /\ state[t] \in {"REVOKED", "ROLLED_BACK"} =>
            job # t /\ stage[t] # "own" /\ lease[t] = "none" /\ quar[t] = 0

\* Cleaning up never deletes a socket that is not the one some transaction had
\* frozen after its own bootstrap, although the name is looked at, renamed and
\* judged in separate system calls.
OnlyFrozenDestroyed == \A s \in destroyed : \E t \in Txn : sock[t] = s

\* Two transactions that revalidate at the same time are not both registered,
\* unless somebody else took a published plist away.
SoleRegistration ==
    "plist" \notin touched =>
        \A t, u \in Txn : t # u => ~(pc[t] = "body" /\ pc[u] = "body")

\* A transaction boots out the job of another only if somebody else took a
\* published plist away: matching label, path and arguments is not enough to
\* tell them apart, so the plist has to.
OthersJobStands ==
    [][\A t, u \in Txn :
         t # u /\ job = u /\ job' = Nobody /\ pc'[t] # pc[t] => "plist" \in touched]_vars
=============================================================================
