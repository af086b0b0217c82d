---------------------------- MODULE NativeService ----------------------------
(***************************************************************************)
(* The socket-activated native service of runtime/native: ProxyServer      *)
(* (proxy_transport.py) accepts frontends and runs one handle_client task  *)
(* per connection; ActivationService (activation_service.py) admits each   *)
(* frontend process by its grant file, gives an owner frontend a private   *)
(* backend under a per-profile lock, and relays an owner helper to the     *)
(* backend of the lease its grant names; every backend is the child of a   *)
(* guardian process (owned_child_guard.py), its only reaper.               *)
(*                                                                         *)
(* asyncio runs a task until it suspends, so one action is the code from   *)
(* one await to the next; pc[c] names the await the task of connection c   *)
(* is suspended at.  A frontend process has one connection at a time and   *)
(* one lease.  Abstractions: a grant file is its digest; "policy" is all   *)
(* the pinned content _check_runtime_policy hashes; bytes relayed matter   *)
(* only by what the capture sink does with them.                           *)
(***************************************************************************)
EXTENDS Naturals, FiniteSets

CONSTANTS
    Owner,      \* frontend processes whose grant asks for a backend
    Helper,     \* frontend processes whose grant has the role owner-helper
    NoConn,     \* "nobody", for a free lock
    ProfileOf,  \* the profile each owner's grant names
    HelperOf,   \* the owner whose lease each helper's grant names
    ResumeOf,   \* the owner whose thread a resume grant asks to continue
    Regrants,   \* the frontends whose grant file is rewritten while they run
    MaxConnections

Conn == Owner \cup Helper

\* A grant digest: no file, a plain grant, or one that asks to resume a thread
\* (for a helper simply a second, different, file).
NoGrant == 0
Plain   == 1
Resume  == 2

ASSUME ConnAssumption ==
    /\ Owner \cap Helper = {} /\ NoConn \notin Conn
    /\ DOMAIN ProfileOf = Owner
    /\ HelperOf \in [Helper -> Owner] /\ ResumeOf \in [Owner -> Owner]
    /\ Regrants \subseteq Conn /\ MaxConnections \in Nat \ {0}

VARIABLES
    service,       \* life of the service: _closed, _close_task, process exit
    pc,            \* where each connection's handle_client task is suspended
    grant,         \* grants_dir/<pid>.json, by digest
    admitted,      \* _admissions and _helper_admissions: first digest admitted
    lock,          \* _profile_locks
    rec,           \* backend_records, one lease per owner
    lease,         \* _owner_leases: the OwnerLease of each owner
    gated,         \* the wire gates handle_client got for a helper
    link,          \* the OwnerHelperConnection of each helper: held by its
                   \* lease, opened too late to be, or _closed
    receipts,      \* files published in receipt_dir
    policy,        \* the pinned files are what the manifest hashed
    captureFailed, \* ProxyServer._capture_failed
    child,         \* the backend process
    channel,       \* the controller's end of the guardian's socket pair
    guardian,      \* the guardian process
    final          \* guardian-final.json

serviceVars == <<service, receipts, policy, captureFailed>>
connVars    == <<pc, grant, admitted, lock, gated, link>>
leaseVars   == <<rec, lease>>
guardVars   == <<child, channel, guardian, final>>
vars == <<serviceVars, connVars, leaseVars, guardVars>>

Profile == {ProfileOf[o] : o \in Owner}

\* Suspension points of a task still in _accept_tasks.
Active == {"data", "lock", "opening", "spawn", "spawnCancelled", "spawnLost",
           "poll", "pollCancelled", "relay", "release", "close", "stop"}
Ended  == {"idle", "done", "abandoned", "truncated", "lost"}

NoRecord == [state |-> "none", stopped |-> FALSE, removed |-> FALSE,
             failure |-> FALSE, helpersClosed |-> FALSE]

TypeOK ==
    /\ service \in {"starting", "activated", "serving", "closing", "cancelled", "closed", "dead"}
    /\ pc \in [Conn -> Active \cup Ended]
    /\ grant \in [Conn -> {NoGrant, Plain, Resume}]
    /\ admitted \in [Conn -> {NoGrant, Plain, Resume}]
    /\ lock \in [Profile -> Owner \cup {NoConn}]
    /\ rec \in [Owner -> [state : {"none", "starting", "connected", "closing",
                                   "failed", "closed"},
                          stopped : BOOLEAN, removed : BOOLEAN,
                          failure : BOOLEAN, helpersClosed : BOOLEAN]]
    /\ lease \in [Owner -> {"none", "open", "closed"}]
    /\ gated \in [Helper -> BOOLEAN]
    /\ link \in [Helper -> {"none", "listed", "late", "closed"}]
    /\ receipts \subseteq ({"connected", "ready", "backend"} \X Owner)
                    \cup ({"helper"} \X Helper) \cup ({"startup-failure", "activation"} \X {NoConn})
    /\ policy \in BOOLEAN /\ captureFailed \in BOOLEAN
    /\ child \in [Owner -> {"none", "alive", "gone"}]
    /\ channel \in [Owner -> {"none", "open", "terminate", "closed"}]
    /\ guardian \in [Owner -> {"none", "watching", "exited", "killed"}]
    /\ final \in [Owner -> {"none", "stopped", "failed", "unreaped"}]

Init ==
    /\ service = "starting"
    /\ pc = [c \in Conn |-> "idle"]
    /\ grant \in [Conn -> {NoGrant, Plain, Resume}]
    /\ \A c \in Conn \ Regrants : grant[c] = Plain
    /\ admitted = [c \in Conn |-> NoGrant]
    /\ lock = [p \in Profile |-> NoConn]
    /\ rec = [o \in Owner |-> NoRecord]
    /\ lease = [o \in Owner |-> "none"]
    /\ gated = [h \in Helper |-> FALSE]
    /\ link = [h \in Helper |-> "none"]
    /\ receipts = {}
    /\ policy = TRUE /\ captureFailed = FALSE
    /\ child = [o \in Owner |-> "none"]
    /\ channel = [o \in Owner |-> "none"]
    /\ guardian = [o \in Owner |-> "none"]
    /\ final = [o \in Owner |-> "none"]

Running == service # "dead"

------------------------------------------------------------------------------
(* Starting the service *)

\* activate_listener: launchd hands over exactly one listening socket.
ActivateListener ==
    /\ service = "starting"
    /\ service' = "activated"
    /\ UNCHANGED <<receipts, policy, captureFailed, connVars, leaseVars, guardVars>>

\* ProxyServer.start: the socket is the expected one and nobody's connection.
Start ==
    /\ service = "activated"
    /\ service' = "serving"
    /\ UNCHANGED <<receipts, policy, captureFailed, connVars, leaseVars, guardVars>>

------------------------------------------------------------------------------
(* Admission *)

\* The key's first admitted digest, if any, is the digest now on disk.
NotRemapped(c) == admitted[c] \in {NoGrant, grant[c]}

\* _helper_admission: the lease the grant names is live and bound.
HelperBound(h) ==
    LET o == HelperOf[h] IN lease[o] = "open" /\ rec[o].state = "connected"

\* _admit, up to the pinned content of a helper's source and executable.
Admits(c) ==
    /\ grant[c] # NoGrant
    /\ NotRemapped(c)
    /\ c \in Helper => policy /\ HelperBound(c)

\* What _admit leaves in the admission tables: an owner's first digest even
\* when a later one is refused, a helper's only when it is accepted.
AdmitRecords(c) ==
    [admitted EXCEPT ![c] =
        IF @ # NoGrant \/ (c \in Helper /\ ~Admits(c)) THEN @ ELSE grant[c]]

\* _accept: there are too many connections; or _is_authorized: the kernel does
\* not tell all of the peer's identity, or the policy raises.
TurnedAway(c) ==
    /\ service = "serving" /\ pc[c] = "idle"
    /\ pc' = [pc EXCEPT ![c] = "done"]
    /\ UNCHANGED <<serviceVars, grant, admitted, lock, gated, link, leaseVars, guardVars>>

\* _accept and handle_client up to the wait for the first application bytes.
Accept(c) ==
    /\ service = "serving" /\ pc[c] = "idle"
    /\ Cardinality({d \in Conn : pc[d] \in Active}) < MaxConnections
    /\ pc' = [pc EXCEPT ![c] = IF Admits(c) THEN "data" ELSE "done"]
    /\ admitted' = AdmitRecords(c)
    /\ UNCHANGED <<serviceVars, grant, lock, gated, link, leaseVars, guardVars>>

\* A startup probe closes without a byte: no backend, and the same process may
\* connect again under the same admission.
EmptyProbe(c) ==
    /\ Running /\ pc[c] = "data"
    /\ pc' = [pc EXCEPT ![c] = "idle"]
    /\ UNCHANGED <<serviceVars, grant, admitted, lock, gated, link, leaseVars, guardVars>>

\* The start window elapses (remaining_start) while waiting for bytes, for the
\* profile lock or for the helper's transport, or that transport cannot be
\* opened: the task ends, nothing was made.
StartTimeout(c) ==
    /\ Running /\ pc[c] \in {"data", "lock", "opening"}
    /\ pc' = [pc EXCEPT ![c] = "done"]
    /\ UNCHANGED <<serviceVars, grant, admitted, lock, gated, link, leaseVars, guardVars>>

------------------------------------------------------------------------------
(* Starting a backend *)

\* _original_process_gone: the process that once had the identity is no more.
ProcessGone(o) == child[o] = "gone"

\* peer_identity of the private socket is the lease's own child.
BackendAnswers(o) == child[o] = "alive"

\* _emit: the first event after the capture sink was invalidated ends the task.
AfterConnect == IF captureFailed THEN "release" ELSE "relay"

\* Mutant: the receipts alone prove the cleanup.
ResumeProofByReceipts(o) ==
    {<<"ready", ResumeOf[o]>>, <<"backend", ResumeOf[o]>>} \subseteq receipts

\* _resume_owner_proof: the lease that owned the thread published both its
\* receipts, was cleaned up, and its processes are gone.
ResumeProof(o) ==
    LET q == ResumeOf[o] IN
        /\ {<<"ready", q>>, <<"backend", q>>} \subseteq receipts
        /\ rec[q].state = "closed" /\ rec[q].stopped /\ rec[q].removed
        /\ ~rec[q].failure
        /\ final[q] \in {"stopped", "failed"}
        /\ pc[q] = "done" /\ ProcessGone(q)
        /\ rec[q].helpersClosed

\* _check_runtime_policy: every pinned file is what it was at the start.
PolicyHolds == policy

\* _publish_receipt: staged, linked without replacing, and there from then on.
Publish(kind, c) == receipts' = receipts \cup {<<kind, c>>}

\* _leased_backend fails before GuardedChild.spawn (a path too long, a plan that
\* does not validate, the window elapsed): there is nothing to stop.
LaunchFails(o) ==
    /\ rec' = [rec EXCEPT ![o] = [NoRecord EXCEPT !.state = "failed", !.stopped = TRUE,
                                                   !.removed = TRUE, !.helpersClosed = TRUE]]
    /\ Publish("backend", o)
    /\ pc' = [pc EXCEPT ![o] = "done"]
    /\ UNCHANGED lock

\* _backend once the lock is held: policy and grant are checked again, then
\* _leased_backend makes the record and suspends in GuardedChild.spawn.
Launch(o) ==
    IF PolicyHolds /\ Admits(o)
      THEN \/ LaunchFails(o)
           \/ /\ lock' = [lock EXCEPT ![ProfileOf[o]] = o]
              /\ rec' = [rec EXCEPT ![o].state = "starting"]
              /\ pc' = [pc EXCEPT ![o] = "spawn"]
              /\ UNCHANGED receipts
      ELSE /\ pc' = [pc EXCEPT ![o] = "done"]
           /\ UNCHANGED <<lock, rec, receipts>>

\* The first bytes of an owner: the grant is read again and must be the one
\* admitted; a free lock is taken without suspending.
OwnerData(o) ==
    /\ Running /\ pc[o] = "data"
    /\ IF grant[o] # admitted[o] \/ (grant[o] = Resume /\ ~ResumeProof(o))
         THEN pc' = [pc EXCEPT ![o] = "done"] /\ UNCHANGED <<lock, rec, receipts>>
       ELSE IF lock[ProfileOf[o]] = NoConn THEN Launch(o)
       ELSE pc' = [pc EXCEPT ![o] = "lock"] /\ UNCHANGED <<lock, rec, receipts>>
    /\ UNCHANGED <<service, policy, captureFailed, grant, admitted, gated, link, lease, guardVars>>

\* Mutant: the lock is entered while another lease holds it.
AcquireHeldLock(o) ==
    /\ Running /\ pc[o] = "lock"
    /\ Launch(o)
    /\ UNCHANGED <<service, policy, captureFailed, grant, admitted, gated, link, lease, guardVars>>

\* A released lock wakes a waiter.
AcquireLock(o) ==
    /\ Running /\ pc[o] = "lock" /\ lock[ProfileOf[o]] = NoConn
    /\ Launch(o)
    /\ UNCHANGED <<service, policy, captureFailed, grant, admitted, gated, link, lease, guardVars>>

\* GuardedChild.stop up to its wait: the guardian is told to end the child.
TellToStop(o) == channel' = [channel EXCEPT ![o] = "terminate"]

\* The finally block of _leased_backend from the admissions of the lease's
\* helpers, which go, to its wait for the guardian.
BeginStop(o) ==
    /\ admitted' = [c \in Conn |-> IF c \in Helper /\ HelperOf[c] = o
                                     THEN NoGrant ELSE admitted[c]]
    /\ TellToStop(o)
    /\ pc' = [pc EXCEPT ![o] = "stop"]

\* spawn returned: a child of unknown identity is stopped at once, as is one
\* whose start was cancelled while spawn was shielded.  There is no owner lease
\* to close before the ready receipt.
SpawnReturns(o) ==
    /\ Running /\ pc[o] \in {"spawn", "spawnCancelled"}
    /\ child' = [child EXCEPT ![o] = "alive"]
    /\ guardian' = [guardian EXCEPT ![o] = "watching"]
    /\ \/ /\ pc[o] = "spawn"
          /\ pc' = [pc EXCEPT ![o] = "poll"]
          /\ channel' = [channel EXCEPT ![o] = "open"]
          /\ UNCHANGED <<admitted, rec>>
       \/ /\ rec' = [rec EXCEPT ![o].state =
                IF pc[o] = "spawnCancelled" /\ service # "serving" THEN "closing" ELSE "failed"]
          /\ BeginStop(o)
    /\ UNCHANGED <<serviceVars, grant, lock, gated, link, lease, final>>

\* spawn raised: no handle to stop anything with, whether or not a child runs.
SpawnFails(o) ==
    /\ Running /\ pc[o] \in {"spawn", "spawnCancelled", "spawnLost"}
    /\ \/ UNCHANGED <<child, channel, guardian>>
       \/ /\ child' = [child EXCEPT ![o] = "alive"]
          /\ channel' = [channel EXCEPT ![o] = "closed"]
          /\ guardian' = [guardian EXCEPT ![o] = "watching"]
    /\ \E removed \in BOOLEAN :
         /\ child'[o] = "none" => removed
         /\ rec' = [rec EXCEPT ![o] =
                [state   |-> IF pc[o] = "spawnLost" THEN "closed" ELSE "failed",
                 stopped |-> FALSE, removed |-> removed, failure |-> TRUE,
                 helpersClosed |-> TRUE]]
    /\ Publish("backend", o)
    /\ lock' = [lock EXCEPT ![ProfileOf[o]] = NoConn]
    /\ pc' = [pc EXCEPT ![o] = "done"]
    /\ UNCHANGED <<service, policy, captureFailed, grant, admitted, gated, link, lease, final>>

\* The start window elapses inside the shielded spawn.
SpawnTimeout(o) ==
    /\ Running /\ pc[o] = "spawn"
    /\ pc' = [pc EXCEPT ![o] = "spawnCancelled"]
    /\ UNCHANGED <<serviceVars, grant, admitted, lock, gated, link, leaseVars, guardVars>>

\* The private socket answers with the child's identity: the connected receipt
\* is published and the relay starts, unless the capture sink is invalidated.
Connected(o) ==
    /\ Running /\ pc[o] = "poll" /\ BackendAnswers(o)
    /\ rec' = [rec EXCEPT ![o].state = "connected"]
    /\ Publish("connected", o)
    /\ pc' = [pc EXCEPT ![o] = AfterConnect]
    /\ UNCHANGED <<service, policy, captureFailed, grant, admitted, lock, gated,
                   link, lease, guardVars>>

\* The backend exited, its socket was not private, the window elapsed, or the
\* task was cancelled before the backend answered.
PollEnds(o) ==
    /\ Running /\ pc[o] \in {"poll", "pollCancelled"}
    /\ rec' = [rec EXCEPT ![o].state = IF pc[o] = "pollCancelled" THEN "closing" ELSE "failed"]
    /\ BeginStop(o)
    /\ UNCHANGED <<serviceVars, grant, lock, gated, link, lease, child, guardian, final>>

------------------------------------------------------------------------------
(* Relaying *)

\* The chunk that completes the handshake, initialization and thread start
\* makes on_data publish the ready receipt and open the owner lease; a policy
\* check that raises there invalidates the sink for every connection.
PublishReady(o) ==
    /\ Running /\ pc[o] = "relay" /\ ~captureFailed
    /\ <<"ready", o>> \notin receipts
    /\ IF PolicyHolds
         THEN /\ Publish("ready", o)
              /\ lease' = [lease EXCEPT ![o] = "open"]
              /\ UNCHANGED <<pc, captureFailed>>
         ELSE /\ captureFailed' = TRUE
              /\ pc' = [pc EXCEPT ![o] = "release"]
              /\ UNCHANGED <<receipts, lease>>
    /\ UNCHANGED <<service, policy, grant, admitted, lock, gated, link, rec, guardVars>>

\* The first bytes of a helper: policy and admission again, then the lease's
\* private socket is opened.
HelperData(h) ==
    /\ Running /\ pc[h] = "data"
    /\ pc' = [pc EXCEPT ![h] =
                IF admitted[h] # NoGrant /\ PolicyHolds /\ Admits(h)
                  THEN "opening" ELSE "done"]
    /\ UNCHANGED <<serviceVars, grant, admitted, lock, gated, link, leaseVars, guardVars>>

\* _wire_gate_factory: the gates come from the admission under the peer's key,
\* and a peer without one gets none.
GateFor(h) == admitted[h] # NoGrant

\* open_helper_transport returned: the lease keeps the connection in _helpers,
\* which its close has already emptied if it came first.
Listed(h) == IF lease[HelperOf[h]] = "open" THEN "listed" ELSE "late"

\* The transport is open: the backend's identity and its socket are checked,
\* the helper receipt published, and the gates looked up by admission key.
HelperOpened(h) ==
    LET o == HelperOf[h] IN
        /\ Running /\ pc[h] = "opening"
        /\ BackendAnswers(o) /\ ~rec[o].removed
        /\ Publish("helper", h)
        /\ gated' = [gated EXCEPT ![h] = GateFor(h)]
        /\ link' = [link EXCEPT ![h] = Listed(h)]
        /\ pc' = [pc EXCEPT ![h] = AfterConnect]
        /\ UNCHANGED <<service, policy, captureFailed, grant, admitted, lock,
                       leaseVars, guardVars>>

\* OwnerHelperConnection.close up to its wait_closed, once.
CloseLink(h) == link' = [link EXCEPT ![h] = "closed"]

\* Another process answers, the socket was replaced, or the receipt cannot be
\* published: the transport is closed again.
HelperRefused(h) ==
    /\ Running /\ pc[h] = "opening"
    /\ CloseLink(h)
    /\ pc' = [pc EXCEPT ![h] = "close"]
    /\ UNCHANGED <<serviceVars, grant, admitted, lock, gated, leaseVars, guardVars>>

\* A pump ends: EOF or error on either leg, a frame a gate refuses, or an
\* event that finds the sink invalidated.  The other pump is cancelled.
EndRelay(c) ==
    /\ Running /\ pc[c] = "relay"
    /\ pc' = [pc EXCEPT ![c] = "release"]
    /\ UNCHANGED <<serviceVars, grant, admitted, lock, gated, link, leaseVars, guardVars>>

\* OwnerLease.close: the helper connections the lease had listed and that are
\* not closed yet are closed one after the other; then the stop begins.
CloseNext(o) ==
    LET left == {h \in Helper : HelperOf[h] = o /\ link[h] = "listed"} IN
        \/ /\ \E h \in left : CloseLink(h)
           /\ pc' = [pc EXCEPT ![o] = "close"]
           /\ UNCHANGED <<admitted, channel>>
        \/ /\ left = {}
           /\ BeginStop(o)
           /\ UNCHANGED link

\* The writers are closed; handle_client then leaves the backend scope, whose
\* finally block first takes the owner lease away and closes it.
ReleaseOwner(o) ==
    /\ Running /\ pc[o] = "release"
    /\ lease' = [lease EXCEPT ![o] = IF @ = "open" THEN "closed" ELSE @]
    /\ CloseNext(o)
    /\ UNCHANGED <<serviceVars, grant, lock, gated, rec, child, guardian, final>>

\* The same of a helper: its finally block closes the connection, unless the
\* lease of its owner has.
ReleaseHelper(h) ==
    /\ Running /\ pc[h] = "release"
    /\ \/ /\ link[h] = "closed"
          /\ pc' = [pc EXCEPT ![h] = "done"]
          /\ UNCHANGED link
       \/ /\ link[h] # "closed"
          /\ CloseLink(h)
          /\ pc' = [pc EXCEPT ![h] = "close"]
    /\ UNCHANGED <<serviceVars, grant, admitted, lock, gated, leaseVars, guardVars>>

\* wait_closed returned: the owner's clean-up goes on, the helper's row is
\* marked closed.
OwnerCloseReturns(o) ==
    /\ Running /\ pc[o] = "close"
    /\ CloseNext(o)
    /\ UNCHANGED <<serviceVars, grant, lock, gated, leaseVars, child, guardian, final>>

HelperCloseReturns(h) ==
    /\ Running /\ pc[h] = "close"
    /\ pc' = [pc EXCEPT ![h] = "done"]
    /\ UNCHANGED <<serviceVars, grant, admitted, lock, gated, link, leaseVars, guardVars>>

\* wait_closed raised, because the leg was lost with an error: the rest of the
\* finally block is skipped.  For an owner that is the stop of its backend, its
\* record and its receipt, but not the release of the profile lock by _backend.
CloseRaises(c) ==
    /\ Running /\ pc[c] = "close"
    /\ pc' = [pc EXCEPT ![c] = "lost"]
    /\ lock' = [p \in Profile |-> IF lock[p] = c THEN NoConn ELSE lock[p]]
    /\ UNCHANGED <<serviceVars, grant, admitted, gated, link, leaseVars, guardVars>>

\* Mutant: a stop that returned is taken for a stopped child.
OutcomeAssumed(o) == [stopped |-> TRUE, failure |-> final[o] # "stopped"]

\* GuardedChild.outcome: the guardian's final receipt, or nothing known.
Outcome(o) ==
    [stopped |-> final[o] \in {"stopped", "failed"},
     failure |-> final[o] # "stopped"]

\* The helper rows of the record, as its receipt freezes them: a row is closed
\* at the end of its task's finally block.
HelpersClosed(o) ==
    \A h \in Helper : HelperOf[h] = o => pc[h] \in {"idle", "data", "done"}

\* The rest of the finally block once stop returns, because the guardian
\* exited or because the cleanup deadline passed: the record takes the
\* guardian's word, the socket goes, the receipt is published, the lock freed.
Stopped(o) ==
    /\ Running /\ pc[o] = "stop"
    /\ channel' = [channel EXCEPT ![o] = "closed"]
    /\ \E removed \in BOOLEAN :
         /\ <<"connected", o>> \in receipts => removed
         /\ rec' = [rec EXCEPT ![o] =
                [state   |-> IF @.state = "failed" THEN "failed" ELSE "closed",
                 stopped |-> Outcome(o).stopped,
                 removed |-> removed,
                 failure |-> Outcome(o).failure,
                 helpersClosed |-> HelpersClosed(o)]]
    /\ Publish("backend", o)
    /\ lock' = [lock EXCEPT ![ProfileOf[o]] = NoConn]
    /\ pc' = [pc EXCEPT ![o] = "done"]
    /\ UNCHANGED <<service, policy, captureFailed, grant, admitted, gated, link, lease,
                   child, guardian, final>>

------------------------------------------------------------------------------
(* Closing the service *)

\* record_startup_failure: no listener, or not the expected one; the service is
\* closed all the same.
StartFails ==
    /\ service \in {"starting", "activated"}
    /\ service' = "closing"
    /\ Publish("startup-failure", NoConn)
    /\ UNCHANGED <<policy, captureFailed, connVars, leaseVars, guardVars>>

\* A signal, or the idle window: ProxyServer.close stops accepting and closes
\* the writers of the live connections.
Close ==
    /\ service = "serving"
    /\ service' = "closing"
    /\ UNCHANGED <<receipts, policy, captureFailed, connVars, leaseVars, guardVars>>

\* Where Task.cancel leaves a task: a finally block it interrupts is not
\* finished.
Cancelled(where) ==
    CASE where \in {"data", "lock", "opening"} -> "done"
      [] where = "spawn"          -> "spawnCancelled"
      [] where = "spawnCancelled" -> "spawnLost"
      [] where = "poll"           -> "pollCancelled"
      [] where = "relay"          -> "release"
      [] where = "release"        -> "abandoned"
      [] where = "close"          -> "lost"
      [] where = "stop"           -> "truncated"
      [] OTHER                    -> where

\* Then it cancels every task.  A task interrupted inside process.stop closes
\* the channel and drops the lock, one interrupted while it closes a helper
\* connection only drops the lock; one interrupted before it leaves the backend
\* scope does neither.
CancelTasks ==
    /\ service = "closing"
    /\ service' = "cancelled"
    /\ pc' = [c \in Conn |-> Cancelled(pc[c])]
    /\ channel' = [o \in Owner |-> IF pc[o] = "stop" THEN "closed" ELSE channel[o]]
    /\ lock' = [p \in Profile |->
                  IF lock[p] # NoConn /\ pc[lock[p]] \in {"close", "stop"}
                    THEN NoConn ELSE lock[p]]
    /\ UNCHANGED <<receipts, policy, captureFailed, grant, admitted, gated, link,
                   leaseVars, child, guardian, final>>

\* _finish_close after every task ended: the summary receipt.
FinishClose ==
    /\ service = "cancelled"
    /\ \A c \in Conn : pc[c] \in Ended
    /\ service' = "closed"
    /\ Publish("activation", NoConn)
    /\ UNCHANGED <<policy, captureFailed, connVars, leaseVars, guardVars>>

\* The process ends, after closing or by a crash: its channels close with it.
Exit ==
    /\ Running
    /\ service' = "dead"
    /\ channel' = [o \in Owner |-> IF channel[o] = "none" THEN "none" ELSE "closed"]
    /\ UNCHANGED <<receipts, policy, captureFailed, connVars, leaseVars, child,
                   guardian, final>>

------------------------------------------------------------------------------
(* Guardian, backend and environment *)

\* Mutant: end-of-file on the channel is not noticed.
GuardianStopsOnCommand(o) ==
    /\ guardian[o] = "watching"
    /\ child[o] = "gone" \/ channel[o] = "terminate"
    /\ guardian' = [guardian EXCEPT ![o] = "exited"]
    /\ child' = [child EXCEPT ![o] = "gone"]
    /\ final' = [final EXCEPT ![o] = "stopped"]
    /\ UNCHANGED <<serviceVars, connVars, leaseVars, channel>>

\* guardian_main leaves its loop on a stop command, on end-of-file or when the
\* child exited, and _stop reaps the child unless even SIGKILL is not enough in
\* time; a child whose birth was unknown is reported as failed.
GuardianStops(o) ==
    /\ guardian[o] = "watching"
    /\ child[o] = "gone" \/ channel[o] \in {"terminate", "closed"}
    /\ guardian' = [guardian EXCEPT ![o] = "exited"]
    /\ \/ /\ child' = [child EXCEPT ![o] = "gone"]
          /\ \E f \in {"stopped", "failed"} : final' = [final EXCEPT ![o] = f]
       \/ /\ child[o] = "alive"
          /\ final' = [final EXCEPT ![o] = "unreaped"]
          /\ UNCHANGED child
    /\ UNCHANGED <<serviceVars, connVars, leaseVars, channel>>

ChildExits(o) ==
    /\ child[o] = "alive"
    /\ child' = [child EXCEPT ![o] = "gone"]
    /\ UNCHANGED <<serviceVars, connVars, leaseVars, channel, guardian, final>>

\* The guardian dies without its final receipt; its child lives on.
GuardianKilled(o) ==
    /\ guardian[o] = "watching"
    /\ guardian' = [guardian EXCEPT ![o] = "killed"]
    /\ UNCHANGED <<serviceVars, connVars, leaseVars, child, channel, final>>

\* The handle of a backend nobody stopped is collected with the frames of its
\* dead task, which closes the controller's end of the channel.
HandleCollected(o) ==
    /\ Running /\ pc[o] = "lost" /\ channel[o] = "open"
    /\ channel' = [channel EXCEPT ![o] = "closed"]
    /\ UNCHANGED <<serviceVars, connVars, leaseVars, child, guardian, final>>

\* Somebody rewrites a grant file.
Regrant(c) ==
    /\ Running /\ c \in Regrants /\ pc[c] \in {"idle", "data", "lock"}
    /\ \E g \in {Plain, Resume} \ {grant[c]} : grant' = [grant EXCEPT ![c] = g]
    /\ UNCHANGED <<serviceVars, pc, admitted, lock, gated, link, leaseVars, guardVars>>

\* A pinned executable, configuration or manifest changes on disk.
PolicyChanges ==
    /\ Running /\ policy
    /\ policy' = FALSE
    /\ UNCHANGED <<service, receipts, captureFailed, connVars, leaseVars, guardVars>>

OwnerStep(o) ==
    \/ OwnerData(o) \/ AcquireLock(o) \/ SpawnReturns(o) \/ SpawnFails(o)
    \/ SpawnTimeout(o) \/ Connected(o) \/ PollEnds(o) \/ PublishReady(o)
    \/ ReleaseOwner(o) \/ OwnerCloseReturns(o) \/ Stopped(o)

HelperStep(h) ==
    \/ HelperData(h) \/ HelperOpened(h) \/ HelperRefused(h)
    \/ ReleaseHelper(h) \/ HelperCloseReturns(h)

ConnStep(c) ==
    \/ TurnedAway(c) \/ Accept(c) \/ EmptyProbe(c) \/ StartTimeout(c)
    \/ EndRelay(c) \/ CloseRaises(c)

Environment ==
    \/ PolicyChanges
    \/ \E c \in Conn : Regrant(c)
    \/ \E o \in Owner : HandleCollected(o)
    \/ \E o \in Owner : GuardianStops(o) \/ ChildExits(o) \/ GuardianKilled(o)

Next ==
    \/ \E c \in Conn : ConnStep(c)
    \/ \E o \in Owner : OwnerStep(o)
    \/ \E h \in Helper : HelperStep(h)
    \/ ActivateListener \/ Start \/ StartFails
    \/ Close \/ CancelTasks \/ FinishClose \/ Exit
    \/ Environment

\* A guardian is a process of its own: it is scheduled while it lives, and its
\* waits are bounded (STOP_SECONDS).
Fairness == \A o \in Owner : WF_vars(GuardianStops(o))

Spec == Init /\ [][Next]_vars /\ Fairness

------------------------------------------------------------------------------
(* Properties *)

\* A lease record that says process_stopped (a record the resume proof and the
\* entrypoint's exit status rely on) is never wrong: no backend runs.
StoppedIsTrue == \A o \in Owner : rec[o].stopped => child[o] # "alive"

\* The clean-up of an owner's lease is over and did not show that its backend
\* is gone: its record reports a cleanup failure, or the clean-up was cut off
\* while it closed a helper connection and left nothing on record.
CleanUpFailed(o) == (pc[o] = "done" /\ rec[o].failure) \/ pc[o] = "lost"

\* The profile lock: two backends of one profile run together only when the
\* clean-up of one of them has failed.  _backend frees the lock however
\* _leased_backend ends, so a failed clean-up is the only way past it, through
\* cancellation, timeouts and guardians that die; and it is a way past it.
ProfileExclusive ==
    \A o, q \in Owner :
        /\ o # q /\ ProfileOf[o] = ProfileOf[q]
        /\ child[o] = "alive" /\ child[q] = "alive"
        => CleanUpFailed(o) \/ CleanUpFailed(q)

\* A thread has one owner: a backend launched to resume a thread runs only when
\* the backend that owned it is gone and no helper of that lease is relayed,
\* although the grant is read, then waited on, then used.
ThreadHasOneOwner ==
    \A o \in Owner :
        grant[o] = Resume /\ rec[o].state # "none" =>
            /\ child[ResumeOf[o]] = "gone"
            /\ \A h \in Helper : HelperOf[h] = ResumeOf[o] => pc[h] # "relay"

\* Parent death: once the service is gone, every backend ends, except one whose
\* guardian was itself killed or reported that it could not reap it.
ParentDeathStops ==
    service = "dead" ~>
        \A o \in Owner :
            child[o] = "alive" => final[o] = "unreaped" \/ guardian[o] = "killed"

\* owner_helper.py: a gate "releases a complete frame only after the complete
\* native message has passed the owner-thread contract"; so a helper that is
\* relayed is behind its two gates.
HelperGated == \A h \in Helper : pc[h] = "relay" => gated[h]
=============================================================================
