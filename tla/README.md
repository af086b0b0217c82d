# Codex-Bird-Orchestrator: TLA+ models, model checking and proofs

The repository runs command-line coding agents ("workers") for a plan of
dependent tasks. A Go coordinator keeps a durable ledger (SQLite) of tasks,
attempts, launches, budgets and decisions; source hosts, one per submitted plan,
start the workers and report what happens through a spool of events; owners
review results, answer questions, retry, stop and resume. Python programs bind
the orchestrator to a Codex session. This project models the parts that carry the
program's own logic, checks them with TLC on small instances and proves the main
results with TLAPS for every value of the constants.

Paths below are relative to `src/`; `store/` etc. stand for
`tools/orchestrator/internal/store/` etc.

## 1. Inventory

| component | state it keeps | operations | hard behaviour | what makes it correct |
|---|---|---|---|---|
| **task ledger** `store/` | tasks, attempts, segments, budgets, stops, questions, events, review and retry decisions, capabilities, launches, hosts, limits | `SubmitPlan`, `ClaimReady`, `PendingLaunches`, `CommitHostEvent`, `CommitReportEvent`, `QueueResume`, `AnswerQuestion`, `ReviewResult`, `QueueRetry`, `RequestStop`, `MarkStoppingUnknown`, host registration, reconciliation, retirement, epochs | every caller interleaves with every other; late and repeated events; restart with other limits | one live worker per task; dependencies respected, releases and blocks not lost; attempts, time and slots within limits; finished work stays finished; an owner's decision is always possible and applied once |
| **coordinator** `coordinator/` | registered sessions, event signal, idle timer, shutdown phase | `handleHost`, `control`, `dispatch`, `retireCompletedHosts`, `monitorIdle`, `Shutdown` | goroutine per connection; state read in one transaction and used in another; shutdown against late events | a session closed only when nothing needs it; no lost wake-up; exit only when idle |
| **delivery and ownership** `store/delivery.go`, `collection.go`, `owner*.go`, `quota.go` | delivery order, cursors, receipts, decisions, owner bindings, quotas | `CollectPending`, `AckDecisions`, `RebindOwner`, owner grants | repeated collections and ACKs, rebind between them | every event is delivered until acknowledged, a decision takes effect once |
| **host** `host/` | grant ledger, running attempts, spool, acknowledged position | `ExecuteLaunch`, `acceptGrant`, `StopSegment`, `PublishAll`, `RunSource` | crash between accepting, starting and recording; repeated grants; stop against exit; replay | a grant starts at most one worker; each event is committed once and in order |
| **event spool** `events/` | append-only log, archive, acknowledged prefix | `Append`, `ReadAfter`, `AckThrough`, `archiveThrough` | crash in the middle of an append or an archive | no acknowledged event lost, no gap |
| **instance** `instance/` | lock, epoch file | `Acquire`, `nextEpoch` | crash while replacing the file | an epoch is used by one coordinator |
| **process, adapter, ipc, contract** | process groups; stream parsers | start, stop, parse, frame | operating-system effects, text formats | pure data or I/O |
| **gitops** `gitops/`, `gitopsworker/` | worktrees, private refs, journal, integration lock | `Materialize`, `ComposeCandidate`, `Integrate`, `Cleanup` | crash between intent and effect | an integration happens once; clean-up removes only what it owns |
| **install** `install/` | versions, pins, install lock, current link | `InstallPackage`, `PinVersion`, `UnpinVersion`, `UninstallPackage` | pin against uninstall | a pinned version stays |
| **native bridge** `nativebridgecli/`, `plugins/codex-orchestrator/` | owner capabilities, delivery ledger, acknowledgement requests | `bind`, `collect`, `prepare_and_claim`, `mark_*`, `reconcile`, `ack`, the helper and driver commands | several processes on one ledger; a kill between sending and recording; history read while turns run | a batch is sent once, confirmed only if it is in the thread, acknowledged only as decided |
| **native runtime** `runtime/native/` | admissions, leases, profile locks, guarded children, receipts, observer rows, helper gates | accept, admit, launch, relay, release, close; guardian stop; wire evidence | a task per connection, cancelled anywhere; deadlines; death of the service | one backend per profile, one owner per thread, receipts that are true, no orphan |
| **activation transaction** `tasks/g0-auth-preserving-activation/` | stage, plist, lease and socket identities, receipt state | `prepare`, `register`, `verify`, `revoke`, `managed` | other transactions and users between any two system calls; launchd answers that are not known | what it did is undone, what it did not do is left alone |
| **attachment inference** `tasks/g0-tui-proxy/scripts/proxy_native_runtime.py` | inferer, capture bridge, trace | rows, clear, resume, disconnection, verdict | order of answers and announcements, gaps, several epochs | a candidate only where the rows prove it |
| **controlled cases** `tasks/g0-proxy-continuation/scripts/` | preflight record, case directory, runtime, retained job | `run_resume_case`, `run_reconnect_case`, `run_partial_case` | everything moves between two awaits; two runners; crashes | an observed case is one that really went as recorded |
| **g0 labs** `tools/g0-return-lab`, `tools/g0-probe` | control lock, ACK records, batches, retained segments | ACK, batch publish, retained resume | repeated ACK, crash between publication stages | ACK takes effect once |
| **task records** other `tasks/` | acceptance scripts and evidence | | | not part of the running system |

Components interact as follows. A control client calls the coordinator, which
runs one ledger transaction and then dispatches. A host connects (hello),
`RegisterHost` binds it to its launch, `BeginHostReconcile` starts the replay of
its spool, `FinishHostReconcile` ends it, and grants flow. A host event becomes
`CommitHostEvent`; a worker's report goes through its capability to
`CommitReportEvent`. Stops are rows of `stop_runtime` that the coordinator sends
until the exit event. After a commit the coordinator may retire hosts and
release version pins.

On the Codex side, launchd (set up by an activation transaction) starts the native
service, which gives each admitted frontend a private backend through a relay. The
relay shows every byte to an observer; what it proves becomes a ready receipt.
Bridge processes connect through the same service as helpers of an owner, take
events from the coordinator's ledger and deliver them into the owner's thread. The
controlled cases run a relay and an inferer of their own to establish, from the
outside, what a frontend did.

`PROJECT.json` lists all components with their status, and the hazards: the
places where an order of steps, a crash, a limit or a stale read could break the
ledger, each with the properties that would notice.

## 2. Modules

| module | models |
|---|---|
| `TaskStore` | the task ledger with the coordinator's host connections and retirement |
| `MCTaskStore` | instances of it: plans, limits, and action constraints that keep a run to its question |
| `TaskStoreProofs` | proofs about `TaskStore`: types, slots, dependencies, attempts, answers, decisions, stops, limits, budgets |
| `EventLog` | what a host promises about its events: each is committed once, in order |
| `SpoolPublish` | how it keeps the promise: spools, publisher, connection, commits; implements `EventLog` |
| `MCSpoolPublish` | instances of it |
| `SpoolPublishProofs` | proofs about `SpoolPublish`, with the refinement of `EventLog` |
| `NativeService`, `MCNativeService` | the socket-activated service: connections, leases, guardians, shutdown |
| `WireEvidence`, `MCWireEvidence` | what the service reads on the wire: ready receipts, helper gates |
| `NativeDelivery` | bridge processes on the delivery ledger, and the owner thread they deliver into |
| `Activation` | the launchd activation transaction |
| `Attachment` | inferring which thread a frontend is attached to |
| `CaseRunner` | the resume, reconnect and partial cases on a native runtime |
| `NativeServiceProofs`, `WireEvidenceProofs`, `NativeDeliveryProofs`, `ActivationProofs`, `AttachmentProofs`, `CaseRunnerProofs` | proofs about the module each is named after |

### TaskStore

One action is one committed transaction (`store` serialises them with a mutex and
SQLite transactions); a call that the code rolls back is an action that is not
enabled, so an error path is a guard. Calls that repeat an earlier decision
identically return its stored answer and change nothing; they are stuttering
steps.

* **State.** `status`, `readySeq`, `fallback` are columns of `tasks` and
  `task_runtime`; `attempt[t][n]` is the attempt of task `t` numbered `n`
  (numbers are unique in a budget group); `seg[s]` joins `segment_runtime` with
  its budget, stop, session, capability and pending report rows; `question[s]` is
  the question asked by segment `s`; `events`, `review`, `retried` hold what
  decisions refer to; `launch`, `host`, `proc`, `conn` describe a source host:
  ledger rows, bound process, and the step its newest connection has reached in
  `handleHost`; `retiring` is the list a `retireCompletedHosts` call holds
  between its read and its writes; `epoch` and `limits` are the coordinator's.
* **Identity.** A task is a number in the order (`created_at`, `id`) of the
  store's scans. A plan's own order (`PlanOrder`) may differ: `SubmitPlan`
  numbers the ready queue along it, `releaseReady` along the scan. A segment is
  numbered in creation order, which is the order of (`attempt_no`, `segment_no`)
  within a task. A host is its launch, as `runtime_hosts.launch_id` is unique.
* **Connections.** `conn` is none, hello (registered, not yet in `s.hosts`),
  rehello (the same with an older session still in `s.hosts`), replay, serving,
  or closed (retired during its replay: its handler still runs and may finish
  the reconciliation).
* **Data left out.** Ids, hashes, timestamps, tokens and texts; `validatePlan`'s
  checks are assumptions on the constants (`PlanAssumption`). A progress or
  result report changes nothing that is modelled, `PendingLaunches` only reads
  (its answer is `ResentPayload` and `ResentQuestion`). Storage admission can
  only refuse a plan. `blockFailedDependencies` also names `budget_exhausted`
  and `releaseReady` `integrated`, statuses that no code writes.
* **Host events.** Any event of a created segment may arrive at any time the
  host is connected, also after the segment's exit and in any order: the ledger
  has to be correct whatever a host sends. Only the number of a question follows
  the host's code (`NextRevision`), as the ledger's uniqueness rule depends on it.

The fixpoint of `blockFailedDependencies` (a loop in the code) is stated as the
least set closed under blocking, so that the module has no recursion and can be
proved about.

### EventLog and SpoolPublish

`SpoolPublish` models one source host: its files, its processes, its connection
and the coordinator's handler.

* **Files.** `dirs`, `live`, `arch`, `acked` are the spool directories, event
  files, archived files and `ack.json` of each segment, `published` is
  `.producer-published`. Every file operation that a kill could separate from the
  next one is a step of its own: the link that publishes an event, the
  replacement of `ack.json`, each link into the archive, each removal, the host's
  cursor.
* **Process.** `phase` follows `RunSource` (replay, serving, the deferred flush,
  exiting), `publisher` its goroutine, `pub` the call of `PublishAll` that holds
  `publishMu` with what it has read and confirmed, `eventReady` the one-place
  channel, `sequence` the numbers the process hands out. A process that ends,
  killed or not, loses all of it (`Ends`).
* **Connection.** `wire` and `answer` hold what is sent and not read; a closed
  connection still delivers an answer that was sent before. `stale` holds events
  of connections that are gone and whose handlers may still commit or drop them.
* **Coordinator.** `handler`, `current`, `bound`, `row` are `handleHost`, the
  entry of `s.hosts`, and the row of `runtime_hosts`; `Register` is a hello with
  the checks of `handleHost` and `AuthorizeHostRebind`. `claimed`, `granted` say
  which segments may append events, in which process. An event is a number and a
  segment; a segment's last event is its exit.
* **Left out.** Failing file operations (a full disk, a failing sync), the
  content of events, capability messages, and what workers do between two
  events. The listing of the spools is one step, and so is a hello.

`EventLog` is the abstract specification: `Produce` appends to a sequence,
`Commit` moves its next element to the ledger. The refinement mapping takes the
event files, live and archived, in the order of their numbers.

### NativeService

asyncio runs a task until it suspends, so one action is the code from one await to
the next, and `pc[c]` names the await at which the task of connection `c` is
suspended. `admitted`, `lock`, `rec`, `lease`, `receipts` are the service's
dictionaries and files of the same purpose; `child`, `channel`, `guardian`, `final`
are the backend process, the socket pair, the guardian and its last file. Deadlines
may expire at any suspension with a deadline, `close` cancels a task wherever it
is, and the process may exit at any moment. A grant file may be rewritten while
its frontend runs (`Regrants`), the pinned files may change (`policy`).

The clean-up of an owner's lease is several steps, because it awaits. `ReleaseOwner`
leaves the relay and takes the lease out of `_owner_leases`; `CloseNext` then closes
the helper connections the lease has listed (`link`), one `wait_closed` after the
other (place `close`); only after the last one does `BeginStop` drop the helpers'
admissions and tell the guardian (place `stop`), and `Stopped` writes record and
receipt and frees the lock. A helper's own release is `ReleaseHelper`, which closes
its connection unless the owner has done so. Any of these awaits may raise
(`CloseRaises`) or be cancelled: the task then ends in `lost`, with the rest of its
finally block skipped, but with the profile lock freed by `_backend` around it.
`HandleCollected` is what happens to the backend of such a lease later: its handle is
collected, the channel closes, and the guardian stops it.

### WireEvidence

One chunk of bytes is one action: the messages that it completes are parsed in
order, rows are emitted, the protocol record of the connection is updated and a
ready receipt may be published, as `MetadataSink.data` does in one callback.
`past` is history: what frontend and backend really did, told apart from what the
observer made of it. A helper's messages go through the client gate, the backend,
and the server gate, each with its own buffer. Connections share nothing but the
length of the observer's queue; `MCWireEvidence` therefore follows one connection
per behaviour and lets the others only add rows, which loses no interleaving that
a property of one connection can see. The proofs are about `Spec` itself, with all
connections at once.

### NativeDelivery

Ledger operations run under one flock and are one action each; a process may fail
(its except clause runs) or be killed (nothing runs) between any two. The
coordinator's side is its durable outcome: events, decisions, receipts. `turns` and
`inflight` are the native thread: a request that was written is processed later,
whether or not its sender still lives. A delivery is the pair of epoch and events
its id is a hash of.

### Activation

One action is the code between two system calls that others can come between; a
check and the removal that relies on it are two actions. Files are named by who
wrote them, sockets by a serial number for (dev, ino), the job by who bootstrapped
it, so "replaced by an equal one" is visible to the properties although the code
may not see it. Failing writes, refused specifications, launchd answers that tell
nothing, launchctl timeouts and changes of parents or credentials are branches of the
actions. Somebody else may take away or replace the plist, the socket, the job, a
stage file (`ForeignStage`) and a lease record (`ForeignLease`); a removal that meets
a replaced one raises and the receipt keeps its state. `Undecided` is a revalidation
that ends without a yes or a no: an `UnknownStateError` is recorded as UNKNOWN, any
other exception passes `register`'s handler and leaves the receipt STAGED.

### Attachment

One message is one row and is applied in the callback that brings it. `inf` is the
inferer, `conn` the observer's record per epoch, `case` the locals of `run_case`;
`proof` and `turned` are history. `mode` chooses the inferer for a started or a
resumed thread.

### CaseRunner

The stages of a case are program points of its runner; between them the frontend,
the backend, the worker, the files and the sockets move. The bridge is the outcome
of `Attachment`. Once a failure makes the verdict unknown, what happens around the
case is no longer followed (`UnderWay`), and locals that the handler does not read
again are reset (`Raise`): both only merge states that no property tells apart.

A protected file is its content; `record` is what the preflight hashed, `rt.expected`
what the runtime hashed at its start (`TakeSnapshot`), and a spawn is a step after it
(`Spawn`). `Edit` changes any file at any time, also back to what it was, since nothing
in the code prevents it. `stale` and `slipped` are history: the files some backend was
started with in another state than the record, or than the runtime's own snapshot, and
that have not been put back since. A config is given; without one
(`config_path` is None) there is nothing to compare.

## 3. Runs

| run | instance | checks |
|---|---|---|
| `dag` | chain 1 <- 2 <- 3, one completion policy each, 2 attempts, 3 launches | `SlotOwnership`, `DependencySafety`, `QueuedWaits`, `BlockingPropagates`, `OwnerCanDecide` |
| `worker` | one task, 3 attempts, 2 launches, every event in any order, reports | `RetryOncePerAttempt`, `ResendIdentity`, `AnswerCarried`, `FinishedStays`, `StopRequestWins` |
| `groups` | two plans sharing a budget group with limits (2 attempts, 2 units) and (3 attempts, 1 unit), 3 launches | `GroupAttemptCeiling`, `GroupBudgetKept` |
| `fleet` | two tasks with a fallback payload each, two processes, two limit files, one restart | `TypeOK`, `LaunchWithinLimits` |
| `hostlink` | one process at a time, two spools with 2 and 1 events; any number of kills, signals, closed connections, refusals and coordinator restarts | `NothingForgotten`, `ImplementsEventLog`, `ServingDrains` |
| `service` | two owners of one profile, the second may resume the first's thread, a helper of the first; three connections | `StoppedIsTrue`, `ProfileExclusive`, `ThreadHasOneOwner`, `ParentDeathStops` |
| `delivery` | a helper and a driver, three launches, two events in pages of one, two owner epochs, two decisions | `SentOnce`, `OneUndetermined`, `ConfirmedIsTrue`, `AckIsBacked`, `ForwardOnly` |
| `activation` | two transactions on one label, two interventions | `EndsClean`, `OnlyFrozenDestroyed`, `SoleRegistration`, `OthersJobStands` |
| `attachment` | start and resume, two threads, two request ids, two epochs, one irregularity | `CandidateUnbroken`, `ClearBarrier`, `ResumeProved`, `ObservedMeansNoTurn` |
| `wire` | a starting and a resuming owner, a helper with two ids, an observer for 15 rows, one irregularity | `NoCrossTalk`, `ReadyEarned` |
| `cases` | three kinds of case, two runners, two epochs, a job of three steps, two changes of a protected file (so also a change and its undoing), one irregularity | `OneRunner`, `ObservedIsQuiet`, `ObservedIsReviewed`, `ContinuesTheStop` |
| `helper_gates` | as `service` | violates `HelperGated` |

What the runs on the native side show:

* `service`. A lease record that says its process is stopped is right even when
  guardian or supervisor time out; the profile lock admits a second backend only
  after the first is gone or its clean-up has failed, which is on record unless it was
  cut off while it closed a helper connection (section 4); a thread is resumed
  only after its owner is gone, although the proof is read before the wait for the
  lock; and a service that dies leaves no backend unless the guardian itself was
  killed or could not reap it.
* `delivery`. However often processes are launched, killed or overlap, a batch is
  written to the thread once; at most one batch is undetermined; what the ledger
  confirms is in a completed turn; an acknowledgement repeats the decision on file.
* `activation`. A transaction that reports a clean end left no job, stage, lease or
  quarantined socket; a socket that is unlinked was frozen by a transaction; two
  transactions are not registered together and do not unload each other's job
  unless somebody removed a plist.
* `attachment`, `wire`. Candidates and ready receipts rest on what really happened
  on one unbroken connection, also across clear and resume; an observed case ran no
  turn; a helper reads only answers it waits for, apart from ids it left on the wire
  itself by a failed write.
* `cases`. A preflight is used once, also after a crash; an observed case is quiet
  and left nothing behind, and what its backends were started with in another state
  than reviewed was put back before the last hashes; the second segment of a partial
  case continues the first one's stop, provided `ps` answered.

**Bounds.** `MaxSegment` bounds launches, `MaxEpoch` restarts, `ReportRev` and
`ActiveReport` what workers report. A chain of three is the shortest one on which
one pass of blocking differs from the fixpoint. Two launches let an attempt be
resumed or retried once, after which the second segment meets every late event of
the first. Budgets are counted in units: the code's arithmetic is a sum, a
minimum and a comparison, so a group of three units with grants of one and two
reaches "nothing left", "less than the maximum left" and "enough left". A cap of
one and of two with two tasks reaches both sides of each comparison. Three events
in two spools are the least for which a later number can be read before an earlier
one, and a spool can be acknowledged while another one of the same call is not;
`hostlink` bounds nothing else, as crashes and restarts need no counter.

On the native side `MaxConnections` bounds connections (three: an owner, its
helper and the owner that takes over), `Launches` bridge processes (three: two that
overlap and one that finds what a killed one left), `Meddles` interventions (two:
one that takes an object away and one that puts another in its place), `Epochs`
connections of a frontend (two: one to be broken, one to be mistaken for it), `Edits`
changes of protected files (two: a change and its undoing) and `Apart` the files that
differ from the reviewed ones at one time (one: each file is hashed, compared and
followed by itself), `Oddities` and `Irregularities` messages and failures
that a correct peer does not produce. `Together` bounds the changes of files in a
behaviour of a case that also has an oddity; `cases` has it at zero, so that the run
explores changed files and irregular events one at a time, and `CaseRunnerProofs` has
the same properties for every value of it. With one of those every action
of the modules fires, and most of them end what they hit; two would add pairs of
independent failures. `MaxEvents` of 15 lets the queue fill up before, during and
after the rows that prove a lease ready; the code's limit of 4096 rows is reached long
before the limits on pending requests, which are therefore left out. `PageSize` of
one makes the second event wait for a page of its own.

**Action constraints** name what a run leaves to others: `StableHosts` (no
disconnection or retirement; `fleet` has them),
`SilentWorkers` and `OrderlyWorkers` (no progress, session, report or late event;
`worker` has them all), `NoQuestions` and `NoStops` (`worker` and `dag` have
them). Processes are symmetric in `fleet`, decisions in `delivery`, request ids in
`attachment`, runners in `cases`: no definition names one of them.

**Fairness.** `TaskStore` assumes none; its runs switch deadlock checking off
because a ledger may rest when nobody calls it. `SpoolPublish` assumes weak
fairness of each goroutine of a living host (the publisher's next step, the end of
an append, the main loop noticing an error, the end of the process) and of the
coordinator's handler: all are runnable goroutines with nothing to wait for. It
assumes nothing about workers, signals, refusals, crashes or reconnections.
`ServingDrains` therefore speaks of a process that keeps serving. `NativeService`
assumes weak fairness of `GuardianStops` only: the guardian is a process of its own
that polls every 50 ms and whose stop escalates to a kill, so it acts when its channel
ends; nothing is assumed of the service, its tasks or the frontends. The other modules
assume none, and switch deadlock checking off because a case, a transaction or a bridge
process comes to an end.

## 4. Known disagreements

`helper_gates` shows one that a run checks: a helper's task is suspended while its
connection to the backend opens; if the owner's connection ends meanwhile, the
owner's clean-up removes the helper's admission, and the gates, which are looked up
by that admission afterwards, are not installed. The helper is relayed without them
until the backend stops.

The models also have these behaviours, in which the code differs from the
documentation or from what a caller would expect:

* *Cancelling* any waiting task runs the blocking scan over the whole ledger, which
  treats a failed task as final even if it can be retried, so tasks unrelated to the
  cancelled one are blocked for good (`store/host_events.go:373`;
  `docs/runtime-protocols.md:91` keeps independent tasks).
* *Retirement*: the list of retirable hosts is stale when it is used, so a host with
  a live worker can be released (`coordinator/server.go:936`;
  `docs/runtime-protocols.md:25`).
* *Attempt budget*: a resumed segment gets the task's maximum again
  (`store/scheduling.go:106`; `docs/runtime-protocols.md:96`).
* *Two hosts*: two commands that find the host not ready start a process each; both
  are admitted when no segment is active and number their events independently, so an
  event can be archived without being sent (`cmd/orchestrator/main.go:1057`).
* *Host hang*: a connection lost while an answer is awaited leaves the process waiting
  with the mutex its own shutdown needs (`host/source.go:530`).
* *Clean-up*: if the end of a helper connection raises while an owner's clean-up awaits
  it (`activation_service.py:874`, `owner_helper.py:654`), the rest of the finally block
  is skipped: the backend is not told to stop, its record keeps `process_stopped` false
  with neither failure nor receipt, and `_backend` frees the profile lock (`:741`), so
  that the next owner's backend can start beside it. `CleanUpFailed` names these leases
  (`lost`), and `ProfileExclusive` holds only with them excepted.
* *Files*: a file that is changed after the second preflight (`resume_case.py:574`) and
  put back before the final hashes (`:649`; `partial_case.py:836`) goes unnoticed, also
  when a backend was started in between; the binary and the config are compared once
  more, at the close of the runtime. `ObservedIsReviewed` therefore says that such a
  file was put back, not that it never changed.
* *Close*: cancelling a lease inside its clean-up loses its backend receipt
  (`runtime/native/proxy_transport.py:371`), and the thread cannot be resumed by proof.
* *Observer*: nobody drains the service's observer; after 4095 rows no lease becomes
  ready any more (`runtime/native/activation_service.py:262`).
* *Repeated delivery*: an event whose acknowledgement was lost before the owner was
  bound anew is shown again, as another delivery, in a turn of the new epoch
  (`docs/design-v0.1.md:153` allows it); `SentOnce` is about one delivery.
* *Bind*: a kill between the generation file and `current.json` leaves a file
  that every later bind tries to create and fails at (`native_bridge/bridge.py:237`).
* *Registration*: if `register` raises after the plist was linked and before the
  state moves on, `revoke` takes the branch of a staged transaction and leaves the
  plist (`activation_transaction.py:996`); `EndsClean` does not speak of it.
* *ps*: a failing `ps` counts as a process that is gone (`partial_case.py:416`);
  `ContinuesTheStop` excepts it. In a partial case a turn between the last quiet check
  and the continue prompt is not noticed.

## 5. Proofs

Every theorem holds for every value of the constants that the named assumptions
allow. All of them follow one pattern: an invariant, checked by TLC first, that
contains the property or implies it, `Init => Inv`, `Inv /\ [Next]_vars => Inv'`
with one lemma per action or per kind of action, and a temporal step. Action
properties are proved from the same invariant.

| module | theorems |
|---|---|
| `TaskStoreProofs` | `TypeCorrect`, `SlotsOwned` (`SlotOwnership`), `DependenciesComplete` (`DependencySafety`), `NoLostRelease` (`QueuedWaits`), `BlockingReachesAll` (`BlockingPropagates`), `AttemptsAreBounded` (`GroupAttemptCeiling`), `BudgetIsKept` (`GroupBudgetKept`), `RetriedOnce` (`RetryOncePerAttempt`), `AnswerNotLost` (`AnswerCarried`), `ResendIsIdentical` (`ResendIdentity`), `OwnerAlwaysCanDecide` (`OwnerCanDecide`); for steps `FinishedForGood` (`FinishedStays`), `RequestedStopWins` (`StopRequestWins`), `LaunchesWithinLimits` (`LaunchWithinLimits`) |
| `SpoolPublishProofs` | `TypeCorrect`, `EventsAreNotForgotten` (`NothingForgotten`), `SpoolImplementsEventLog` (`ImplementsEventLog`), for processes that follow one another |
| `NativeServiceProofs` | `TypeCorrect`, `StoppedRecordsAreTrue` (`StoppedIsTrue`), `ProfileIsExclusive` (`ProfileExclusive`), `ThreadOwnedOnce` (`ThreadHasOneOwner`) |
| `WireEvidenceProofs` | `TypeCorrect`, `OnlyAwaitedAnswers` (`NoCrossTalk`); for steps `ReadyIsEarned` (`ReadyEarned`) |
| `NativeDeliveryProofs` | `TypeCorrect`, `DeliveredAtMostOnce` (`SentOnce`), `OneUndeterminedDelivery` (`OneUndetermined`), `ConfirmationIsTrue` (`ConfirmedIsTrue`), `AcknowledgementIsBacked` (`AckIsBacked`); for steps `TransportForwardOnly` (`ForwardOnly`) |
| `ActivationProofs` | `TypeCorrect`, `OnlyOwnSocketsGo` (`OnlyFrozenDestroyed`), `OneRegistration` (`SoleRegistration`), `CleanEndIsClean` (`EndsClean`); for steps `JobOfAnotherStands` (`OthersJobStands`) |
| `AttachmentProofs` | `TypeCorrect`, `CandidateStandsUnbroken` (`CandidateUnbroken`), `ClearedCandidatePassed` (`ClearBarrier`), `ResumedCandidateProved` (`ResumeProved`), `ObservedCaseSentNoTurn` (`ObservedMeansNoTurn`) |
| `CaseRunnerProofs` | `TypeCorrect`, `RecordRunsOnce` (`OneRunner`), `ObservedCaseWasQuiet` (`ObservedIsQuiet`), `ObservedCaseWasReviewed` (`ObservedIsReviewed`), `SecondSegmentContinues` (`ContinuesTheStop`) |

**Slots of the ledger** (`TaskStoreProofs`). `TypeOK` is inductive as it stands. The
facts that need an argument are the ready sequence (a count of a finite set of
tasks, `SequencedType`), the attempt number a claim uses (in `1..3` because the
group's attempts are below the limit, `TypeClaim`) and the grant (positive by the
guard). `SlotOwnership` is not inductive: a claim must write an unused row, and no
segment may belong to a task whose plan is not yet admitted. `SlotInv` adds
`AllocationOrder` and `AbsentUntilSubmitted`. The argument per action is short once
phrased with two relations: `RowKept` (a step neither starts nor ends a segment) and
`StatusKept` (nor moves its task in or out of running, stopping, unknown);
`SlotKept` then covers every action except claim and exit, and `BlockMoves`,
`ReleaseMoves`, `FailedMoves` say what the scans of the task table may change.

**The rest of the ledger** (`TaskStoreProofs`). `LedgerInv` is one invariant for all
the ledger's properties, because they need each other: an answer is carried only
because the attempt it belongs to is the latest one, which it is because attempts are
numbered per group, which bounds them only because no number was skipped. Its parts
are `SlotInv`; `RowInv` (each row has its attempt, numbers grow, an active row is the
newest of its task, a requested stop has decided the outcome, the payload in force is
the granted one, an outcome is backed by its event); `NumbersCounted`; `DependInv` (a
task past `ready` has an attempt; only a submitted plan has a host); `AnswerInv` (an
active segment's question is started, at most one answer waits and it is with the
latest attempt); `DecisionInv` (a retried attempt is past; what each waiting status
can be decided on). Three shapes carry the proof: most actions *stir* (`Stirs`: no row
appears or ends, no decision is taken; `NextStirs` sorts the actions), a claim has the
shape `Claims`, an exit the shape `Ends`; each part of the invariant is then proved
once per shape and for the five decisions. `BlockingPropagates` rests on
`LeastIsClosed`: the least set closed under blocking is itself closed, whatever the
depth of the plan. `LaunchesWithinLimits` needs `PayloadHeld`, since `InUse` counts
what tasks would be launched with now, not what their segments were.

`BudgetIsKept` needs to know what a sum over the rows of a group does when one row is
added or settled. `TallyExists`, `TallyAdds` and `TallyChanges` establish that for any
function on a finite set, by well-founded descent over its subsets; `ChargedIsTally`
connects them to the fold that `Charged` is. A claim then adds at most what is left,
an exit leaves at most what was granted.

**Spool** (`SpoolPublishProofs`). The theorems have a hypothesis on the behaviour,
`OneAtATime`: no two processes use the spool root at once. Processes with any
identities may follow one another, be killed at any step and leave a handler behind
that still commits. Without the hypothesis the theorems are false, and the code does
not enforce it: that is *Two hosts* in section 4. `SpoolInv` says that the numbers on
disk have no gap and no repetition (`DiskInv`) and agree with the sequence in memory
(`SequenceInv`), that everything under way between the two sides is on disk
(`MessagesInv`), that what is committed was produced in this order (`CommittedInv`),
that neither cursor nor confirmation runs ahead of it (`CursorInv`), and what each
program point of `PublishAll` may rely on (`CallInv`: a file goes only when it is
archived). `RestInv` says that a dead process holds nothing; it is what makes
`OneAtATime` enough. For the refinement, `StepKinds` shows that a step leaves both
sequences alone, links exactly the next event (`LinkProduces`) or commits exactly the
next one (`CommitCommits`).

**Service** (`NativeServiceProofs`). `ServiceInv` states for each suspension point of a
connection's task what it still knows of lock, child and record: before the spawn
there is no process (`Fresh`), a final record is written after the process is gone
(`FinalIsTrue`), a live child is under a held lock or its clean-up has failed
(`LockHeld`, `AliveIsHeld`), a resume grant read before waiting for the lock is still
true afterwards (`ResumeKept`), the helpers of a finished owner do not come back
(`HelpersStayClosed`). `CloseNextFacts` says that closing the helper connections leads
to another one or to the stop, and `InvCloseRaises` that a clean-up that is cut off
there gives up the lock and nothing else: its backend counts as one whose clean-up
failed (`CleanUpFailed`) from then on. `Guarded` is needed for the guardian's side: a guardian exists
only with its child.

**Wire evidence** (`WireEvidenceProofs`). The helper and the owners' connections meet
only in the length of the queue, so there are two invariants. `WayInv` follows a
request of the helper: an id it waits for is at one place of its way, as a frame
before the client gate (`SentOnce`), as an id the gates share (`PendingAwaited`) or as
an answer not yet read (`NoCrossTalk`), and an id at the first two is not at the third.
That a gate judges the messages of one chunk one after the other is what
`ServerGateWay` needs: judged at once, two answers to one id pass. `EvidenceInv` says
what makes a receipt true: while the protocol record of a connection is not refuted,
each entry of it that a receipt rests on happened (`Grounded`), and a connection that
is read no further is refuted (`Readable`), so a queue that fills up can lose rows but
not leave a record that a lost row would have refuted. `ParseSound` shows it for one
message, by the kinds of rows; `ParsedMessages` unfolds the library's fold for the one
or two messages of a chunk, and `DataEnd` shows that what is published at the end of
the whole chunk is earned, the turn that a second message may start included.

**Delivery** (`NativeDeliveryProofs`). `DeliveryInv` adds to the properties what each
program point of a bridge process holds (`Equipped`), that nothing is written before
the ledger says so and that a process with the right to send, not used yet, is alone
with it (`RightToSend`), that a batch has one request on the wire or one turn
(`OneTurn`), that at most one batch blocks the others (`OneBlocking`), that a history read in
between stays true (`ReadIsTrue`) and that an acknowledgement follows its confirmation
(`AckInOrder`). That a page of pending events is a delivery, neither empty nor longer
than a page (`PageBounded`), is a fact about least elements of sets of numbers.

**Activation** (`ActivationProofs`). `Local` follows one transaction through its
program points: which socket it has frozen, what its receipt says, which of its files
exist, whether its job may be loaded. Two facts are shared: unless somebody took a
published plist away, it belongs to the one transaction between its link and its
unlink (`PlistHeld`), and a loaded job of a transaction is the job of the plist's owner
(`JobOfPlist`).

**Attachment** (`AttachmentProofs`). `AttachmentInv` is `Frame` (the shape of inferer,
connections and case), `InfInv` (what the inferer's sets say about the rows that
arrived) and `TurnsMarked` (a turn that left is in the trace, or the trace is not
complete). `clear()` makes a broken inferer usable again whatever broke it. What keeps
the candidate honest is that finishing the barrier takes a request and an answer, so a
connection that lost a direction never passes it (`Tracked`).

**Controlled cases** (`CaseRunnerProofs`). `CaseInv` says that the case directory has
one owner for ever (`Claim`), that turns are counted once a relay runs
(`TurnsCounted`), that a file a backend was started with in another state than recorded,
and that was not put back, is off the record still, or off the snapshot its runtime's
close will compare (`FilesTraced`), that sockets a runtime made were captured by it
(`SocketsOwned`), that the workers take turns (`WorkersTakeTurns`) and that the steps
split at the recorded stop (`StopIsKept`). `FilesTraced` assumes nothing about how files
change; it is what comparing hashes before and after a run says about the time between:
that a difference is gone, not that there was none.

**Assumptions.** `TaskAssumption`, `PlanAssumption`, `BudgetAssumption`,
`BoundAssumption`, `LimitAssumption` and `KeysAssumption` are what `validatePlan` and
`ConfigureConcurrency` enforce. The other modules assume that their sets are finite
where the code counts them, that bounds are natural numbers, and that the values which
stand for "nothing" (`NoProc`, `NoConn`, `NoThread`, `Nobody`) are not values.
`DeliveryAssumption` also keeps "no decision yet" and a torn request file apart from
decisions, as JSON does. `WireAssumption` wants two request ids and a thread other than
the expected one: a peer chooses both freely. TLC evaluates all of them in every run.

**Only model-checked.** The liveness properties `ServingDrains` and
`ParentDeathStops`, since TLAPS has no rules for fairness here, and the violation of
`HelperGated`. Every other property that a run checks is a theorem, those of the spools
under `OneAtATime`.

## 6. Plan

1. *(done)* `TaskStore`, its runs, type correctness and slot ownership.
2. *(done)* `EventLog` and `SpoolPublish`: spools, publication, connection, with
   crashes of both sides and lost acknowledgements.
3. *(done)* The native side: service, wire evidence, delivery ledger, activation,
   attachment, controlled cases.
4. *(done)* Proofs about the ledger, the spools with their refinement, and the native
   side.
5. *(done)* `NoCrossTalk` and `ReadyEarned` of `WireEvidence` for any number of
   connections at once.
6. Go components without a module: the host's grant ledger and coordinator epochs,
   collection cursors and ACK receipts, gitops journal, install pins, the Go side of
   the native bridge.

**Not modelled.** Process groups and signals, CLI stream parsing, IPC framing, frame
and header parsing (its outcomes are the "bad" message and the gap), schema migration:
operating-system effects, text formats and one-off I/O with no state of their own.
In `NativeService` a clean-up that is cancelled before it leaves the backend scope stays
where it is (`abandoned`): the event loop of a closing service may still finalise that
generator (`asyncio.run` does before it returns), or the process may end first.
The trial guards and `auth_isolation` are pure comparisons. The acceptance scripts
under `tasks/` (`native_product_case.py`, `native_tui_case.py`,
`resource-acceptance.py`, the probes) run the modelled programs once in a fixed order
and compare what they print; their only state is the report they write.
