------------------------------ MODULE CaseRunner ------------------------------
(***************************************************************************)
(* The controlled native cases: resume_case.py, reconnect_case.py and      *)
(* partial_case.py, each on a NativeRuntime (proxy_native_runtime.py).  A  *)
(* case is prepared once (a preflight record freezes the source hashes),   *)
(* claims its case directory, starts a backend, a relay and a TUI, gathers *)
(* evidence, quits, cleans up and records "observed" or "unknown".         *)
(*                                                                         *)
(* The evidence is gathered between awaits in which the TUI, the backend,  *)
(* the retained worker, the files and the sockets all move.  Deadlines     *)
(* (RuntimeWindow) may expire at any await.  How a candidate is inferred   *)
(* from the wire is module Attachment; here the bridge is its outcome.     *)
(***************************************************************************)
EXTENDS Naturals, Sequences, SequencesExt, FiniteSets, TLC

CONSTANTS
    Runner,    \* processes that run the case of one preflight record
    Mode,      \* the kinds of case explored: "resume", "reconnect", "partial"
    Epochs,    \* connections the TUI opens in one runtime (bound)
    Total,     \* steps of the retained task
    Content,   \* what a protected file may contain
    Reviewed,  \* the content the binary must have (FIXED_NATIVE_SHA256)
    Edits,     \* changes of protected files, back to an old content included (bound)
    Apart,     \* protected files that are not as reviewed, at one time (bound)
    Oddities,  \* irregular events: deaths, gaps, turns, failed ps, crashes (bound)
    Together   \* changes of files in a behaviour with an irregular event (bound)

ASSUME CaseAssumption ==
    /\ Mode \subseteq {"resume", "reconnect", "partial"}
    /\ Reviewed \in Content
    /\ Epochs \in Nat \ {0} /\ Total \in Nat \ {0} /\ {Edits, Apart, Oddities, Together} \subseteq Nat

VARIABLES
    mode, record, source, caseDir, result,  \* the case and its files
    pc, run,          \* program points; locals of the runner that owns the case
    rt, endpoint, bridge,  \* NativeRuntime, its two sockets, its _CaptureBridge
    job, worker,      \* the retained task's directory and its workers
    odd, launched, turned, psFailed,     \* history
    edits, stale, slipped                \* history of the protected files

fileVars == <<mode, record, source, caseDir, result>>
rtVars   == <<rt, endpoint>>
jobVars  == <<job, worker>>
edited   == <<edits, stale, slipped>>
history  == <<odd, launched, turned, psFailed, edited>>
vars == <<fileVars, pc, run, rtVars, bridge, jobVars, history>>

Epoch == 1 .. Epochs
Socket == {"frontend", "backend"}

\* The protected files: the CLI binary, its config, and the sources of the case.
Part == {"binary", "config", "other"}

Stage == {"idle", "verified", "created", "ready", "start", "spawn", "backend", "proxy",
          "model", "wait", "silent", "status", "quit", "cut", "probe", "fresh", "final0", "quit0",
          "prompt", "inspect", "guard", "stopped", "stable", "quiet", "quiet2",
          "recheck", "model2", "work", "pquit", "final", "closing", "verdict",
          "done", "crashed"}

\* The runtime of the case under way: NativeRuntime.__init__.
NewRuntime(no) ==
    [no |-> no, backend |-> "none", tui |-> "none", relay |-> FALSE,
     expected |-> {}, captured |-> [s \in Socket |-> "absent"], closed |-> "no"]

\* _CaptureBridge.__init__; "live" is the epoch the inferer follows, 0 once invalid.
NewBridge ==
    [opened |-> 0, ended |-> [e \in Epoch |-> "no"], rows |-> [e \in Epoch |-> 0],
     proven |-> {}, shook |-> {}, live |-> 0, cand |-> 0, complete |-> TRUE, turns |-> 0]

\* The locals of run_resume_case, run_reconnect_case and run_partial_case.
NewRun ==
    [epoch |-> 0, new |-> 0, exact |-> FALSE, sent |-> FALSE, exit |-> "none",
     before |-> 0, after |-> 0, reason |-> "no", term |-> 0, class |-> "unknown",
     failed |-> FALSE, seen |-> 0, status |-> "none", first |-> 0, stop |-> 0,
     trace |-> TRUE, asked |-> 0]

TypeOK ==
    /\ mode \in Mode /\ caseDir \in BOOLEAN /\ result \in {"none", "unknown", "observed"}
    /\ source \in [Part -> Content] /\ Cardinality(record) <= 1
    /\ pc \in [Runner -> Stage]
    /\ endpoint \in [Socket -> {"absent", "own", "foreign"}]
    /\ rt.backend \in {"none", "up", "gone"} /\ rt.tui \in {"none", "up", "zero", "bad"}
    /\ bridge.opened \in 0 .. Epochs /\ bridge.cand \in 0 .. Epochs
    /\ job.steps \in Seq({1, 2}) /\ job.segment \in 0 .. 2
    /\ worker \in [{1, 2} -> {"none", "up", "armed", "gone"}]
    /\ odd \in 0 .. Oddities /\ edits \in 0 .. Edits /\ launched \subseteq Runner
    /\ stale \subseteq Part /\ slipped \subseteq {"binary", "config"}

Init ==
    /\ mode \in Mode /\ record = {} /\ source = [part \in Part |-> Reviewed]
    /\ caseDir = FALSE /\ result = "none"
    /\ pc = [r \in Runner |-> "idle"] /\ run = NewRun
    /\ rt = NewRuntime(1) /\ endpoint = [s \in Socket |-> "absent"] /\ bridge = NewBridge
    /\ job = [made |-> FALSE, steps |-> <<>>, segment |-> 0, status |-> "none"]
    /\ worker = [w \in {1, 2} |-> "none"]
    /\ edits = 0 /\ odd = 0 /\ launched = {} /\ turned = FALSE /\ psFailed = FALSE
    /\ stale = {} /\ slipped = {}

Odd == odd < Oddities /\ edits <= Together /\ odd' = odd + 1
Step(r, from, to) == pc[r] = from /\ pc' = [pc EXCEPT ![r] = to]

\* The except clause of the run_*_case functions; its finally starts elsewhere
\* for a reconnect case, which still has a TUI to quit and a class to report;
\* the other cases read none of their locals again.
Finally == IF mode = "reconnect" THEN "final0" ELSE "final"
Raise(r) ==
    /\ pc' = [pc EXCEPT ![r] = Finally]
    /\ run' = [(IF mode = "reconnect" THEN run ELSE NewRun) EXCEPT !.failed = TRUE]

-------------------------------------------------------------------------------
(* The preflight and the case directory *)

SocketsAbsent == \A s \in Socket : endpoint[s] = "absent"

\* require_frozen_binary
FrozenBinary == source["binary"] = Reviewed

\* prepare_resume_case: an O_EXCL record of the hashes, the binary's the known one.
PrepareResume ==
    /\ mode # "partial" /\ record = {} /\ ~caseDir /\ SocketsAbsent /\ FrozenBinary
    /\ record' = {source}
    /\ UNCHANGED <<mode, source, caseDir, result, pc, run, rtVars, bridge, jobVars, history>>

\* prepare_partial_case: the same, with the retained job's directory absent too.
PreparePartial ==
    /\ mode = "partial" /\ record = {} /\ ~caseDir /\ ~job.made /\ SocketsAbsent /\ FrozenBinary
    /\ record' = {source}
    /\ UNCHANGED <<mode, source, caseDir, result, pc, run, rtVars, bridge, jobVars, history>>

\* Mutant of HashesHold: only the binary and the config are compared.
HashesOfConfig ==
    \E frozen \in record : \A part \in {"binary", "config"} : frozen[part] = source[part]

\* _source_hashes against the record.
HashesHold == record = {source}

\* PartialCaseSpec.protection_hashes: the same files and the retained binary.
ProtectionHolds == HashesHold

\* verify_preflight, before and after the case directory is created.
PreflightHolds == HashesHold /\ SocketsAbsent

\* A refusal leaves no trace, and the command may be given again.
VerifyResume(r) ==
    /\ mode # "partial" /\ Step(r, "idle", "verified")
    /\ PreflightHolds /\ ~caseDir
    /\ UNCHANGED <<fileVars, run, rtVars, bridge, jobVars, history>>

\* The partial case compares its record and the hashes, nothing else.
VerifyPartial(r) ==
    /\ mode = "partial" /\ Step(r, "idle", "verified") /\ ProtectionHolds
    /\ UNCHANGED <<fileVars, run, rtVars, bridge, jobVars, history>>

\* Mutant of Create: an existing directory is accepted (exist_ok).
CreateAnyway(r) ==
    /\ Step(r, "verified", "created") /\ caseDir' = TRUE
    /\ UNCHANGED <<mode, record, source, result, run, rtVars, bridge, jobVars, history>>

\* CaseDirectory.create: mkdir fails when the directory exists.
Create(r) ==
    /\ IF caseDir
       THEN Step(r, "verified", "idle") /\ UNCHANGED caseDir
       ELSE Step(r, "verified", "created") /\ caseDir' = TRUE
    /\ UNCHANGED <<mode, record, source, result, run, rtVars, bridge, jobVars, history>>

\* The preflight once more: other processes may have come in between.
Recheck(r) ==
    /\ mode # "partial" /\ pc[r] = "created"
    /\ IF PreflightHolds
       THEN Step(r, "created", "ready") /\ UNCHANGED run
       ELSE Raise(r)
    /\ UNCHANGED <<fileVars, rtVars, bridge, jobVars, history>>

\* _create_job_dir, outside the try: an existing directory ends the command.
CreateJobDir(r) ==
    /\ mode = "partial" /\ pc[r] = "created"
    /\ pc' = [pc EXCEPT ![r] = IF job.made THEN "crashed" ELSE "ready"]
    /\ job' = [job EXCEPT !.made = TRUE]
    /\ UNCHANGED <<fileVars, run, rtVars, bridge, worker, history>>

\* A kill of the runner: nothing of its cleanup runs.
Crash(r) ==
    /\ pc[r] \notin {"idle", "done", "crashed"} /\ Odd
    /\ pc' = [pc EXCEPT ![r] = "crashed"]
    /\ UNCHANGED <<fileVars, run, rtVars, bridge, jobVars, launched, turned, psFailed, edited>>

-------------------------------------------------------------------------------
(* NativeRuntime.start and close *)

\* start: the sockets are absent and the binary is the known one.
Start(r) ==
    /\ pc[r] = "ready"
    /\ IF SocketsAbsent /\ FrozenBinary
       THEN Step(r, "ready", "start") /\ UNCHANGED run
       ELSE Raise(r)
    /\ UNCHANGED <<fileVars, rtVars, bridge, jobVars, history>>

\* snapshot_hashes: what close will compare with.
Snapshot == [part \in {"binary", "config"} |-> source[part]]

TakeSnapshot(r) ==
    /\ Step(r, "start", "spawn") /\ rt' = [rt EXCEPT !.expected = {Snapshot}]
    /\ UNCHANGED <<fileVars, run, endpoint, bridge, jobVars, history>>

\* The files that are not as the preflight recorded them, and those not as the
\* runtime's own snapshot has them.
OffRecord   == {part \in Part : \A frozen \in record : frozen[part] # source[part]}
OffSnapshot == {part \in {"binary", "config"} :
                  \A snapshot \in rt.expected : snapshot[part] # source[part]}

\* The backend is spawned from the files as they are now, or Popen fails.
Spawn(r) ==
    /\ pc[r] = "spawn"
    /\ \/ /\ Step(r, "spawn", "backend") /\ rt' = [rt EXCEPT !.backend = "up"]
          /\ launched' = launched \cup {r}
          /\ stale' = stale \cup OffRecord /\ slipped' = slipped \cup OffSnapshot
          /\ UNCHANGED <<run, odd>>
       \/ Odd /\ Raise(r) /\ UNCHANGED <<rt, launched, stale, slipped>>
    /\ UNCHANGED <<fileVars, endpoint, bridge, jobVars, edits, turned, psFailed>>

\* _wait_backend_ready: the backend lives and holds the socket it has bound,
\* where nothing was.
BackendReady == rt.backend = "up" /\ endpoint["backend"] = "absent"

\* The relay binds the frontend socket and the bridge is new.
StartRelay(r) ==
    /\ pc[r] = "backend"
    /\ IF BackendReady /\ endpoint["frontend"] = "absent"
       THEN /\ Step(r, "backend", "proxy")
            /\ endpoint' = [s \in Socket |-> "own"]
            /\ rt' = [rt EXCEPT !.relay = TRUE] /\ bridge' = NewBridge
            /\ UNCHANGED run
       ELSE Raise(r) /\ UNCHANGED <<rtVars, bridge>>
    /\ UNCHANGED <<fileVars, jobVars, history>>

\* OwnedEndpoint.capture adopts what is at the paths now; then the TUI is spawned.
SpawnTui(r) ==
    /\ Step(r, "proxy", IF mode = "partial" /\ rt.no = 1 THEN "model" ELSE "wait")
    /\ rt' = [rt EXCEPT !.captured = endpoint, !.tui = "up"]
    /\ UNCHANGED <<fileVars, run, endpoint, bridge, jobVars, history>>

\* A row that ends an epoch (_accept_rows, on_lifecycle): the first reason is
\* kept, the row is recorded unless the trace is full, and whatever the
\* inferer had is invalid.
Ended(b, e, reason) ==
    [b EXCEPT !.ended[e] = IF @ = "no" THEN reason ELSE @,
              !.rows[e] = IF b.complete THEN @ + 1 ELSE @,
              !.live = 0, !.cand = 0]

\* relay.close ends every open connection; an observer not closed yet (only
\* one leg has ended) adds its connection_close row.
EndAll(b, late) ==
    LET open == {e \in 1 .. b.opened : b.ended[e] = "no"}
        half == {e \in 1 .. b.opened : b.rows[e] = 1 /\ late}
    IN  [b EXCEPT !.ended = [e \in Epoch |-> IF e \in open THEN "disconnect" ELSE @[e]],
                  !.rows = [e \in Epoch |-> IF b.complete /\ e \in open \cup half
                                            THEN @[e] + 1 ELSE @[e]],
                  !.live = 0, !.cand = 0]

\* The first half of close; the frontend socket is unlinked if still the relay's.
CloseRelay(r) ==
    /\ Step(r, "final", "closing")
    /\ endpoint' = IF rt.relay /\ endpoint["frontend"] = "own"
                   THEN [endpoint EXCEPT !["frontend"] = "absent"] ELSE endpoint
    /\ \E late \in IF run.term = 0 THEN {FALSE} ELSE BOOLEAN :
         bridge' = IF rt.relay THEN EndAll(bridge, late) ELSE bridge
    /\ rt' = [rt EXCEPT !.relay = FALSE]
    /\ UNCHANGED <<fileVars, run, jobVars, history>>

\* cleanup_owned unlinks what still is the captured endpoint.
CleanupOwned ==
    [s \in Socket |-> IF endpoint[s] # "absent" /\ endpoint[s] = rt.captured[s]
                      THEN "absent" ELSE endpoint[s]]

\* The second half: PTYDriver.terminate, the backend, the endpoints, the
\* hashes of the binary and the config.  A process that does not die, and a
\* changed hash, raise after everything was tried.
AfterClose ==
    IF mode = "partial" /\ ~run.failed
    THEN IF rt.no = 1 THEN "stopped" ELSE "verdict"
    ELSE "verdict"

CloseRuntime(r) ==
    /\ pc[r] = "closing"
    /\ \E stuck \in BOOLEAN :
         LET ok == ~stuck /\ rt.expected \subseteq {Snapshot} IN
         /\ IF stuck THEN Odd /\ rt.tui = "up" ELSE UNCHANGED odd
         /\ rt' = [rt EXCEPT !.tui = IF @ = "up" /\ ~stuck THEN "bad" ELSE @,
                             !.backend = IF @ = "up" THEN "gone" ELSE @,
                             !.closed = IF ok THEN "ok" ELSE "raised"]
         /\ IF mode = "partial" /\ ~ok
            THEN run' = [run EXCEPT !.failed = TRUE] /\ Step(r, "closing", "verdict")
            ELSE UNCHANGED run /\ Step(r, "closing", AfterClose)
    /\ endpoint' = CleanupOwned
    /\ UNCHANGED <<fileVars, bridge, jobVars, launched, turned, psFailed, edited>>

-------------------------------------------------------------------------------
(* Evidence used by several cases *)

TuiUp == rt.tui = "up"

\* _require_current_candidate
CurrentCandidate ==
    /\ bridge.cand = run.epoch /\ TuiUp /\ bridge.ended[run.epoch] = "no"

\* validate_silent_resume
Silent == bridge.complete /\ bridge.turns = 0

\* _identities_ok
IdentitiesOk(e) == e \in bridge.proven

\* await_exit: the exit code, or none at the deadline.
ExitCodes == IF TuiUp THEN {"none"} ELSE {rt.tui}

\* A deadline expires where a step waits for something.
Timeout(r) ==
    /\ pc[r] \in {"backend", "proxy", "model", "wait", "inspect", "stopped", "stable",
                  "recheck", "model2", "work", "pquit"}
    /\ Raise(r)
    /\ UNCHANGED <<fileVars, rtVars, bridge, jobVars, history>>

Qualified(r, ok, to) ==
    /\ pc[r] = "wait" /\ bridge.cand # 0
    /\ IF ok
       THEN Step(r, "wait", to) /\ run' = [run EXCEPT !.epoch = bridge.cand]
       ELSE Raise(r)
    /\ UNCHANGED <<fileVars, rtVars, bridge, jobVars, history>>

-------------------------------------------------------------------------------
(* run_resume_case *)

ResumeCandidate(r) == mode = "resume" /\ Qualified(r, TuiUp, "silent")

SilentWindow(r) ==
    /\ pc[r] = "silent"
    /\ IF Silent /\ CurrentCandidate
       THEN Step(r, "silent", "status") /\ UNCHANGED run
       ELSE Raise(r)
    /\ UNCHANGED <<fileVars, rtVars, bridge, jobVars, history>>

\* The status screen shows one exact id or not; then /quit is written.
StatusThenQuit(r) ==
    /\ pc[r] = "status"
    /\ \E exact \in BOOLEAN :
         IF exact /\ CurrentCandidate
         THEN /\ Step(r, "status", "quit")
              /\ run' = [run EXCEPT !.exact = TRUE, !.sent = TRUE,
                                    !.before = bridge.rows[run.epoch]]
         ELSE Raise(r)
    /\ UNCHANGED <<fileVars, rtVars, bridge, jobVars, history>>

QuitEvidence(r) ==
    /\ pc[r] = "quit"
    /\ \E code \in ExitCodes :
         /\ pc' = [pc EXCEPT ![r] = "final"]
         /\ run' = [run EXCEPT !.exit = code, !.after = bridge.rows[run.epoch],
                               !.reason = bridge.ended[run.epoch],
                               !.failed = ~bridge.complete]
    /\ UNCHANGED <<fileVars, rtVars, bridge, jobVars, history>>

\* validate_resume_terminal
ResumeTerminal ==
    /\ run.sent /\ run.after > run.before /\ run.exit = "zero"
    /\ run.reason = "eof" /\ rt.closed = "ok"

-------------------------------------------------------------------------------
(* run_reconnect_case *)

\* The candidate counts only with both peers' identities proven.
InitialCandidate(r) ==
    mode = "reconnect" /\ Qualified(r, IdentitiesOk(bridge.cand), "cut")

\* runtime.disconnect(frontend) is refused for a connection that is gone.
Disconnect(r) ==
    /\ pc[r] = "cut"
    /\ IF bridge.ended[run.epoch] = "no"
       THEN /\ Step(r, "cut", "probe")
            /\ bridge' = Ended(bridge, run.epoch, "disconnect")
            /\ UNCHANGED run
       ELSE Raise(r) /\ UNCHANGED bridge
    /\ UNCHANGED <<fileVars, rtVars, jobVars, history>>

\* _new_epoch
NewEpoch == IF bridge.opened > run.epoch THEN bridge.opened ELSE 0

\* classify_reconnect (_handshake_complete is membership in "shook")
Classify(new, cand, exact) ==
    CASE bridge.ended[run.epoch] = "no" -> "unknown"
      [] new = 0 -> "old_epoch_only"
      [] new \notin bridge.shook \/ ~IdentitiesOk(new) -> "unknown"
      [] cand # new \/ ~exact -> "transport_reconnected"
      [] ~Silent -> "unknown"
      [] OTHER -> "P_reattached"

\* The probe loop ends with the evidence complete or at its deadline; only a
\* candidate on the new epoch is asked for its status.
Probe(r) ==
    /\ pc[r] = "probe"
    /\ IF bridge.cand # 0 /\ bridge.cand = NewEpoch
       THEN IF TuiUp
            THEN Step(r, "probe", "fresh") /\ run' = [run EXCEPT !.new = NewEpoch]
            ELSE Raise(r)
       ELSE /\ Step(r, "probe", "final0")
            /\ run' = [run EXCEPT !.new = NewEpoch,
                                  !.class = Classify(NewEpoch, bridge.cand, FALSE)]
    /\ UNCHANGED <<fileVars, rtVars, bridge, jobVars, history>>

\* validate_live_candidate
LiveCandidate(e) ==
    /\ bridge.cand = e /\ bridge.ended[e] = "no" /\ IdentitiesOk(e) /\ TuiUp

\* The status answer, the live candidate, the class and, for P_reattached, the
\* silence, the turns and the terminal rows: no await in between.
FreshStatus(r) ==
    /\ pc[r] = "fresh"
    /\ \E exact \in BOOLEAN :
         LET class == Classify(run.new, bridge.cand, exact)
             seen  == [run EXCEPT !.exact = exact]
         IN /\ pc' = [pc EXCEPT ![r] = "final0"]
            /\ run' = IF ~LiveCandidate(run.new)
                      THEN [seen EXCEPT !.failed = TRUE]
                      ELSE IF class = "P_reattached"
                           THEN [seen EXCEPT !.class = class, !.term = run.new,
                                             !.before = bridge.rows[run.new],
                                             !.failed = bridge.rows[run.new] # 0]
                           ELSE [seen EXCEPT !.class = class]
    /\ UNCHANGED <<fileVars, rtVars, bridge, jobVars, history>>

\* The finally clause: classify again what is unknown, quit a TUI still there.
FinalQuit(r) ==
    /\ pc[r] = "final0"
    /\ LET class == IF run.class = "unknown" /\ run.epoch # 0
                    THEN Classify(NewEpoch, bridge.cand, run.exact) ELSE run.class
       IN IF TuiUp
          THEN /\ Step(r, "final0", "quit0")
               /\ run' = [run EXCEPT !.class = class, !.sent = TRUE]
          ELSE /\ Step(r, "final0", "final")
               /\ run' = [run EXCEPT !.class = class,
                              !.exit = IF rt.tui = "none" THEN "none" ELSE rt.tui,
                              !.after = IF run.term = 0 THEN 0 ELSE bridge.rows[run.term]]
    /\ UNCHANGED <<fileVars, rtVars, bridge, jobVars, history>>

FinalExit(r) ==
    /\ Step(r, "quit0", "final")
    /\ \E code \in ExitCodes :
         run' = [run EXCEPT !.exit = code,
                            !.after = IF run.term = 0 THEN 0 ELSE bridge.rows[run.term]]
    /\ UNCHANGED <<fileVars, rtVars, bridge, jobVars, history>>

\* validate_quit_boundary, evaluated after the close: a row the close added is
\* a count that changed after its capture; an exit missed before is read now.
QuitBoundary ==
    /\ run.term # 0 /\ run.before = 0 /\ run.after > 0 /\ run.sent
    /\ (IF run.exit = "none" THEN rt.tui ELSE run.exit) = "zero"
    /\ bridge.ended[run.term] = "eof" /\ run.after = bridge.rows[run.term]

-------------------------------------------------------------------------------
(* run_partial_case *)

\* _process_birth answers None both for a process that is gone and for a ps
\* that failed: the caller cannot tell.
Ps(fails) == IF fails THEN Odd /\ psFailed' = TRUE ELSE UNCHANGED <<odd, psFailed>>

\* inspect_retained: the view retained-inspect derives from the step files.
View == <<IF Len(job.steps) = Total THEN "completed" ELSE job.status,
          job.segment, Len(job.steps)>>

\* Mutant of WorkerStopped: a recorded worker counts as stopped once the
\* runtime that owned it was closed.
WorkerStopAssumed(w, psFails) == worker[w] # "none"

\* _retained_worker_stopped
WorkerStopped(w, psFails) == worker[w] = "gone" \/ psFails

\* _read_effective_model over the backend's own socket, and the identity check.
EffectiveModel(r) ==
    /\ pc[r] = "model"
    /\ IF rt.backend = "up" THEN Step(r, "model", "wait") /\ UNCHANGED run ELSE Raise(r)
    /\ UNCHANGED <<fileVars, rtVars, bridge, jobVars, history>>

\* _wait_candidate, of either runtime
PartialCandidate(r) ==
    /\ mode = "partial"
    /\ Qualified(r, bridge.complete, IF rt.no = 1 THEN "prompt" ELSE "quiet")

\* build_start_prompt; the model is expected to run retained-start.
StartPrompt(r) ==
    /\ pc[r] = "prompt"
    /\ IF TuiUp
       THEN Step(r, "prompt", "inspect") /\ run' = [run EXCEPT !.asked = 1]
       ELSE Raise(r)
    /\ UNCHANGED <<fileVars, rtVars, bridge, jobVars, history>>

\* _inspect_until: running, in its first segment, some steps done but not all.
InspectPartial(r) ==
    /\ Step(r, "inspect", "guard")
    /\ job.status = "running" /\ Len(job.steps) \in 1 .. Total - 1
    /\ run' = [run EXCEPT !.seen = Len(job.steps)]
    /\ UNCHANGED <<fileVars, rtVars, bridge, jobVars, history>>

\* _require_clean_quit_boundary
CleanBoundary ==
    TuiUp /\ bridge.rows[run.epoch] = 0 /\ bridge.ended[run.epoch] = "no"

\* capture_parent_guard: the worker lives and is the backend's own child.
ParentGuard == worker[1] \in {"up", "armed"} /\ rt.backend = "up"

\* _prefix_snapshot of an inspected view: a step published since is an extra
\* file, which the snapshot refuses.
PrefixIs(count) == Len(job.steps) = count

\* _runtime_ownership: both endpoints were captured.
Owned == \A s \in Socket : rt.captured[s] # "absent"

\* What is recorded of the running partial task, and the first /quit.
GuardThenQuit(r) ==
    /\ pc[r] = "guard"
    /\ IF Owned /\ ParentGuard /\ PrefixIs(run.seen) /\ CleanBoundary
       THEN Step(r, "guard", "pquit") /\ run' = [run EXCEPT !.first = run.seen]
       ELSE Raise(r)
    /\ UNCHANGED <<fileVars, rtVars, bridge, jobVars, history>>

\* _drain_until_terminal
Drained == bridge.rows[run.epoch] > 0

\* await_exit, the drain, and close; only the second exit must be 0
\* at once, the first is judged with the stop.
QuitDrained(r) ==
    /\ pc[r] = "pquit" /\ Drained
    /\ \E code \in ExitCodes :
         IF rt.no = 2 /\ code # "zero"
         THEN Raise(r)
         ELSE Step(r, "pquit", "final") /\ run' = [run EXCEPT !.exit = code]
    /\ UNCHANGED <<fileVars, rtVars, bridge, jobVars, history>>

\* The inspection after the close: the worker seen before is gone.
InspectStopped(r) ==
    /\ Step(r, "stopped", "stable")
    /\ \E fails \in BOOLEAN : WorkerStopped(1, fails) /\ Ps(fails)
    /\ View[1] # "completed" /\ View[2] = 1
    /\ run' = [run EXCEPT !.seen = View[3], !.status = View[1]]
    /\ UNCHANGED <<fileVars, rtVars, bridge, jobVars, launched, turned, edited>>

\* _owned_runtime_stopped
RuntimeStopped(psFails) ==
    /\ rt.backend # "up" \/ psFails
    /\ rt.tui # "up" \/ psFails
    /\ SocketsAbsent

\* _manifest_fingerprint: nothing of the first segment's task has changed.
FingerprintIs(count) == View = <<run.status, 1, count>>

\* The fingerprint is stable, everything owned has stopped, no step was lost:
\* the second runtime may start.
StopIsStable(r) ==
    /\ pc[r] = "stable"
    /\ \E fails \in BOOLEAN :
         /\ Ps(fails)
         /\ IF /\ FingerprintIs(run.seen)
               /\ run.exit = "zero" /\ RuntimeStopped(fails) /\ WorkerStopped(1, fails)
               /\ run.seen >= run.first
            THEN /\ Step(r, "stable", "ready")
                 /\ run' = [run EXCEPT !.stop = run.seen, !.epoch = 0,
                                       !.trace = bridge.complete]
                 /\ rt' = NewRuntime(2)
            ELSE Raise(r) /\ UNCHANGED rt
    /\ UNCHANGED <<fileVars, endpoint, bridge, jobVars, launched, turned, edited>>

\* _validate_quiet
Quiet == bridge.complete /\ bridge.turns = 0

\* quiet_before: the prefix is the stopped one.
QuietBegins(r) ==
    /\ pc[r] = "quiet"
    /\ IF Owned /\ PrefixIs(run.stop)
       THEN Step(r, "quiet", "quiet2") /\ run' = [run EXCEPT !.status = View[1]]
       ELSE Raise(r)
    /\ UNCHANGED <<fileVars, rtVars, bridge, jobVars, history>>

\* The end of the quiet window, and /status.
QuietEnds(r) ==
    /\ pc[r] = "quiet2"
    /\ IF Quiet /\ FingerprintIs(run.stop) /\ TuiUp
       THEN Step(r, "quiet2", "recheck") /\ UNCHANGED run
       ELSE Raise(r)
    /\ UNCHANGED <<fileVars, rtVars, bridge, jobVars, history>>

\* The status answer and the second _validate_quiet.
QuietAfterStatus(r) ==
    /\ pc[r] = "recheck"
    /\ IF bridge.cand = run.epoch /\ TuiUp /\ Quiet
       THEN Step(r, "recheck", "model2") /\ run' = [run EXCEPT !.exact = TRUE]
       ELSE Raise(r)
    /\ UNCHANGED <<fileVars, rtVars, bridge, jobVars, history>>

\* The effective model once more, and build_continue_prompt.
ContinuePrompt(r) ==
    /\ pc[r] = "model2"
    /\ IF rt.backend = "up" /\ TuiUp
       THEN Step(r, "model2", "work") /\ run' = [run EXCEPT !.asked = 2]
       ELSE Raise(r)
    /\ UNCHANGED <<fileVars, rtVars, bridge, jobVars, history>>

\* Completed in segment 2, worker gone, prefix kept; then the second /quit.
InspectContinued(r) ==
    /\ pc[r] = "work" /\ View = <<"completed", 2, Total>>
    /\ \E fails \in BOOLEAN : WorkerStopped(2, fails) /\ Ps(fails)
    /\ IF CleanBoundary THEN Step(r, "work", "pquit") /\ UNCHANGED run ELSE Raise(r)
    /\ UNCHANGED <<fileVars, rtVars, bridge, jobVars, launched, turned, edited>>

-------------------------------------------------------------------------------
(* The verdict *)

\* Mutant of ResumeVerdict: the silent window is taken for the whole run.
ResumeVerdictEarly == ~run.failed /\ ResumeTerminal /\ run.exact

\* The conjunction of run_resume_case's last statement.
ResumeVerdict ==
    ~run.failed /\ ResumeTerminal /\ run.exact /\ bridge.complete /\ bridge.turns = 0

\* The conjunction of run_reconnect_case's last statement.
ReconnectVerdict ==
    /\ ~run.failed /\ QuitBoundary /\ run.class = "P_reattached" /\ run.exact
    /\ bridge.complete /\ bridge.turns = 0 /\ rt.closed = "ok"

\* The final gate of run_partial_case.
PartialVerdict ==
    /\ ~run.failed /\ rt.no = 2 /\ rt.closed = "ok"
    /\ run.trace /\ bridge.complete /\ Len(job.steps) = Total

\* The hashes once more, then the exclusive result record.
Verdict(r) ==
    /\ Step(r, "verdict", "done")
    /\ \E fails \in BOOLEAN :
         /\ Ps(fails) /\ (fails => mode = "partial")
         /\ LET judged == \/ mode = "resume" /\ ResumeVerdict
                          \/ mode = "reconnect" /\ ReconnectVerdict
                          \/ mode = "partial" /\ PartialVerdict /\ RuntimeStopped(fails)
            IN result' = IF judged /\ ProtectionHolds THEN "observed" ELSE "unknown"
    /\ UNCHANGED <<mode, record, source, caseDir, run, rtVars, bridge, jobVars,
                   launched, turned, edited>>

-------------------------------------------------------------------------------
(* The TUI and its connections, as the bridge sees them *)

\* What happens around a case is followed until its verdict can no longer
\* change: it is recorded, its runner was killed, or a failure made it unknown.
UnderWay == ~run.failed /\ \A r \in Runner : pc[r] \notin {"done", "crashed"}

RelayServes == UnderWay /\ rt.relay /\ rt.backend = "up"

\* on_connect and the inferer's _start_epoch: an epoch that opens while the
\* previous one is still valid invalidates both.  A peer whose identity cannot
\* be proved is recorded and invalidates too.
Connect ==
    /\ RelayServes /\ TuiUp /\ bridge.opened < Epochs
    /\ \E proved \in BOOLEAN :
         /\ IF proved THEN UNCHANGED odd ELSE Odd
         /\ LET e == bridge.opened + 1 IN
            bridge' = [bridge EXCEPT
                         !.opened = e, !.cand = 0,
                         !.proven = IF proved THEN @ \cup {e} ELSE @,
                         !.live = IF proved /\ @ = 0 THEN e ELSE 0]
    /\ UNCHANGED <<fileVars, pc, run, rtVars, jobVars, launched, turned, psFailed, edited>>

\* _handshake_state reaches "valid" for the newest connection.
Handshake ==
    /\ RelayServes /\ TuiUp /\ bridge.opened > 0
    /\ bridge.ended[bridge.opened] = "no" /\ bridge.opened \notin bridge.shook
    /\ bridge' = [bridge EXCEPT !.shook = @ \cup {bridge.opened}]
    /\ UNCHANGED <<fileVars, pc, run, rtVars, jobVars, history>>

\* The inferer qualifies a candidate (module Attachment says when).
Attach ==
    /\ RelayServes /\ TuiUp /\ bridge.complete
    /\ bridge.live # 0 /\ bridge.live \in bridge.shook /\ bridge.cand = 0
    /\ bridge' = [bridge EXCEPT !.cand = @ + bridge.live]
    /\ UNCHANGED <<fileVars, pc, run, rtVars, jobVars, history>>

\* A turn/start nobody prompted passes the relay: it is counted, or the trace
\* was full and says so.
StrayTurn ==
    /\ RelayServes /\ TuiUp /\ Odd /\ bridge.turns = 0
    /\ \E e \in 1 .. bridge.opened : bridge.ended[e] = "no"
    /\ \E counted \in BOOLEAN :
         bridge' = IF counted THEN [bridge EXCEPT !.turns = 1]
                              ELSE [bridge EXCEPT !.complete = FALSE, !.live = 0, !.cand = 0]
    /\ turned' = TRUE
    /\ UNCHANGED <<fileVars, pc, run, rtVars, jobVars, launched, psFailed, edited>>

\* One leg of a connection reaches its end: with the TUI or the backend gone, or
\* out of turn.  Only the reconnect case distinguishes one row from two.
LegEnds(e) ==
    /\ UnderWay /\ rt.relay /\ e <= bridge.opened
    /\ bridge.rows[e] < IF mode = "reconnect" THEN 2 ELSE 1
    /\ IF TuiUp /\ rt.backend = "up" /\ bridge.ended[e] = "no" THEN Odd ELSE UNCHANGED odd
    /\ bridge' = Ended(bridge, e, "eof")
    /\ UNCHANGED <<fileVars, pc, run, rtVars, jobVars, launched, turned, psFailed, edited>>

\* on_gap
Gap(e) ==
    /\ UnderWay /\ rt.relay /\ e <= bridge.opened /\ bridge.complete /\ Odd
    /\ bridge' = [Ended([bridge EXCEPT !.complete = FALSE], e, "gap") EXCEPT !.rows = @]
    /\ UNCHANGED <<fileVars, pc, run, rtVars, jobVars, launched, turned, psFailed, edited>>

\* The TUI exits: because /quit was written, or by itself.
QuitWritten == \E r \in Runner : pc[r] \in {"quit", "quit0", "pquit"}
TuiExits ==
    /\ UnderWay /\ TuiUp
    /\ IF QuitWritten THEN UNCHANGED odd ELSE Odd
    /\ \E code \in {"zero", "bad"} : rt' = [rt EXCEPT !.tui = code]
    /\ UNCHANGED <<fileVars, pc, run, endpoint, bridge, jobVars, launched, turned, psFailed, edited>>

BackendDies ==
    /\ UnderWay /\ rt.backend = "up" /\ Odd
    /\ rt' = [rt EXCEPT !.backend = "gone"]
    /\ UNCHANGED <<fileVars, pc, run, endpoint, bridge, jobVars, launched, turned, psFailed, edited>>

\* Somebody replaces or creates a file at a socket's path.
Occupy(s) ==
    /\ UnderWay /\ endpoint[s] # "foreign" /\ Odd
    /\ endpoint' = [endpoint EXCEPT ![s] = "foreign"]
    /\ UNCHANGED <<fileVars, pc, run, rt, bridge, jobVars, launched, turned, psFailed, edited>>

\* Somebody changes a protected file: to anything else, an earlier content
\* included.  Nothing in the code prevents it; what it hashes is all it knows.
Edit(part) ==
    /\ UnderWay /\ edits < Edits /\ (odd = 0 \/ edits < Together) /\ edits' = edits + 1
    /\ \E content \in Content \ {source[part]} :
         source' = [source EXCEPT ![part] = content]
    /\ Cardinality({p \in Part : source'[p] # Reviewed}) <= Apart
    /\ UNCHANGED <<mode, record, caseDir, result, pc, run, rtVars, bridge, jobVars,
                   odd, launched, turned, psFailed>>
    /\ stale' = stale \cap OffRecord'
    /\ slipped' = IF rt.closed = "no" THEN slipped \cap OffSnapshot' ELSE slipped

-------------------------------------------------------------------------------
(* The retained worker, a child of the backend it was started under *)

ParentUp(w) == rt.no = w /\ rt.backend = "up"

\* retained-start in an empty directory; retained-resume of segment 1, under the
\* lock the first worker holds as long as it lives.
WorkerStart(w) ==
    /\ UnderWay /\ run.asked = w /\ worker[w] = "none" /\ ParentUp(w)
    /\ w = 2 => worker[1] = "gone" /\ job.segment = 1 /\ Len(job.steps) < Total
    /\ worker' = [worker EXCEPT ![w] = "up"]
    /\ job' = [job EXCEPT !.segment = w, !.status = "running"]
    /\ UNCHANGED <<fileVars, pc, run, rtVars, bridge, history>>

\* The last check of the parent before a step is published.
WorkerChecks(w) ==
    /\ UnderWay /\ worker[w] = "up" /\ ParentUp(w) /\ Len(job.steps) < Total
    /\ worker' = [worker EXCEPT ![w] = "armed"]
    /\ UNCHANGED <<fileVars, pc, run, rtVars, bridge, job, history>>

WorkerPublishes(w) ==
    /\ UnderWay /\ worker[w] = "armed"
    /\ worker' = [worker EXCEPT ![w] = "up"]
    /\ job' = [job EXCEPT !.steps = Append(@, w)]
    /\ UNCHANGED <<fileVars, pc, run, rtVars, bridge, history>>

\* It ends when it is done or its parent has gone, or it is killed.
WorkerEnds(w) ==
    /\ UnderWay
    /\ \/ /\ worker[w] = "up" /\ (Len(job.steps) = Total \/ ~ParentUp(w))
          /\ job' = [job EXCEPT !.status = IF Len(job.steps) = Total
                                           THEN "completed" ELSE "interrupted"]
          /\ UNCHANGED odd
       \/ worker[w] \in {"up", "armed"} /\ Odd /\ UNCHANGED job
    /\ worker' = [worker EXCEPT ![w] = "gone"]
    /\ UNCHANGED <<fileVars, pc, run, rtVars, bridge, launched, turned, psFailed, edited>>

-------------------------------------------------------------------------------
Common(r) ==
    \/ Create(r) \/ Crash(r) \/ Start(r) \/ TakeSnapshot(r) \/ Spawn(r)
    \/ StartRelay(r) \/ SpawnTui(r) \/ Timeout(r) \/ CloseRelay(r) \/ CloseRuntime(r) \/ Verdict(r)

ResumeCase(r) ==
    \/ VerifyResume(r) \/ Recheck(r) \/ ResumeCandidate(r)
    \/ SilentWindow(r) \/ StatusThenQuit(r) \/ QuitEvidence(r)

ReconnectCase(r) ==
    \/ InitialCandidate(r) \/ Disconnect(r) \/ Probe(r) \/ FreshStatus(r) \/ FinalQuit(r) \/ FinalExit(r)

PartialCase(r) ==
    \/ VerifyPartial(r) \/ CreateJobDir(r) \/ PartialCandidate(r)
    \/ EffectiveModel(r) \/ StartPrompt(r) \/ InspectPartial(r) \/ GuardThenQuit(r)
    \/ QuitDrained(r) \/ InspectStopped(r) \/ StopIsStable(r)
    \/ QuietBegins(r) \/ QuietEnds(r) \/ QuietAfterStatus(r) \/ ContinuePrompt(r)
    \/ InspectContinued(r)

Environment ==
    \/ Connect \/ Handshake \/ Attach \/ StrayTurn \/ TuiExits \/ BackendDies
    \/ \E e \in Epoch : LegEnds(e) \/ Gap(e)
    \/ \E s \in Socket : Occupy(s)
    \/ \E part \in Part : Edit(part)
    \/ \E w \in {1, 2} :
         WorkerStart(w) \/ WorkerChecks(w) \/ WorkerPublishes(w) \/ WorkerEnds(w)

Next ==
    \/ \E r \in Runner : Common(r) \/ ResumeCase(r) \/ ReconnectCase(r) \/ PartialCase(r)
    \/ PrepareResume \/ PreparePartial
    \/ Environment

Spec == Init /\ [][Next]_vars

Symmetry == Permutations(Runner)

-------------------------------------------------------------------------------
(* Properties *)

\* One preflight record is executed at most once: however the runners that read
\* it interleave, and also after one of them was killed in the middle of its
\* case, at most one ever spawns a backend (CaseDirectory.create, "exclusive").
OneRunner == Cardinality(launched) <= 1

\* A resume or reconnect case recorded as observed ran without any client turn,
\* from the first connection to the last, the status, quit and close phases
\* included (run_resume_case and run_reconnect_case, "model_turns" == 0).
ObservedIsQuiet == result = "observed" /\ mode # "partial" => ~turned

\* What an observed case may say of the files it ran on: none that some backend
\* was started with differs from the preflight's record, unless it was put back
\* before the last hashes; the binary and the config are also those the runtime
\* hashed, unless put back before that runtime's close.  (A file changed and put
\* back between two hashes is not noticed: nothing looks at it in between.)
\* And the case left neither its processes nor its sockets behind.
ObservedIsReviewed ==
    result = "observed" =>
        /\ stale = {} /\ slipped = {}
        /\ rt.backend # "up" /\ ~TuiUp
        /\ \A s \in Socket : endpoint[s] # "own"

\* In an observed partial case the second segment continues the stop that was
\* judged: the first worker published nothing after it and the steps are the
\* stopped prefix followed by the second worker's, provided every ps answered
\* (a failed ps reads as a stopped worker).
ContinuesTheStop ==
    result = "observed" /\ mode = "partial" /\ ~psFailed =>
        /\ run.stop \in run.first .. Total - 1
        /\ job.steps = [i \in 1 .. Total |-> IF i <= run.stop THEN 1 ELSE 2]

===============================================================================
