-------------------------- MODULE CaseRunnerProofs --------------------------
(***************************************************************************)
(* Proofs about the controlled cases: one preflight record is executed at  *)
(* most once, and what the record "observed" claims is true of the run.    *)
(*                                                                         *)
(* The case directory is the claim: at most one runner is past its         *)
(* creation, so the run, the runtime and the bridge have one owner, and    *)
(* the invariant can speak of the owner's program point.  A recorded       *)
(* result ends everything the claims are about.                            *)
(***************************************************************************)
EXTENDS CaseRunner, FiniteSetTheorems, TLAPS

\* Program points of a runner that does not hold the case directory, or was
\* killed; of one that has not started its relay, or not taken the snapshot of
\* its runtime; of one whose TUI was spawned and nothing has failed; between the
\* two runtimes of a partial case; and of the first of them.
Free     == {"idle", "verified", "crashed"}
Owning   == Stage \ Free
Starting == {"created", "ready", "start", "spawn", "backend"}
Early    == {"created", "ready", "start"}
Between  == {"stopped", "stable"}
Working  == Owning \ {"verdict", "done"}
Serving  == {"model", "wait", "silent", "status", "quit", "cut", "probe", "fresh",
             "prompt", "inspect", "guard", "quiet", "quiet2", "recheck", "model2",
             "work", "pquit"}
Leaving  == {"final0", "quit0", "final", "closing"}
FirstRun == {"prompt", "inspect", "guard", "stopped", "stable"}

Hashes    == [Part -> Content]
Snapshots == [{"binary", "config"} -> Content]

\* The shape of the records, and the types of what the invariant reads.
RunShape ==
    /\ DOMAIN run = {"epoch", "new", "exact", "sent", "exit", "before", "after", "reason",
                     "term", "class", "failed", "seen", "status", "first", "stop",
                     "trace", "asked"}
    /\ run.failed \in BOOLEAN
    /\ run.seen \in Nat /\ run.first \in Nat /\ run.stop \in Nat

RtShape ==
    /\ DOMAIN rt = {"no", "backend", "tui", "relay", "expected", "captured", "closed"}
    /\ rt.no \in {1, 2} /\ rt.relay \in BOOLEAN
    /\ rt.backend \in {"none", "up", "gone"} /\ rt.tui \in {"none", "up", "zero", "bad"}
    /\ rt.captured \in [Socket -> {"absent", "own", "foreign"}]
    /\ rt.expected \in SUBSET Snapshots

BridgeShape ==
    /\ DOMAIN bridge = {"opened", "ended", "rows", "proven", "shook", "live", "cand",
                        "complete", "turns"}
    /\ bridge.opened \in 0 .. Epochs /\ bridge.live \in 0 .. Epochs
    /\ bridge.cand \in 0 .. Epochs
    /\ bridge.complete \in BOOLEAN /\ bridge.turns \in {0, 1}

JobShape ==
    /\ DOMAIN job = {"made", "steps", "segment", "status"}
    /\ job.steps \in Seq({1, 2}) /\ job.segment \in 0 .. 2
    /\ worker \in [{1, 2} -> {"none", "up", "armed", "gone"}]

FileShape ==
    /\ mode \in Mode /\ caseDir \in BOOLEAN /\ result \in {"none", "unknown", "observed"}
    /\ source \in Hashes /\ record \in SUBSET Hashes
    /\ edits \in 0 .. Edits /\ stale \in SUBSET Part /\ slipped \in SUBSET {"binary", "config"}
    /\ \A f, g \in record : f = g
    /\ endpoint \in [Socket -> {"absent", "own", "foreign"}]

HistoryShape ==
    /\ odd \in 0 .. Oddities /\ launched \subseteq Runner
    /\ turned \in BOOLEAN /\ psFailed \in BOOLEAN

PcShape == pc \in [Runner -> Stage]

Shapes ==
    /\ RunShape /\ RtShape /\ BridgeShape /\ JobShape
    /\ FileShape /\ HistoryShape /\ PcShape

\* The case directory has one owner, for ever.
Owner(r) == pc[r] \in Owning \/ r \in launched
Claim ==
    /\ \A r \in Runner : Owner(r) => caseDir
    /\ \A r, s \in Runner : Owner(r) /\ Owner(s) => r = s

\* A result is the end of its owner's run.
ResultTold == result # "none" => \E r \in Runner : pc[r] = "done"

\* The stages of one kind of case are not those of another.
StagesOfMode ==
    \A r \in Runner :
        /\ pc[r] \in {"silent", "status", "quit"} => mode = "resume"
        /\ pc[r] \in {"cut", "probe", "fresh", "final0", "quit0"} => mode = "reconnect"
        /\ pc[r] \in FirstRun => mode = "partial" /\ rt.no = 1

\* In a case with one runtime, every turn that left the frontend is in the
\* bridge, and none left it before there was a relay.
TurnsCounted ==
    mode # "partial" =>
        /\ turned => bridge.turns = 1 \/ ~bridge.complete
        /\ ~caseDir \/ (\E r \in Runner : pc[r] \in Starting) => ~rt.relay /\ ~turned

\* A file some backend was started with changed is changed still, or it would no
\* longer count; and one that slipped past the snapshot of a runtime is still
\* changed, or made that runtime's close fail.
FilesTraced ==
    /\ stale \subseteq OffRecord
    /\ slipped # {} =>
         \/ rt.closed = "raised"
         \/ rt.closed = "no" /\ rt.expected # {} /\ slipped \subseteq OffSnapshot
    /\ record = {} => stale = {} /\ \A r \in Runner : pc[r] = "idle"
    /\ ~caseDir => rt.expected = {}
    /\ \A r \in Runner :
         /\ pc[r] \in Early => rt.expected = {}
         /\ pc[r] = "spawn" => rt.expected # {}
         /\ pc[r] \in Between => rt.closed = "ok"
         /\ pc[r] \in Working => rt.closed # "raised"

\* A clean close leaves no process, and only a runtime not closed is started.
CloseIsTrue ==
    /\ rt.closed = "ok" => rt.backend # "up" /\ rt.tui # "up"
    /\ ~caseDir => rt.closed = "no"
    /\ \A r \in Runner : pc[r] \in Starting \cup {"proxy"} => rt.closed = "no"

\* A socket the runtime made and still has was captured by it, unless the case
\* has failed; after the close there is none.
SocketsOwned ==
    \A r \in Runner, s \in Socket :
        /\ pc[r] \in Serving \/ (pc[r] \in Leaving /\ ~run.failed) =>
             (endpoint[s] = "own" => rt.captured[s] = "own")
        /\ pc[r] \in {"verdict", "stopped", "stable"} /\ ~run.failed => endpoint[s] # "own"

\* The workers take turns, and never publish more than the task has.
WorkersTakeTurns ==
    /\ worker[2] # "none" => worker[1] = "gone"
    /\ Len(job.steps) <= Total
    /\ \A w \in {1, 2} : worker[w] = "armed" => Len(job.steps) < Total

\* The first runtime sees the first worker only.  The second one starts when
\* that worker is gone, from the steps it left.
StopIsKept ==
    mode = "partial" =>
        /\ rt.no = 1 =>
             worker[2] = "none" /\ \A i \in 1 .. Len(job.steps) : job.steps[i] = 1
        /\ rt.no = 2 /\ ~run.failed /\ ~psFailed =>
             /\ worker[1] = "gone"
             /\ run.stop \in run.first .. Total - 1 /\ run.stop <= Len(job.steps)
             /\ \A i \in 1 .. Len(job.steps) :
                    job.steps[i] = IF i <= run.stop THEN 1 ELSE 2
        /\ (\E r \in Runner : pc[r] = "stable") => run.status # "completed"

CaseInv ==
    /\ Shapes /\ Claim /\ ResultTold /\ StagesOfMode
    /\ TurnsCounted /\ FilesTraced /\ CloseIsTrue /\ SocketsOwned
    /\ WorkersTakeTurns /\ StopIsKept
    /\ ObservedIsQuiet /\ ObservedIsReviewed /\ ContinuesTheStop

-----------------------------------------------------------------------------
(* Steps *)

USE CaseAssumption

\* The step of a runner, and a step of anything else.
RunnerStep(r) == Common(r) \/ ResumeCase(r) \/ ReconnectCase(r) \/ PartialCase(r)
OtherStep == PrepareResume \/ PreparePartial \/ Environment

\* The except clause marks the run as failed and goes to the finally clause.
LEMMA RaiseEffect ==
    ASSUME RunShape, PcShape, NEW r \in Runner, Raise(r)
    PROVE  /\ RunShape' /\ run'.failed = TRUE
           /\ PcShape' /\ pc'[r] \in {"final0", "final"}
           /\ pc'[r] = "final0" => mode = "reconnect"
           /\ \A s \in Runner : s # r => pc'[s] = pc[s]
<1>1. run' = [run EXCEPT !.failed = TRUE] \/ run' = [NewRun EXCEPT !.failed = TRUE]
  BY DEF Raise
<1>2. RunShape' /\ run'.failed = TRUE
  <2>1. CASE run' = [run EXCEPT !.failed = TRUE]
    BY <2>1 DEF RunShape
  <2>2. CASE run' = [NewRun EXCEPT !.failed = TRUE]
    BY <2>2 DEF RunShape, NewRun
  <2>q. QED
    BY <1>1, <2>1, <2>2
<1>3. pc' = [pc EXCEPT ![r] = Finally] /\ Finally \in {"final0", "final"}
      /\ (Finally = "final0" => mode = "reconnect")
  BY DEF Raise, Finally
<1>q. QED
  BY <1>2, <1>3 DEF PcShape, Stage

\* The locals of a run keep their shape.
LEMMA RunShaped ==
    ASSUME Shapes, NEW r \in Runner, RunnerStep(r)
    PROVE  RunShape'
<1>0. Raise(r) => RunShape'
  BY RaiseEffect DEF Shapes
<1>1. CASE Start(r)
  BY <1>1, <1>0 DEF Start, Step, fileVars, rtVars, jobVars, history, Shapes, RunShape,
        BridgeShape
<1>1a. CASE TakeSnapshot(r)
  BY <1>1a DEF TakeSnapshot, Step, fileVars, jobVars, history, Shapes, RunShape,
        BridgeShape
<1>1b. CASE Spawn(r)
  BY <1>1b, <1>0 DEF Spawn, Odd, Step, fileVars, jobVars, Shapes, RunShape, BridgeShape
<1>2. CASE StartRelay(r)
  BY <1>2, <1>0 DEF StartRelay, Step, NewBridge, rtVars, fileVars, jobVars, history,
        Shapes, RunShape, BridgeShape
<1>3. CASE Timeout(r)
  BY <1>3, <1>0 DEF Timeout, fileVars, rtVars, jobVars, history, Shapes, RunShape,
        BridgeShape
<1>4. CASE CloseRuntime(r)
  BY <1>4, ZenonT(60) DEF CloseRuntime, Odd, Step, AfterClose, CleanupOwned, fileVars, jobVars,
        Shapes, RunShape, BridgeShape
<1>5. CASE Recheck(r)
  BY <1>5, <1>0 DEF Recheck, Step, fileVars, rtVars, jobVars, history, Shapes,
        RunShape, BridgeShape
<1>6. CASE ResumeCandidate(r)
  BY <1>6, <1>0 DEF ResumeCandidate, Qualified, Step, fileVars, rtVars, jobVars,
        history, Shapes, RunShape, BridgeShape
<1>7. CASE SilentWindow(r)
  BY <1>7, <1>0 DEF SilentWindow, Step, fileVars, rtVars, jobVars, history, Shapes,
        RunShape, BridgeShape
<1>8. CASE StatusThenQuit(r)
  BY <1>8, <1>0, ZenonT(60) DEF StatusThenQuit, Step, fileVars, rtVars, jobVars, history, Shapes,
        RunShape, BridgeShape
<1>9. CASE QuitEvidence(r)
  BY <1>9 DEF QuitEvidence, fileVars, rtVars, jobVars, history, Shapes, RunShape,
        BridgeShape
<1>10. CASE InitialCandidate(r)
  BY <1>10, <1>0 DEF InitialCandidate, Qualified, Step, fileVars, rtVars, jobVars,
        history, Shapes, RunShape, BridgeShape
<1>11. CASE Disconnect(r)
  BY <1>11, <1>0 DEF Disconnect, Step, Ended, fileVars, rtVars, jobVars, history,
        Shapes, RunShape, BridgeShape
<1>12. CASE Probe(r)
  BY <1>12, <1>0, ZenonT(60) DEF Probe, Step, fileVars, rtVars, jobVars, history, Shapes,
        RunShape, BridgeShape
<1>13. CASE FreshStatus(r)
  <2>1. PICK exact \in BOOLEAN :
          run' = IF ~LiveCandidate(run.new)
                 THEN [[run EXCEPT !.exact = exact] EXCEPT !.failed = TRUE]
                 ELSE IF Classify(run.new, bridge.cand, exact) = "P_reattached"
                      THEN [[run EXCEPT !.exact = exact] EXCEPT
                              !.class = Classify(run.new, bridge.cand, exact),
                              !.term = run.new, !.before = bridge.rows[run.new],
                              !.failed = bridge.rows[run.new] # 0]
                      ELSE [[run EXCEPT !.exact = exact] EXCEPT
                              !.class = Classify(run.new, bridge.cand, exact)]
    BY <1>13 DEF FreshStatus
  <2>2. CASE run' = [[run EXCEPT !.exact = exact] EXCEPT !.failed = TRUE]
    BY <2>2 DEF Shapes, RunShape
  <2>3. CASE run' = [[run EXCEPT !.exact = exact] EXCEPT
                       !.class = Classify(run.new, bridge.cand, exact),
                       !.term = run.new, !.before = bridge.rows[run.new],
                       !.failed = bridge.rows[run.new] # 0]
    BY <2>3 DEF Shapes, RunShape
  <2>4. CASE run' = [[run EXCEPT !.exact = exact] EXCEPT
                       !.class = Classify(run.new, bridge.cand, exact)]
    BY <2>4 DEF Shapes, RunShape
  <2>q. QED
    BY <2>1, <2>2, <2>3, <2>4
<1>14. CASE FinalQuit(r)
  BY <1>14, ZenonT(60) DEF FinalQuit, Step, fileVars, rtVars, jobVars, history, Shapes, RunShape,
        BridgeShape
<1>15. CASE FinalExit(r)
  BY <1>15 DEF FinalExit, Step, fileVars, rtVars, jobVars, history, Shapes, RunShape,
        BridgeShape
<1>16. CASE PartialCandidate(r)
  BY <1>16, <1>0 DEF PartialCandidate, Qualified, Step, fileVars, rtVars, jobVars,
        history, Shapes, RunShape, BridgeShape
<1>17. CASE EffectiveModel(r)
  BY <1>17, <1>0 DEF EffectiveModel, Step, fileVars, rtVars, jobVars, history, Shapes,
        RunShape, BridgeShape
<1>18. CASE StartPrompt(r)
  BY <1>18, <1>0 DEF StartPrompt, Step, fileVars, rtVars, jobVars, history, Shapes,
        RunShape, BridgeShape
<1>19. CASE InspectPartial(r)
  BY <1>19 DEF InspectPartial, Step, fileVars, rtVars, jobVars, history, Shapes,
        RunShape, BridgeShape
<1>20. CASE GuardThenQuit(r)
  BY <1>20, <1>0 DEF GuardThenQuit, Step, fileVars, rtVars, jobVars, history, Shapes,
        RunShape, BridgeShape
<1>21. CASE QuitDrained(r)
  BY <1>21, <1>0 DEF QuitDrained, Step, fileVars, rtVars, jobVars, history, Shapes,
        RunShape, BridgeShape
<1>22. CASE InspectStopped(r)
  <2>1. run' = [run EXCEPT !.seen = View[3], !.status = View[1]]
    BY <1>22 DEF InspectStopped
  <2>2. View[3] \in Nat
    BY DEF View, Shapes, JobShape
  <2>q. QED
    BY <2>1, <2>2 DEF Shapes, RunShape
<1>23. CASE StopIsStable(r)
  <2>1. \/ Raise(r)
        \/ run' = [run EXCEPT !.stop = run.seen, !.epoch = 0, !.trace = bridge.complete]
    BY <1>23 DEF StopIsStable
  <2>2. CASE run' = [run EXCEPT !.stop = run.seen, !.epoch = 0, !.trace = bridge.complete]
    BY <2>2 DEF Shapes, RunShape
  <2>q. QED
    BY <1>0, <2>1, <2>2
<1>24. CASE QuietBegins(r)
  BY <1>24, <1>0 DEF QuietBegins, Step, fileVars, rtVars, jobVars, history, Shapes,
        RunShape, BridgeShape
<1>25. CASE QuietEnds(r)
  BY <1>25, <1>0 DEF QuietEnds, Step, fileVars, rtVars, jobVars, history, Shapes,
        RunShape, BridgeShape
<1>26. CASE QuietAfterStatus(r)
  BY <1>26, <1>0 DEF QuietAfterStatus, Step, fileVars, rtVars, jobVars, history,
        Shapes, RunShape, BridgeShape
<1>27. CASE ContinuePrompt(r)
  BY <1>27, <1>0 DEF ContinuePrompt, Step, fileVars, rtVars, jobVars, history, Shapes,
        RunShape, BridgeShape
<1>28. CASE InspectContinued(r)
  BY <1>28, <1>0 DEF InspectContinued, Ps, Step, fileVars, rtVars, jobVars, Odd,
        Shapes, RunShape, BridgeShape
<1>29. CASE \/ Create(r) \/ Crash(r) \/ SpawnTui(r) \/ CloseRelay(r)
           \/ Verdict(r) \/ VerifyResume(r) \/ VerifyPartial(r)
           \/ CreateJobDir(r)
  <2>1. UNCHANGED <<run>>
    BY <1>29 DEF Create, Crash, SpawnTui, CloseRelay, Verdict, VerifyResume,
        VerifyPartial, CreateJobDir, rtVars, jobVars, history, fileVars, Ps
  <2>q. QED
    BY <2>1 DEF Shapes, RunShape, BridgeShape
<1>q. QED
  BY <1>1, <1>1a, <1>1b, <1>2, <1>3, <1>4, <1>5, <1>6, <1>7, <1>8, <1>9, <1>10, <1>11,
     <1>12, <1>13, <1>14, <1>15, <1>16, <1>17, <1>18, <1>19, <1>20, <1>21, <1>22,
     <1>23, <1>24, <1>25, <1>26, <1>27, <1>28, <1>29
     DEF RunnerStep, Common, ResumeCase, ReconnectCase, PartialCase

\* The runtime keeps its shape.
LEMMA RtShaped ==
    ASSUME Shapes, NEW r \in Runner, RunnerStep(r)
    PROVE  RtShape'
<1>1. CASE Start(r)
  BY <1>1 DEF Start, rtVars, Shapes, RtShape
<1>1a. CASE TakeSnapshot(r)
  <2>1. rt' = [rt EXCEPT !.expected = {Snapshot}]
    BY <1>1a DEF TakeSnapshot
  <2>2. Snapshot \in Snapshots
    BY DEF Shapes, FileShape, Snapshot, Snapshots, Hashes, Part
  <2>q. QED
    BY <2>1, <2>2 DEF Shapes, RtShape
<1>1b. CASE Spawn(r)
  <2>1. rt' = rt \/ rt' = [rt EXCEPT !.backend = "up"]
    BY <1>1b DEF Spawn
  <2>q. QED
    BY <2>1 DEF Shapes, RtShape
<1>2. CASE StartRelay(r)
  <2>1. \/ rt' = [rt EXCEPT !.relay = TRUE]
        \/ rt' = rt
    BY <1>2 DEF StartRelay, rtVars
  <2>2. CASE rt' = [rt EXCEPT !.relay = TRUE]
    BY <2>2 DEF Shapes, RtShape
  <2>3. CASE rt' = rt
    BY <2>3 DEF Shapes, RtShape
  <2>q. QED
    BY <2>1, <2>2, <2>3
<1>3. CASE SpawnTui(r)
  BY <1>3 DEF SpawnTui, Step, fileVars, jobVars, history, Shapes, RtShape, FileShape
<1>4. CASE CloseRelay(r)
  BY <1>4 DEF CloseRelay, Step, EndAll, fileVars, jobVars, history, Shapes, RtShape,
        FileShape
<1>5. CASE CloseRuntime(r)
  BY <1>5 DEF CloseRuntime, Odd, Step, AfterClose, CleanupOwned, fileVars, jobVars,
        Socket, Shapes, RtShape, FileShape
<1>6. CASE StopIsStable(r)
  <2>1. \/ rt' = NewRuntime(2)
        \/ rt' = rt
    BY <1>6 DEF StopIsStable
  <2>2. CASE rt' = NewRuntime(2)
    BY <2>2 DEF RtShape, NewRuntime, Socket
  <2>3. CASE rt' = rt
    BY <2>3 DEF Shapes, RtShape
  <2>q. QED
    BY <2>1, <2>2, <2>3
<1>7. CASE \/ Create(r) \/ Crash(r) \/ Timeout(r) \/ Verdict(r)
           \/ VerifyResume(r) \/ Recheck(r) \/ ResumeCandidate(r)
           \/ SilentWindow(r) \/ StatusThenQuit(r) \/ QuitEvidence(r)
           \/ InitialCandidate(r) \/ Disconnect(r)
  <2>1. UNCHANGED <<rt>>
    BY <1>7 DEF Create, Crash, Timeout, Verdict, VerifyResume, Recheck,
        ResumeCandidate, SilentWindow, StatusThenQuit, QuitEvidence, InitialCandidate,
        Disconnect, rtVars, jobVars, history, fileVars, Ps, Qualified
  <2>q. QED
    BY <2>1 DEF Shapes, RtShape, FileShape
<1>8. CASE \/ Probe(r) \/ FreshStatus(r) \/ FinalQuit(r) \/ FinalExit(r)
           \/ VerifyPartial(r) \/ CreateJobDir(r) \/ PartialCandidate(r)
           \/ EffectiveModel(r) \/ StartPrompt(r) \/ InspectPartial(r)
           \/ GuardThenQuit(r) \/ QuitDrained(r)
  <2>1. UNCHANGED <<rt>>
    BY <1>8 DEF Probe, FreshStatus, FinalQuit, FinalExit, VerifyPartial, CreateJobDir,
        PartialCandidate, EffectiveModel, StartPrompt, InspectPartial, GuardThenQuit,
        QuitDrained, fileVars, rtVars, jobVars, history, Qualified
  <2>q. QED
    BY <2>1 DEF Shapes, RtShape, FileShape
<1>9. CASE \/ InspectStopped(r) \/ QuietBegins(r) \/ QuietEnds(r)
           \/ QuietAfterStatus(r) \/ ContinuePrompt(r)
           \/ InspectContinued(r)
  <2>1. UNCHANGED <<rt>>
    BY <1>9 DEF InspectStopped, QuietBegins, QuietEnds, QuietAfterStatus,
        ContinuePrompt, InspectContinued, Ps, fileVars, rtVars, jobVars, history
  <2>q. QED
    BY <2>1 DEF Shapes, RtShape, FileShape
<1>q. QED
  BY <1>1, <1>1a, <1>1b, <1>2, <1>3, <1>4, <1>5, <1>6, <1>7, <1>8, <1>9
     DEF RunnerStep, Common, ResumeCase, ReconnectCase, PartialCase

\* The bridge keeps its shape.
LEMMA BridgeShaped ==
    ASSUME Shapes, NEW r \in Runner, RunnerStep(r)
    PROVE  BridgeShape'
<1>1. CASE StartRelay(r)
  <2>1. \/ bridge' = NewBridge
        \/ bridge' = bridge
    BY <1>1 DEF StartRelay
  <2>2. CASE bridge' = NewBridge
    BY <2>2 DEF BridgeShape, NewBridge
  <2>3. CASE bridge' = bridge
    BY <2>3 DEF Shapes, BridgeShape
  <2>q. QED
    BY <2>1, <2>2, <2>3
<1>2. CASE CloseRelay(r)
  BY <1>2 DEF CloseRelay, Step, EndAll, fileVars, jobVars, history, Shapes,
        BridgeShape
<1>3. CASE Disconnect(r)
  <2>1. \/ bridge' = Ended(bridge, run.epoch, "disconnect")
        \/ bridge' = bridge
    BY <1>3 DEF Disconnect
  <2>2. CASE bridge' = Ended(bridge, run.epoch, "disconnect")
    BY <2>2 DEF Shapes, BridgeShape, Ended
  <2>3. CASE bridge' = bridge
    BY <2>3 DEF Shapes, BridgeShape
  <2>q. QED
    BY <2>1, <2>2, <2>3
<1>4. CASE \/ Create(r) \/ Crash(r) \/ Start(r) \/ TakeSnapshot(r) \/ Spawn(r)
           \/ SpawnTui(r)
           \/ Timeout(r) \/ CloseRuntime(r) \/ Verdict(r)
           \/ VerifyResume(r) \/ Recheck(r) \/ ResumeCandidate(r)
           \/ SilentWindow(r) \/ StatusThenQuit(r)
  <2>1. UNCHANGED <<bridge>>
    BY <1>4 DEF Create, Crash, Start, TakeSnapshot, Spawn, SpawnTui, Timeout, CloseRuntime, Verdict,
        VerifyResume, Recheck, ResumeCandidate, SilentWindow, StatusThenQuit, rtVars,
        jobVars, history, fileVars, Ps, Qualified
  <2>q. QED
    BY <2>1 DEF Shapes, BridgeShape
<1>5. CASE \/ QuitEvidence(r) \/ InitialCandidate(r) \/ Probe(r)
           \/ FreshStatus(r) \/ FinalQuit(r) \/ FinalExit(r)
           \/ VerifyPartial(r) \/ CreateJobDir(r) \/ PartialCandidate(r)
           \/ EffectiveModel(r) \/ StartPrompt(r) \/ InspectPartial(r)
  <2>1. UNCHANGED <<bridge>>
    BY <1>5 DEF QuitEvidence, InitialCandidate, Probe, FreshStatus, FinalQuit,
        FinalExit, VerifyPartial, CreateJobDir, PartialCandidate, EffectiveModel,
        StartPrompt, InspectPartial, fileVars, rtVars, jobVars, history, Qualified
  <2>q. QED
    BY <2>1 DEF Shapes, BridgeShape
<1>6. CASE \/ GuardThenQuit(r) \/ QuitDrained(r) \/ InspectStopped(r)
           \/ StopIsStable(r) \/ QuietBegins(r) \/ QuietEnds(r)
           \/ QuietAfterStatus(r) \/ ContinuePrompt(r)
           \/ InspectContinued(r)
  <2>1. UNCHANGED <<bridge>>
    BY <1>6 DEF GuardThenQuit, QuitDrained, InspectStopped, StopIsStable, QuietBegins,
        QuietEnds, QuietAfterStatus, ContinuePrompt, InspectContinued, fileVars,
        rtVars, jobVars, history, Ps
  <2>q. QED
    BY <2>1 DEF Shapes, BridgeShape
<1>q. QED
  BY <1>1, <1>2, <1>3, <1>4, <1>5, <1>6
     DEF RunnerStep, Common, ResumeCase, ReconnectCase, PartialCase

\* The retained job and its workers keep their shape.
LEMMA JobShaped ==
    ASSUME Shapes, NEW r \in Runner, RunnerStep(r)
    PROVE  JobShape'
<1>1. CASE CreateJobDir(r)
  BY <1>1 DEF CreateJobDir, fileVars, rtVars, history, Shapes, JobShape
<1>2. CASE \/ Create(r) \/ Crash(r) \/ Start(r) \/ TakeSnapshot(r) \/ Spawn(r)
           \/ StartRelay(r)
           \/ SpawnTui(r) \/ Timeout(r) \/ CloseRelay(r)
           \/ CloseRuntime(r) \/ Verdict(r) \/ VerifyResume(r)
           \/ Recheck(r) \/ ResumeCandidate(r)
  <2>1. UNCHANGED <<job, worker>>
    BY <1>2 DEF Create, Crash, Start, TakeSnapshot, Spawn, StartRelay, SpawnTui, Timeout, CloseRelay,
        CloseRuntime, Verdict, VerifyResume, Recheck, ResumeCandidate, rtVars,
        jobVars, history, fileVars, Ps, Qualified
  <2>q. QED
    BY <2>1 DEF Shapes, JobShape
<1>3. CASE \/ SilentWindow(r) \/ StatusThenQuit(r) \/ QuitEvidence(r)
           \/ InitialCandidate(r) \/ Disconnect(r) \/ Probe(r)
           \/ FreshStatus(r) \/ FinalQuit(r) \/ FinalExit(r)
           \/ VerifyPartial(r) \/ PartialCandidate(r)
           \/ EffectiveModel(r)
  <2>1. UNCHANGED <<job, worker>>
    BY <1>3 DEF SilentWindow, StatusThenQuit, QuitEvidence, InitialCandidate,
        Disconnect, Probe, FreshStatus, FinalQuit, FinalExit, VerifyPartial,
        PartialCandidate, EffectiveModel, fileVars, rtVars, jobVars, history,
        Qualified
  <2>q. QED
    BY <2>1 DEF Shapes, JobShape
<1>4. CASE \/ StartPrompt(r) \/ InspectPartial(r) \/ GuardThenQuit(r)
           \/ QuitDrained(r) \/ InspectStopped(r) \/ StopIsStable(r)
           \/ QuietBegins(r) \/ QuietEnds(r) \/ QuietAfterStatus(r)
           \/ ContinuePrompt(r) \/ InspectContinued(r)
  <2>1. UNCHANGED <<job, worker>>
    BY <1>4 DEF StartPrompt, InspectPartial, GuardThenQuit, QuitDrained,
        InspectStopped, StopIsStable, QuietBegins, QuietEnds, QuietAfterStatus,
        ContinuePrompt, InspectContinued, fileVars, rtVars, jobVars, history, Ps
  <2>q. QED
    BY <2>1 DEF Shapes, JobShape
<1>q. QED
  BY <1>1, <1>2, <1>3, <1>4
     DEF RunnerStep, Common, ResumeCase, ReconnectCase, PartialCase

\* The files and the sockets keep their types.
LEMMA FilesShaped ==
    ASSUME Shapes, NEW r \in Runner, RunnerStep(r)
    PROVE  FileShape'
<1>1. CASE Create(r)
  BY <1>1 DEF Create, Step, rtVars, jobVars, history, Shapes, FileShape, edited
<1>2. CASE Start(r)
  BY <1>2 DEF Start, Step, fileVars, rtVars, jobVars, history, Shapes, FileShape, edited
<1>2a. CASE TakeSnapshot(r)
  BY <1>2a DEF TakeSnapshot, Step, fileVars, jobVars, history, Shapes, FileShape, edited
<1>2b. CASE Spawn(r)
  <2>1. UNCHANGED <<mode, caseDir, result, source, record, endpoint, edits>>
    BY <1>2b DEF Spawn, fileVars
  <2>2. /\ stale' = stale \/ stale' = stale \cup OffRecord
        /\ slipped' = slipped \/ slipped' = slipped \cup OffSnapshot
    BY <1>2b DEF Spawn
  <2>3. OffRecord \subseteq Part /\ OffSnapshot \subseteq {"binary", "config"}
    BY DEF OffRecord, OffSnapshot
  <2>q. QED
    BY <2>1, <2>2, <2>3 DEF Shapes, FileShape
<1>3. CASE StartRelay(r)
  BY <1>3 DEF StartRelay, Step, Socket, NewBridge, rtVars, fileVars, jobVars, history,
        Shapes, FileShape, edited
<1>4. CASE CloseRelay(r)
  BY <1>4 DEF CloseRelay, Step, EndAll, fileVars, jobVars, history, Shapes, FileShape, edited
<1>5. CASE CloseRuntime(r)
  BY <1>5 DEF CloseRuntime, Odd, Step, AfterClose, CleanupOwned, fileVars, jobVars,
        Socket, Shapes, FileShape, edited
<1>6. CASE Verdict(r)
  BY <1>6 DEF Verdict, Step, Ps, rtVars, jobVars, Odd, Shapes, FileShape, edited
<1>7. CASE \/ Crash(r) \/ SpawnTui(r) \/ Timeout(r) \/ VerifyResume(r)
           \/ Recheck(r) \/ ResumeCandidate(r) \/ SilentWindow(r)
           \/ StatusThenQuit(r) \/ QuitEvidence(r) \/ InitialCandidate(r)
           \/ Disconnect(r) \/ Probe(r)
  <2>1. UNCHANGED <<mode, caseDir, result, source, record, edited, endpoint>>
    BY <1>7 DEF Crash, SpawnTui, Timeout, VerifyResume, Recheck, ResumeCandidate,
        SilentWindow, StatusThenQuit, QuitEvidence, InitialCandidate, Disconnect,
        Probe, fileVars, rtVars, jobVars, history, Qualified
  <2>q. QED
    BY <2>1 DEF Shapes, FileShape, edited
<1>8. CASE \/ FreshStatus(r) \/ FinalQuit(r) \/ FinalExit(r)
           \/ VerifyPartial(r) \/ CreateJobDir(r) \/ PartialCandidate(r)
           \/ EffectiveModel(r) \/ StartPrompt(r) \/ InspectPartial(r)
           \/ GuardThenQuit(r) \/ QuitDrained(r) \/ InspectStopped(r)
  <2>1. UNCHANGED <<mode, caseDir, result, source, record, edited, endpoint>>
    BY <1>8 DEF FreshStatus, FinalQuit, FinalExit, VerifyPartial, CreateJobDir,
        PartialCandidate, EffectiveModel, StartPrompt, InspectPartial, GuardThenQuit,
        QuitDrained, InspectStopped, fileVars, rtVars, jobVars, history, Qualified, Ps
  <2>q. QED
    BY <2>1 DEF Shapes, FileShape, edited
<1>9. CASE \/ StopIsStable(r) \/ QuietBegins(r) \/ QuietEnds(r)
           \/ QuietAfterStatus(r) \/ ContinuePrompt(r)
           \/ InspectContinued(r)
  <2>1. UNCHANGED <<mode, caseDir, result, source, record, edited, endpoint>>
    BY <1>9 DEF StopIsStable, QuietBegins, QuietEnds, QuietAfterStatus,
        ContinuePrompt, InspectContinued, Ps, fileVars, jobVars, rtVars, history
  <2>q. QED
    BY <2>1 DEF Shapes, FileShape, edited
<1>q. QED
  BY <1>1, <1>2, <1>2a, <1>2b, <1>3, <1>4, <1>5, <1>6, <1>7, <1>8, <1>9
     DEF RunnerStep, Common, ResumeCase, ReconnectCase, PartialCase

\* A ps that may have failed keeps the history well typed, and is remembered.
LEMMA PsTyped ==
    ASSUME HistoryShape, NEW fails \in BOOLEAN, Ps(fails)
    PROVE  /\ odd' \in 0 .. Oddities /\ psFailed' \in BOOLEAN
           /\ psFailed' = psFailed \/ psFailed' = TRUE
           /\ fails => psFailed' = TRUE
<1>1. CASE fails = TRUE
  BY <1>1 DEF Ps, Odd, HistoryShape
<1>2. CASE fails = FALSE
  BY <1>2 DEF Ps, HistoryShape
<1>q. QED
  BY <1>1, <1>2

\* The history keeps its types.
LEMMA HistoryShaped ==
    ASSUME Shapes, NEW r \in Runner, RunnerStep(r)
    PROVE  HistoryShape'
<1>1. CASE Crash(r)
  BY <1>1 DEF Crash, Odd, fileVars, rtVars, jobVars, Shapes, HistoryShape
<1>2. CASE Start(r)
  BY <1>2 DEF Start, Step, fileVars, rtVars, jobVars, history, Shapes, HistoryShape
<1>2a. CASE TakeSnapshot(r)
  BY <1>2a DEF TakeSnapshot, Step, fileVars, jobVars, history, Shapes, HistoryShape
<1>2b. CASE Spawn(r)
  BY <1>2b DEF Spawn, Odd, Step, fileVars, jobVars, Shapes, HistoryShape
<1>3. CASE CloseRuntime(r)
  BY <1>3 DEF CloseRuntime, Odd, Step, AfterClose, CleanupOwned, fileVars, jobVars,
        Shapes, HistoryShape
<1>4. CASE Verdict(r)
  <2>1. PICK fails \in BOOLEAN : Ps(fails)
    BY <1>4 DEF Verdict
  <2>2. odd' \in 0 .. Oddities /\ psFailed' \in BOOLEAN
    BY <2>1, PsTyped DEF Shapes
  <2>3. UNCHANGED <<launched, turned>>
    BY <1>4 DEF Verdict
  <2>q. QED
    BY <2>2, <2>3 DEF Shapes, HistoryShape
<1>5. CASE InspectStopped(r)
  <2>1. PICK fails \in BOOLEAN : Ps(fails)
    BY <1>5 DEF InspectStopped
  <2>2. odd' \in 0 .. Oddities /\ psFailed' \in BOOLEAN
    BY <2>1, PsTyped DEF Shapes
  <2>3. UNCHANGED <<launched, turned>>
    BY <1>5 DEF InspectStopped
  <2>q. QED
    BY <2>2, <2>3 DEF Shapes, HistoryShape
<1>6. CASE StopIsStable(r)
  <2>1. PICK fails \in BOOLEAN : Ps(fails)
    BY <1>6 DEF StopIsStable
  <2>2. odd' \in 0 .. Oddities /\ psFailed' \in BOOLEAN
    BY <2>1, PsTyped DEF Shapes
  <2>3. UNCHANGED <<launched, turned>>
    BY <1>6 DEF StopIsStable
  <2>q. QED
    BY <2>2, <2>3 DEF Shapes, HistoryShape
<1>7. CASE InspectContinued(r)
  <2>1. PICK fails \in BOOLEAN : Ps(fails)
    BY <1>7 DEF InspectContinued
  <2>2. odd' \in 0 .. Oddities /\ psFailed' \in BOOLEAN
    BY <2>1, PsTyped DEF Shapes
  <2>3. UNCHANGED <<launched, turned>>
    BY <1>7 DEF InspectContinued
  <2>q. QED
    BY <2>2, <2>3 DEF Shapes, HistoryShape
<1>8. CASE \/ Create(r) \/ StartRelay(r) \/ SpawnTui(r) \/ Timeout(r)
           \/ CloseRelay(r) \/ VerifyResume(r) \/ Recheck(r)
           \/ ResumeCandidate(r) \/ SilentWindow(r) \/ StatusThenQuit(r)
           \/ QuitEvidence(r) \/ InitialCandidate(r)
  <2>1. UNCHANGED <<odd, launched, turned, psFailed>>
    BY <1>8 DEF Create, StartRelay, SpawnTui, Timeout, CloseRelay, VerifyResume,
        Recheck, ResumeCandidate, SilentWindow, StatusThenQuit, QuitEvidence,
        InitialCandidate, rtVars, jobVars, history, fileVars, Qualified
  <2>q. QED
    BY <2>1 DEF Shapes, HistoryShape
<1>9. CASE \/ Disconnect(r) \/ Probe(r) \/ FreshStatus(r) \/ FinalQuit(r)
           \/ FinalExit(r) \/ VerifyPartial(r) \/ CreateJobDir(r)
           \/ PartialCandidate(r) \/ EffectiveModel(r) \/ StartPrompt(r)
           \/ InspectPartial(r) \/ GuardThenQuit(r)
  <2>1. UNCHANGED <<odd, launched, turned, psFailed>>
    BY <1>9 DEF Disconnect, Probe, FreshStatus, FinalQuit, FinalExit, VerifyPartial,
        CreateJobDir, PartialCandidate, EffectiveModel, StartPrompt, InspectPartial,
        GuardThenQuit, fileVars, rtVars, jobVars, history, Qualified
  <2>q. QED
    BY <2>1 DEF Shapes, HistoryShape
<1>10. CASE \/ QuitDrained(r) \/ QuietBegins(r) \/ QuietEnds(r)
           \/ QuietAfterStatus(r) \/ ContinuePrompt(r)
  <2>1. UNCHANGED <<odd, launched, turned, psFailed>>
    BY <1>10 DEF QuitDrained, QuietBegins, QuietEnds, QuietAfterStatus,
        ContinuePrompt, fileVars, rtVars, jobVars, history
  <2>q. QED
    BY <2>1 DEF Shapes, HistoryShape
<1>q. QED
  BY <1>1, <1>2, <1>2a, <1>2b, <1>3, <1>4, <1>5, <1>6, <1>7, <1>8, <1>9, <1>10
     DEF RunnerStep, Common, ResumeCase, ReconnectCase, PartialCase

\* The program points are those of the code.
LEMMA PcShaped ==
    ASSUME Shapes, NEW r \in Runner, RunnerStep(r)
    PROVE  PcShape'
<1>0. Raise(r) => PcShape'
  BY RaiseEffect DEF Shapes
<1>1. CASE Create(r)
  BY <1>1 DEF Create, Step, rtVars, jobVars, history, Shapes, PcShape, Stage
<1>2. CASE Crash(r)
  BY <1>2 DEF Crash, Odd, fileVars, rtVars, jobVars, Shapes, PcShape, Stage
<1>3. CASE Start(r)
  BY <1>3, <1>0 DEF Start, Step, fileVars, rtVars, jobVars, history, Shapes, PcShape,
        Stage
<1>3a. CASE TakeSnapshot(r)
  BY <1>3a DEF TakeSnapshot, Step, fileVars, jobVars, history, Shapes, PcShape, Stage
<1>3b. CASE Spawn(r)
  BY <1>3b, <1>0 DEF Spawn, Odd, Step, fileVars, jobVars, Shapes, PcShape, Stage
<1>4. CASE StartRelay(r)
  BY <1>4, <1>0 DEF StartRelay, Step, NewBridge, rtVars, fileVars, jobVars, history,
        Shapes, PcShape, Stage
<1>5. CASE SpawnTui(r)
  BY <1>5 DEF SpawnTui, Step, fileVars, jobVars, history, Shapes, PcShape, Stage
<1>6. CASE Timeout(r)
  BY <1>6, <1>0 DEF Timeout, fileVars, rtVars, jobVars, history, Shapes, PcShape,
        Stage
<1>7. CASE CloseRelay(r)
  BY <1>7 DEF CloseRelay, Step, EndAll, fileVars, jobVars, history, Shapes, PcShape,
        Stage
<1>8. CASE CloseRuntime(r)
  BY <1>8 DEF CloseRuntime, Odd, Step, AfterClose, CleanupOwned, fileVars, jobVars,
        Shapes, PcShape, Stage
<1>9. CASE Verdict(r)
  BY <1>9 DEF Verdict, Step, Ps, rtVars, jobVars, Odd, Shapes, PcShape, Stage
<1>10. CASE VerifyResume(r)
  BY <1>10 DEF VerifyResume, Step, fileVars, rtVars, jobVars, history, Shapes,
        PcShape, Stage
<1>11. CASE Recheck(r)
  BY <1>11, <1>0 DEF Recheck, Step, fileVars, rtVars, jobVars, history, Shapes,
        PcShape, Stage
<1>12. CASE ResumeCandidate(r)
  BY <1>12, <1>0 DEF ResumeCandidate, Qualified, Step, fileVars, rtVars, jobVars,
        history, Shapes, PcShape, Stage
<1>13. CASE SilentWindow(r)
  BY <1>13, <1>0 DEF SilentWindow, Step, fileVars, rtVars, jobVars, history, Shapes,
        PcShape, Stage
<1>14. CASE StatusThenQuit(r)
  BY <1>14, <1>0 DEF StatusThenQuit, Step, fileVars, rtVars, jobVars, history, Shapes,
        PcShape, Stage
<1>15. CASE QuitEvidence(r)
  BY <1>15 DEF QuitEvidence, fileVars, rtVars, jobVars, history, Shapes, PcShape,
        Stage
<1>16. CASE InitialCandidate(r)
  BY <1>16, <1>0 DEF InitialCandidate, Qualified, Step, fileVars, rtVars, jobVars,
        history, Shapes, PcShape, Stage
<1>17. CASE Disconnect(r)
  BY <1>17, <1>0 DEF Disconnect, Step, Ended, fileVars, rtVars, jobVars, history,
        Shapes, PcShape, Stage
<1>18. CASE Probe(r)
  BY <1>18, <1>0 DEF Probe, Step, fileVars, rtVars, jobVars, history, Shapes, PcShape,
        Stage
<1>19. CASE FreshStatus(r)
  BY <1>19 DEF FreshStatus, fileVars, rtVars, jobVars, history, Shapes, PcShape, Stage
<1>20. CASE FinalQuit(r)
  BY <1>20 DEF FinalQuit, Step, fileVars, rtVars, jobVars, history, Shapes, PcShape,
        Stage
<1>21. CASE FinalExit(r)
  BY <1>21 DEF FinalExit, Step, fileVars, rtVars, jobVars, history, Shapes, PcShape,
        Stage
<1>22. CASE VerifyPartial(r)
  BY <1>22 DEF VerifyPartial, Step, fileVars, rtVars, jobVars, history, Shapes,
        PcShape, Stage
<1>23. CASE CreateJobDir(r)
  BY <1>23 DEF CreateJobDir, fileVars, rtVars, history, Shapes, PcShape, Stage
<1>24. CASE PartialCandidate(r)
  BY <1>24, <1>0 DEF PartialCandidate, Qualified, Step, fileVars, rtVars, jobVars,
        history, Shapes, PcShape, Stage
<1>25. CASE EffectiveModel(r)
  BY <1>25, <1>0 DEF EffectiveModel, Step, fileVars, rtVars, jobVars, history, Shapes,
        PcShape, Stage
<1>26. CASE StartPrompt(r)
  BY <1>26, <1>0 DEF StartPrompt, Step, fileVars, rtVars, jobVars, history, Shapes,
        PcShape, Stage
<1>27. CASE InspectPartial(r)
  BY <1>27 DEF InspectPartial, Step, fileVars, rtVars, jobVars, history, Shapes,
        PcShape, Stage
<1>28. CASE GuardThenQuit(r)
  BY <1>28, <1>0 DEF GuardThenQuit, Step, fileVars, rtVars, jobVars, history, Shapes,
        PcShape, Stage
<1>29. CASE QuitDrained(r)
  BY <1>29, <1>0 DEF QuitDrained, Step, fileVars, rtVars, jobVars, history, Shapes,
        PcShape, Stage
<1>30. CASE InspectStopped(r)
  BY <1>30 DEF InspectStopped, Step, Ps, fileVars, rtVars, jobVars, Odd, Shapes,
        PcShape, Stage
<1>31. CASE StopIsStable(r)
  BY <1>31, <1>0 DEF StopIsStable, Ps, Step, NewRuntime, fileVars, jobVars, Odd,
        Shapes, PcShape, Stage
<1>32. CASE QuietBegins(r)
  BY <1>32, <1>0 DEF QuietBegins, Step, fileVars, rtVars, jobVars, history, Shapes,
        PcShape, Stage
<1>33. CASE QuietEnds(r)
  BY <1>33, <1>0 DEF QuietEnds, Step, fileVars, rtVars, jobVars, history, Shapes,
        PcShape, Stage
<1>34. CASE QuietAfterStatus(r)
  BY <1>34, <1>0 DEF QuietAfterStatus, Step, fileVars, rtVars, jobVars, history,
        Shapes, PcShape, Stage
<1>35. CASE ContinuePrompt(r)
  BY <1>35, <1>0 DEF ContinuePrompt, Step, fileVars, rtVars, jobVars, history, Shapes,
        PcShape, Stage
<1>36. CASE InspectContinued(r)
  BY <1>36, <1>0 DEF InspectContinued, Ps, Step, fileVars, rtVars, jobVars, Odd,
        Shapes, PcShape, Stage
<1>q. QED
  BY <1>1, <1>2, <1>3, <1>3a, <1>3b, <1>4, <1>5, <1>6, <1>7, <1>8, <1>9, <1>10, <1>11,
     <1>12, <1>13, <1>14, <1>15, <1>16, <1>17, <1>18, <1>19, <1>20, <1>21, <1>22,
     <1>23, <1>24, <1>25, <1>26, <1>27, <1>28, <1>29, <1>30, <1>31, <1>32, <1>33,
     <1>34, <1>35, <1>36
     DEF RunnerStep, Common, ResumeCase, ReconnectCase, PartialCase

\* What happens around a case keeps the shape of the runtime.
LEMMA OtherKeepsRt ==
    ASSUME Shapes, OtherStep
    PROVE  RtShape'
<1>1. CASE TuiExits
  BY <1>1 DEF TuiExits, Odd, fileVars, jobVars, Shapes, RtShape
<1>2. CASE BackendDies
  BY <1>2 DEF BackendDies, Odd, fileVars, jobVars, Shapes, RtShape
<1>3. CASE \/ PrepareResume \/ PreparePartial \/ Connect \/ Handshake
           \/ Attach \/ StrayTurn \/ (\E e \in Epoch : LegEnds(e))
           \/ (\E e \in Epoch : Gap(e)) \/ (\E s \in Socket : Occupy(s))
           \/ (\E part \in Part : Edit(part))
           \/ (\E w \in {1, 2} : WorkerStart(w))
           \/ (\E w \in {1, 2} : WorkerChecks(w))
  <2>1. UNCHANGED <<rt>>
    BY <1>3 DEF PrepareResume, PreparePartial, Connect, Handshake, Attach, StrayTurn,
        LegEnds, Gap, Occupy, Edit, WorkerStart, WorkerChecks, rtVars, jobVars,
        history, fileVars
  <2>q. QED
    BY <2>1 DEF Shapes, RtShape
<1>4. CASE \/ (\E w \in {1, 2} : WorkerPublishes(w))
           \/ (\E w \in {1, 2} : WorkerEnds(w))
  <2>1. UNCHANGED <<rt>>
    BY <1>4 DEF WorkerPublishes, WorkerEnds, fileVars, rtVars, history
  <2>q. QED
    BY <2>1 DEF Shapes, RtShape
<1>q. QED
  BY <1>1, <1>2, <1>3, <1>4
     DEF OtherStep, Environment

\* What happens around a case keeps the shape of the bridge.
LEMMA OtherKeepsBridge ==
    ASSUME Shapes, OtherStep
    PROVE  BridgeShape'
<1>1. CASE Connect
  BY <1>1 DEF Connect, Odd, fileVars, rtVars, jobVars, Shapes, BridgeShape
<1>2. CASE Handshake
  BY <1>2 DEF Handshake, fileVars, rtVars, jobVars, history, Shapes, BridgeShape
<1>3. CASE Attach
  <2>1. bridge' = [bridge EXCEPT !.cand = bridge.live]
    BY <1>3 DEF Attach, Shapes, BridgeShape
  <2>2. CASE bridge' = [bridge EXCEPT !.cand = bridge.live]
    BY <2>2 DEF Shapes, BridgeShape
  <2>q. QED
    BY <2>1, <2>2
<1>4. CASE StrayTurn
  <2>1. \/ bridge' = [bridge EXCEPT !.turns = 1]
        \/ bridge' = [bridge EXCEPT !.complete = FALSE, !.live = 0, !.cand = 0]
    BY <1>4 DEF StrayTurn
  <2>2. CASE bridge' = [bridge EXCEPT !.turns = 1]
    BY <2>2 DEF Shapes, BridgeShape
  <2>3. CASE bridge' = [bridge EXCEPT !.complete = FALSE, !.live = 0, !.cand = 0]
    BY <2>3 DEF Shapes, BridgeShape
  <2>q. QED
    BY <2>1, <2>2, <2>3
<1>5. ASSUME NEW e \in Epoch, LegEnds(e)
      PROVE  BridgeShape'
  BY <1>5 DEF LegEnds, Odd, Ended, fileVars, rtVars, jobVars, Shapes, BridgeShape
<1>6. ASSUME NEW e \in Epoch, Gap(e)
      PROVE  BridgeShape'
  BY <1>6 DEF Gap, Odd, Ended, fileVars, rtVars, jobVars, Shapes, BridgeShape
<1>7. CASE \/ PrepareResume \/ PreparePartial \/ TuiExits \/ BackendDies
           \/ (\E s \in Socket : Occupy(s))
           \/ (\E part \in Part : Edit(part))
           \/ (\E w \in {1, 2} : WorkerStart(w))
           \/ (\E w \in {1, 2} : WorkerChecks(w))
           \/ (\E w \in {1, 2} : WorkerPublishes(w))
           \/ (\E w \in {1, 2} : WorkerEnds(w))
  <2>1. UNCHANGED <<bridge>>
    BY <1>7 DEF PrepareResume, PreparePartial, TuiExits, BackendDies, Occupy, Edit,
        WorkerStart, WorkerChecks, WorkerPublishes, WorkerEnds, rtVars, jobVars,
        history, fileVars
  <2>q. QED
    BY <2>1 DEF Shapes, BridgeShape
<1>q. QED
  BY <1>1, <1>2, <1>3, <1>4, <1>5, <1>6, <1>7
     DEF OtherStep, Environment

\* What happens around a case keeps the shape of the retained job.
LEMMA OtherKeepsJob ==
    ASSUME Shapes, OtherStep
    PROVE  JobShape'
<1>1. ASSUME NEW w \in {1, 2}, WorkerStart(w)
      PROVE  JobShape'
  BY <1>1 DEF WorkerStart, fileVars, rtVars, history, Shapes, JobShape
<1>2. ASSUME NEW w \in {1, 2}, WorkerChecks(w)
      PROVE  JobShape'
  BY <1>2 DEF WorkerChecks, fileVars, rtVars, history, Shapes, JobShape
<1>3. ASSUME NEW w \in {1, 2}, WorkerPublishes(w)
      PROVE  JobShape'
  BY <1>3 DEF WorkerPublishes, fileVars, rtVars, history, Shapes, JobShape
<1>4. ASSUME NEW w \in {1, 2}, WorkerEnds(w)
      PROVE  JobShape'
  BY <1>4 DEF WorkerEnds, Odd, fileVars, rtVars, Shapes, JobShape
<1>5. CASE \/ PrepareResume \/ PreparePartial \/ Connect \/ Handshake
           \/ Attach \/ StrayTurn \/ TuiExits \/ BackendDies
           \/ (\E e \in Epoch : LegEnds(e)) \/ (\E e \in Epoch : Gap(e))
           \/ (\E s \in Socket : Occupy(s))
           \/ (\E part \in Part : Edit(part))
  <2>1. UNCHANGED <<job, worker>>
    BY <1>5 DEF PrepareResume, PreparePartial, Connect, Handshake, Attach, StrayTurn,
        TuiExits, BackendDies, LegEnds, Gap, Occupy, Edit, rtVars, jobVars, history,
        fileVars
  <2>q. QED
    BY <2>1 DEF Shapes, JobShape
<1>q. QED
  BY <1>1, <1>2, <1>3, <1>4, <1>5
     DEF OtherStep, Environment

\* What happens around a case keeps the types of the files.
LEMMA OtherKeepsFiles ==
    ASSUME Shapes, OtherStep
    PROVE  FileShape'
<1>1. CASE PrepareResume
  BY <1>1 DEF PrepareResume, rtVars, jobVars, history, Shapes, FileShape, Hashes, edited
<1>2. CASE PreparePartial
  BY <1>2 DEF PreparePartial, rtVars, jobVars, history, Shapes, FileShape, Hashes, edited
<1>3. ASSUME NEW s \in Socket, Occupy(s)
      PROVE  FileShape'
  BY <1>3 DEF Occupy, Odd, fileVars, jobVars, Shapes, FileShape, Hashes, edited
<1>4. ASSUME NEW part \in Part, Edit(part)
      PROVE  FileShape'
  <2>1. UNCHANGED <<mode, caseDir, result, record, endpoint>>
    BY <1>4 DEF Edit, rtVars
  <2>2. PICK content \in Content : source' = [source EXCEPT ![part] = content]
    BY <1>4 DEF Edit
  <2>3. source' \in Hashes
    BY <2>2 DEF Shapes, FileShape, Hashes
  <2>4. edits' \in 0 .. Edits
    BY <1>4 DEF Edit, Shapes, FileShape
  <2>5. stale' \subseteq stale /\ slipped' \subseteq slipped
    BY <1>4 DEF Edit
  <2>q. QED
    BY <2>1, <2>3, <2>4, <2>5 DEF Shapes, FileShape
<1>5. CASE \/ Connect \/ Handshake \/ Attach \/ StrayTurn \/ TuiExits
           \/ BackendDies \/ (\E e \in Epoch : LegEnds(e))
           \/ (\E e \in Epoch : Gap(e))
           \/ (\E w \in {1, 2} : WorkerStart(w))
           \/ (\E w \in {1, 2} : WorkerChecks(w))
           \/ (\E w \in {1, 2} : WorkerPublishes(w))
           \/ (\E w \in {1, 2} : WorkerEnds(w))
  <2>1. UNCHANGED <<mode, caseDir, result, source, record, edited, endpoint>>
    BY <1>5 DEF Connect, Handshake, Attach, StrayTurn, TuiExits, BackendDies, LegEnds,
        Gap, WorkerStart, WorkerChecks, WorkerPublishes, WorkerEnds, fileVars, rtVars,
        jobVars, history
  <2>q. QED
    BY <2>1 DEF Shapes, FileShape, Hashes, edited
<1>q. QED
  BY <1>1, <1>2, <1>3, <1>4, <1>5
     DEF OtherStep, Environment

\* What happens around a case keeps the types of the history.
LEMMA OtherKeepsHistory ==
    ASSUME Shapes, OtherStep
    PROVE  HistoryShape'
<1>1. CASE Connect
  BY <1>1 DEF Connect, Odd, fileVars, rtVars, jobVars, Shapes, HistoryShape
<1>2. CASE StrayTurn
  BY <1>2 DEF StrayTurn, Odd, fileVars, rtVars, jobVars, Shapes, HistoryShape
<1>3. CASE TuiExits
  BY <1>3 DEF TuiExits, Odd, fileVars, jobVars, Shapes, HistoryShape
<1>4. CASE BackendDies
  BY <1>4 DEF BackendDies, Odd, fileVars, jobVars, Shapes, HistoryShape
<1>5. ASSUME NEW e \in Epoch, LegEnds(e)
      PROVE  HistoryShape'
  BY <1>5 DEF LegEnds, Odd, Ended, fileVars, rtVars, jobVars, Shapes, HistoryShape
<1>6. ASSUME NEW e \in Epoch, Gap(e)
      PROVE  HistoryShape'
  BY <1>6 DEF Gap, Odd, Ended, fileVars, rtVars, jobVars, Shapes, HistoryShape
<1>7. ASSUME NEW s \in Socket, Occupy(s)
      PROVE  HistoryShape'
  BY <1>7 DEF Occupy, Odd, fileVars, jobVars, Shapes, HistoryShape
<1>8. ASSUME NEW w \in {1, 2}, WorkerEnds(w)
      PROVE  HistoryShape'
  BY <1>8 DEF WorkerEnds, Odd, fileVars, rtVars, Shapes, HistoryShape
<1>9. CASE \/ PrepareResume \/ PreparePartial \/ Handshake \/ Attach
           \/ (\E part \in Part : Edit(part))
           \/ (\E w \in {1, 2} : WorkerStart(w))
           \/ (\E w \in {1, 2} : WorkerChecks(w))
           \/ (\E w \in {1, 2} : WorkerPublishes(w))
  <2>1. UNCHANGED <<odd, launched, turned, psFailed>>
    BY <1>9 DEF PrepareResume, PreparePartial, Handshake, Attach, Edit, WorkerStart,
        WorkerChecks, WorkerPublishes, rtVars, jobVars, history, fileVars
  <2>q. QED
    BY <2>1 DEF Shapes, HistoryShape
<1>q. QED
  BY <1>1, <1>2, <1>3, <1>4, <1>5, <1>6, <1>7, <1>8, <1>9
     DEF OtherStep, Environment

\* No runner moves in a step of anything else.
LEMMA OtherLeavesRunners ==
    ASSUME OtherStep
    PROVE  UNCHANGED <<mode, caseDir, result, pc, run, launched, psFailed>>
<1>1. CASE PrepareResume
  BY <1>1 DEF PrepareResume, rtVars, jobVars, history
<1>2. CASE PreparePartial
  BY <1>2 DEF PreparePartial, rtVars, jobVars, history
<1>3. CASE Connect
  BY <1>3 DEF Connect, fileVars, rtVars, jobVars
<1>4. CASE Handshake
  BY <1>4 DEF Handshake, fileVars, rtVars, jobVars, history
<1>5. CASE Attach
  BY <1>5 DEF Attach, fileVars, rtVars, jobVars, history
<1>6. CASE StrayTurn
  BY <1>6 DEF StrayTurn, fileVars, rtVars, jobVars
<1>7. CASE TuiExits
  BY <1>7 DEF TuiExits, fileVars, jobVars
<1>8. CASE BackendDies
  BY <1>8 DEF BackendDies, fileVars, jobVars
<1>9. ASSUME NEW e \in Epoch, LegEnds(e)
      PROVE  UNCHANGED <<mode, caseDir, result, pc, run, launched, psFailed>>
  BY <1>9 DEF LegEnds, fileVars, rtVars, jobVars
<1>10. ASSUME NEW e \in Epoch, Gap(e)
      PROVE  UNCHANGED <<mode, caseDir, result, pc, run, launched, psFailed>>
  BY <1>10 DEF Gap, fileVars, rtVars, jobVars
<1>11. ASSUME NEW s \in Socket, Occupy(s)
      PROVE  UNCHANGED <<mode, caseDir, result, pc, run, launched, psFailed>>
  BY <1>11 DEF Occupy, fileVars, jobVars
<1>12. ASSUME NEW part \in Part, Edit(part)
      PROVE  UNCHANGED <<mode, caseDir, result, pc, run, launched, psFailed>>
  BY <1>12 DEF Edit, rtVars, jobVars, history
<1>13. ASSUME NEW w \in {1, 2}, WorkerStart(w)
      PROVE  UNCHANGED <<mode, caseDir, result, pc, run, launched, psFailed>>
  BY <1>13 DEF WorkerStart, fileVars, rtVars, history
<1>14. ASSUME NEW w \in {1, 2}, WorkerChecks(w)
      PROVE  UNCHANGED <<mode, caseDir, result, pc, run, launched, psFailed>>
  BY <1>14 DEF WorkerChecks, fileVars, rtVars, history
<1>15. ASSUME NEW w \in {1, 2}, WorkerPublishes(w)
      PROVE  UNCHANGED <<mode, caseDir, result, pc, run, launched, psFailed>>
  BY <1>15 DEF WorkerPublishes, fileVars, rtVars, history
<1>16. ASSUME NEW w \in {1, 2}, WorkerEnds(w)
      PROVE  UNCHANGED <<mode, caseDir, result, pc, run, launched, psFailed>>
  BY <1>16 DEF WorkerEnds, fileVars, rtVars
<1>q. QED
  BY <1>1, <1>2, <1>3, <1>4, <1>5, <1>6, <1>7, <1>8, <1>9, <1>10, <1>11, <1>12, <1>13,
     <1>14, <1>15, <1>16
     DEF OtherStep, Environment

-----------------------------------------------------------------------------
(* The claim on the case directory *)

\* Only mkdir makes a runner the owner, and only where there was none.
LEMMA ClaimKept ==
    ASSUME Shapes, Claim, NEW r \in Runner, RunnerStep(r)
    PROVE  Claim'
<1>0. Raise(r) =>
        /\ run'.failed = TRUE /\ pc'[r] \in {"final0", "final"}
        /\ pc'[r] = "final0" => mode = "reconnect"
        /\ \A u \in Runner : u # r => pc'[u] = pc[u]
  BY RaiseEffect DEF Shapes
<1>1. CASE Create(r)
  BY <1>1 DEF Create, Step, rtVars, jobVars, history, Shapes, PcShape, HistoryShape,
        Claim, Owner, Owning, Free, Stage
<1>2. CASE Crash(r)
  BY <1>2 DEF Crash, Odd, fileVars, rtVars, jobVars, Shapes, PcShape, HistoryShape,
        Claim, Owner, Owning, Free, Stage
<1>3. CASE Start(r)
  BY <1>3, <1>0 DEF Start, Step, fileVars, rtVars, jobVars, history, Shapes, PcShape,
        HistoryShape, Claim, Owner, Owning, Free, Stage
<1>3a. CASE TakeSnapshot(r)
  BY <1>3a DEF TakeSnapshot, Step, fileVars, jobVars, history, Shapes, PcShape,
        HistoryShape, Claim, Owner, Owning, Free, Stage
<1>3b. CASE Spawn(r)
  BY <1>3b, <1>0 DEF Spawn, Odd, Step, fileVars, jobVars, Shapes, PcShape,
        HistoryShape, Claim, Owner, Owning, Free, Stage
<1>4. CASE StartRelay(r)
  BY <1>4, <1>0 DEF StartRelay, Step, NewBridge, rtVars, fileVars, jobVars, history,
        Shapes, PcShape, HistoryShape, Claim, Owner, Owning, Free, Stage
<1>5. CASE SpawnTui(r)
  BY <1>5 DEF SpawnTui, Step, fileVars, jobVars, history, Shapes, PcShape,
        HistoryShape, Claim, Owner, Owning, Free, Stage
<1>6. CASE Timeout(r)
  BY <1>6, <1>0 DEF Timeout, fileVars, rtVars, jobVars, history, Shapes, PcShape,
        HistoryShape, Claim, Owner, Owning, Free, Stage
<1>7. CASE CloseRelay(r)
  BY <1>7 DEF CloseRelay, Step, EndAll, fileVars, jobVars, history, Shapes, PcShape,
        HistoryShape, Claim, Owner, Owning, Free, Stage
<1>8. CASE CloseRuntime(r)
  BY <1>8 DEF CloseRuntime, Odd, Step, AfterClose, CleanupOwned, fileVars, jobVars,
        Shapes, PcShape, HistoryShape, Claim, Owner, Owning, Free, Stage
<1>9. CASE Verdict(r)
  BY <1>9 DEF Verdict, Step, Ps, rtVars, jobVars, Odd, Shapes, PcShape, HistoryShape,
        Claim, Owner, Owning, Free, Stage
<1>10. CASE VerifyResume(r)
  BY <1>10 DEF VerifyResume, Step, fileVars, rtVars, jobVars, history, Shapes,
        PcShape, HistoryShape, Claim, Owner, Owning, Free, Stage
<1>11. CASE Recheck(r)
  BY <1>11, <1>0 DEF Recheck, Step, fileVars, rtVars, jobVars, history, Shapes,
        PcShape, HistoryShape, Claim, Owner, Owning, Free, Stage
<1>12. CASE ResumeCandidate(r)
  BY <1>12, <1>0 DEF ResumeCandidate, Qualified, Step, fileVars, rtVars, jobVars,
        history, Shapes, PcShape, HistoryShape, Claim, Owner, Owning, Free, Stage
<1>13. CASE SilentWindow(r)
  BY <1>13, <1>0 DEF SilentWindow, Step, fileVars, rtVars, jobVars, history, Shapes,
        PcShape, HistoryShape, Claim, Owner, Owning, Free, Stage
<1>14. CASE StatusThenQuit(r)
  BY <1>14, <1>0 DEF StatusThenQuit, Step, fileVars, rtVars, jobVars, history, Shapes,
        PcShape, HistoryShape, Claim, Owner, Owning, Free, Stage
<1>15. CASE QuitEvidence(r)
  BY <1>15 DEF QuitEvidence, fileVars, rtVars, jobVars, history, Shapes, PcShape,
        HistoryShape, Claim, Owner, Owning, Free, Stage
<1>16. CASE InitialCandidate(r)
  BY <1>16, <1>0 DEF InitialCandidate, Qualified, Step, fileVars, rtVars, jobVars,
        history, Shapes, PcShape, HistoryShape, Claim, Owner, Owning, Free, Stage
<1>17. CASE Disconnect(r)
  BY <1>17, <1>0 DEF Disconnect, Step, Ended, fileVars, rtVars, jobVars, history,
        Shapes, PcShape, HistoryShape, Claim, Owner, Owning, Free, Stage
<1>18. CASE Probe(r)
  BY <1>18, <1>0 DEF Probe, Step, fileVars, rtVars, jobVars, history, Shapes, PcShape,
        HistoryShape, Claim, Owner, Owning, Free, Stage
<1>19. CASE FreshStatus(r)
  BY <1>19 DEF FreshStatus, fileVars, rtVars, jobVars, history, Shapes, PcShape,
        HistoryShape, Claim, Owner, Owning, Free, Stage
<1>20. CASE FinalQuit(r)
  BY <1>20 DEF FinalQuit, Step, fileVars, rtVars, jobVars, history, Shapes, PcShape,
        HistoryShape, Claim, Owner, Owning, Free, Stage
<1>21. CASE FinalExit(r)
  BY <1>21 DEF FinalExit, Step, fileVars, rtVars, jobVars, history, Shapes, PcShape,
        HistoryShape, Claim, Owner, Owning, Free, Stage
<1>22. CASE VerifyPartial(r)
  BY <1>22 DEF VerifyPartial, Step, fileVars, rtVars, jobVars, history, Shapes,
        PcShape, HistoryShape, Claim, Owner, Owning, Free, Stage
<1>23. CASE CreateJobDir(r)
  BY <1>23 DEF CreateJobDir, fileVars, rtVars, history, Shapes, PcShape, HistoryShape,
        Claim, Owner, Owning, Free, Stage
<1>24. CASE PartialCandidate(r)
  BY <1>24, <1>0 DEF PartialCandidate, Qualified, Step, fileVars, rtVars, jobVars,
        history, Shapes, PcShape, HistoryShape, Claim, Owner, Owning, Free, Stage
<1>25. CASE EffectiveModel(r)
  BY <1>25, <1>0 DEF EffectiveModel, Step, fileVars, rtVars, jobVars, history, Shapes,
        PcShape, HistoryShape, Claim, Owner, Owning, Free, Stage
<1>26. CASE StartPrompt(r)
  BY <1>26, <1>0 DEF StartPrompt, Step, fileVars, rtVars, jobVars, history, Shapes,
        PcShape, HistoryShape, Claim, Owner, Owning, Free, Stage
<1>27. CASE InspectPartial(r)
  BY <1>27 DEF InspectPartial, Step, fileVars, rtVars, jobVars, history, Shapes,
        PcShape, HistoryShape, Claim, Owner, Owning, Free, Stage
<1>28. CASE GuardThenQuit(r)
  BY <1>28, <1>0 DEF GuardThenQuit, Step, fileVars, rtVars, jobVars, history, Shapes,
        PcShape, HistoryShape, Claim, Owner, Owning, Free, Stage
<1>29. CASE QuitDrained(r)
  BY <1>29, <1>0 DEF QuitDrained, Step, fileVars, rtVars, jobVars, history, Shapes,
        PcShape, HistoryShape, Claim, Owner, Owning, Free, Stage
<1>30. CASE InspectStopped(r)
  BY <1>30 DEF InspectStopped, Step, Ps, fileVars, rtVars, jobVars, Odd, Shapes,
        PcShape, HistoryShape, Claim, Owner, Owning, Free, Stage
<1>31. CASE StopIsStable(r)
  BY <1>31, <1>0 DEF StopIsStable, Ps, Step, NewRuntime, fileVars, jobVars, Odd,
        Shapes, PcShape, HistoryShape, Claim, Owner, Owning, Free, Stage
<1>32. CASE QuietBegins(r)
  BY <1>32, <1>0 DEF QuietBegins, Step, fileVars, rtVars, jobVars, history, Shapes,
        PcShape, HistoryShape, Claim, Owner, Owning, Free, Stage
<1>33. CASE QuietEnds(r)
  BY <1>33, <1>0 DEF QuietEnds, Step, fileVars, rtVars, jobVars, history, Shapes,
        PcShape, HistoryShape, Claim, Owner, Owning, Free, Stage
<1>34. CASE QuietAfterStatus(r)
  BY <1>34, <1>0 DEF QuietAfterStatus, Step, fileVars, rtVars, jobVars, history,
        Shapes, PcShape, HistoryShape, Claim, Owner, Owning, Free, Stage
<1>35. CASE ContinuePrompt(r)
  BY <1>35, <1>0 DEF ContinuePrompt, Step, fileVars, rtVars, jobVars, history, Shapes,
        PcShape, HistoryShape, Claim, Owner, Owning, Free, Stage
<1>36. CASE InspectContinued(r)
  BY <1>36, <1>0 DEF InspectContinued, Ps, Step, fileVars, rtVars, jobVars, Odd,
        Shapes, PcShape, HistoryShape, Claim, Owner, Owning, Free, Stage
<1>q. QED
  BY <1>1, <1>2, <1>3, <1>3a, <1>3b, <1>4, <1>5, <1>6, <1>7, <1>8, <1>9, <1>10, <1>11,
     <1>12, <1>13, <1>14, <1>15, <1>16, <1>17, <1>18, <1>19, <1>20, <1>21, <1>22,
     <1>23, <1>24, <1>25, <1>26, <1>27, <1>28, <1>29, <1>30, <1>31, <1>32, <1>33,
     <1>34, <1>35, <1>36
     DEF RunnerStep, Common, ResumeCase, ReconnectCase, PartialCase

\* A result is only recorded by a runner that is done, and stays.
LEMMA ResultToldKept ==
    ASSUME Shapes, ResultTold, NEW r \in Runner, RunnerStep(r)
    PROVE  ResultTold'
<1>0. Raise(r) =>
        /\ run'.failed = TRUE /\ pc'[r] \in {"final0", "final"}
        /\ pc'[r] = "final0" => mode = "reconnect"
        /\ \A u \in Runner : u # r => pc'[u] = pc[u]
  BY RaiseEffect DEF Shapes
<1>1. CASE Create(r)
  BY <1>1 DEF Create, Step, rtVars, jobVars, history, Shapes, PcShape, FileShape,
        ResultTold
<1>2. CASE Crash(r)
  BY <1>2 DEF Crash, Odd, fileVars, rtVars, jobVars, Shapes, PcShape, FileShape,
        ResultTold
<1>3. CASE Start(r)
  BY <1>3, <1>0 DEF Start, Step, fileVars, rtVars, jobVars, history, Shapes, PcShape,
        FileShape, ResultTold
<1>3a. CASE TakeSnapshot(r)
  BY <1>3a DEF TakeSnapshot, Step, fileVars, jobVars, history, Shapes, PcShape,
        FileShape, ResultTold
<1>3b. CASE Spawn(r)
  BY <1>3b, <1>0 DEF Spawn, Odd, Step, fileVars, jobVars, Shapes, PcShape, FileShape,
        ResultTold
<1>4. CASE StartRelay(r)
  BY <1>4, <1>0 DEF StartRelay, Step, NewBridge, rtVars, fileVars, jobVars, history,
        Shapes, PcShape, FileShape, ResultTold
<1>5. CASE SpawnTui(r)
  BY <1>5 DEF SpawnTui, Step, fileVars, jobVars, history, Shapes, PcShape, FileShape,
        ResultTold
<1>6. CASE Timeout(r)
  BY <1>6, <1>0 DEF Timeout, fileVars, rtVars, jobVars, history, Shapes, PcShape,
        FileShape, ResultTold
<1>7. CASE CloseRelay(r)
  BY <1>7 DEF CloseRelay, Step, EndAll, fileVars, jobVars, history, Shapes, PcShape,
        FileShape, ResultTold
<1>8. CASE CloseRuntime(r)
  BY <1>8 DEF CloseRuntime, Odd, Step, AfterClose, CleanupOwned, fileVars, jobVars,
        Shapes, PcShape, FileShape, ResultTold
<1>9. CASE Verdict(r)
  BY <1>9 DEF Verdict, Step, Ps, rtVars, jobVars, Odd, Shapes, PcShape, FileShape,
        ResultTold
<1>10. CASE VerifyResume(r)
  BY <1>10 DEF VerifyResume, Step, fileVars, rtVars, jobVars, history, Shapes,
        PcShape, FileShape, ResultTold
<1>11. CASE Recheck(r)
  BY <1>11, <1>0 DEF Recheck, Step, fileVars, rtVars, jobVars, history, Shapes,
        PcShape, FileShape, ResultTold
<1>12. CASE ResumeCandidate(r)
  BY <1>12, <1>0 DEF ResumeCandidate, Qualified, Step, fileVars, rtVars, jobVars,
        history, Shapes, PcShape, FileShape, ResultTold
<1>13. CASE SilentWindow(r)
  BY <1>13, <1>0 DEF SilentWindow, Step, fileVars, rtVars, jobVars, history, Shapes,
        PcShape, FileShape, ResultTold
<1>14. CASE StatusThenQuit(r)
  BY <1>14, <1>0 DEF StatusThenQuit, Step, fileVars, rtVars, jobVars, history, Shapes,
        PcShape, FileShape, ResultTold
<1>15. CASE QuitEvidence(r)
  BY <1>15 DEF QuitEvidence, fileVars, rtVars, jobVars, history, Shapes, PcShape,
        FileShape, ResultTold
<1>16. CASE InitialCandidate(r)
  BY <1>16, <1>0 DEF InitialCandidate, Qualified, Step, fileVars, rtVars, jobVars,
        history, Shapes, PcShape, FileShape, ResultTold
<1>17. CASE Disconnect(r)
  BY <1>17, <1>0 DEF Disconnect, Step, Ended, fileVars, rtVars, jobVars, history,
        Shapes, PcShape, FileShape, ResultTold
<1>18. CASE Probe(r)
  BY <1>18, <1>0 DEF Probe, Step, fileVars, rtVars, jobVars, history, Shapes, PcShape,
        FileShape, ResultTold
<1>19. CASE FreshStatus(r)
  BY <1>19 DEF FreshStatus, fileVars, rtVars, jobVars, history, Shapes, PcShape,
        FileShape, ResultTold
<1>20. CASE FinalQuit(r)
  BY <1>20 DEF FinalQuit, Step, fileVars, rtVars, jobVars, history, Shapes, PcShape,
        FileShape, ResultTold
<1>21. CASE FinalExit(r)
  BY <1>21 DEF FinalExit, Step, fileVars, rtVars, jobVars, history, Shapes, PcShape,
        FileShape, ResultTold
<1>22. CASE VerifyPartial(r)
  BY <1>22 DEF VerifyPartial, Step, fileVars, rtVars, jobVars, history, Shapes,
        PcShape, FileShape, ResultTold
<1>23. CASE CreateJobDir(r)
  BY <1>23 DEF CreateJobDir, fileVars, rtVars, history, Shapes, PcShape, FileShape,
        ResultTold
<1>24. CASE PartialCandidate(r)
  BY <1>24, <1>0 DEF PartialCandidate, Qualified, Step, fileVars, rtVars, jobVars,
        history, Shapes, PcShape, FileShape, ResultTold
<1>25. CASE EffectiveModel(r)
  BY <1>25, <1>0 DEF EffectiveModel, Step, fileVars, rtVars, jobVars, history, Shapes,
        PcShape, FileShape, ResultTold
<1>26. CASE StartPrompt(r)
  BY <1>26, <1>0 DEF StartPrompt, Step, fileVars, rtVars, jobVars, history, Shapes,
        PcShape, FileShape, ResultTold
<1>27. CASE InspectPartial(r)
  BY <1>27 DEF InspectPartial, Step, fileVars, rtVars, jobVars, history, Shapes,
        PcShape, FileShape, ResultTold
<1>28. CASE GuardThenQuit(r)
  BY <1>28, <1>0 DEF GuardThenQuit, Step, fileVars, rtVars, jobVars, history, Shapes,
        PcShape, FileShape, ResultTold
<1>29. CASE QuitDrained(r)
  BY <1>29, <1>0 DEF QuitDrained, Step, fileVars, rtVars, jobVars, history, Shapes,
        PcShape, FileShape, ResultTold
<1>30. CASE InspectStopped(r)
  BY <1>30 DEF InspectStopped, Step, Ps, fileVars, rtVars, jobVars, Odd, Shapes,
        PcShape, FileShape, ResultTold
<1>31. CASE StopIsStable(r)
  BY <1>31, <1>0 DEF StopIsStable, Ps, Step, NewRuntime, fileVars, jobVars, Odd,
        Shapes, PcShape, FileShape, ResultTold
<1>32. CASE QuietBegins(r)
  BY <1>32, <1>0 DEF QuietBegins, Step, fileVars, rtVars, jobVars, history, Shapes,
        PcShape, FileShape, ResultTold
<1>33. CASE QuietEnds(r)
  BY <1>33, <1>0 DEF QuietEnds, Step, fileVars, rtVars, jobVars, history, Shapes,
        PcShape, FileShape, ResultTold
<1>34. CASE QuietAfterStatus(r)
  BY <1>34, <1>0 DEF QuietAfterStatus, Step, fileVars, rtVars, jobVars, history,
        Shapes, PcShape, FileShape, ResultTold
<1>35. CASE ContinuePrompt(r)
  BY <1>35, <1>0 DEF ContinuePrompt, Step, fileVars, rtVars, jobVars, history, Shapes,
        PcShape, FileShape, ResultTold
<1>36. CASE InspectContinued(r)
  BY <1>36, <1>0 DEF InspectContinued, Ps, Step, fileVars, rtVars, jobVars, Odd,
        Shapes, PcShape, FileShape, ResultTold
<1>q. QED
  BY <1>1, <1>2, <1>3, <1>3a, <1>3b, <1>4, <1>5, <1>6, <1>7, <1>8, <1>9, <1>10, <1>11,
     <1>12, <1>13, <1>14, <1>15, <1>16, <1>17, <1>18, <1>19, <1>20, <1>21, <1>22,
     <1>23, <1>24, <1>25, <1>26, <1>27, <1>28, <1>29, <1>30, <1>31, <1>32, <1>33,
     <1>34, <1>35, <1>36
     DEF RunnerStep, Common, ResumeCase, ReconnectCase, PartialCase

-----------------------------------------------------------------------------
(* What the owner's program point says *)

\* The stages of the three kinds of case do not mix.
LEMMA StagesKept ==
    ASSUME Shapes, Claim, StagesOfMode, NEW r \in Runner, RunnerStep(r)
    PROVE  StagesOfMode'
<1>0. Raise(r) =>
        /\ run'.failed = TRUE /\ pc'[r] \in {"final0", "final"}
        /\ pc'[r] = "final0" => mode = "reconnect"
        /\ \A u \in Runner : u # r => pc'[u] = pc[u]
  BY RaiseEffect DEF Shapes
<1>1. CASE Create(r)
  BY <1>1 DEF Create, Step, rtVars, jobVars, history, Shapes, PcShape, Claim, Owner,
        Owning, Free, Stage, RtShape, StagesOfMode, FirstRun
<1>2. CASE Crash(r)
  BY <1>2 DEF Crash, Odd, fileVars, rtVars, jobVars, Shapes, PcShape, Claim, Owner,
        Owning, Free, Stage, RtShape, StagesOfMode, FirstRun
<1>3. CASE Start(r)
  BY <1>3, <1>0 DEF Start, Step, fileVars, rtVars, jobVars, history, Shapes, PcShape,
        Claim, Owner, Owning, Free, Stage, RtShape, StagesOfMode, FirstRun
<1>3a. CASE TakeSnapshot(r)
  BY <1>3a DEF TakeSnapshot, Step, fileVars, jobVars, history, Shapes, PcShape, Claim,
        Owner, Owning, Free, Stage, RtShape, StagesOfMode, FirstRun
<1>3b. CASE Spawn(r)
  BY <1>3b, <1>0 DEF Spawn, Odd, Step, fileVars, jobVars, Shapes, PcShape, Claim,
        Owner, Owning, Free, Stage, RtShape, StagesOfMode, FirstRun
<1>4. CASE StartRelay(r)
  BY <1>4, <1>0 DEF StartRelay, Step, NewBridge, rtVars, fileVars, jobVars, history,
        Shapes, PcShape, Claim, Owner, Owning, Free, Stage, RtShape, StagesOfMode,
        FirstRun
<1>5. CASE SpawnTui(r)
  BY <1>5 DEF SpawnTui, Step, fileVars, jobVars, history, Shapes, PcShape, Claim,
        Owner, Owning, Free, Stage, RtShape, StagesOfMode, FirstRun
<1>6. CASE Timeout(r)
  BY <1>6, <1>0 DEF Timeout, fileVars, rtVars, jobVars, history, Shapes, PcShape,
        Claim, Owner, Owning, Free, Stage, RtShape, StagesOfMode, FirstRun
<1>7. CASE CloseRelay(r)
  BY <1>7 DEF CloseRelay, Step, EndAll, fileVars, jobVars, history, Shapes, PcShape,
        Claim, Owner, Owning, Free, Stage, RtShape, StagesOfMode, FirstRun
<1>8. CASE CloseRuntime(r)
  BY <1>8 DEF CloseRuntime, Odd, Step, AfterClose, CleanupOwned, fileVars, jobVars,
        Shapes, PcShape, Claim, Owner, Owning, Free, Stage, RtShape, StagesOfMode,
        FirstRun
<1>9. CASE Verdict(r)
  BY <1>9 DEF Verdict, Step, Ps, rtVars, jobVars, Odd, Shapes, PcShape, Claim, Owner,
        Owning, Free, Stage, RtShape, StagesOfMode, FirstRun
<1>10. CASE VerifyResume(r)
  BY <1>10 DEF VerifyResume, Step, fileVars, rtVars, jobVars, history, Shapes,
        PcShape, Claim, Owner, Owning, Free, Stage, RtShape, StagesOfMode, FirstRun
<1>11. CASE Recheck(r)
  BY <1>11, <1>0 DEF Recheck, Step, fileVars, rtVars, jobVars, history, Shapes,
        PcShape, Claim, Owner, Owning, Free, Stage, RtShape, StagesOfMode, FirstRun
<1>12. CASE ResumeCandidate(r)
  BY <1>12, <1>0 DEF ResumeCandidate, Qualified, Step, fileVars, rtVars, jobVars,
        history, Shapes, PcShape, Claim, Owner, Owning, Free, Stage, RtShape,
        StagesOfMode, FirstRun
<1>13. CASE SilentWindow(r)
  BY <1>13, <1>0 DEF SilentWindow, Step, fileVars, rtVars, jobVars, history, Shapes,
        PcShape, Claim, Owner, Owning, Free, Stage, RtShape, StagesOfMode, FirstRun
<1>14. CASE StatusThenQuit(r)
  BY <1>14, <1>0 DEF StatusThenQuit, Step, fileVars, rtVars, jobVars, history, Shapes,
        PcShape, Claim, Owner, Owning, Free, Stage, RtShape, StagesOfMode, FirstRun
<1>15. CASE QuitEvidence(r)
  BY <1>15 DEF QuitEvidence, fileVars, rtVars, jobVars, history, Shapes, PcShape,
        Claim, Owner, Owning, Free, Stage, RtShape, StagesOfMode, FirstRun
<1>16. CASE InitialCandidate(r)
  BY <1>16, <1>0 DEF InitialCandidate, Qualified, Step, fileVars, rtVars, jobVars,
        history, Shapes, PcShape, Claim, Owner, Owning, Free, Stage, RtShape,
        StagesOfMode, FirstRun
<1>17. CASE Disconnect(r)
  BY <1>17, <1>0 DEF Disconnect, Step, Ended, fileVars, rtVars, jobVars, history,
        Shapes, PcShape, Claim, Owner, Owning, Free, Stage, RtShape, StagesOfMode,
        FirstRun
<1>18. CASE Probe(r)
  BY <1>18, <1>0 DEF Probe, Step, fileVars, rtVars, jobVars, history, Shapes, PcShape,
        Claim, Owner, Owning, Free, Stage, RtShape, StagesOfMode, FirstRun
<1>19. CASE FreshStatus(r)
  BY <1>19 DEF FreshStatus, fileVars, rtVars, jobVars, history, Shapes, PcShape,
        Claim, Owner, Owning, Free, Stage, RtShape, StagesOfMode, FirstRun
<1>20. CASE FinalQuit(r)
  BY <1>20 DEF FinalQuit, Step, fileVars, rtVars, jobVars, history, Shapes, PcShape,
        Claim, Owner, Owning, Free, Stage, RtShape, StagesOfMode, FirstRun
<1>21. CASE FinalExit(r)
  BY <1>21 DEF FinalExit, Step, fileVars, rtVars, jobVars, history, Shapes, PcShape,
        Claim, Owner, Owning, Free, Stage, RtShape, StagesOfMode, FirstRun
<1>22. CASE VerifyPartial(r)
  BY <1>22 DEF VerifyPartial, Step, fileVars, rtVars, jobVars, history, Shapes,
        PcShape, Claim, Owner, Owning, Free, Stage, RtShape, StagesOfMode, FirstRun
<1>23. CASE CreateJobDir(r)
  BY <1>23 DEF CreateJobDir, fileVars, rtVars, history, Shapes, PcShape, Claim, Owner,
        Owning, Free, Stage, RtShape, StagesOfMode, FirstRun
<1>24. CASE PartialCandidate(r)
  BY <1>24, <1>0 DEF PartialCandidate, Qualified, Step, fileVars, rtVars, jobVars,
        history, Shapes, PcShape, Claim, Owner, Owning, Free, Stage, RtShape,
        StagesOfMode, FirstRun
<1>25. CASE EffectiveModel(r)
  BY <1>25, <1>0 DEF EffectiveModel, Step, fileVars, rtVars, jobVars, history, Shapes,
        PcShape, Claim, Owner, Owning, Free, Stage, RtShape, StagesOfMode, FirstRun
<1>26. CASE StartPrompt(r)
  BY <1>26, <1>0 DEF StartPrompt, Step, fileVars, rtVars, jobVars, history, Shapes,
        PcShape, Claim, Owner, Owning, Free, Stage, RtShape, StagesOfMode, FirstRun
<1>27. CASE InspectPartial(r)
  BY <1>27 DEF InspectPartial, Step, fileVars, rtVars, jobVars, history, Shapes,
        PcShape, Claim, Owner, Owning, Free, Stage, RtShape, StagesOfMode, FirstRun
<1>28. CASE GuardThenQuit(r)
  BY <1>28, <1>0 DEF GuardThenQuit, Step, fileVars, rtVars, jobVars, history, Shapes,
        PcShape, Claim, Owner, Owning, Free, Stage, RtShape, StagesOfMode, FirstRun
<1>29. CASE QuitDrained(r)
  BY <1>29, <1>0 DEF QuitDrained, Step, fileVars, rtVars, jobVars, history, Shapes,
        PcShape, Claim, Owner, Owning, Free, Stage, RtShape, StagesOfMode, FirstRun
<1>30. CASE InspectStopped(r)
  BY <1>30 DEF InspectStopped, Step, Ps, fileVars, rtVars, jobVars, Odd, Shapes,
        PcShape, Claim, Owner, Owning, Free, Stage, RtShape, StagesOfMode, FirstRun
<1>31. CASE StopIsStable(r)
  BY <1>31, <1>0 DEF StopIsStable, Ps, Step, NewRuntime, fileVars, jobVars, Odd,
        Shapes, PcShape, Claim, Owner, Owning, Free, Stage, RtShape, StagesOfMode,
        FirstRun
<1>32. CASE QuietBegins(r)
  BY <1>32, <1>0 DEF QuietBegins, Step, fileVars, rtVars, jobVars, history, Shapes,
        PcShape, Claim, Owner, Owning, Free, Stage, RtShape, StagesOfMode, FirstRun
<1>33. CASE QuietEnds(r)
  BY <1>33, <1>0 DEF QuietEnds, Step, fileVars, rtVars, jobVars, history, Shapes,
        PcShape, Claim, Owner, Owning, Free, Stage, RtShape, StagesOfMode, FirstRun
<1>34. CASE QuietAfterStatus(r)
  BY <1>34, <1>0 DEF QuietAfterStatus, Step, fileVars, rtVars, jobVars, history,
        Shapes, PcShape, Claim, Owner, Owning, Free, Stage, RtShape, StagesOfMode,
        FirstRun
<1>35. CASE ContinuePrompt(r)
  BY <1>35, <1>0 DEF ContinuePrompt, Step, fileVars, rtVars, jobVars, history, Shapes,
        PcShape, Claim, Owner, Owning, Free, Stage, RtShape, StagesOfMode, FirstRun
<1>36. CASE InspectContinued(r)
  BY <1>36, <1>0 DEF InspectContinued, Ps, Step, fileVars, rtVars, jobVars, Odd,
        Shapes, PcShape, Claim, Owner, Owning, Free, Stage, RtShape, StagesOfMode,
        FirstRun
<1>q. QED
  BY <1>1, <1>2, <1>3, <1>3a, <1>3b, <1>4, <1>5, <1>6, <1>7, <1>8, <1>9, <1>10, <1>11,
     <1>12, <1>13, <1>14, <1>15, <1>16, <1>17, <1>18, <1>19, <1>20, <1>21, <1>22,
     <1>23, <1>24, <1>25, <1>26, <1>27, <1>28, <1>29, <1>30, <1>31, <1>32, <1>33,
     <1>34, <1>35, <1>36
     DEF RunnerStep, Common, ResumeCase, ReconnectCase, PartialCase

\* The owner replaces the bridge only before there was a relay.
LEMMA TurnsKept ==
    ASSUME Shapes, Claim, StagesOfMode, TurnsCounted, NEW r \in Runner, RunnerStep(r)
    PROVE  TurnsCounted'
<1>0. Raise(r) =>
        /\ run'.failed = TRUE /\ pc'[r] \in {"final0", "final"}
        /\ pc'[r] = "final0" => mode = "reconnect"
        /\ \A u \in Runner : u # r => pc'[u] = pc[u]
  BY RaiseEffect DEF Shapes
<1>1. CASE Create(r)
  BY <1>1 DEF Create, Step, rtVars, jobVars, history, Shapes, PcShape, Claim, Owner,
        Owning, Free, Stage, RtShape, BridgeShape, StagesOfMode, FirstRun,
        TurnsCounted, Starting
<1>2. CASE Crash(r)
  BY <1>2 DEF Crash, Odd, fileVars, rtVars, jobVars, Shapes, PcShape, Claim, Owner,
        Owning, Free, Stage, RtShape, BridgeShape, StagesOfMode, FirstRun,
        TurnsCounted, Starting
<1>3. CASE Start(r)
  <2>1. rt'.relay = rt.relay /\ UNCHANGED <<mode, turned, bridge, caseDir>>
    BY <1>3 DEF Start, fileVars, rtVars, history, Shapes, RtShape
  <2>2. pc[r] = "ready" /\ r \in Runner
    BY <1>3 DEF Start, Step
  <2>q. QED
    BY <2>1, <2>2 DEF TurnsCounted, Starting
<1>3a. CASE TakeSnapshot(r)
  <2>1. rt'.relay = rt.relay /\ UNCHANGED <<mode, turned, bridge, caseDir>>
    BY <1>3a DEF TakeSnapshot, fileVars, history, Shapes, RtShape
  <2>2. pc[r] = "start" /\ r \in Runner
    BY <1>3a DEF TakeSnapshot, Step
  <2>q. QED
    BY <2>1, <2>2 DEF TurnsCounted, Starting
<1>3b. CASE Spawn(r)
  <2>1. rt'.relay = rt.relay /\ UNCHANGED <<mode, turned, bridge, caseDir>>
    BY <1>3b DEF Spawn, fileVars, Shapes, RtShape
  <2>2. pc[r] = "spawn" /\ r \in Runner
    BY <1>3b DEF Spawn, Step
  <2>q. QED
    BY <2>1, <2>2 DEF TurnsCounted, Starting
<1>4. CASE StartRelay(r)
  BY <1>4, <1>0 DEF StartRelay, Step, NewBridge, rtVars, fileVars, jobVars, history,
        Shapes, PcShape, Claim, Owner, Owning, Free, Stage, RtShape, BridgeShape,
        StagesOfMode, FirstRun, TurnsCounted, Starting
<1>5. CASE SpawnTui(r)
  BY <1>5 DEF SpawnTui, Step, fileVars, jobVars, history, Shapes, PcShape, Claim,
        Owner, Owning, Free, Stage, RtShape, BridgeShape, StagesOfMode, FirstRun,
        TurnsCounted, Starting
<1>6. CASE Timeout(r)
  BY <1>6, <1>0 DEF Timeout, fileVars, rtVars, jobVars, history, Shapes, PcShape,
        Claim, Owner, Owning, Free, Stage, RtShape, BridgeShape, StagesOfMode,
        FirstRun, TurnsCounted, Starting
<1>7. CASE CloseRelay(r)
  BY <1>7 DEF CloseRelay, Step, EndAll, fileVars, jobVars, history, Shapes, PcShape,
        Claim, Owner, Owning, Free, Stage, RtShape, BridgeShape, StagesOfMode,
        FirstRun, TurnsCounted, Starting
<1>8. CASE CloseRuntime(r)
  BY <1>8 DEF CloseRuntime, Odd, Step, AfterClose, CleanupOwned, fileVars, jobVars,
        Shapes, PcShape, Claim, Owner, Owning, Free, Stage, RtShape, BridgeShape,
        StagesOfMode, FirstRun, TurnsCounted, Starting
<1>9. CASE Verdict(r)
  BY <1>9 DEF Verdict, Step, Ps, rtVars, jobVars, Odd, Shapes, PcShape, Claim, Owner,
        Owning, Free, Stage, RtShape, BridgeShape, StagesOfMode, FirstRun,
        TurnsCounted, Starting
<1>10. CASE VerifyResume(r)
  BY <1>10 DEF VerifyResume, Step, fileVars, rtVars, jobVars, history, Shapes,
        PcShape, Claim, Owner, Owning, Free, Stage, RtShape, BridgeShape,
        StagesOfMode, FirstRun, TurnsCounted, Starting
<1>11. CASE Recheck(r)
  BY <1>11, <1>0 DEF Recheck, Step, fileVars, rtVars, jobVars, history, Shapes,
        PcShape, Claim, Owner, Owning, Free, Stage, RtShape, BridgeShape,
        StagesOfMode, FirstRun, TurnsCounted, Starting
<1>12. CASE ResumeCandidate(r)
  BY <1>12, <1>0 DEF ResumeCandidate, Qualified, Step, fileVars, rtVars, jobVars,
        history, Shapes, PcShape, Claim, Owner, Owning, Free, Stage, RtShape,
        BridgeShape, StagesOfMode, FirstRun, TurnsCounted, Starting
<1>13. CASE SilentWindow(r)
  BY <1>13, <1>0 DEF SilentWindow, Step, fileVars, rtVars, jobVars, history, Shapes,
        PcShape, Claim, Owner, Owning, Free, Stage, RtShape, BridgeShape,
        StagesOfMode, FirstRun, TurnsCounted, Starting
<1>14. CASE StatusThenQuit(r)
  BY <1>14, <1>0 DEF StatusThenQuit, Step, fileVars, rtVars, jobVars, history, Shapes,
        PcShape, Claim, Owner, Owning, Free, Stage, RtShape, BridgeShape,
        StagesOfMode, FirstRun, TurnsCounted, Starting
<1>15. CASE QuitEvidence(r)
  BY <1>15 DEF QuitEvidence, fileVars, rtVars, jobVars, history, Shapes, PcShape,
        Claim, Owner, Owning, Free, Stage, RtShape, BridgeShape, StagesOfMode,
        FirstRun, TurnsCounted, Starting
<1>16. CASE InitialCandidate(r)
  BY <1>16, <1>0 DEF InitialCandidate, Qualified, Step, fileVars, rtVars, jobVars,
        history, Shapes, PcShape, Claim, Owner, Owning, Free, Stage, RtShape,
        BridgeShape, StagesOfMode, FirstRun, TurnsCounted, Starting
<1>17. CASE Disconnect(r)
  <2>1. /\ bridge'.turns = bridge.turns /\ bridge'.complete = bridge.complete
        /\ UNCHANGED <<mode, turned, rt, caseDir>>
    <3>1. bridge' = bridge \/ bridge' = Ended(bridge, run.epoch, "disconnect")
      BY <1>17 DEF Disconnect
    <3>2. UNCHANGED <<mode, turned, rt, caseDir>>
      BY <1>17 DEF Disconnect, fileVars, rtVars, history
    <3>q. QED
      BY <3>1, <3>2 DEF Ended, Shapes, BridgeShape
  <2>2. \A u \in Runner : pc'[u] \in Starting => pc[u] \in Starting
    BY <1>17, <1>0 DEF Disconnect, Step, Shapes, PcShape, Starting
  <2>q. QED
    BY <2>1, <2>2 DEF TurnsCounted
<1>18. CASE Probe(r)
  BY <1>18, <1>0 DEF Probe, Step, fileVars, rtVars, jobVars, history, Shapes, PcShape,
        Claim, Owner, Owning, Free, Stage, RtShape, BridgeShape, StagesOfMode,
        FirstRun, TurnsCounted, Starting
<1>19. CASE FreshStatus(r)
  BY <1>19 DEF FreshStatus, fileVars, rtVars, jobVars, history, Shapes, PcShape,
        Claim, Owner, Owning, Free, Stage, RtShape, BridgeShape, StagesOfMode,
        FirstRun, TurnsCounted, Starting
<1>20. CASE FinalQuit(r)
  BY <1>20 DEF FinalQuit, Step, fileVars, rtVars, jobVars, history, Shapes, PcShape,
        Claim, Owner, Owning, Free, Stage, RtShape, BridgeShape, StagesOfMode,
        FirstRun, TurnsCounted, Starting
<1>21. CASE FinalExit(r)
  BY <1>21 DEF FinalExit, Step, fileVars, rtVars, jobVars, history, Shapes, PcShape,
        Claim, Owner, Owning, Free, Stage, RtShape, BridgeShape, StagesOfMode,
        FirstRun, TurnsCounted, Starting
<1>22. CASE VerifyPartial(r)
  BY <1>22 DEF VerifyPartial, Step, fileVars, rtVars, jobVars, history, Shapes,
        PcShape, Claim, Owner, Owning, Free, Stage, RtShape, BridgeShape,
        StagesOfMode, FirstRun, TurnsCounted, Starting
<1>23. CASE CreateJobDir(r)
  BY <1>23 DEF CreateJobDir, fileVars, rtVars, history, Shapes, PcShape, Claim, Owner,
        Owning, Free, Stage, RtShape, BridgeShape, StagesOfMode, FirstRun,
        TurnsCounted, Starting
<1>24. CASE PartialCandidate(r)
  BY <1>24, <1>0 DEF PartialCandidate, Qualified, Step, fileVars, rtVars, jobVars,
        history, Shapes, PcShape, Claim, Owner, Owning, Free, Stage, RtShape,
        BridgeShape, StagesOfMode, FirstRun, TurnsCounted, Starting
<1>25. CASE EffectiveModel(r)
  BY <1>25, <1>0 DEF EffectiveModel, Step, fileVars, rtVars, jobVars, history, Shapes,
        PcShape, Claim, Owner, Owning, Free, Stage, RtShape, BridgeShape,
        StagesOfMode, FirstRun, TurnsCounted, Starting
<1>26. CASE StartPrompt(r)
  BY <1>26, <1>0 DEF StartPrompt, Step, fileVars, rtVars, jobVars, history, Shapes,
        PcShape, Claim, Owner, Owning, Free, Stage, RtShape, BridgeShape,
        StagesOfMode, FirstRun, TurnsCounted, Starting
<1>27. CASE InspectPartial(r)
  BY <1>27 DEF InspectPartial, Step, fileVars, rtVars, jobVars, history, Shapes,
        PcShape, Claim, Owner, Owning, Free, Stage, RtShape, BridgeShape,
        StagesOfMode, FirstRun, TurnsCounted, Starting
<1>28. CASE GuardThenQuit(r)
  BY <1>28, <1>0 DEF GuardThenQuit, Step, fileVars, rtVars, jobVars, history, Shapes,
        PcShape, Claim, Owner, Owning, Free, Stage, RtShape, BridgeShape,
        StagesOfMode, FirstRun, TurnsCounted, Starting
<1>29. CASE QuitDrained(r)
  BY <1>29, <1>0 DEF QuitDrained, Step, fileVars, rtVars, jobVars, history, Shapes,
        PcShape, Claim, Owner, Owning, Free, Stage, RtShape, BridgeShape,
        StagesOfMode, FirstRun, TurnsCounted, Starting
<1>30. CASE InspectStopped(r)
  BY <1>30 DEF InspectStopped, Step, Ps, fileVars, rtVars, jobVars, Odd, Shapes,
        PcShape, Claim, Owner, Owning, Free, Stage, RtShape, BridgeShape,
        StagesOfMode, FirstRun, TurnsCounted, Starting
<1>31. CASE StopIsStable(r)
  BY <1>31, <1>0 DEF StopIsStable, Ps, Step, NewRuntime, fileVars, jobVars, Odd,
        Shapes, PcShape, Claim, Owner, Owning, Free, Stage, RtShape, BridgeShape,
        StagesOfMode, FirstRun, TurnsCounted, Starting
<1>32. CASE QuietBegins(r)
  BY <1>32, <1>0 DEF QuietBegins, Step, fileVars, rtVars, jobVars, history, Shapes,
        PcShape, Claim, Owner, Owning, Free, Stage, RtShape, BridgeShape,
        StagesOfMode, FirstRun, TurnsCounted, Starting
<1>33. CASE QuietEnds(r)
  BY <1>33, <1>0 DEF QuietEnds, Step, fileVars, rtVars, jobVars, history, Shapes,
        PcShape, Claim, Owner, Owning, Free, Stage, RtShape, BridgeShape,
        StagesOfMode, FirstRun, TurnsCounted, Starting
<1>34. CASE QuietAfterStatus(r)
  BY <1>34, <1>0 DEF QuietAfterStatus, Step, fileVars, rtVars, jobVars, history,
        Shapes, PcShape, Claim, Owner, Owning, Free, Stage, RtShape, BridgeShape,
        StagesOfMode, FirstRun, TurnsCounted, Starting
<1>35. CASE ContinuePrompt(r)
  BY <1>35, <1>0 DEF ContinuePrompt, Step, fileVars, rtVars, jobVars, history, Shapes,
        PcShape, Claim, Owner, Owning, Free, Stage, RtShape, BridgeShape,
        StagesOfMode, FirstRun, TurnsCounted, Starting
<1>36. CASE InspectContinued(r)
  BY <1>36, <1>0 DEF InspectContinued, Ps, Step, fileVars, rtVars, jobVars, Odd,
        Shapes, PcShape, Claim, Owner, Owning, Free, Stage, RtShape, BridgeShape,
        StagesOfMode, FirstRun, TurnsCounted, Starting
<1>q. QED
  BY <1>1, <1>2, <1>3, <1>3a, <1>3b, <1>4, <1>5, <1>6, <1>7, <1>8, <1>9, <1>10, <1>11, <1>12, <1>13,
     <1>14, <1>15, <1>16, <1>17, <1>18, <1>19, <1>20, <1>21, <1>22, <1>23, <1>24,
     <1>25, <1>26, <1>27, <1>28, <1>29, <1>30, <1>31, <1>32, <1>33, <1>34, <1>35,
     <1>36
     DEF RunnerStep, Common, ResumeCase, ReconnectCase, PartialCase

\* What most steps leave as it is: the files, what is known of them, the state of
\* the runtime's close; they lead neither before a snapshot nor between runtimes.
FilesLeft(r) ==
    /\ UNCHANGED <<record, source, caseDir, stale, slipped>>
    /\ rt'.expected = rt.expected /\ rt'.closed = rt.closed
    /\ \A u \in Runner : u # r => pc'[u] = pc[u]
    /\ pc[r] # "idle" /\ pc'[r] \notin Early \cup {"spawn"} \cup Between
    /\ pc'[r] \in Working => pc[r] \in Working

\* Such a step keeps what is known of the files true.
LEMMA FilesCarried ==
    ASSUME FilesTraced, NEW r \in Runner, FilesLeft(r)
    PROVE  FilesTraced'
<1>1. OffRecord' = OffRecord /\ OffSnapshot' = OffSnapshot
  BY DEF FilesLeft, OffRecord, OffSnapshot
<1>2. \A u \in Runner :
        /\ pc'[u] \in Early \cup {"spawn"} \cup Between => pc'[u] = pc[u]
        /\ pc'[u] \in Working => pc[u] \in Working
  BY DEF FilesLeft
<1>q. QED
  BY <1>1, <1>2 DEF FilesLeft, FilesTraced

\* A backend is spawned with the files of the moment; what differs from the
\* record then still differs, and a close that finds a difference raises.
LEMMA FilesKept ==
    ASSUME Shapes, Claim, CloseIsTrue, FilesTraced, NEW r \in Runner, RunnerStep(r)
    PROVE  FilesTraced'
<1>0. Raise(r) =>
        /\ pc'[r] \in {"final0", "final"}
        /\ \A u \in Runner : u # r => pc'[u] = pc[u]
  BY RaiseEffect DEF Shapes
<1>1. CASE Create(r)
  <2>1. /\ UNCHANGED <<record, source, stale, slipped, rt>> /\ pc[r] = "verified"
        /\ \A u \in Runner : u # r => pc'[u] = pc[u]
        /\ \/ caseDir /\ caseDir' = caseDir /\ pc'[r] = "idle"
           \/ ~caseDir /\ caseDir' = TRUE /\ pc'[r] = "created"
    BY <1>1 DEF Create, Step, rtVars, history, edited, Shapes, PcShape
  <2>2. CASE caseDir
    BY <2>1, <2>2, FilesCarried DEF FilesLeft, Early, Between, Working, Owning, Free
  <2>3. CASE ~caseDir
    <3>1. rt.closed = "no" /\ rt.expected = {}
      BY <2>3 DEF CloseIsTrue, FilesTraced
    <3>q. QED
      BY <2>1, <2>3, <3>1 DEF FilesTraced, OffRecord, OffSnapshot, Early, Between
  <2>q. QED
    BY <2>2, <2>3
<1>2. CASE Crash(r)
  BY <1>2, FilesCarried DEF Crash, fileVars, rtVars, edited, Shapes, PcShape, RtShape,
        FilesLeft, Early, Between, Working, Owning, Free, Stage
<1>3. CASE Start(r)
  <2>1. UNCHANGED <<record, source, caseDir, stale, slipped, rt>> /\ pc[r] = "ready"
    BY <1>3 DEF Start, fileVars, rtVars, history, edited
  <2>2. CASE Raise(r)
    BY <2>1, <2>2, <1>0, FilesCarried
       DEF FilesLeft, Early, Between, Working, Owning, Free, Stage
  <2>3. CASE Step(r, "ready", "start")
    BY <2>1, <2>3 DEF Step, Shapes, PcShape, FilesTraced, OffRecord, OffSnapshot, Early,
        Between, Working, Owning, Free, Stage
  <2>q. QED
    BY <1>3, <2>2, <2>3 DEF Start
<1>3a. CASE TakeSnapshot(r)
  <2>1. /\ UNCHANGED <<record, source, caseDir, stale, slipped>>
        /\ pc[r] = "start" /\ pc'[r] = "spawn"
        /\ \A u \in Runner : u # r => pc'[u] = pc[u]
    BY <1>3a DEF TakeSnapshot, Step, fileVars, history, edited, Shapes, PcShape
  <2>2. rt'.closed = rt.closed /\ rt'.expected # {}
    BY <1>3a DEF TakeSnapshot, Shapes, RtShape
  <2>3. rt.closed = "no" /\ rt.expected = {} /\ caseDir
    BY <2>1 DEF CloseIsTrue, FilesTraced, Early, Starting, Claim, Owner, Owning, Free, Stage
  <2>4. slipped = {}
    BY <2>3 DEF FilesTraced
  <2>5. \A u \in Runner : u # r => pc[u] \notin Early
    BY <2>1 DEF Claim, Owner, Owning, Free, Stage, Early
  <2>q. QED
    BY <2>1, <2>2, <2>3, <2>4, <2>5
       DEF FilesTraced, OffRecord, Early, Between, Working, Owning, Free, Stage
<1>3b. CASE Spawn(r)
  <2>1. UNCHANGED <<record, source, caseDir>> /\ pc[r] = "spawn"
    BY <1>3b DEF Spawn, fileVars
  <2>2. CASE Raise(r) /\ UNCHANGED <<rt, stale, slipped>>
    BY <2>1, <2>2, <1>0, FilesCarried
       DEF FilesLeft, Early, Between, Working, Owning, Free, Stage
  <2>3. CASE /\ Step(r, "spawn", "backend") /\ rt' = [rt EXCEPT !.backend = "up"]
             /\ stale' = stale \cup OffRecord /\ slipped' = slipped \cup OffSnapshot
    <3>1. rt'.closed = rt.closed /\ rt'.expected = rt.expected
      BY <2>3 DEF Shapes, RtShape
    <3>2. rt.closed = "no" /\ rt.expected # {} /\ record # {}
      BY <2>1 DEF CloseIsTrue, FilesTraced, Starting
    <3>3. OffRecord' = OffRecord /\ OffSnapshot' = OffSnapshot
      BY <2>1, <3>1 DEF OffRecord, OffSnapshot
    <3>4. stale' \subseteq OffRecord'
      BY <2>3, <3>3 DEF FilesTraced
    <3>5. slipped' # {} => slipped' \subseteq OffSnapshot'
      BY <2>3, <3>2, <3>3 DEF FilesTraced
    <3>6. pc'[r] = "backend" /\ \A u \in Runner : u # r => pc'[u] = pc[u]
      BY <2>3 DEF Step, Shapes, PcShape
    <3>7. pc[r] \in Working
      BY <2>1 DEF Working, Owning, Free, Stage
    <3>q. QED
      BY <2>1, <3>1, <3>2, <3>4, <3>5, <3>6, <3>7 DEF FilesTraced, Early, Between
  <2>q. QED
    BY <1>3b, <2>2, <2>3 DEF Spawn
<1>4. CASE StartRelay(r)
  BY <1>4, <1>0, FilesCarried DEF StartRelay, Step, rtVars, fileVars, history, edited,
        Shapes, PcShape, RtShape, FilesLeft, Early, Between, Working, Owning, Free,
        Stage
<1>5. CASE SpawnTui(r)
  BY <1>5, FilesCarried DEF SpawnTui, Step, fileVars, history, edited, Shapes, PcShape,
        RtShape, FilesLeft, Early, Between, Working, Owning, Free, Stage
<1>6. CASE Timeout(r)
  BY <1>6, <1>0, FilesCarried DEF Timeout, fileVars, rtVars, history, edited, Shapes,
        PcShape, RtShape, FilesLeft, Early, Between, Working, Owning, Free, Stage
<1>7. CASE CloseRelay(r)
  BY <1>7, FilesCarried DEF CloseRelay, Step, fileVars, history, edited, Shapes,
        PcShape, RtShape, FilesLeft, Early, Between, Working, Owning, Free, Stage
<1>8. CASE CloseRuntime(r)
  <2>1. /\ UNCHANGED <<record, source, caseDir, stale, slipped>> /\ pc[r] = "closing"
        /\ rt'.expected = rt.expected /\ rt'.closed \in {"ok", "raised"}
        /\ rt'.closed = "ok" => rt.expected \subseteq {Snapshot}
        /\ pc'[r] \in {"verdict", "stopped"} /\ (pc'[r] = "stopped" => rt'.closed = "ok")
        /\ \A u \in Runner : u # r => pc'[u] = pc[u]
    <3>1. PICK stuck \in BOOLEAN :
            LET ok == ~stuck /\ rt.expected \subseteq {Snapshot} IN
            /\ rt' = [rt EXCEPT !.tui = IF @ = "up" /\ ~stuck THEN "bad" ELSE @,
                                !.backend = IF @ = "up" THEN "gone" ELSE @,
                                !.closed = IF ok THEN "ok" ELSE "raised"]
            /\ IF mode = "partial" /\ ~ok
               THEN Step(r, "closing", "verdict") ELSE Step(r, "closing", AfterClose)
      BY <1>8 DEF CloseRuntime
    <3>2. UNCHANGED <<record, source, caseDir, stale, slipped>> /\ pc[r] = "closing"
      BY <1>8 DEF CloseRuntime, fileVars, edited
    <3>3. AfterClose \in {"verdict", "stopped"} /\ (mode # "partial" => AfterClose = "verdict")
      BY DEF AfterClose
    <3>4. rt'.expected = rt.expected
          /\ rt'.closed = IF ~stuck /\ rt.expected \subseteq {Snapshot} THEN "ok" ELSE "raised"
      BY <3>1 DEF Shapes, RtShape
    <3>5. pc'[r] \in {"verdict", "stopped"} /\ (pc'[r] = "stopped" => rt'.closed = "ok")
          /\ \A u \in Runner : u # r => pc'[u] = pc[u]
      BY <3>1, <3>3, <3>4 DEF Step, Shapes, PcShape
    <3>q. QED
      BY <3>2, <3>4, <3>5
  <2>2. record # {} /\ caseDir /\ rt.closed # "raised"
    BY <2>1 DEF FilesTraced, Claim, Owner, Working, Owning, Free, Stage
  <2>3. slipped # {} => rt'.closed = "raised"
    <3>1. SUFFICES ASSUME slipped # {}, rt'.closed = "ok" PROVE FALSE
      BY <2>1
    <3>2. rt.expected = {Snapshot} /\ slipped \subseteq OffSnapshot
      BY <2>1, <2>2, <3>1 DEF FilesTraced
    <3>3. OffSnapshot = {}
      BY <3>2 DEF OffSnapshot, Snapshot
    <3>q. QED
      BY <3>1, <3>2, <3>3
  <2>4. \A u \in Runner : u # r => pc[u] \notin Working \cup Between \cup Early \cup {"spawn"}
    BY <2>1 DEF Claim, Owner, Working, Between, Early, Owning, Free, Stage
  <2>5. pc'[r] \in {"verdict", "stopped"} => pc'[r] \notin Early \cup {"spawn"}
    BY DEF Early
  <2>6. OffRecord' = OffRecord
    BY <2>1 DEF OffRecord
  <2>7. pc'[r] \in Between \/ pc'[r] \in Working => rt'.closed = "ok"
    BY <2>1 DEF Between, Working
  <2>q. QED
    BY <2>1, <2>2, <2>3, <2>4, <2>5, <2>6, <2>7 DEF FilesTraced
<1>9. CASE Verdict(r)
  BY <1>9, FilesCarried DEF Verdict, Step, Ps, rtVars, edited, Shapes, PcShape,
        RtShape, FilesLeft, Early, Between, Working, Owning, Free, Stage
<1>10. CASE VerifyResume(r)
  <2>1. /\ UNCHANGED <<record, source, caseDir, stale, slipped, rt>> /\ record # {}
        /\ pc' = [pc EXCEPT ![r] = "verified"]
    BY <1>10 DEF VerifyResume, Step, PreflightHolds, HashesHold, fileVars, rtVars, history, edited
  <2>q. QED
    BY <2>1 DEF Shapes, PcShape, FilesTraced, OffRecord, OffSnapshot, Early, Between,
        Working, Owning, Free
<1>11. CASE Recheck(r)
  <2>1. UNCHANGED <<record, source, caseDir, stale, slipped, rt>> /\ pc[r] = "created"
    BY <1>11 DEF Recheck, fileVars, rtVars, history, edited
  <2>2. CASE Raise(r)
    BY <2>1, <2>2, <1>0, FilesCarried
       DEF FilesLeft, Early, Between, Working, Owning, Free, Stage
  <2>3. CASE Step(r, "created", "ready")
    BY <2>1, <2>3 DEF Step, Shapes, PcShape, FilesTraced, OffRecord, OffSnapshot, Early,
        Between, Working, Owning, Free, Stage
  <2>q. QED
    BY <1>11, <2>2, <2>3 DEF Recheck
<1>12. CASE ResumeCandidate(r)
  BY <1>12, <1>0, FilesCarried DEF ResumeCandidate, Qualified, Step, fileVars, rtVars,
        history, edited, Shapes, PcShape, RtShape, FilesLeft, Early, Between, Working,
        Owning, Free, Stage
<1>13. CASE SilentWindow(r)
  BY <1>13, <1>0, FilesCarried DEF SilentWindow, Step, fileVars, rtVars, history,
        edited, Shapes, PcShape, RtShape, FilesLeft, Early, Between, Working, Owning,
        Free, Stage
<1>14. CASE StatusThenQuit(r)
  BY <1>14, <1>0, FilesCarried DEF StatusThenQuit, Step, fileVars, rtVars, history,
        edited, Shapes, PcShape, RtShape, FilesLeft, Early, Between, Working, Owning,
        Free, Stage
<1>15. CASE QuitEvidence(r)
  BY <1>15, FilesCarried DEF QuitEvidence, fileVars, rtVars, history, edited, Shapes,
        PcShape, RtShape, FilesLeft, Early, Between, Working, Owning, Free, Stage
<1>16. CASE InitialCandidate(r)
  BY <1>16, <1>0, FilesCarried DEF InitialCandidate, Qualified, Step, fileVars, rtVars,
        history, edited, Shapes, PcShape, RtShape, FilesLeft, Early, Between, Working,
        Owning, Free, Stage
<1>17. CASE Disconnect(r)
  BY <1>17, <1>0, FilesCarried DEF Disconnect, Step, fileVars, rtVars, history, edited,
        Shapes, PcShape, RtShape, FilesLeft, Early, Between, Working, Owning, Free,
        Stage
<1>18. CASE Probe(r)
  BY <1>18, <1>0, FilesCarried DEF Probe, Step, fileVars, rtVars, history, edited,
        Shapes, PcShape, RtShape, FilesLeft, Early, Between, Working, Owning, Free,
        Stage
<1>19. CASE FreshStatus(r)
  BY <1>19, FilesCarried DEF FreshStatus, fileVars, rtVars, history, edited, Shapes,
        PcShape, RtShape, FilesLeft, Early, Between, Working, Owning, Free, Stage
<1>20. CASE FinalQuit(r)
  BY <1>20, FilesCarried DEF FinalQuit, Step, fileVars, rtVars, history, edited,
        Shapes, PcShape, RtShape, FilesLeft, Early, Between, Working, Owning, Free,
        Stage
<1>21. CASE FinalExit(r)
  BY <1>21, FilesCarried DEF FinalExit, Step, fileVars, rtVars, history, edited,
        Shapes, PcShape, RtShape, FilesLeft, Early, Between, Working, Owning, Free,
        Stage
<1>22. CASE VerifyPartial(r)
  <2>1. /\ UNCHANGED <<record, source, caseDir, stale, slipped, rt>> /\ record # {}
        /\ pc' = [pc EXCEPT ![r] = "verified"]
    BY <1>22 DEF VerifyPartial, Step, ProtectionHolds, HashesHold, fileVars, rtVars, history, edited
  <2>q. QED
    BY <2>1 DEF Shapes, PcShape, FilesTraced, OffRecord, OffSnapshot, Early, Between,
        Working, Owning, Free
<1>23. CASE CreateJobDir(r)
  <2>1. /\ UNCHANGED <<record, source, caseDir, stale, slipped, rt>> /\ pc[r] = "created"
        /\ pc' = [pc EXCEPT ![r] = IF job.made THEN "crashed" ELSE "ready"]
    BY <1>23 DEF CreateJobDir, fileVars, rtVars, history, edited
  <2>q. QED
    BY <2>1 DEF Shapes, PcShape, FilesTraced, OffRecord, OffSnapshot, Early, Between,
        Working, Owning, Free, Stage
<1>24. CASE PartialCandidate(r)
  BY <1>24, <1>0, FilesCarried DEF PartialCandidate, Qualified, Step, fileVars, rtVars,
        history, edited, Shapes, PcShape, RtShape, FilesLeft, Early, Between, Working,
        Owning, Free, Stage
<1>25. CASE EffectiveModel(r)
  BY <1>25, <1>0, FilesCarried DEF EffectiveModel, Step, fileVars, rtVars, history,
        edited, Shapes, PcShape, RtShape, FilesLeft, Early, Between, Working, Owning,
        Free, Stage
<1>26. CASE StartPrompt(r)
  BY <1>26, <1>0, FilesCarried DEF StartPrompt, Step, fileVars, rtVars, history,
        edited, Shapes, PcShape, RtShape, FilesLeft, Early, Between, Working, Owning,
        Free, Stage
<1>27. CASE InspectPartial(r)
  BY <1>27, FilesCarried DEF InspectPartial, Step, fileVars, rtVars, history, edited,
        Shapes, PcShape, RtShape, FilesLeft, Early, Between, Working, Owning, Free,
        Stage
<1>28. CASE GuardThenQuit(r)
  BY <1>28, <1>0, FilesCarried DEF GuardThenQuit, Step, fileVars, rtVars, history,
        edited, Shapes, PcShape, RtShape, FilesLeft, Early, Between, Working, Owning,
        Free, Stage
<1>29. CASE QuitDrained(r)
  BY <1>29, <1>0, FilesCarried DEF QuitDrained, Step, fileVars, rtVars, history,
        edited, Shapes, PcShape, RtShape, FilesLeft, Early, Between, Working, Owning,
        Free, Stage
<1>30. CASE InspectStopped(r)
  <2>1. UNCHANGED <<record, source, caseDir, stale, slipped, rt>>
        /\ Step(r, "stopped", "stable")
    BY <1>30 DEF InspectStopped, fileVars, rtVars, edited
  <2>q. QED
    BY <2>1 DEF Step, Shapes, PcShape, FilesTraced, OffRecord, OffSnapshot, Early,
        Between, Working, Owning, Free, Stage
<1>31. CASE StopIsStable(r)
  <2>1. UNCHANGED <<record, source, caseDir, stale, slipped>> /\ pc[r] = "stable"
    BY <1>31 DEF StopIsStable, fileVars, edited
  <2>2. CASE Raise(r) /\ UNCHANGED rt
    BY <2>1, <2>2, <1>0, FilesCarried
       DEF FilesLeft, Early, Between, Working, Owning, Free, Stage
  <2>3. CASE Step(r, "stable", "ready") /\ rt' = NewRuntime(2)
    <3>1. rt.closed = "ok" /\ caseDir
      BY <2>1 DEF FilesTraced, Between, Claim, Owner, Owning, Free, Stage
    <3>2. slipped = {}
      BY <3>1 DEF FilesTraced
    <3>3. rt'.closed = "no" /\ rt'.expected = {}
      BY <2>3 DEF NewRuntime
    <3>4. pc'[r] = "ready" /\ \A u \in Runner : u # r => pc'[u] = pc[u]
      BY <2>3 DEF Step, Shapes, PcShape
    <3>5. \A u \in Runner : u # r => pc[u] \notin Between \cup {"spawn"}
      BY <2>1 DEF Claim, Owner, Between, Owning, Free, Stage
    <3>q. QED
      BY <2>1, <3>1, <3>2, <3>3, <3>4, <3>5 DEF FilesTraced, OffRecord, Early, Between
  <2>q. QED
    BY <1>31, <2>2, <2>3 DEF StopIsStable
<1>32. CASE QuietBegins(r)
  BY <1>32, <1>0, FilesCarried DEF QuietBegins, Step, fileVars, rtVars, history,
        edited, Shapes, PcShape, RtShape, FilesLeft, Early, Between, Working, Owning,
        Free, Stage
<1>33. CASE QuietEnds(r)
  BY <1>33, <1>0, FilesCarried DEF QuietEnds, Step, fileVars, rtVars, history, edited,
        Shapes, PcShape, RtShape, FilesLeft, Early, Between, Working, Owning, Free,
        Stage
<1>34. CASE QuietAfterStatus(r)
  BY <1>34, <1>0, FilesCarried DEF QuietAfterStatus, Step, fileVars, rtVars, history,
        edited, Shapes, PcShape, RtShape, FilesLeft, Early, Between, Working, Owning,
        Free, Stage
<1>35. CASE ContinuePrompt(r)
  BY <1>35, <1>0, FilesCarried DEF ContinuePrompt, Step, fileVars, rtVars, history,
        edited, Shapes, PcShape, RtShape, FilesLeft, Early, Between, Working, Owning,
        Free, Stage
<1>36. CASE InspectContinued(r)
  BY <1>36, <1>0, FilesCarried DEF InspectContinued, Ps, Step, fileVars, rtVars,
        edited, Shapes, PcShape, RtShape, FilesLeft, Early, Between, Working, Owning,
        Free, Stage
<1>q. QED
  BY <1>1, <1>2, <1>3, <1>3a, <1>3b, <1>4, <1>5, <1>6, <1>7, <1>8, <1>9, <1>10, <1>11,
     <1>12, <1>13, <1>14, <1>15, <1>16, <1>17, <1>18, <1>19, <1>20, <1>21, <1>22,
     <1>23, <1>24, <1>25, <1>26, <1>27, <1>28, <1>29, <1>30, <1>31, <1>32, <1>33,
     <1>34, <1>35, <1>36
     DEF RunnerStep, Common, ResumeCase, ReconnectCase, PartialCase

\* Nothing is started in a runtime that was closed.
LEMMA CloseKept ==
    ASSUME Shapes, Claim, CloseIsTrue, NEW r \in Runner, RunnerStep(r)
    PROVE  CloseIsTrue'
<1>0. Raise(r) =>
        /\ run'.failed = TRUE /\ pc'[r] \in {"final0", "final"}
        /\ pc'[r] = "final0" => mode = "reconnect"
        /\ \A u \in Runner : u # r => pc'[u] = pc[u]
  BY RaiseEffect DEF Shapes
<1>1. CASE Create(r)
  BY <1>1 DEF Create, Step, rtVars, jobVars, history, Shapes, PcShape, Claim, Owner,
        Owning, Free, Stage, RtShape, CloseIsTrue, Starting
<1>2. CASE Crash(r)
  BY <1>2 DEF Crash, Odd, fileVars, rtVars, jobVars, Shapes, PcShape, Claim, Owner,
        Owning, Free, Stage, RtShape, CloseIsTrue, Starting
<1>3. CASE Start(r)
  BY <1>3, <1>0, ZenonT(60) DEF Start, Step, fileVars, rtVars, jobVars, history,
        Shapes, PcShape, Claim, Owner, Owning, Free, Stage, RtShape, CloseIsTrue,
        Starting
<1>3a. CASE TakeSnapshot(r)
  BY <1>3a, ZenonT(60) DEF TakeSnapshot, Step, fileVars, jobVars, history, Shapes,
        PcShape, Claim, Owner, Owning, Free, Stage, RtShape, CloseIsTrue, Starting
<1>3b. CASE Spawn(r)
  BY <1>3b, <1>0, ZenonT(60) DEF Spawn, Odd, Step, fileVars, jobVars, Shapes, PcShape,
        Claim, Owner, Owning, Free, Stage, RtShape, CloseIsTrue, Starting
<1>4. CASE StartRelay(r)
  BY <1>4, <1>0 DEF StartRelay, Step, NewBridge, rtVars, fileVars, jobVars, history,
        Shapes, PcShape, Claim, Owner, Owning, Free, Stage, RtShape, CloseIsTrue,
        Starting
<1>5. CASE SpawnTui(r)
  BY <1>5 DEF SpawnTui, Step, fileVars, jobVars, history, Shapes, PcShape, Claim,
        Owner, Owning, Free, Stage, RtShape, CloseIsTrue, Starting
<1>6. CASE Timeout(r)
  BY <1>6, <1>0 DEF Timeout, fileVars, rtVars, jobVars, history, Shapes, PcShape,
        Claim, Owner, Owning, Free, Stage, RtShape, CloseIsTrue, Starting
<1>7. CASE CloseRelay(r)
  BY <1>7 DEF CloseRelay, Step, EndAll, fileVars, jobVars, history, Shapes, PcShape,
        Claim, Owner, Owning, Free, Stage, RtShape, CloseIsTrue, Starting
<1>8. CASE CloseRuntime(r)
  BY <1>8 DEF CloseRuntime, Odd, Step, AfterClose, CleanupOwned, fileVars, jobVars,
        Shapes, PcShape, Claim, Owner, Owning, Free, Stage, RtShape, CloseIsTrue,
        Starting
<1>9. CASE Verdict(r)
  BY <1>9 DEF Verdict, Step, Ps, rtVars, jobVars, Odd, Shapes, PcShape, Claim, Owner,
        Owning, Free, Stage, RtShape, CloseIsTrue, Starting
<1>10. CASE VerifyResume(r)
  BY <1>10 DEF VerifyResume, Step, fileVars, rtVars, jobVars, history, Shapes,
        PcShape, Claim, Owner, Owning, Free, Stage, RtShape, CloseIsTrue, Starting
<1>11. CASE Recheck(r)
  BY <1>11, <1>0 DEF Recheck, Step, fileVars, rtVars, jobVars, history, Shapes,
        PcShape, Claim, Owner, Owning, Free, Stage, RtShape, CloseIsTrue, Starting
<1>12. CASE ResumeCandidate(r)
  BY <1>12, <1>0 DEF ResumeCandidate, Qualified, Step, fileVars, rtVars, jobVars,
        history, Shapes, PcShape, Claim, Owner, Owning, Free, Stage, RtShape,
        CloseIsTrue, Starting
<1>13. CASE SilentWindow(r)
  BY <1>13, <1>0 DEF SilentWindow, Step, fileVars, rtVars, jobVars, history, Shapes,
        PcShape, Claim, Owner, Owning, Free, Stage, RtShape, CloseIsTrue, Starting
<1>14. CASE StatusThenQuit(r)
  BY <1>14, <1>0 DEF StatusThenQuit, Step, fileVars, rtVars, jobVars, history, Shapes,
        PcShape, Claim, Owner, Owning, Free, Stage, RtShape, CloseIsTrue, Starting
<1>15. CASE QuitEvidence(r)
  BY <1>15 DEF QuitEvidence, fileVars, rtVars, jobVars, history, Shapes, PcShape,
        Claim, Owner, Owning, Free, Stage, RtShape, CloseIsTrue, Starting
<1>16. CASE InitialCandidate(r)
  BY <1>16, <1>0 DEF InitialCandidate, Qualified, Step, fileVars, rtVars, jobVars,
        history, Shapes, PcShape, Claim, Owner, Owning, Free, Stage, RtShape,
        CloseIsTrue, Starting
<1>17. CASE Disconnect(r)
  BY <1>17, <1>0 DEF Disconnect, Step, Ended, fileVars, rtVars, jobVars, history,
        Shapes, PcShape, Claim, Owner, Owning, Free, Stage, RtShape, CloseIsTrue,
        Starting
<1>18. CASE Probe(r)
  BY <1>18, <1>0 DEF Probe, Step, fileVars, rtVars, jobVars, history, Shapes, PcShape,
        Claim, Owner, Owning, Free, Stage, RtShape, CloseIsTrue, Starting
<1>19. CASE FreshStatus(r)
  BY <1>19 DEF FreshStatus, fileVars, rtVars, jobVars, history, Shapes, PcShape,
        Claim, Owner, Owning, Free, Stage, RtShape, CloseIsTrue, Starting
<1>20. CASE FinalQuit(r)
  BY <1>20 DEF FinalQuit, Step, fileVars, rtVars, jobVars, history, Shapes, PcShape,
        Claim, Owner, Owning, Free, Stage, RtShape, CloseIsTrue, Starting
<1>21. CASE FinalExit(r)
  BY <1>21 DEF FinalExit, Step, fileVars, rtVars, jobVars, history, Shapes, PcShape,
        Claim, Owner, Owning, Free, Stage, RtShape, CloseIsTrue, Starting
<1>22. CASE VerifyPartial(r)
  BY <1>22 DEF VerifyPartial, Step, fileVars, rtVars, jobVars, history, Shapes,
        PcShape, Claim, Owner, Owning, Free, Stage, RtShape, CloseIsTrue, Starting
<1>23. CASE CreateJobDir(r)
  BY <1>23 DEF CreateJobDir, fileVars, rtVars, history, Shapes, PcShape, Claim, Owner,
        Owning, Free, Stage, RtShape, CloseIsTrue, Starting
<1>24. CASE PartialCandidate(r)
  BY <1>24, <1>0 DEF PartialCandidate, Qualified, Step, fileVars, rtVars, jobVars,
        history, Shapes, PcShape, Claim, Owner, Owning, Free, Stage, RtShape,
        CloseIsTrue, Starting
<1>25. CASE EffectiveModel(r)
  BY <1>25, <1>0 DEF EffectiveModel, Step, fileVars, rtVars, jobVars, history, Shapes,
        PcShape, Claim, Owner, Owning, Free, Stage, RtShape, CloseIsTrue, Starting
<1>26. CASE StartPrompt(r)
  BY <1>26, <1>0 DEF StartPrompt, Step, fileVars, rtVars, jobVars, history, Shapes,
        PcShape, Claim, Owner, Owning, Free, Stage, RtShape, CloseIsTrue, Starting
<1>27. CASE InspectPartial(r)
  BY <1>27 DEF InspectPartial, Step, fileVars, rtVars, jobVars, history, Shapes,
        PcShape, Claim, Owner, Owning, Free, Stage, RtShape, CloseIsTrue, Starting
<1>28. CASE GuardThenQuit(r)
  BY <1>28, <1>0 DEF GuardThenQuit, Step, fileVars, rtVars, jobVars, history, Shapes,
        PcShape, Claim, Owner, Owning, Free, Stage, RtShape, CloseIsTrue, Starting
<1>29. CASE QuitDrained(r)
  BY <1>29, <1>0 DEF QuitDrained, Step, fileVars, rtVars, jobVars, history, Shapes,
        PcShape, Claim, Owner, Owning, Free, Stage, RtShape, CloseIsTrue, Starting
<1>30. CASE InspectStopped(r)
  BY <1>30 DEF InspectStopped, Step, Ps, fileVars, rtVars, jobVars, Odd, Shapes,
        PcShape, Claim, Owner, Owning, Free, Stage, RtShape, CloseIsTrue, Starting
<1>31. CASE StopIsStable(r)
  BY <1>31, <1>0 DEF StopIsStable, Ps, Step, NewRuntime, fileVars, jobVars, Odd,
        Shapes, PcShape, Claim, Owner, Owning, Free, Stage, RtShape, CloseIsTrue,
        Starting
<1>32. CASE QuietBegins(r)
  BY <1>32, <1>0 DEF QuietBegins, Step, fileVars, rtVars, jobVars, history, Shapes,
        PcShape, Claim, Owner, Owning, Free, Stage, RtShape, CloseIsTrue, Starting
<1>33. CASE QuietEnds(r)
  BY <1>33, <1>0 DEF QuietEnds, Step, fileVars, rtVars, jobVars, history, Shapes,
        PcShape, Claim, Owner, Owning, Free, Stage, RtShape, CloseIsTrue, Starting
<1>34. CASE QuietAfterStatus(r)
  BY <1>34, <1>0 DEF QuietAfterStatus, Step, fileVars, rtVars, jobVars, history,
        Shapes, PcShape, Claim, Owner, Owning, Free, Stage, RtShape, CloseIsTrue,
        Starting
<1>35. CASE ContinuePrompt(r)
  BY <1>35, <1>0 DEF ContinuePrompt, Step, fileVars, rtVars, jobVars, history, Shapes,
        PcShape, Claim, Owner, Owning, Free, Stage, RtShape, CloseIsTrue, Starting
<1>36. CASE InspectContinued(r)
  BY <1>36, <1>0 DEF InspectContinued, Ps, Step, fileVars, rtVars, jobVars, Odd,
        Shapes, PcShape, Claim, Owner, Owning, Free, Stage, RtShape, CloseIsTrue,
        Starting
<1>q. QED
  BY <1>1, <1>2, <1>3, <1>3a, <1>3b, <1>4, <1>5, <1>6, <1>7, <1>8, <1>9, <1>10, <1>11,
     <1>12, <1>13, <1>14, <1>15, <1>16, <1>17, <1>18, <1>19, <1>20, <1>21, <1>22,
     <1>23, <1>24, <1>25, <1>26, <1>27, <1>28, <1>29, <1>30, <1>31, <1>32, <1>33,
     <1>34, <1>35, <1>36
     DEF RunnerStep, Common, ResumeCase, ReconnectCase, PartialCase

\* What the close leaves of the sockets is not the runtime's own.
LEMMA SocketsKept ==
    ASSUME Shapes, Claim, SocketsOwned, NEW r \in Runner, RunnerStep(r)
    PROVE  SocketsOwned'
<1>0. Raise(r) =>
        /\ run'.failed = TRUE /\ pc'[r] \in {"final0", "final"}
        /\ pc'[r] = "final0" => mode = "reconnect"
        /\ \A u \in Runner : u # r => pc'[u] = pc[u]
  BY RaiseEffect DEF Shapes
<1>1. CASE Create(r)
  BY <1>1 DEF Create, Step, rtVars, jobVars, history, Shapes, PcShape, Claim, Owner,
        Owning, Free, Stage, RtShape, FileShape, RunShape, SocketsOwned, Serving,
        Leaving, Socket
<1>2. CASE Crash(r)
  BY <1>2 DEF Crash, Odd, fileVars, rtVars, jobVars, Shapes, PcShape, Claim, Owner,
        Owning, Free, Stage, RtShape, FileShape, RunShape, SocketsOwned, Serving,
        Leaving, Socket
<1>3. CASE Start(r)
  BY <1>3, <1>0 DEF Start, Step, fileVars, rtVars, jobVars, history, Shapes, PcShape,
        Claim, Owner, Owning, Free, Stage, RtShape, FileShape, RunShape, SocketsOwned,
        Serving, Leaving, Socket
<1>3a. CASE TakeSnapshot(r)
  BY <1>3a DEF TakeSnapshot, Step, fileVars, jobVars, history, Shapes, PcShape, Claim,
        Owner, Owning, Free, Stage, RtShape, FileShape, RunShape, SocketsOwned,
        Serving, Leaving, Socket
<1>3b. CASE Spawn(r)
  BY <1>3b, <1>0 DEF Spawn, Odd, Step, fileVars, jobVars, Shapes, PcShape, Claim,
        Owner, Owning, Free, Stage, RtShape, FileShape, RunShape, SocketsOwned,
        Serving, Leaving, Socket
<1>4. CASE StartRelay(r)
  BY <1>4, <1>0 DEF StartRelay, Step, NewBridge, rtVars, fileVars, jobVars, history,
        Shapes, PcShape, Claim, Owner, Owning, Free, Stage, RtShape, FileShape,
        RunShape, SocketsOwned, Serving, Leaving, Socket
<1>5. CASE SpawnTui(r)
  BY <1>5 DEF SpawnTui, Step, fileVars, jobVars, history, Shapes, PcShape, Claim,
        Owner, Owning, Free, Stage, RtShape, FileShape, RunShape, SocketsOwned,
        Serving, Leaving, Socket
<1>6. CASE Timeout(r)
  BY <1>6, <1>0 DEF Timeout, fileVars, rtVars, jobVars, history, Shapes, PcShape,
        Claim, Owner, Owning, Free, Stage, RtShape, FileShape, RunShape, SocketsOwned,
        Serving, Leaving, Socket
<1>7. CASE CloseRelay(r)
  BY <1>7 DEF CloseRelay, Step, EndAll, fileVars, jobVars, history, Shapes, PcShape,
        Claim, Owner, Owning, Free, Stage, RtShape, FileShape, RunShape, SocketsOwned,
        Serving, Leaving, Socket
<1>8. CASE CloseRuntime(r)
  BY <1>8 DEF CloseRuntime, Odd, Step, AfterClose, CleanupOwned, fileVars, jobVars,
        Shapes, PcShape, Claim, Owner, Owning, Free, Stage, RtShape, FileShape,
        RunShape, SocketsOwned, Serving, Leaving, Socket
<1>9. CASE Verdict(r)
  BY <1>9 DEF Verdict, Step, Ps, rtVars, jobVars, Odd, Shapes, PcShape, Claim, Owner,
        Owning, Free, Stage, RtShape, FileShape, RunShape, SocketsOwned, Serving,
        Leaving, Socket
<1>10. CASE VerifyResume(r)
  BY <1>10 DEF VerifyResume, Step, fileVars, rtVars, jobVars, history, Shapes,
        PcShape, Claim, Owner, Owning, Free, Stage, RtShape, FileShape, RunShape,
        SocketsOwned, Serving, Leaving, Socket
<1>11. CASE Recheck(r)
  BY <1>11, <1>0 DEF Recheck, Step, fileVars, rtVars, jobVars, history, Shapes,
        PcShape, Claim, Owner, Owning, Free, Stage, RtShape, FileShape, RunShape,
        SocketsOwned, Serving, Leaving, Socket
<1>12. CASE ResumeCandidate(r)
  BY <1>12, <1>0 DEF ResumeCandidate, Qualified, Step, fileVars, rtVars, jobVars,
        history, Shapes, PcShape, Claim, Owner, Owning, Free, Stage, RtShape,
        FileShape, RunShape, SocketsOwned, Serving, Leaving, Socket
<1>13. CASE SilentWindow(r)
  BY <1>13, <1>0 DEF SilentWindow, Step, fileVars, rtVars, jobVars, history, Shapes,
        PcShape, Claim, Owner, Owning, Free, Stage, RtShape, FileShape, RunShape,
        SocketsOwned, Serving, Leaving, Socket
<1>14. CASE StatusThenQuit(r)
  BY <1>14, <1>0 DEF StatusThenQuit, Step, fileVars, rtVars, jobVars, history, Shapes,
        PcShape, Claim, Owner, Owning, Free, Stage, RtShape, FileShape, RunShape,
        SocketsOwned, Serving, Leaving, Socket
<1>15. CASE QuitEvidence(r)
  BY <1>15 DEF QuitEvidence, fileVars, rtVars, jobVars, history, Shapes, PcShape,
        Claim, Owner, Owning, Free, Stage, RtShape, FileShape, RunShape, SocketsOwned,
        Serving, Leaving, Socket
<1>16. CASE InitialCandidate(r)
  BY <1>16, <1>0 DEF InitialCandidate, Qualified, Step, fileVars, rtVars, jobVars,
        history, Shapes, PcShape, Claim, Owner, Owning, Free, Stage, RtShape,
        FileShape, RunShape, SocketsOwned, Serving, Leaving, Socket
<1>17. CASE Disconnect(r)
  BY <1>17, <1>0 DEF Disconnect, Step, Ended, fileVars, rtVars, jobVars, history,
        Shapes, PcShape, Claim, Owner, Owning, Free, Stage, RtShape, FileShape,
        RunShape, SocketsOwned, Serving, Leaving, Socket
<1>18. CASE Probe(r)
  BY <1>18, <1>0 DEF Probe, Step, fileVars, rtVars, jobVars, history, Shapes, PcShape,
        Claim, Owner, Owning, Free, Stage, RtShape, FileShape, RunShape, SocketsOwned,
        Serving, Leaving, Socket
<1>19. CASE FreshStatus(r)
  BY <1>19 DEF FreshStatus, fileVars, rtVars, jobVars, history, Shapes, PcShape,
        Claim, Owner, Owning, Free, Stage, RtShape, FileShape, RunShape, SocketsOwned,
        Serving, Leaving, Socket
<1>20. CASE FinalQuit(r)
  <2>1. run'.failed = run.failed /\ UNCHANGED <<rt, endpoint>>
    BY <1>20 DEF FinalQuit, rtVars, Shapes, RunShape
  <2>2. pc[r] = "final0" /\ pc'[r] \in {"quit0", "final"}
        /\ \A u \in Runner : u # r => pc'[u] = pc[u]
    BY <1>20 DEF FinalQuit, Step, Shapes, PcShape
  <2>q. QED
    BY <2>1, <2>2 DEF SocketsOwned, Serving, Leaving
<1>21. CASE FinalExit(r)
  BY <1>21 DEF FinalExit, Step, fileVars, rtVars, jobVars, history, Shapes, PcShape,
        Claim, Owner, Owning, Free, Stage, RtShape, FileShape, RunShape, SocketsOwned,
        Serving, Leaving, Socket
<1>22. CASE VerifyPartial(r)
  BY <1>22 DEF VerifyPartial, Step, fileVars, rtVars, jobVars, history, Shapes,
        PcShape, Claim, Owner, Owning, Free, Stage, RtShape, FileShape, RunShape,
        SocketsOwned, Serving, Leaving, Socket
<1>23. CASE CreateJobDir(r)
  BY <1>23 DEF CreateJobDir, fileVars, rtVars, history, Shapes, PcShape, Claim, Owner,
        Owning, Free, Stage, RtShape, FileShape, RunShape, SocketsOwned, Serving,
        Leaving, Socket
<1>24. CASE PartialCandidate(r)
  BY <1>24, <1>0 DEF PartialCandidate, Qualified, Step, fileVars, rtVars, jobVars,
        history, Shapes, PcShape, Claim, Owner, Owning, Free, Stage, RtShape,
        FileShape, RunShape, SocketsOwned, Serving, Leaving, Socket
<1>25. CASE EffectiveModel(r)
  BY <1>25, <1>0 DEF EffectiveModel, Step, fileVars, rtVars, jobVars, history, Shapes,
        PcShape, Claim, Owner, Owning, Free, Stage, RtShape, FileShape, RunShape,
        SocketsOwned, Serving, Leaving, Socket
<1>26. CASE StartPrompt(r)
  BY <1>26, <1>0 DEF StartPrompt, Step, fileVars, rtVars, jobVars, history, Shapes,
        PcShape, Claim, Owner, Owning, Free, Stage, RtShape, FileShape, RunShape,
        SocketsOwned, Serving, Leaving, Socket
<1>27. CASE InspectPartial(r)
  BY <1>27 DEF InspectPartial, Step, fileVars, rtVars, jobVars, history, Shapes,
        PcShape, Claim, Owner, Owning, Free, Stage, RtShape, FileShape, RunShape,
        SocketsOwned, Serving, Leaving, Socket
<1>28. CASE GuardThenQuit(r)
  BY <1>28, <1>0 DEF GuardThenQuit, Step, fileVars, rtVars, jobVars, history, Shapes,
        PcShape, Claim, Owner, Owning, Free, Stage, RtShape, FileShape, RunShape,
        SocketsOwned, Serving, Leaving, Socket
<1>29. CASE QuitDrained(r)
  BY <1>29, <1>0 DEF QuitDrained, Step, fileVars, rtVars, jobVars, history, Shapes,
        PcShape, Claim, Owner, Owning, Free, Stage, RtShape, FileShape, RunShape,
        SocketsOwned, Serving, Leaving, Socket
<1>30. CASE InspectStopped(r)
  BY <1>30 DEF InspectStopped, Step, Ps, fileVars, rtVars, jobVars, Odd, Shapes,
        PcShape, Claim, Owner, Owning, Free, Stage, RtShape, FileShape, RunShape,
        SocketsOwned, Serving, Leaving, Socket
<1>31. CASE StopIsStable(r)
  BY <1>31, <1>0 DEF StopIsStable, Ps, Step, NewRuntime, fileVars, jobVars, Odd,
        Shapes, PcShape, Claim, Owner, Owning, Free, Stage, RtShape, FileShape,
        RunShape, SocketsOwned, Serving, Leaving, Socket
<1>32. CASE QuietBegins(r)
  BY <1>32, <1>0 DEF QuietBegins, Step, fileVars, rtVars, jobVars, history, Shapes,
        PcShape, Claim, Owner, Owning, Free, Stage, RtShape, FileShape, RunShape,
        SocketsOwned, Serving, Leaving, Socket
<1>33. CASE QuietEnds(r)
  BY <1>33, <1>0 DEF QuietEnds, Step, fileVars, rtVars, jobVars, history, Shapes,
        PcShape, Claim, Owner, Owning, Free, Stage, RtShape, FileShape, RunShape,
        SocketsOwned, Serving, Leaving, Socket
<1>34. CASE QuietAfterStatus(r)
  BY <1>34, <1>0 DEF QuietAfterStatus, Step, fileVars, rtVars, jobVars, history,
        Shapes, PcShape, Claim, Owner, Owning, Free, Stage, RtShape, FileShape,
        RunShape, SocketsOwned, Serving, Leaving, Socket
<1>35. CASE ContinuePrompt(r)
  BY <1>35, <1>0 DEF ContinuePrompt, Step, fileVars, rtVars, jobVars, history, Shapes,
        PcShape, Claim, Owner, Owning, Free, Stage, RtShape, FileShape, RunShape,
        SocketsOwned, Serving, Leaving, Socket
<1>36. CASE InspectContinued(r)
  BY <1>36, <1>0 DEF InspectContinued, Ps, Step, fileVars, rtVars, jobVars, Odd,
        Shapes, PcShape, Claim, Owner, Owning, Free, Stage, RtShape, FileShape,
        RunShape, SocketsOwned, Serving, Leaving, Socket
<1>q. QED
  BY <1>1, <1>2, <1>3, <1>3a, <1>3b, <1>4, <1>5, <1>6, <1>7, <1>8, <1>9, <1>10, <1>11,
     <1>12, <1>13, <1>14, <1>15, <1>16, <1>17, <1>18, <1>19, <1>20, <1>21, <1>22,
     <1>23, <1>24, <1>25, <1>26, <1>27, <1>28, <1>29, <1>30, <1>31, <1>32, <1>33,
     <1>34, <1>35, <1>36
     DEF RunnerStep, Common, ResumeCase, ReconnectCase, PartialCase

\* A runner does not touch the workers or their steps.
LEMMA WorkersKept ==
    ASSUME Shapes, WorkersTakeTurns, NEW r \in Runner, RunnerStep(r)
    PROVE  WorkersTakeTurns'
<1>1. CASE CreateJobDir(r)
  BY <1>1 DEF CreateJobDir, fileVars, rtVars, history, Shapes, JobShape,
        WorkersTakeTurns
<1>2. CASE \/ Create(r) \/ Crash(r) \/ Start(r) \/ TakeSnapshot(r) \/ Spawn(r)
           \/ StartRelay(r)
           \/ SpawnTui(r) \/ Timeout(r) \/ CloseRelay(r)
           \/ CloseRuntime(r) \/ Verdict(r) \/ VerifyResume(r)
           \/ Recheck(r) \/ ResumeCandidate(r)
  <2>1. UNCHANGED <<job, worker>>
    BY <1>2 DEF Create, Crash, Start, TakeSnapshot, Spawn, StartRelay, SpawnTui, Timeout, CloseRelay,
        CloseRuntime, Verdict, VerifyResume, Recheck, ResumeCandidate, rtVars,
        jobVars, history, fileVars, Ps, Qualified
  <2>q. QED
    BY <2>1 DEF Shapes, JobShape, WorkersTakeTurns
<1>3. CASE \/ SilentWindow(r) \/ StatusThenQuit(r) \/ QuitEvidence(r)
           \/ InitialCandidate(r) \/ Disconnect(r) \/ Probe(r)
           \/ FreshStatus(r) \/ FinalQuit(r) \/ FinalExit(r)
           \/ VerifyPartial(r) \/ PartialCandidate(r)
           \/ EffectiveModel(r)
  <2>1. UNCHANGED <<job, worker>>
    BY <1>3 DEF SilentWindow, StatusThenQuit, QuitEvidence, InitialCandidate,
        Disconnect, Probe, FreshStatus, FinalQuit, FinalExit, VerifyPartial,
        PartialCandidate, EffectiveModel, fileVars, rtVars, jobVars, history,
        Qualified
  <2>q. QED
    BY <2>1 DEF Shapes, JobShape, WorkersTakeTurns
<1>4. CASE \/ StartPrompt(r) \/ InspectPartial(r) \/ GuardThenQuit(r)
           \/ QuitDrained(r) \/ InspectStopped(r) \/ StopIsStable(r)
           \/ QuietBegins(r) \/ QuietEnds(r) \/ QuietAfterStatus(r)
           \/ ContinuePrompt(r) \/ InspectContinued(r)
  <2>1. UNCHANGED <<job, worker>>
    BY <1>4 DEF StartPrompt, InspectPartial, GuardThenQuit, QuitDrained,
        InspectStopped, StopIsStable, QuietBegins, QuietEnds, QuietAfterStatus,
        ContinuePrompt, InspectContinued, fileVars, rtVars, jobVars, history, Ps
  <2>q. QED
    BY <2>1 DEF Shapes, JobShape, WorkersTakeTurns
<1>q. QED
  BY <1>1, <1>2, <1>3, <1>4
     DEF RunnerStep, Common, ResumeCase, ReconnectCase, PartialCase

\* What is known of the stop survives a step that leaves the workers, the
\* runtime's number and the recorded stop alone, or fails the run.
LEMMA StopUnmoved ==
    ASSUME StopIsKept, UNCHANGED <<mode, job, worker>>, rt'.no = rt.no,
           \/ run'.failed = TRUE
           \/ run'.failed = run.failed /\ run'.stop = run.stop /\ run'.first = run.first,
           psFailed' = psFailed \/ psFailed' = TRUE,
           \A u \in Runner : pc'[u] # "stable"
    PROVE  StopIsKept'
  BY DEF StopIsKept

\* The stop of the first runtime is what the second one continues.
LEMMA StopKept ==
    ASSUME Shapes, Claim, StagesOfMode, WorkersTakeTurns, StopIsKept,
           NEW r \in Runner, RunnerStep(r)
    PROVE  StopIsKept'
<1>0. Raise(r) =>
        /\ run'.failed = TRUE /\ pc'[r] \in {"final0", "final"}
        /\ pc'[r] = "final0" => mode = "reconnect"
        /\ \A u \in Runner : u # r => pc'[u] = pc[u]
  BY RaiseEffect DEF Shapes
<1>1. CASE Create(r)
  BY <1>1 DEF Create, Step, rtVars, jobVars, history, Shapes, PcShape, Claim, Owner,
        Owning, Free, Stage, StagesOfMode, FirstRun, RtShape, RunShape, JobShape,
        HistoryShape, StopIsKept, WorkersTakeTurns
<1>2. CASE Crash(r)
  BY <1>2 DEF Crash, Odd, fileVars, rtVars, jobVars, Shapes, PcShape, Claim, Owner,
        Owning, Free, Stage, StagesOfMode, FirstRun, RtShape, RunShape, JobShape,
        HistoryShape, StopIsKept, WorkersTakeTurns
<1>3. CASE Start(r)
  <2>1. UNCHANGED <<mode, job, worker, psFailed>> /\ rt'.no = rt.no
    BY <1>3 DEF Start, fileVars, rtVars, jobVars, history, Shapes, RtShape
  <2>2. \/ run'.failed = TRUE
        \/ run'.failed = run.failed /\ run'.stop = run.stop /\ run'.first = run.first
    BY <1>3, <1>0 DEF Start, Shapes, RunShape
  <2>3. \A u \in Runner : pc'[u] # "stable"
    BY <1>3, <1>0 DEF Start, Step, Shapes, PcShape, Claim, Owner, Owning, Free, Stage
  <2>q. QED
    BY <2>1, <2>2, <2>3, StopUnmoved
<1>3a. CASE TakeSnapshot(r)
  <2>1. UNCHANGED <<mode, job, worker, psFailed>> /\ rt'.no = rt.no
    BY <1>3a DEF TakeSnapshot, fileVars, rtVars, jobVars, history, Shapes, RtShape
  <2>2. \/ run'.failed = TRUE
        \/ run'.failed = run.failed /\ run'.stop = run.stop /\ run'.first = run.first
    BY <1>3a DEF TakeSnapshot, Shapes, RunShape
  <2>3. \A u \in Runner : pc'[u] # "stable"
    BY <1>3a DEF TakeSnapshot, Step, Shapes, PcShape, Claim, Owner, Owning, Free, Stage
  <2>q. QED
    BY <2>1, <2>2, <2>3, StopUnmoved
<1>3b. CASE Spawn(r)
  <2>1. UNCHANGED <<mode, job, worker, psFailed>> /\ rt'.no = rt.no
    BY <1>3b DEF Spawn, fileVars, rtVars, jobVars, history, Shapes, RtShape
  <2>2. \/ run'.failed = TRUE
        \/ run'.failed = run.failed /\ run'.stop = run.stop /\ run'.first = run.first
    BY <1>3b, <1>0 DEF Spawn, Shapes, RunShape
  <2>3. \A u \in Runner : pc'[u] # "stable"
    BY <1>3b, <1>0 DEF Spawn, Step, Shapes, PcShape, Claim, Owner, Owning, Free, Stage
  <2>q. QED
    BY <2>1, <2>2, <2>3, StopUnmoved
<1>4. CASE StartRelay(r)
  <2>1. UNCHANGED <<mode, job, worker, psFailed>> /\ rt'.no = rt.no
    BY <1>4 DEF StartRelay, fileVars, rtVars, jobVars, history, Shapes, RtShape
  <2>2. \/ run'.failed = TRUE
        \/ run'.failed = run.failed /\ run'.stop = run.stop /\ run'.first = run.first
    BY <1>4, <1>0 DEF StartRelay, Shapes, RunShape
  <2>3. \A u \in Runner : pc'[u] # "stable"
    BY <1>4, <1>0 DEF StartRelay, Step, Shapes, PcShape, Claim, Owner, Owning, Free,
        Stage
  <2>q. QED
    BY <2>1, <2>2, <2>3, StopUnmoved
<1>5. CASE SpawnTui(r)
  BY <1>5 DEF SpawnTui, Step, fileVars, jobVars, history, Shapes, PcShape, Claim,
        Owner, Owning, Free, Stage, StagesOfMode, FirstRun, RtShape, RunShape,
        JobShape, HistoryShape, StopIsKept, WorkersTakeTurns
<1>6. CASE Timeout(r)
  BY <1>6, <1>0 DEF Timeout, fileVars, rtVars, jobVars, history, Shapes, PcShape,
        Claim, Owner, Owning, Free, Stage, StagesOfMode, FirstRun, RtShape, RunShape,
        JobShape, HistoryShape, StopIsKept, WorkersTakeTurns
<1>7. CASE CloseRelay(r)
  BY <1>7 DEF CloseRelay, Step, EndAll, fileVars, jobVars, history, Shapes, PcShape,
        Claim, Owner, Owning, Free, Stage, StagesOfMode, FirstRun, RtShape, RunShape,
        JobShape, HistoryShape, StopIsKept, WorkersTakeTurns
<1>8. CASE CloseRuntime(r)
  <2>1. UNCHANGED <<mode, job, worker, psFailed>> /\ rt'.no = rt.no
    BY <1>8 DEF CloseRuntime, fileVars, rtVars, jobVars, history, Shapes, RtShape
  <2>2. \/ run'.failed = TRUE
        \/ run'.failed = run.failed /\ run'.stop = run.stop /\ run'.first = run.first
    BY <1>8 DEF CloseRuntime, Shapes, RunShape
  <2>3. \A u \in Runner : pc'[u] # "stable"
    BY <1>8 DEF CloseRuntime, Step, Shapes, PcShape, Claim, Owner, Owning, Free,
        Stage, AfterClose
  <2>q. QED
    BY <2>1, <2>2, <2>3, StopUnmoved
<1>9. CASE Verdict(r)
  BY <1>9 DEF Verdict, Step, Ps, rtVars, jobVars, Odd, Shapes, PcShape, Claim, Owner,
        Owning, Free, Stage, StagesOfMode, FirstRun, RtShape, RunShape, JobShape,
        HistoryShape, StopIsKept, WorkersTakeTurns
<1>10. CASE VerifyResume(r)
  BY <1>10 DEF VerifyResume, Step, fileVars, rtVars, jobVars, history, Shapes,
        PcShape, Claim, Owner, Owning, Free, Stage, StagesOfMode, FirstRun, RtShape,
        RunShape, JobShape, HistoryShape, StopIsKept, WorkersTakeTurns
<1>11. CASE Recheck(r)
  BY <1>11, <1>0 DEF Recheck, Step, fileVars, rtVars, jobVars, history, Shapes,
        PcShape, Claim, Owner, Owning, Free, Stage, StagesOfMode, FirstRun, RtShape,
        RunShape, JobShape, HistoryShape, StopIsKept, WorkersTakeTurns
<1>12. CASE ResumeCandidate(r)
  BY <1>12, <1>0 DEF ResumeCandidate, Qualified, Step, fileVars, rtVars, jobVars,
        history, Shapes, PcShape, Claim, Owner, Owning, Free, Stage, StagesOfMode,
        FirstRun, RtShape, RunShape, JobShape, HistoryShape, StopIsKept,
        WorkersTakeTurns
<1>13. CASE SilentWindow(r)
  BY <1>13, <1>0 DEF SilentWindow, Step, fileVars, rtVars, jobVars, history, Shapes,
        PcShape, Claim, Owner, Owning, Free, Stage, StagesOfMode, FirstRun, RtShape,
        RunShape, JobShape, HistoryShape, StopIsKept, WorkersTakeTurns
<1>14. CASE StatusThenQuit(r)
  BY <1>14, <1>0 DEF StatusThenQuit, Step, fileVars, rtVars, jobVars, history, Shapes,
        PcShape, Claim, Owner, Owning, Free, Stage, StagesOfMode, FirstRun, RtShape,
        RunShape, JobShape, HistoryShape, StopIsKept, WorkersTakeTurns
<1>15. CASE QuitEvidence(r)
  BY <1>15 DEF QuitEvidence, fileVars, rtVars, jobVars, history, Shapes, PcShape,
        Claim, Owner, Owning, Free, Stage, StagesOfMode, FirstRun, RtShape, RunShape,
        JobShape, HistoryShape, StopIsKept, WorkersTakeTurns
<1>16. CASE InitialCandidate(r)
  BY <1>16, <1>0 DEF InitialCandidate, Qualified, Step, fileVars, rtVars, jobVars,
        history, Shapes, PcShape, Claim, Owner, Owning, Free, Stage, StagesOfMode,
        FirstRun, RtShape, RunShape, JobShape, HistoryShape, StopIsKept,
        WorkersTakeTurns
<1>17. CASE Disconnect(r)
  BY <1>17, <1>0 DEF Disconnect, Step, Ended, fileVars, rtVars, jobVars, history,
        Shapes, PcShape, Claim, Owner, Owning, Free, Stage, StagesOfMode, FirstRun,
        RtShape, RunShape, JobShape, HistoryShape, StopIsKept, WorkersTakeTurns
<1>18. CASE Probe(r)
  BY <1>18, <1>0 DEF Probe, Step, fileVars, rtVars, jobVars, history, Shapes, PcShape,
        Claim, Owner, Owning, Free, Stage, StagesOfMode, FirstRun, RtShape, RunShape,
        JobShape, HistoryShape, StopIsKept, WorkersTakeTurns
<1>19. CASE FreshStatus(r)
  BY <1>19 DEF FreshStatus, fileVars, rtVars, jobVars, history, Shapes, PcShape,
        Claim, Owner, Owning, Free, Stage, StagesOfMode, FirstRun, RtShape, RunShape,
        JobShape, HistoryShape, StopIsKept, WorkersTakeTurns
<1>20. CASE FinalQuit(r)
  BY <1>20 DEF FinalQuit, Step, fileVars, rtVars, jobVars, history, Shapes, PcShape,
        Claim, Owner, Owning, Free, Stage, StagesOfMode, FirstRun, RtShape, RunShape,
        JobShape, HistoryShape, StopIsKept, WorkersTakeTurns
<1>21. CASE FinalExit(r)
  BY <1>21 DEF FinalExit, Step, fileVars, rtVars, jobVars, history, Shapes, PcShape,
        Claim, Owner, Owning, Free, Stage, StagesOfMode, FirstRun, RtShape, RunShape,
        JobShape, HistoryShape, StopIsKept, WorkersTakeTurns
<1>22. CASE VerifyPartial(r)
  BY <1>22 DEF VerifyPartial, Step, fileVars, rtVars, jobVars, history, Shapes,
        PcShape, Claim, Owner, Owning, Free, Stage, StagesOfMode, FirstRun, RtShape,
        RunShape, JobShape, HistoryShape, StopIsKept, WorkersTakeTurns
<1>23. CASE CreateJobDir(r)
  BY <1>23 DEF CreateJobDir, fileVars, rtVars, history, Shapes, PcShape, Claim, Owner,
        Owning, Free, Stage, StagesOfMode, FirstRun, RtShape, RunShape, JobShape,
        HistoryShape, StopIsKept, WorkersTakeTurns
<1>24. CASE PartialCandidate(r)
  <2>1. UNCHANGED <<mode, job, worker, psFailed>> /\ rt'.no = rt.no
    BY <1>24 DEF PartialCandidate, Qualified, fileVars, rtVars, jobVars, history,
        Shapes, RtShape
  <2>2. \/ run'.failed = TRUE
        \/ run'.failed = run.failed /\ run'.stop = run.stop /\ run'.first = run.first
    BY <1>24, <1>0 DEF PartialCandidate, Qualified, Shapes, RunShape
  <2>3. \A u \in Runner : pc'[u] # "stable"
    BY <1>24, <1>0 DEF PartialCandidate, Step, Qualified, Shapes, PcShape, Claim,
        Owner, Owning, Free, Stage
  <2>q. QED
    BY <2>1, <2>2, <2>3, StopUnmoved
<1>25. CASE EffectiveModel(r)
  <2>1. UNCHANGED <<mode, job, worker, psFailed>> /\ rt'.no = rt.no
    BY <1>25 DEF EffectiveModel, fileVars, rtVars, jobVars, history, Shapes, RtShape
  <2>2. \/ run'.failed = TRUE
        \/ run'.failed = run.failed /\ run'.stop = run.stop /\ run'.first = run.first
    BY <1>25, <1>0 DEF EffectiveModel, Shapes, RunShape
  <2>3. \A u \in Runner : pc'[u] # "stable"
    BY <1>25, <1>0 DEF EffectiveModel, Step, Shapes, PcShape, Claim, Owner, Owning, Free,
        Stage
  <2>q. QED
    BY <2>1, <2>2, <2>3, StopUnmoved
<1>26. CASE StartPrompt(r)
  <2>1. UNCHANGED <<mode, job, worker, psFailed>> /\ rt'.no = rt.no
    BY <1>26 DEF StartPrompt, fileVars, rtVars, jobVars, history, Shapes, RtShape
  <2>2. \/ run'.failed = TRUE
        \/ run'.failed = run.failed /\ run'.stop = run.stop /\ run'.first = run.first
    BY <1>26, <1>0 DEF StartPrompt, Shapes, RunShape
  <2>3. \A u \in Runner : pc'[u] # "stable"
    BY <1>26, <1>0 DEF StartPrompt, Step, Shapes, PcShape, Claim, Owner, Owning, Free,
        Stage
  <2>q. QED
    BY <2>1, <2>2, <2>3, StopUnmoved
<1>27. CASE InspectPartial(r)
  BY <1>27 DEF InspectPartial, Step, fileVars, rtVars, jobVars, history, Shapes,
        PcShape, Claim, Owner, Owning, Free, Stage, StagesOfMode, FirstRun, RtShape,
        RunShape, JobShape, HistoryShape, StopIsKept, WorkersTakeTurns
<1>28. CASE GuardThenQuit(r)
  <2>1. UNCHANGED <<mode, job, worker>> /\ rt'.no = rt.no
    BY <1>28 DEF GuardThenQuit, fileVars, rtVars, jobVars
  <2>2. rt.no = 1
    BY <1>28 DEF GuardThenQuit, StagesOfMode, FirstRun
  <2>3. \A u \in Runner : pc'[u] # "stable"
    BY <1>28, <1>0 DEF GuardThenQuit, Step, Shapes, PcShape, Claim, Owner, Owning, Free,
        Stage
  <2>q. QED
    BY <2>1, <2>2, <2>3 DEF StopIsKept
<1>29. CASE QuitDrained(r)
  <2>1. UNCHANGED <<mode, job, worker, psFailed>> /\ rt'.no = rt.no
    BY <1>29 DEF QuitDrained, fileVars, rtVars, jobVars, history, Shapes, RtShape
  <2>2. \/ run'.failed = TRUE
        \/ run'.failed = run.failed /\ run'.stop = run.stop /\ run'.first = run.first
    BY <1>29, <1>0 DEF QuitDrained, Shapes, RunShape
  <2>3. \A u \in Runner : pc'[u] # "stable"
    BY <1>29, <1>0 DEF QuitDrained, Step, Shapes, PcShape, Claim, Owner, Owning, Free,
        Stage
  <2>q. QED
    BY <2>1, <2>2, <2>3, StopUnmoved
<1>30. CASE InspectStopped(r)
  BY <1>30 DEF InspectStopped, Step, Ps, fileVars, rtVars, jobVars, Odd, Shapes,
        PcShape, Claim, Owner, Owning, Free, Stage, StagesOfMode, FirstRun, RtShape,
        RunShape, JobShape, HistoryShape, StopIsKept, WorkersTakeTurns
<1>31. CASE StopIsStable(r)
  <2>1. CASE Raise(r)
    <3>1. UNCHANGED <<mode, job, worker>> /\ rt'.no = rt.no
      <4>1. UNCHANGED <<mode, job, worker>>
        BY <1>31 DEF StopIsStable, fileVars, jobVars
      <4>2. rt' = rt \/ rt' = NewRuntime(2)
        BY <1>31 DEF StopIsStable
      <4>3. rt' # NewRuntime(2)
        <5>1. SUFFICES ASSUME rt' = NewRuntime(2) PROVE FALSE
          OBVIOUS
        <5>2. pc'[r] = "ready" \/ rt' = rt
          BY <1>31 DEF StopIsStable, Step, Shapes, PcShape
        <5>q. QED
          BY <1>31, <1>0, <2>1, <5>1, <5>2 DEF StagesOfMode, FirstRun, StopIsStable, NewRuntime
      <4>q. QED
        BY <4>1, <4>2, <4>3
    <3>2. psFailed' = psFailed \/ psFailed' = TRUE
      <4>1. PICK fails \in BOOLEAN : Ps(fails)
        BY <1>31 DEF StopIsStable
      <4>q. QED
        BY <4>1, PsTyped DEF Shapes
    <3>3. \A u \in Runner : pc'[u] # "stable"
      BY <1>31, <1>0, <2>1 DEF StopIsStable, Shapes, PcShape, Claim, Owner, Owning, Free,
          Stage
    <3>q. QED
      BY <1>0, <2>1, <3>1, <3>2, <3>3, StopUnmoved
  <2>2. CASE ~Raise(r)
    <3>1. PICK fails \in BOOLEAN :
             /\ Ps(fails)
             /\ FingerprintIs(run.seen) /\ WorkerStopped(1, fails)
             /\ run.seen >= run.first
             /\ Step(r, "stable", "ready")
             /\ run' = [run EXCEPT !.stop = run.seen, !.epoch = 0, !.trace = bridge.complete]
             /\ rt' = NewRuntime(2)
             /\ UNCHANGED <<mode, job, worker>>
      BY <1>31, <2>2 DEF StopIsStable, fileVars, jobVars
    <3>2. mode = "partial" /\ rt.no = 1 /\ run.status # "completed"
      BY <3>1 DEF Step, StagesOfMode, FirstRun, StopIsKept
    <3>3. Len(job.steps) = run.seen /\ Len(job.steps) # Total
      BY <3>1, <3>2 DEF FingerprintIs, View
    <3>4. rt'.no = 2 /\ run'.stop = run.seen /\ run'.first = run.first
      BY <3>1 DEF NewRuntime, Shapes, RunShape
    <3>5. ~psFailed' => worker[1] = "gone"
      BY <3>1, PsTyped DEF WorkerStopped, Shapes
    <3>6. run.seen \in run.first .. Total - 1
      BY <3>1, <3>3 DEF WorkersTakeTurns, Shapes, RunShape
    <3>7. \A u \in Runner : pc'[u] # "stable"
      BY <3>1 DEF Step, Shapes, PcShape, Claim, Owner, Owning, Free, Stage
    <3>8. \A i \in 1 .. Len(job'.steps) : job'.steps[i] = IF i <= run'.stop THEN 1 ELSE 2
      <4>1. \A i \in 1 .. Len(job.steps) : job.steps[i] = 1
        BY <3>2 DEF StopIsKept
      <4>2. run'.stop = Len(job.steps)
        BY <3>3, <3>4
      <4>q. QED
        BY <3>1, <4>1, <4>2
    <3>9. run'.stop \in run'.first .. Total - 1 /\ run'.stop <= Len(job'.steps)
      BY <3>1, <3>3, <3>4, <3>6
    <3>10. ~psFailed' => worker'[1] = "gone"
      BY <3>1, <3>5
    <3>q. QED
      BY <3>4, <3>7, <3>8, <3>9, <3>10 DEF StopIsKept
  <2>q. QED
    BY <2>1, <2>2
<1>32. CASE QuietBegins(r)
  <2>1. /\ UNCHANGED <<mode, rt, worker, job, psFailed>>
        /\ \/ Raise(r)
           \/ Step(r, "quiet", "quiet2") /\ run' = [run EXCEPT !.status = View[1]]
    BY <1>32 DEF QuietBegins, fileVars, rtVars, jobVars, history
  <2>2. CASE Raise(r)
    <3>1. \A u \in Runner : pc'[u] # "stable"
      BY <1>32, <2>2, <1>0 DEF QuietBegins, Shapes, PcShape, Claim, Owner, Owning, Free,
          Stage
    <3>q. QED
      BY <2>1, <2>2, <1>0, <3>1, StopUnmoved
  <2>3. CASE Step(r, "quiet", "quiet2") /\ run' = [run EXCEPT !.status = View[1]]
    <3>1. run'.failed = run.failed /\ run'.stop = run.stop /\ run'.first = run.first
      BY <2>3 DEF Shapes, RunShape
    <3>2. \A u \in Runner : pc'[u] # "stable"
      BY <2>3 DEF Step, Shapes, PcShape, Claim, Owner, Owning, Free, Stage
    <3>q. QED
      BY <2>1, <3>1, <3>2 DEF StopIsKept
  <2>q. QED
    BY <2>1, <2>2, <2>3
<1>33. CASE QuietEnds(r)
  <2>1. UNCHANGED <<mode, job, worker, psFailed>> /\ rt'.no = rt.no
    BY <1>33 DEF QuietEnds, fileVars, rtVars, jobVars, history, Shapes, RtShape
  <2>2. \/ run'.failed = TRUE
        \/ run'.failed = run.failed /\ run'.stop = run.stop /\ run'.first = run.first
    BY <1>33, <1>0 DEF QuietEnds, Shapes, RunShape
  <2>3. \A u \in Runner : pc'[u] # "stable"
    BY <1>33, <1>0 DEF QuietEnds, Step, Shapes, PcShape, Claim, Owner, Owning, Free,
        Stage
  <2>q. QED
    BY <2>1, <2>2, <2>3, StopUnmoved
<1>34. CASE QuietAfterStatus(r)
  <2>1. UNCHANGED <<mode, job, worker, psFailed>> /\ rt'.no = rt.no
    BY <1>34 DEF QuietAfterStatus, fileVars, rtVars, jobVars, history, Shapes, RtShape
  <2>2. \/ run'.failed = TRUE
        \/ run'.failed = run.failed /\ run'.stop = run.stop /\ run'.first = run.first
    BY <1>34, <1>0 DEF QuietAfterStatus, Shapes, RunShape
  <2>3. \A u \in Runner : pc'[u] # "stable"
    BY <1>34, <1>0 DEF QuietAfterStatus, Step, Shapes, PcShape, Claim, Owner, Owning,
        Free, Stage
  <2>q. QED
    BY <2>1, <2>2, <2>3, StopUnmoved
<1>35. CASE ContinuePrompt(r)
  <2>1. UNCHANGED <<mode, job, worker, psFailed>> /\ rt'.no = rt.no
    BY <1>35 DEF ContinuePrompt, fileVars, rtVars, jobVars, history, Shapes, RtShape
  <2>2. \/ run'.failed = TRUE
        \/ run'.failed = run.failed /\ run'.stop = run.stop /\ run'.first = run.first
    BY <1>35, <1>0 DEF ContinuePrompt, Shapes, RunShape
  <2>3. \A u \in Runner : pc'[u] # "stable"
    BY <1>35, <1>0 DEF ContinuePrompt, Step, Shapes, PcShape, Claim, Owner, Owning,
        Free, Stage
  <2>q. QED
    BY <2>1, <2>2, <2>3, StopUnmoved
<1>36. CASE InspectContinued(r)
  BY <1>36, <1>0, SMTT(30) DEF InspectContinued, Ps, Step, fileVars, rtVars, jobVars, Odd,
        Shapes, PcShape, Claim, Owner, Owning, Free, Stage, StagesOfMode, FirstRun,
        RtShape, RunShape, JobShape, HistoryShape, StopIsKept, WorkersTakeTurns
<1>q. QED
  BY <1>1, <1>2, <1>3, <1>3a, <1>3b, <1>4, <1>5, <1>6, <1>7, <1>8, <1>9, <1>10, <1>11, <1>12, <1>13,
     <1>14, <1>15, <1>16, <1>17, <1>18, <1>19, <1>20, <1>21, <1>22, <1>23, <1>24,
     <1>25, <1>26, <1>27, <1>28, <1>29, <1>30, <1>31, <1>32, <1>33, <1>34, <1>35,
     <1>36
     DEF RunnerStep, Common, ResumeCase, ReconnectCase, PartialCase

-----------------------------------------------------------------------------
(* What happens around the case *)

\* The number of the runtime is the runner's business.
LEMMA OtherKeepsStages ==
    ASSUME Shapes, StagesOfMode, OtherStep
    PROVE  StagesOfMode'
<1>1. CASE TuiExits
  BY <1>1 DEF TuiExits, Odd, fileVars, jobVars, Shapes, RtShape, StagesOfMode
<1>2. CASE BackendDies
  BY <1>2 DEF BackendDies, Odd, fileVars, jobVars, Shapes, RtShape, StagesOfMode
<1>3. CASE \/ PrepareResume \/ PreparePartial \/ Connect \/ Handshake
           \/ Attach \/ StrayTurn \/ (\E e \in Epoch : LegEnds(e))
           \/ (\E e \in Epoch : Gap(e)) \/ (\E s \in Socket : Occupy(s))
           \/ (\E part \in Part : Edit(part))
           \/ (\E w \in {1, 2} : WorkerStart(w))
           \/ (\E w \in {1, 2} : WorkerChecks(w))
  <2>1. UNCHANGED <<mode, pc, rt>>
    BY <1>3 DEF PrepareResume, PreparePartial, Connect, Handshake, Attach, StrayTurn,
        LegEnds, Gap, Occupy, Edit, WorkerStart, WorkerChecks, rtVars, jobVars,
        history, fileVars
  <2>q. QED
    BY <2>1 DEF Shapes, RtShape, StagesOfMode
<1>4. CASE \/ (\E w \in {1, 2} : WorkerPublishes(w))
           \/ (\E w \in {1, 2} : WorkerEnds(w))
  <2>1. UNCHANGED <<mode, pc, rt>>
    BY <1>4 DEF WorkerPublishes, WorkerEnds, fileVars, rtVars, history
  <2>q. QED
    BY <2>1 DEF Shapes, RtShape, StagesOfMode
<1>q. QED
  BY <1>1, <1>2, <1>3, <1>4
     DEF OtherStep, Environment

\* A turn that passes the relay is counted, or the trace says that it is not
\* complete; without a relay none passes.
LEMMA OtherKeepsTurns ==
    ASSUME Shapes, TurnsCounted, OtherStep
    PROVE  TurnsCounted'
<1>1. CASE Connect
  BY <1>1 DEF Connect, RelayServes, Odd, fileVars, rtVars, jobVars, Shapes, RtShape,
        BridgeShape, TurnsCounted
<1>2. CASE Handshake
  BY <1>2 DEF Handshake, RelayServes, fileVars, rtVars, jobVars, history, Shapes,
        RtShape, BridgeShape, TurnsCounted
<1>3. CASE Attach
  BY <1>3 DEF Attach, RelayServes, fileVars, rtVars, jobVars, history, Shapes,
        RtShape, BridgeShape, TurnsCounted
<1>4. CASE StrayTurn
  BY <1>4 DEF StrayTurn, RelayServes, Odd, fileVars, rtVars, jobVars, Shapes, RtShape,
        BridgeShape, TurnsCounted
<1>5. CASE TuiExits
  BY <1>5 DEF TuiExits, Odd, fileVars, jobVars, Shapes, RtShape, BridgeShape,
        TurnsCounted
<1>6. CASE BackendDies
  BY <1>6 DEF BackendDies, Odd, fileVars, jobVars, Shapes, RtShape, BridgeShape,
        TurnsCounted
<1>7. ASSUME NEW e \in Epoch, LegEnds(e)
      PROVE  TurnsCounted'
  BY <1>7 DEF LegEnds, Odd, Ended, fileVars, rtVars, jobVars, Shapes, RtShape,
        BridgeShape, TurnsCounted
<1>8. ASSUME NEW e \in Epoch, Gap(e)
      PROVE  TurnsCounted'
  BY <1>8 DEF Gap, Odd, Ended, fileVars, rtVars, jobVars, Shapes, RtShape,
        BridgeShape, TurnsCounted
<1>9. CASE \/ PrepareResume \/ PreparePartial
           \/ (\E s \in Socket : Occupy(s))
           \/ (\E part \in Part : Edit(part))
           \/ (\E w \in {1, 2} : WorkerStart(w))
           \/ (\E w \in {1, 2} : WorkerChecks(w))
           \/ (\E w \in {1, 2} : WorkerPublishes(w))
           \/ (\E w \in {1, 2} : WorkerEnds(w))
  <2>1. UNCHANGED <<mode, pc, caseDir, rt, turned, bridge>>
    BY <1>9 DEF PrepareResume, PreparePartial, Occupy, Edit, WorkerStart,
        WorkerChecks, WorkerPublishes, WorkerEnds, rtVars, jobVars, history, fileVars
  <2>q. QED
    BY <2>1 DEF Shapes, RtShape, BridgeShape, TurnsCounted
<1>q. QED
  BY <1>1, <1>2, <1>3, <1>4, <1>5, <1>6, <1>7, <1>8, <1>9
     DEF OtherStep, Environment

\* The record is made once, of the files of the moment; a file that is changed
\* back no longer counts.
LEMMA OtherKeepsTraces ==
    ASSUME Shapes, FilesTraced, OtherStep
    PROVE  FilesTraced'
<1>1. CASE PrepareResume \/ PreparePartial
  <2>1. /\ record = {} /\ record' = {source}
        /\ UNCHANGED <<source, caseDir, stale, slipped, rt, pc>>
    BY <1>1 DEF PrepareResume, PreparePartial, rtVars, history, edited
  <2>2. stale = {}
    BY <2>1 DEF FilesTraced
  <2>q. QED
    BY <2>1, <2>2 DEF FilesTraced, OffSnapshot
<1>2. ASSUME NEW part \in Part, Edit(part)
      PROVE  FilesTraced'
  <2>1. UNCHANGED <<record, caseDir, rt, pc>>
    BY <1>2 DEF Edit, rtVars
  <2>2. /\ stale' = stale \cap OffRecord'
        /\ slipped' = IF rt.closed = "no" THEN slipped \cap OffSnapshot' ELSE slipped
    BY <1>2 DEF Edit
  <2>3. stale' \subseteq OffRecord' /\ stale' \subseteq stale
    BY <2>2
  <2>4. slipped' # {} =>
          \/ rt'.closed = "raised"
          \/ rt'.closed = "no" /\ rt'.expected # {} /\ slipped' \subseteq OffSnapshot'
    BY <2>1, <2>2 DEF FilesTraced
  <2>q. QED
    BY <2>1, <2>3, <2>4 DEF FilesTraced
<1>3. CASE \/ Connect \/ Handshake \/ Attach \/ StrayTurn \/ TuiExits
           \/ BackendDies \/ (\E e \in Epoch : LegEnds(e))
           \/ (\E e \in Epoch : Gap(e)) \/ (\E s \in Socket : Occupy(s))
           \/ (\E w \in {1, 2} : WorkerStart(w))
           \/ (\E w \in {1, 2} : WorkerChecks(w))
           \/ (\E w \in {1, 2} : WorkerPublishes(w))
           \/ (\E w \in {1, 2} : WorkerEnds(w))
  <2>1. UNCHANGED <<pc, record, source, caseDir, stale, slipped>>
    BY <1>3 DEF Connect, Handshake, Attach, StrayTurn, TuiExits, BackendDies, LegEnds,
        Gap, Occupy, WorkerStart, WorkerChecks, WorkerPublishes, WorkerEnds, fileVars,
        rtVars, jobVars, history, edited
  <2>2. rt'.expected = rt.expected /\ rt'.closed = rt.closed
    <3>1. CASE UNCHANGED rt
      BY <3>1
    <3>2. CASE TuiExits
      BY <3>2 DEF TuiExits, Shapes, RtShape
    <3>3. CASE BackendDies
      BY <3>3 DEF BackendDies, Shapes, RtShape
    <3>q. QED
      BY <1>3, <3>1, <3>2, <3>3 DEF Connect, Handshake, Attach, StrayTurn, LegEnds, Gap,
        Occupy, WorkerStart, WorkerChecks, WorkerPublishes, WorkerEnds, rtVars
  <2>3. OffRecord' = OffRecord /\ OffSnapshot' = OffSnapshot
    BY <2>1, <2>2 DEF OffRecord, OffSnapshot
  <2>q. QED
    BY <2>1, <2>2, <2>3 DEF FilesTraced
<1>q. QED
  BY <1>1, <1>2, <1>3 DEF OtherStep, Environment

\* Nothing comes back to life by itself.
LEMMA OtherKeepsClosed ==
    ASSUME Shapes, CloseIsTrue, OtherStep
    PROVE  CloseIsTrue'
<1>1. CASE TuiExits
  BY <1>1 DEF TuiExits, Odd, fileVars, jobVars, Shapes, RtShape, CloseIsTrue
<1>2. CASE BackendDies
  BY <1>2 DEF BackendDies, Odd, fileVars, jobVars, Shapes, RtShape, CloseIsTrue
<1>3. CASE \/ PrepareResume \/ PreparePartial \/ Connect \/ Handshake
           \/ Attach \/ StrayTurn \/ (\E e \in Epoch : LegEnds(e))
           \/ (\E e \in Epoch : Gap(e)) \/ (\E s \in Socket : Occupy(s))
           \/ (\E part \in Part : Edit(part))
           \/ (\E w \in {1, 2} : WorkerStart(w))
           \/ (\E w \in {1, 2} : WorkerChecks(w))
  <2>1. UNCHANGED <<pc, caseDir, rt>>
    BY <1>3 DEF PrepareResume, PreparePartial, Connect, Handshake, Attach, StrayTurn,
        LegEnds, Gap, Occupy, Edit, WorkerStart, WorkerChecks, rtVars, jobVars,
        history, fileVars
  <2>q. QED
    BY <2>1 DEF Shapes, RtShape, CloseIsTrue
<1>4. CASE \/ (\E w \in {1, 2} : WorkerPublishes(w))
           \/ (\E w \in {1, 2} : WorkerEnds(w))
  <2>1. UNCHANGED <<pc, caseDir, rt>>
    BY <1>4 DEF WorkerPublishes, WorkerEnds, fileVars, rtVars, history
  <2>q. QED
    BY <2>1 DEF Shapes, RtShape, CloseIsTrue
<1>q. QED
  BY <1>1, <1>2, <1>3, <1>4
     DEF OtherStep, Environment

\* A socket somebody else puts in place is not the runtime's.
LEMMA OtherKeepsSockets ==
    ASSUME Shapes, SocketsOwned, OtherStep
    PROVE  SocketsOwned'
<1>1. CASE TuiExits
  BY <1>1 DEF TuiExits, Odd, fileVars, jobVars, Shapes, RtShape, FileShape,
        SocketsOwned
<1>2. CASE BackendDies
  BY <1>2 DEF BackendDies, Odd, fileVars, jobVars, Shapes, RtShape, FileShape,
        SocketsOwned
<1>3. ASSUME NEW s \in Socket, Occupy(s)
      PROVE  SocketsOwned'
  BY <1>3 DEF Occupy, Odd, fileVars, jobVars, Shapes, RtShape, FileShape, SocketsOwned
<1>4. CASE \/ PrepareResume \/ PreparePartial \/ Connect \/ Handshake
           \/ Attach \/ StrayTurn \/ (\E e \in Epoch : LegEnds(e))
           \/ (\E e \in Epoch : Gap(e))
           \/ (\E part \in Part : Edit(part))
           \/ (\E w \in {1, 2} : WorkerStart(w))
           \/ (\E w \in {1, 2} : WorkerChecks(w))
           \/ (\E w \in {1, 2} : WorkerPublishes(w))
  <2>1. UNCHANGED <<pc, run, rt, endpoint>>
    BY <1>4 DEF PrepareResume, PreparePartial, Connect, Handshake, Attach, StrayTurn,
        LegEnds, Gap, Edit, WorkerStart, WorkerChecks, WorkerPublishes, rtVars,
        jobVars, history, fileVars
  <2>q. QED
    BY <2>1 DEF Shapes, RtShape, FileShape, SocketsOwned
<1>5. CASE \/ (\E w \in {1, 2} : WorkerEnds(w))
  <2>1. UNCHANGED <<pc, run, rt, endpoint>>
    BY <1>5 DEF WorkerEnds, fileVars, rtVars
  <2>q. QED
    BY <2>1 DEF Shapes, RtShape, FileShape, SocketsOwned
<1>q. QED
  BY <1>1, <1>2, <1>3, <1>4, <1>5
     DEF OtherStep, Environment

\* The second worker starts when the first is gone, and a worker that has
\* checked its parent still has a step to publish.
LEMMA OtherKeepsWorkers ==
    ASSUME Shapes, WorkersTakeTurns, OtherStep
    PROVE  WorkersTakeTurns'
<1>1. ASSUME NEW w \in {1, 2}, WorkerStart(w)
      PROVE  WorkersTakeTurns'
  BY <1>1 DEF WorkerStart, fileVars, rtVars, history, Shapes, JobShape,
        WorkersTakeTurns
<1>2. ASSUME NEW w \in {1, 2}, WorkerChecks(w)
      PROVE  WorkersTakeTurns'
  BY <1>2 DEF WorkerChecks, fileVars, rtVars, history, Shapes, JobShape,
        WorkersTakeTurns
<1>3. ASSUME NEW w \in {1, 2}, WorkerPublishes(w)
      PROVE  WorkersTakeTurns'
  BY <1>3 DEF WorkerPublishes, fileVars, rtVars, history, Shapes, JobShape,
        WorkersTakeTurns
<1>4. ASSUME NEW w \in {1, 2}, WorkerEnds(w)
      PROVE  WorkersTakeTurns'
  BY <1>4 DEF WorkerEnds, Odd, fileVars, rtVars, Shapes, JobShape, WorkersTakeTurns
<1>5. CASE \/ PrepareResume \/ PreparePartial \/ Connect \/ Handshake
           \/ Attach \/ StrayTurn \/ TuiExits \/ BackendDies
           \/ (\E e \in Epoch : LegEnds(e)) \/ (\E e \in Epoch : Gap(e))
           \/ (\E s \in Socket : Occupy(s))
           \/ (\E part \in Part : Edit(part))
  <2>1. UNCHANGED <<job, worker>>
    BY <1>5 DEF PrepareResume, PreparePartial, Connect, Handshake, Attach, StrayTurn,
        TuiExits, BackendDies, LegEnds, Gap, Occupy, Edit, rtVars, jobVars, history,
        fileVars
  <2>q. QED
    BY <2>1 DEF Shapes, JobShape, WorkersTakeTurns
<1>q. QED
  BY <1>1, <1>2, <1>3, <1>4, <1>5
     DEF OtherStep, Environment

\* Only the worker of the present runtime publishes.
LEMMA OtherKeepsStop ==
    ASSUME Shapes, WorkersTakeTurns, StopIsKept, OtherStep
    PROVE  StopIsKept'
<1>1. CASE TuiExits
  BY <1>1 DEF TuiExits, Odd, fileVars, jobVars, Shapes, RtShape, JobShape, RunShape,
        WorkersTakeTurns, StopIsKept
<1>2. CASE BackendDies
  BY <1>2 DEF BackendDies, Odd, fileVars, jobVars, Shapes, RtShape, JobShape,
        RunShape, WorkersTakeTurns, StopIsKept
<1>3. ASSUME NEW w \in {1, 2}, WorkerStart(w)
      PROVE  StopIsKept'
  BY <1>3 DEF WorkerStart, ParentUp, fileVars, rtVars, history, Shapes, RtShape,
        JobShape, RunShape, WorkersTakeTurns, StopIsKept
<1>4. ASSUME NEW w \in {1, 2}, WorkerChecks(w)
      PROVE  StopIsKept'
  BY <1>4 DEF WorkerChecks, ParentUp, fileVars, rtVars, history, Shapes, RtShape,
        JobShape, RunShape, WorkersTakeTurns, StopIsKept
<1>5. ASSUME NEW w \in {1, 2}, WorkerPublishes(w)
      PROVE  StopIsKept'
  BY <1>5 DEF WorkerPublishes, fileVars, rtVars, history, Shapes, RtShape, JobShape,
        RunShape, WorkersTakeTurns, StopIsKept
<1>6. ASSUME NEW w \in {1, 2}, WorkerEnds(w)
      PROVE  StopIsKept'
  <2>1. job'.steps = job.steps /\ UNCHANGED <<mode, rt, run, psFailed, pc>>
    <3>1. job' = job \/ \E st : job' = [job EXCEPT !.status = st]
      BY <1>6 DEF WorkerEnds
    <3>2. UNCHANGED <<mode, rt, run, psFailed, pc>>
      BY <1>6 DEF WorkerEnds, fileVars, rtVars
    <3>q. QED
      BY <3>1, <3>2 DEF Shapes, JobShape
  <2>2. worker[w] # "none" /\ worker'[w] = "gone"
        /\ \A v \in {1, 2} : v # w => worker'[v] = worker[v]
    BY <1>6 DEF WorkerEnds, Shapes, JobShape
  <2>q. QED
    BY <2>1, <2>2 DEF StopIsKept, WorkersTakeTurns
<1>7. CASE \/ PrepareResume \/ PreparePartial \/ Connect \/ Handshake
           \/ Attach \/ StrayTurn \/ (\E e \in Epoch : LegEnds(e))
           \/ (\E e \in Epoch : Gap(e)) \/ (\E s \in Socket : Occupy(s))
           \/ (\E part \in Part : Edit(part))
  <2>1. UNCHANGED <<mode, rt, run, psFailed, worker, job, pc>>
    BY <1>7 DEF PrepareResume, PreparePartial, Connect, Handshake, Attach, StrayTurn,
        LegEnds, Gap, Occupy, Edit, rtVars, jobVars, history, fileVars
  <2>q. QED
    BY <2>1 DEF Shapes, RtShape, JobShape, RunShape, WorkersTakeTurns, StopIsKept
<1>q. QED
  BY <1>1, <1>2, <1>3, <1>4, <1>5, <1>6, <1>7
     DEF OtherStep, Environment

-----------------------------------------------------------------------------
(* The verdict *)

\* A runner that is done takes no step, and one that never had the directory,
\* or lost it to another, changes nothing of the case.
LEMMA FreeStep ==
    ASSUME PcShape, NEW r \in Runner, RunnerStep(r)
    PROVE  /\ pc[r] # "done"
           /\ pc[r] \in Free /\ pc'[r] # "created" => UNCHANGED
                <<mode, record, source, result, run, rt, endpoint, bridge, job, turned,
                  stale, slipped, psFailed>>
<1>1. CASE Create(r)
  BY <1>1 DEF Create, Step, rtVars, jobVars, history, PcShape, Free, edited
<1>2. CASE Crash(r)
  BY <1>2 DEF Crash, fileVars, rtVars, jobVars, PcShape, Free, edited
<1>3. CASE Start(r)
  BY <1>3 DEF Start, Step, fileVars, rtVars, jobVars, history, PcShape, Free, edited
<1>3a. CASE TakeSnapshot(r)
  BY <1>3a DEF TakeSnapshot, Step, fileVars, jobVars, history, PcShape, Free, edited
<1>3b. CASE Spawn(r)
  BY <1>3b DEF Spawn, Odd, Step, fileVars, jobVars, PcShape, Free, edited
<1>4. CASE StartRelay(r)
  BY <1>4 DEF StartRelay, Step, rtVars, fileVars, jobVars, history, PcShape, Free, edited
<1>5. CASE SpawnTui(r)
  BY <1>5 DEF SpawnTui, Step, fileVars, jobVars, history, PcShape, Free, edited
<1>6. CASE Timeout(r)
  BY <1>6 DEF Timeout, fileVars, rtVars, jobVars, history, PcShape, Free, edited
<1>7. CASE CloseRelay(r)
  BY <1>7 DEF CloseRelay, Step, fileVars, jobVars, history, PcShape, Free, edited
<1>8. CASE CloseRuntime(r)
  BY <1>8 DEF CloseRuntime, Step, fileVars, jobVars, PcShape, Free, edited
<1>9. CASE Verdict(r)
  BY <1>9 DEF Verdict, Step, rtVars, jobVars, PcShape, Free, edited
<1>10. CASE VerifyResume(r)
  BY <1>10 DEF VerifyResume, Step, fileVars, rtVars, jobVars, history, PcShape, Free, edited
<1>11. CASE Recheck(r)
  BY <1>11 DEF Recheck, Step, fileVars, rtVars, jobVars, history, PcShape, Free, edited
<1>12. CASE ResumeCandidate(r)
  BY <1>12 DEF ResumeCandidate, Qualified, Step, fileVars, rtVars, jobVars, history,
        PcShape, Free, edited
<1>13. CASE SilentWindow(r)
  BY <1>13 DEF SilentWindow, Step, fileVars, rtVars, jobVars, history, PcShape, Free, edited
<1>14. CASE StatusThenQuit(r)
  BY <1>14 DEF StatusThenQuit, Step, fileVars, rtVars, jobVars, history, PcShape, Free, edited
<1>15. CASE QuitEvidence(r)
  BY <1>15 DEF QuitEvidence, fileVars, rtVars, jobVars, history, PcShape, Free, edited
<1>16. CASE InitialCandidate(r)
  BY <1>16 DEF InitialCandidate, Qualified, Step, fileVars, rtVars, jobVars, history,
        PcShape, Free, edited
<1>17. CASE Disconnect(r)
  BY <1>17 DEF Disconnect, Step, fileVars, rtVars, jobVars, history, PcShape, Free, edited
<1>18. CASE Probe(r)
  BY <1>18 DEF Probe, Step, fileVars, rtVars, jobVars, history, PcShape, Free, edited
<1>19. CASE FreshStatus(r)
  BY <1>19 DEF FreshStatus, fileVars, rtVars, jobVars, history, PcShape, Free, edited
<1>20. CASE FinalQuit(r)
  BY <1>20 DEF FinalQuit, Step, fileVars, rtVars, jobVars, history, PcShape, Free, edited
<1>21. CASE FinalExit(r)
  BY <1>21 DEF FinalExit, Step, fileVars, rtVars, jobVars, history, PcShape, Free, edited
<1>22. CASE VerifyPartial(r)
  BY <1>22 DEF VerifyPartial, Step, fileVars, rtVars, jobVars, history, PcShape, Free, edited
<1>23. CASE CreateJobDir(r)
  BY <1>23 DEF CreateJobDir, fileVars, rtVars, history, PcShape, Free, edited
<1>24. CASE PartialCandidate(r)
  BY <1>24 DEF PartialCandidate, Qualified, Step, fileVars, rtVars, jobVars, history,
        PcShape, Free, edited
<1>25. CASE EffectiveModel(r)
  BY <1>25 DEF EffectiveModel, Step, fileVars, rtVars, jobVars, history, PcShape, Free, edited
<1>26. CASE StartPrompt(r)
  BY <1>26 DEF StartPrompt, Step, fileVars, rtVars, jobVars, history, PcShape, Free, edited
<1>27. CASE InspectPartial(r)
  BY <1>27 DEF InspectPartial, Step, fileVars, rtVars, jobVars, history, PcShape, Free, edited
<1>28. CASE GuardThenQuit(r)
  BY <1>28 DEF GuardThenQuit, Step, fileVars, rtVars, jobVars, history, PcShape, Free, edited
<1>29. CASE QuitDrained(r)
  BY <1>29 DEF QuitDrained, Step, fileVars, rtVars, jobVars, history, PcShape, Free, edited
<1>30. CASE InspectStopped(r)
  BY <1>30 DEF InspectStopped, Step, fileVars, rtVars, jobVars, PcShape, Free, edited
<1>31. CASE StopIsStable(r)
  BY <1>31 DEF StopIsStable, Step, fileVars, jobVars, PcShape, Free, edited
<1>32. CASE QuietBegins(r)
  BY <1>32 DEF QuietBegins, Step, fileVars, rtVars, jobVars, history, PcShape, Free, edited
<1>33. CASE QuietEnds(r)
  BY <1>33 DEF QuietEnds, Step, fileVars, rtVars, jobVars, history, PcShape, Free, edited
<1>34. CASE QuietAfterStatus(r)
  BY <1>34 DEF QuietAfterStatus, Step, fileVars, rtVars, jobVars, history, PcShape, Free, edited
<1>35. CASE ContinuePrompt(r)
  BY <1>35 DEF ContinuePrompt, Step, fileVars, rtVars, jobVars, history, PcShape, Free, edited
<1>36. CASE InspectContinued(r)
  BY <1>36 DEF InspectContinued, Step, fileVars, rtVars, jobVars, PcShape, Free, edited
<1>q. QED
  BY <1>1, <1>2, <1>3, <1>3a, <1>3b, <1>4, <1>5, <1>6, <1>7, <1>8, <1>9, <1>10, <1>11,
     <1>12, <1>13, <1>14, <1>15, <1>16, <1>17, <1>18, <1>19, <1>20, <1>21, <1>22,
     <1>23, <1>24, <1>25, <1>26, <1>27, <1>28, <1>29, <1>30, <1>31, <1>32, <1>33,
     <1>34, <1>35, <1>36
     DEF RunnerStep, Common, ResumeCase, ReconnectCase, PartialCase

\* Only the verdict records a result.
LEMMA ResultByVerdict ==
    ASSUME NEW r \in Runner, RunnerStep(r)
    PROVE  result' = result \/ Verdict(r)
<1>1. CASE \/ Create(r) \/ Crash(r) \/ Start(r) \/ TakeSnapshot(r) \/ Spawn(r)
           \/ StartRelay(r)
           \/ SpawnTui(r) \/ Timeout(r) \/ CloseRelay(r)
           \/ CloseRuntime(r) \/ VerifyResume(r) \/ Recheck(r)
           \/ ResumeCandidate(r) \/ SilentWindow(r)
  BY <1>1 DEF Create, Crash, Start, TakeSnapshot, Spawn, StartRelay, SpawnTui, Timeout, CloseRelay,
        CloseRuntime, VerifyResume, Recheck, ResumeCandidate, SilentWindow, fileVars,
        Qualified
<1>2. CASE \/ StatusThenQuit(r) \/ QuitEvidence(r) \/ InitialCandidate(r)
           \/ Disconnect(r) \/ Probe(r) \/ FreshStatus(r) \/ FinalQuit(r)
           \/ FinalExit(r) \/ VerifyPartial(r) \/ CreateJobDir(r)
           \/ PartialCandidate(r) \/ EffectiveModel(r)
  BY <1>2 DEF StatusThenQuit, QuitEvidence, InitialCandidate, Disconnect, Probe,
        FreshStatus, FinalQuit, FinalExit, VerifyPartial, CreateJobDir,
        PartialCandidate, EffectiveModel, fileVars, Qualified
<1>3. CASE \/ StartPrompt(r) \/ InspectPartial(r) \/ GuardThenQuit(r)
           \/ QuitDrained(r) \/ InspectStopped(r) \/ StopIsStable(r)
           \/ QuietBegins(r) \/ QuietEnds(r) \/ QuietAfterStatus(r)
           \/ ContinuePrompt(r) \/ InspectContinued(r)
  BY <1>3 DEF StartPrompt, InspectPartial, GuardThenQuit, QuitDrained, InspectStopped,
        StopIsStable, QuietBegins, QuietEnds, QuietAfterStatus, ContinuePrompt,
        InspectContinued, fileVars
<1>q. QED
  BY <1>1, <1>2, <1>3
     DEF RunnerStep, Common, ResumeCase, ReconnectCase, PartialCase

\* A step of one runner leaves the others where they are.
LEMMA OthersKeepPoint ==
    ASSUME Shapes, NEW r \in Runner, RunnerStep(r), NEW u \in Runner, u # r
    PROVE  pc'[u] = pc[u]
<1>0. Raise(r) => pc'[u] = pc[u]
  BY RaiseEffect DEF Shapes
<1>1. CASE Create(r)
  BY <1>1 DEF Create, Step, Shapes, PcShape
<1>2. CASE Crash(r)
  BY <1>2 DEF Crash, Shapes, PcShape
<1>3. CASE Start(r)
  BY <1>3, <1>0 DEF Start, Step, Shapes, PcShape
<1>3a. CASE TakeSnapshot(r)
  BY <1>3a DEF TakeSnapshot, Step, Shapes, PcShape
<1>3b. CASE Spawn(r)
  BY <1>3b, <1>0 DEF Spawn, Odd, Step, Shapes, PcShape
<1>4. CASE StartRelay(r)
  BY <1>4, <1>0 DEF StartRelay, Step, Shapes, PcShape
<1>5. CASE SpawnTui(r)
  BY <1>5 DEF SpawnTui, Step, Shapes, PcShape
<1>6. CASE Timeout(r)
  BY <1>6, <1>0 DEF Timeout, Shapes, PcShape
<1>7. CASE CloseRelay(r)
  BY <1>7 DEF CloseRelay, Step, Shapes, PcShape
<1>8. CASE CloseRuntime(r)
  BY <1>8 DEF CloseRuntime, Step, Shapes, PcShape
<1>9. CASE Verdict(r)
  BY <1>9 DEF Verdict, Step, Shapes, PcShape
<1>10. CASE VerifyResume(r)
  BY <1>10 DEF VerifyResume, Step, Shapes, PcShape
<1>11. CASE Recheck(r)
  BY <1>11, <1>0 DEF Recheck, Step, Shapes, PcShape
<1>12. CASE ResumeCandidate(r)
  BY <1>12, <1>0 DEF ResumeCandidate, Qualified, Step, Shapes, PcShape
<1>13. CASE SilentWindow(r)
  BY <1>13, <1>0 DEF SilentWindow, Step, Shapes, PcShape
<1>14. CASE StatusThenQuit(r)
  BY <1>14, <1>0 DEF StatusThenQuit, Step, Shapes, PcShape
<1>15. CASE QuitEvidence(r)
  BY <1>15 DEF QuitEvidence, Shapes, PcShape
<1>16. CASE InitialCandidate(r)
  BY <1>16, <1>0 DEF InitialCandidate, Qualified, Step, Shapes, PcShape
<1>17. CASE Disconnect(r)
  BY <1>17, <1>0 DEF Disconnect, Step, Shapes, PcShape
<1>18. CASE Probe(r)
  BY <1>18, <1>0 DEF Probe, Step, Shapes, PcShape
<1>19. CASE FreshStatus(r)
  BY <1>19 DEF FreshStatus, Shapes, PcShape
<1>20. CASE FinalQuit(r)
  BY <1>20 DEF FinalQuit, Step, Shapes, PcShape
<1>21. CASE FinalExit(r)
  BY <1>21 DEF FinalExit, Step, Shapes, PcShape
<1>22. CASE VerifyPartial(r)
  BY <1>22 DEF VerifyPartial, Step, Shapes, PcShape
<1>23. CASE CreateJobDir(r)
  BY <1>23 DEF CreateJobDir, Shapes, PcShape
<1>24. CASE PartialCandidate(r)
  BY <1>24, <1>0 DEF PartialCandidate, Qualified, Step, Shapes, PcShape
<1>25. CASE EffectiveModel(r)
  BY <1>25, <1>0 DEF EffectiveModel, Step, Shapes, PcShape
<1>26. CASE StartPrompt(r)
  BY <1>26, <1>0 DEF StartPrompt, Step, Shapes, PcShape
<1>27. CASE InspectPartial(r)
  BY <1>27 DEF InspectPartial, Step, Shapes, PcShape
<1>28. CASE GuardThenQuit(r)
  BY <1>28, <1>0 DEF GuardThenQuit, Step, Shapes, PcShape
<1>29. CASE QuitDrained(r)
  BY <1>29, <1>0 DEF QuitDrained, Step, Shapes, PcShape
<1>30. CASE InspectStopped(r)
  BY <1>30 DEF InspectStopped, Step, Shapes, PcShape
<1>31. CASE StopIsStable(r)
  BY <1>31, <1>0 DEF StopIsStable, Step, Shapes, PcShape
<1>32. CASE QuietBegins(r)
  BY <1>32, <1>0 DEF QuietBegins, Step, Shapes, PcShape
<1>33. CASE QuietEnds(r)
  BY <1>33, <1>0 DEF QuietEnds, Step, Shapes, PcShape
<1>34. CASE QuietAfterStatus(r)
  BY <1>34, <1>0 DEF QuietAfterStatus, Step, Shapes, PcShape
<1>35. CASE ContinuePrompt(r)
  BY <1>35, <1>0 DEF ContinuePrompt, Step, Shapes, PcShape
<1>36. CASE InspectContinued(r)
  BY <1>36, <1>0 DEF InspectContinued, Step, Shapes, PcShape
<1>q. QED
  BY <1>1, <1>2, <1>3, <1>3a, <1>3b, <1>4, <1>5, <1>6, <1>7, <1>8, <1>9, <1>10, <1>11,
     <1>12, <1>13, <1>14, <1>15, <1>16, <1>17, <1>18, <1>19, <1>20, <1>21, <1>22,
     <1>23, <1>24, <1>25, <1>26, <1>27, <1>28, <1>29, <1>30, <1>31, <1>32, <1>33,
     <1>34, <1>35, <1>36
     DEF RunnerStep, Common, ResumeCase, ReconnectCase, PartialCase

\* Once a result is recorded, nothing the claims speak of changes any more.
LEMMA ResultIsFinal ==
    ASSUME CaseInv, Next, result # "none"
    PROVE  UNCHANGED <<mode, record, source, result, run, rt, endpoint, bridge, job,
                       turned, stale, slipped, psFailed>>
<1> USE DEF CaseInv, Shapes
<1>1. PICK d \in Runner : pc[d] = "done"
  BY DEF ResultTold
<1>2. ASSUME NEW r \in Runner, RunnerStep(r)
      PROVE  UNCHANGED <<mode, record, source, result, run, rt, endpoint, bridge, job,
                         turned, stale, slipped, psFailed>>
  <2>1. pc[r] # "done" /\ r # d
    BY <1>1, <1>2, FreeStep
  <2>2. Owner(d) /\ caseDir
    BY <1>1 DEF Owner, Owning, Free, Stage, Claim
  <2>3. pc[r] \in Free
    BY <2>1, <2>2 DEF Claim, Owner, Owning, PcShape
  <2>4. Claim'
    BY <1>2, ClaimKept
  <2>5. pc'[r] # "created"
    <3>1. pc'[d] = "done"
      BY <1>1, <1>2, <2>1, OthersKeepPoint
    <3>q. QED
      BY <2>1, <2>4, <3>1 DEF Claim, Owner, Owning, Free, Stage
  <2>q. QED
    BY <1>2, <2>3, <2>5, FreeStep
<1>3. ASSUME OtherStep
      PROVE  UNCHANGED <<mode, record, source, result, run, rt, endpoint, bridge, job,
                         turned, stale, slipped, psFailed>>
  <2>1. record # {} /\ ~UnderWay
    BY <1>1 DEF FilesTraced, UnderWay
  <2>2. ~PrepareResume
    BY <2>1 DEF PrepareResume
  <2>3. ~PreparePartial
    BY <2>1 DEF PreparePartial
  <2>4. ~Connect
    BY <2>1 DEF Connect, RelayServes
  <2>5. ~Handshake
    BY <2>1 DEF Handshake, RelayServes
  <2>6. ~Attach
    BY <2>1 DEF Attach, RelayServes
  <2>7. ~StrayTurn
    BY <2>1 DEF StrayTurn, RelayServes
  <2>8. ~TuiExits
    BY <2>1 DEF TuiExits
  <2>9. ~BackendDies
    BY <2>1 DEF BackendDies
  <2>10. ASSUME NEW e \in Epoch PROVE ~LegEnds(e)
    BY <2>1 DEF LegEnds
  <2>11. ASSUME NEW e \in Epoch PROVE ~Gap(e)
    BY <2>1 DEF Gap
  <2>12. ASSUME NEW s \in Socket PROVE ~Occupy(s)
    BY <2>1 DEF Occupy
  <2>13. ASSUME NEW part \in Part PROVE ~Edit(part)
    BY <2>1 DEF Edit
  <2>14. ASSUME NEW w \in {1, 2} PROVE ~WorkerStart(w)
    BY <2>1 DEF WorkerStart
  <2>15. ASSUME NEW w \in {1, 2} PROVE ~WorkerChecks(w)
    BY <2>1 DEF WorkerChecks
  <2>16. ASSUME NEW w \in {1, 2} PROVE ~WorkerPublishes(w)
    BY <2>1 DEF WorkerPublishes
  <2>17. ASSUME NEW w \in {1, 2} PROVE ~WorkerEnds(w)
    BY <2>1 DEF WorkerEnds
  <2>q. QED
    BY <1>3, <2>2, <2>3, <2>4, <2>5, <2>6, <2>7, <2>8, <2>9, <2>10, <2>11, <2>12,
       <2>13, <2>14, <2>15, <2>16, <2>17
       DEF OtherStep, Environment
<1>q. QED
  BY <1>2, <1>3 DEF Next, RunnerStep, OtherStep

\* What a verdict "observed" says is true when it is given.
LEMMA VerdictIsTrue ==
    ASSUME CaseInv, NEW r \in Runner, Verdict(r), result' = "observed"
    PROVE  ObservedIsQuiet' /\ ObservedIsReviewed' /\ ContinuesTheStop'
<1> USE DEF CaseInv, Shapes
<1>1. /\ UNCHANGED <<mode, record, source, run, rt, endpoint, bridge, job, turned>>
      /\ UNCHANGED <<stale, slipped>>
      /\ pc[r] = "verdict"
  BY DEF Verdict, Step, rtVars, jobVars, edited
<1>2. /\ record = {source}
      /\ \/ mode = "resume" /\ ResumeVerdict
         \/ mode = "reconnect" /\ ReconnectVerdict
         \/ mode = "partial" /\ PartialVerdict
  BY DEF Verdict, ProtectionHolds, HashesHold
<1>3. ~run.failed /\ rt.closed = "ok" /\ bridge.complete
  BY <1>2 DEF ResumeVerdict, ReconnectVerdict, PartialVerdict, ResumeTerminal
<1>4. mode # "partial" => bridge.turns = 0
  BY <1>2 DEF ResumeVerdict, ReconnectVerdict
<1>5. ObservedIsQuiet'
  BY <1>1, <1>3, <1>4 DEF ObservedIsQuiet, TurnsCounted, BridgeShape
<1>6. stale = {} /\ slipped = {}
  <2>1. OffRecord = {}
    BY <1>2 DEF OffRecord
  <2>q. QED
    BY <1>3, <2>1 DEF FilesTraced
<1>7. rt.backend # "up" /\ ~TuiUp
  BY <1>3 DEF CloseIsTrue, TuiUp
<1>8. \A s \in Socket : endpoint[s] # "own"
  BY <1>1, <1>3 DEF SocketsOwned
<1>9. ObservedIsReviewed'
  BY <1>1, <1>6, <1>7, <1>8 DEF ObservedIsReviewed, TuiUp
<1>10. ContinuesTheStop'
  <2> SUFFICES ASSUME mode = "partial", ~psFailed'
               PROVE  /\ run.stop \in run.first .. Total - 1
                      /\ job.steps = [i \in 1 .. Total |-> IF i <= run.stop THEN 1 ELSE 2]
    BY <1>1 DEF ContinuesTheStop
  <2>1. ~psFailed
    <3>1. PICK fails \in BOOLEAN : Ps(fails)
      BY DEF Verdict
    <3>q. QED
      BY <3>1, PsTyped
  <2>2. rt.no = 2 /\ Len(job.steps) = Total
    BY <1>2 DEF PartialVerdict
  <2>3. /\ run.stop \in run.first .. Total - 1
        /\ \A i \in 1 .. Len(job.steps) : job.steps[i] = IF i <= run.stop THEN 1 ELSE 2
    BY <1>3, <2>1, <2>2 DEF StopIsKept
  <2>4. job.steps \in [1 .. Total -> {1, 2}]
    BY <2>2 DEF JobShape
  <2>5. job.steps = [i \in 1 .. Total |-> IF i <= run.stop THEN 1 ELSE 2]
    BY <2>2, <2>3, <2>4
  <2>q. QED
    BY <2>3, <2>5
<1>q. QED
  BY <1>5, <1>9, <1>10

\* A recorded claim is true when it is recorded and stays true.
LEMMA ObservedKept ==
    ASSUME CaseInv, Next
    PROVE  ObservedIsQuiet' /\ ObservedIsReviewed' /\ ContinuesTheStop'
<1>1. CASE result # "none"
  BY <1>1, ResultIsFinal
     DEF CaseInv, ObservedIsQuiet, ObservedIsReviewed, ContinuesTheStop, TuiUp
<1>2. CASE result = "none"
  <2>1. ASSUME NEW r \in Runner, RunnerStep(r)
        PROVE  ObservedIsQuiet' /\ ObservedIsReviewed' /\ ContinuesTheStop'
    <3>1. CASE result' = "observed"
      BY <1>2, <2>1, <3>1, ResultByVerdict, VerdictIsTrue
    <3>2. CASE result' # "observed"
      BY <3>2 DEF ObservedIsQuiet, ObservedIsReviewed, ContinuesTheStop
    <3>q. QED
      BY <3>1, <3>2
  <2>2. ASSUME OtherStep
        PROVE  ObservedIsQuiet' /\ ObservedIsReviewed' /\ ContinuesTheStop'
    <3>1. result' = "none"
      BY <1>2, <2>2, OtherLeavesRunners
    <3>q. QED
      BY <3>1 DEF ObservedIsQuiet, ObservedIsReviewed, ContinuesTheStop
  <2>q. QED
    BY <2>1, <2>2 DEF Next, RunnerStep, OtherStep
<1>q. QED
  BY <1>1, <1>2

-----------------------------------------------------------------------------
(* The inductive invariant *)

\* The invariant holds before anything is prepared.
LEMMA InvInit == Init => CaseInv
<1> SUFFICES ASSUME Init PROVE CaseInv
  OBVIOUS
<1>1. RunShape
  BY DEF Init, RunShape, NewRun
<1>2. RtShape
  BY DEF Init, RtShape, NewRuntime
<1>3. BridgeShape
  BY DEF Init, BridgeShape, NewBridge
<1>4. JobShape
  BY DEF Init, JobShape
<1>5. FileShape /\ HistoryShape
  <2>1. source \in Hashes
    BY DEF Init, Hashes
  <2>2. FileShape
    <3>1. edits \in 0 .. Edits /\ stale \in SUBSET Part /\ slipped \in SUBSET {"binary", "config"}
      BY DEF Init
    <3>q. QED
      BY <2>1, <3>1 DEF Init, FileShape
  <2>3. odd \in 0 .. Oddities
    BY DEF Init
  <2>4. HistoryShape
    BY <2>3 DEF Init, HistoryShape
  <2>q. QED
    BY <2>2, <2>4
<1>6. PcShape
  BY DEF Init, PcShape, Stage
<1>7. Claim /\ ResultTold /\ StagesOfMode
  BY DEF Init, Claim, Owner, Owning, Free, ResultTold, StagesOfMode, FirstRun
<1>8. TurnsCounted
  BY DEF Init, TurnsCounted, Starting, NewRuntime
<1>9. FilesTraced
  BY DEF Init, FilesTraced, NewRuntime, Early, Between, Working, Owning, Free
<1>10. CloseIsTrue
  BY DEF Init, CloseIsTrue, Starting, NewRuntime
<1>11. SocketsOwned
  BY DEF Init, SocketsOwned, Serving, Leaving
<1>12. WorkersTakeTurns
  BY DEF Init, WorkersTakeTurns
<1>13. StopIsKept
  BY DEF Init, StopIsKept, NewRuntime
<1>14. ObservedIsQuiet /\ ObservedIsReviewed /\ ContinuesTheStop
  BY DEF Init, ObservedIsQuiet, ObservedIsReviewed, ContinuesTheStop
<1>q. QED
  BY <1>1, <1>2, <1>3, <1>4, <1>5, <1>6, <1>7, <1>8, <1>9, <1>10, <1>11, <1>12, <1>13,
     <1>14 DEF CaseInv, Shapes

\* The step of a runner preserves the invariant.
LEMMA RunnerKeeps ==
    ASSUME CaseInv, NEW r \in Runner, RunnerStep(r)
    PROVE  CaseInv'
<1>0. Next
  BY DEF Next, RunnerStep
<1>1. /\ Shapes /\ Claim /\ ResultTold /\ StagesOfMode /\ TurnsCounted /\ FilesTraced
      /\ CloseIsTrue /\ SocketsOwned /\ WorkersTakeTurns /\ StopIsKept
  BY DEF CaseInv
<1>2. Shapes'
  BY <1>1, RunShaped, RtShaped, BridgeShaped, JobShaped, FilesShaped, HistoryShaped,
     PcShaped DEF Shapes
<1>3. Claim' /\ ResultTold' /\ StagesOfMode'
  BY <1>1, ClaimKept, ResultToldKept, StagesKept
<1>4. TurnsCounted' /\ FilesTraced' /\ CloseIsTrue' /\ SocketsOwned'
  BY <1>1, TurnsKept, FilesKept, CloseKept, SocketsKept
<1>5. WorkersTakeTurns' /\ StopIsKept'
  BY <1>1, WorkersKept, StopKept
<1>6. ObservedIsQuiet' /\ ObservedIsReviewed' /\ ContinuesTheStop'
  BY <1>0, ObservedKept
<1>q. QED
  BY <1>2, <1>3, <1>4, <1>5, <1>6 DEF CaseInv

\* What happens around the case preserves the invariant.
LEMMA OtherKeeps ==
    ASSUME CaseInv, OtherStep
    PROVE  CaseInv'
<1>0. Next
  BY DEF Next, OtherStep
<1>1. /\ Shapes /\ Claim /\ ResultTold /\ StagesOfMode /\ TurnsCounted /\ FilesTraced
      /\ CloseIsTrue /\ SocketsOwned /\ WorkersTakeTurns /\ StopIsKept
  BY DEF CaseInv
<1>2. UNCHANGED <<mode, caseDir, result, pc, run, launched, psFailed>>
  BY OtherLeavesRunners
<1>3. RunShape' /\ PcShape'
  BY <1>1, <1>2 DEF Shapes, RunShape, PcShape
<1>4. Shapes'
  BY <1>1, <1>3, OtherKeepsRt, OtherKeepsBridge, OtherKeepsJob, OtherKeepsFiles,
     OtherKeepsHistory DEF Shapes
<1>5. Claim' /\ ResultTold'
  BY <1>1, <1>2 DEF Claim, Owner, ResultTold
<1>6. StagesOfMode' /\ TurnsCounted' /\ FilesTraced' /\ CloseIsTrue' /\ SocketsOwned'
  BY <1>1, OtherKeepsStages, OtherKeepsTurns, OtherKeepsTraces, OtherKeepsClosed,
     OtherKeepsSockets
<1>7. WorkersTakeTurns' /\ StopIsKept'
  BY <1>1, OtherKeepsWorkers, OtherKeepsStop
<1>8. ObservedIsQuiet' /\ ObservedIsReviewed' /\ ContinuesTheStop'
  BY <1>0, ObservedKept
<1>q. QED
  BY <1>4, <1>5, <1>6, <1>7, <1>8 DEF CaseInv

\* The invariant is preserved by every step, and by stuttering.
LEMMA InvNext == CaseInv /\ [Next]_vars => CaseInv'
<1> SUFFICES ASSUME CaseInv, [Next]_vars PROVE CaseInv'
  OBVIOUS
<1>1. CASE Next
  BY <1>1, RunnerKeeps, OtherKeeps DEF Next, RunnerStep, OtherStep
<1>2. CASE UNCHANGED vars
  <2>1. /\ UNCHANGED <<mode, record, source, caseDir, result, pc, run, rt, endpoint, bridge>>
        /\ UNCHANGED <<job, worker, odd, launched, turned, edits, stale, slipped, psFailed>>
    BY <1>2 DEF vars, fileVars, rtVars, jobVars, history, edited
  <2>2. Shapes'
    BY <2>1 DEF CaseInv, Shapes, RunShape, RtShape, BridgeShape, JobShape, FileShape,
        HistoryShape, PcShape
  <2>3. Claim' /\ ResultTold' /\ StagesOfMode'
    BY <2>1 DEF CaseInv, Claim, Owner, ResultTold, StagesOfMode
  <2>4. TurnsCounted' /\ FilesTraced' /\ CloseIsTrue'
    BY <2>1 DEF CaseInv, TurnsCounted, FilesTraced, OffRecord, OffSnapshot, CloseIsTrue
  <2>5. SocketsOwned' /\ WorkersTakeTurns' /\ StopIsKept'
    BY <2>1 DEF CaseInv, SocketsOwned, WorkersTakeTurns, StopIsKept
  <2>6. ObservedIsQuiet' /\ ObservedIsReviewed' /\ ContinuesTheStop'
    BY <2>1 DEF CaseInv, ObservedIsQuiet, ObservedIsReviewed, ContinuesTheStop, TuiUp
  <2>q. QED
    BY <2>2, <2>3, <2>4, <2>5, <2>6 DEF CaseInv
<1>q. QED
  BY <1>1, <1>2

\* The invariant holds throughout.
LEMMA Invariant == Spec => []CaseInv
  BY InvInit, InvNext, PTL DEF Spec

-----------------------------------------------------------------------------
(* Theorems *)

\* A set without two different members has at most one.
LEMMA AtMostOne ==
    ASSUME NEW S, \A x, y \in S : x = y
    PROVE  Cardinality(S) \in {0, 1}
<1>1. CASE S = {}
  BY <1>1, FS_EmptySet
<1>2. CASE S # {}
  <2>1. PICK x \in S : TRUE
    BY <1>2
  <2>2. S = {x}
    BY <2>1
  <2>q. QED
    BY <2>2, FS_Singleton
<1>q. QED
  BY <1>1, <1>2

\* Every variable of the case keeps its type: the record holds at most one set
\* of hashes, and runners, runtime, bridge and workers are where the code puts
\* them.
THEOREM TypeCorrect == Spec => []TypeOK
<1>1. CaseInv => TypeOK
  <2> SUFFICES ASSUME CaseInv PROVE TypeOK
    OBVIOUS
  <2>1. Cardinality(record) <= 1
    BY AtMostOne DEF CaseInv, Shapes, FileShape
  <2>q. QED
    BY <2>1 DEF CaseInv, Shapes, RtShape, BridgeShape, JobShape, FileShape, HistoryShape,
        PcShape, Hashes, TypeOK
<1>q. QED
  BY <1>1, Invariant, PTL

\* However many runners read one preflight record, and whichever of them are
\* killed, at most one ever spawns a backend (CaseDirectory.create).
THEOREM RecordRunsOnce == Spec => []OneRunner
<1>1. CaseInv => OneRunner
  BY AtMostOne DEF CaseInv, Shapes, HistoryShape, Claim, Owner, OneRunner
<1>q. QED
  BY <1>1, Invariant, PTL

\* A resume or reconnect case recorded as observed ran without any client turn,
\* counted or lost by a full trace, from the first connection to the close.
THEOREM ObservedCaseWasQuiet == Spec => []ObservedIsQuiet
<1>1. CaseInv => ObservedIsQuiet
  BY DEF CaseInv
<1>q. QED
  BY <1>1, Invariant, PTL

\* However often reviewed files are changed and put back: each one that a backend
\* of an observed case was started with in another state than the preflight froze
\* was put back before the last hashes, the binary and the config before the
\* close of their runtime; and the case left no process and no socket behind.
THEOREM ObservedCaseWasReviewed == Spec => []ObservedIsReviewed
<1>1. CaseInv => ObservedIsReviewed
  BY DEF CaseInv
<1>q. QED
  BY <1>1, Invariant, PTL

\* In an observed partial case whose ps calls all answered, the steps are the
\* prefix that was judged at the stop, then the second worker's, for a task of
\* any length.
THEOREM SecondSegmentContinues == Spec => []ContinuesTheStop
<1>1. CaseInv => ContinuesTheStop
  BY DEF CaseInv
<1>q. QED
  BY <1>1, Invariant, PTL
=============================================================================
