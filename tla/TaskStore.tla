------------------------------ MODULE TaskStore ------------------------------
(***************************************************************************)
(* The durable task ledger of the Go orchestrator: the transactions of     *)
(* tools/orchestrator/internal/store that move tasks, attempts, segments,  *)
(* stops, questions, retry and review decisions, report capabilities and   *)
(* source hosts.  One action is one committed transaction; a transaction   *)
(* that the code rolls back is an action that is not enabled.  The callers *)
(* (control requests, host connections, shutdown, restart) may interleave  *)
(* these transactions in any order, which is what the store's mutex gives. *)
(*                                                                         *)
(* A task is a number; numbers follow the order (created_at, id) in which  *)
(* the store scans tasks.  A segment is one launch of a worker, numbered   *)
(* in creation order.  A host is identified with its launch, as            *)
(* RegisterHost does.  The coordinator epoch stored with a host always is  *)
(* the current one (RegisterHost and BeginCoordinatorEpoch write it), so   *)
(* only the epoch of a report capability is kept.                          *)
(***************************************************************************)
EXTENDS Integers, Sequences, FiniteSetsExt

CONSTANTS
    Task,          \* submitted tasks, a finite set of natural numbers
    Launch,        \* host launches, one per submitted plan
    Group,         \* budget groups
    Resource,      \* provider names and workspace paths a limit can name
    Proc,          \* operating-system identities (pid, birth) of a host
    Deps,          \* Deps[t]: the tasks that task t depends on
    PlanOrder,     \* PlanOrder[t]: position of t in its plan
    LaunchOf,      \* LaunchOf[t]: the launch whose plan contains t
    GroupOf,       \* GroupOf[t]: the budget group of t
    MaxAttempts,   \* MaxAttempts[t]: max_attempts of t
    MaxActive,     \* MaxActive[t]: max_active_ms of t, in budget units
    Policy,        \* Policy[t]: completion_policy of t
    Keys,          \* Keys[t][i]: resources of t's i-th adapter payload,
                   \* the first one submitted and then its fallbacks
    LimitConfigs,  \* concurrency limits a restart may load
    GroupBudget,   \* defaultGroupActiveMS, in budget units
    MaxHosts,      \* launches not released, at most (4 in the code)
    ActiveReport,  \* values of active_ms a host may report on exit
    ReportRev,     \* question revisions a report may carry
    MaxSegment,    \* bound: segments created
    MaxEpoch       \* bound: coordinator epochs

Segment == 1..MaxSegment
AttemptNo == 1..3

TaskStatus == {"absent", "queued", "ready", "resume_queued", "running",
    "stopping", "unknown", "waiting_question", "interrupted", "result_ready",
    "failed", "completed", "cancelled", "blocked_dependency"}
AttemptStatus == {"none", "running", "result_ready", "interrupted", "failed",
    "unknown"}

\* The statuses in which a segment occupies a slot.
Occupying == {"launch_requested", "prepared", "spawned", "running",
    "stopping", "unknown"}
Outcome == {"none", "result", "question", "stopped", "failed"}

SegmentRow == [
    st : {"none", "exited"} \cup Occupying,
    outcome : Outcome,
    task : Task,
    no : AttemptNo,                \* attempt_no of its attempt
    charge : Nat,                  \* granted_ms, then used_ms once settled
    stop : {"none", "pending", "accepted", "completed", "unknown"},
    reason : {"none", "request", "waiting_question"},
    session : BOOLEAN,             \* a segment_sessions row exists
    ask : {0} \cup Segment,        \* whose question its grant answers
    pay : Nat,                     \* index of the payload it was granted
    cap : Nat,                     \* epoch of its report capability, 0 pending
    rpt : Nat ]                    \* revision of a question waiting for a
                                   \* session (pending_session), 0 none
QuestionRow == [
    st : {"none", "open", "resume_queued", "resume_started", "resolved"},
    rev : Nat ]

ASSUME TaskAssumption ==
    /\ Task \subseteq Nat
    /\ IsFiniteSet(Task)
    /\ Task # {}
    /\ Deps \in [Task -> SUBSET Task]
    /\ LaunchOf \in [Task -> Launch]
    /\ PlanOrder \in [Task -> Nat]
    /\ \A t, u \in Task : LaunchOf[t] = LaunchOf[u] /\ t # u => PlanOrder[t] # PlanOrder[u]
    /\ GroupOf \in [Task -> Group]
    /\ \A t \in Task : \A d \in Deps[t] : LaunchOf[d] = LaunchOf[t]

\* validatePlan: 1..3 attempts; the tasks of a plan that share a budget group
\* agree on their limits; no cycle.
ASSUME PlanAssumption ==
    /\ MaxAttempts \in [Task -> AttemptNo]
    /\ \A t, u \in Task :
           LaunchOf[t] = LaunchOf[u] /\ GroupOf[t] = GroupOf[u] =>
               MaxAttempts[t] = MaxAttempts[u] /\ MaxActive[t] = MaxActive[u]
    /\ \A S \in SUBSET Task : S # {} => \E t \in S : Deps[t] \cap S = {}
    /\ Policy \in [Task -> {"owner_review", "artifact", "exit_success_fixture"}]

ASSUME BudgetAssumption ==
    /\ MaxActive \in [Task -> Nat \ {0}]
    /\ GroupBudget \in Nat
    /\ ActiveReport \subseteq Int

ASSUME BoundAssumption ==
    /\ MaxSegment \in Nat
    /\ MaxEpoch \in Nat
    /\ MaxHosts \in Nat
    /\ ReportRev \subseteq Nat \ {0}

\* ConfigureConcurrency accepts a global limit of 1..32 and caps of 1..32;
\* a resource without a cap has cap 0 here.
ASSUME LimitAssumption ==
    /\ LimitConfigs # {}
    /\ LimitConfigs \subseteq [global : 1..32, cap : [Resource -> 0..32]]

ASSUME KeysAssumption ==
    /\ Keys \in [Task -> Seq(SUBSET Resource)]
    /\ \A t \in Task : Len(Keys[t]) > 0

VARIABLES
    status,     \* tasks.status, "absent" before SubmitPlan
    readySeq,   \* task_runtime.ready_sequence, 0 for NULL
    nextReady,  \* runtime_meta.next_ready_sequence
    fallback,   \* task_runtime.fallback_index
    attempt,    \* attempt[t][n]: attempts row of task t numbered n
    seg,        \* segment_runtime with budget, stop, session and capability
    nextSeg,    \* identifier of the next segment
    question,   \* runtime_questions, by the segment that asked
    events,     \* committed events a decision can be based on
    review,     \* review_decisions, by the segment of the result event
    retried,    \* source events of retry_decisions
    launch,     \* host_launches.status
    host,       \* runtime_hosts.status
    proc,       \* process identity bound to a host, "none" before the first
    conn,       \* step of handleHost that the host's newest connection is at
    epoch,      \* coordinator.epoch
    limits,     \* scheduler_config
    retiring    \* hosts some retireCompletedHosts call has yet to retire

taskVars == <<status, readySeq, nextReady, fallback>>
workVars == <<attempt, seg, nextSeg, question>>
decisionVars == <<events, review, retried>>
hostVars == <<launch, host, proc, conn, retiring>>
configVars == <<epoch, limits>>
vars == <<taskVars, workVars, decisionVars, hostVars, configVars>>

-----------------------------------------------------------------------------
(* Derived state *)

ActiveSegments == {s \in Segment : seg[s].st \in Occupying}

SegmentsOf(t) == {s \in Segment : seg[s].st # "none" /\ seg[s].task = t}

ActiveOf(t) == {s \in ActiveSegments : seg[s].task = t}

\* ORDER BY attempt_no DESC, segment_no DESC LIMIT 1: both numbers grow in
\* creation order within a task.
IsLatest(s, t) == s \in SegmentsOf(t) /\ \A r \in SegmentsOf(t) : r <= s

HostOf(s) == LaunchOf[seg[s].task]

AttemptsOf(t) == {n \in AttemptNo : attempt[t][n] # "none"}

GroupAttempts(g) ==
    {a \in Task \X AttemptNo : GroupOf[a[1]] = g /\ attempt[a[1]][a[2]] # "none"}

AttemptLimit(t) == IF MaxAttempts[t] < 3 THEN MaxAttempts[t] ELSE 3

IsLatestAttempt(t, n) == n \in AttemptsOf(t) /\ \A m \in AttemptsOf(t) : m <= n

\* SUM(CASE WHEN status='settled' THEN used_ms ELSE granted_ms END)
Charged(g) ==
    MapThenSumSet(LAMBDA s : seg[s].charge,
        {s \in Segment : seg[s].st # "none" /\ GroupOf[seg[s].task] = g})

\* Questions of an attempt in a given status.
QuestionsIn(t, n, st) ==
    {s \in SegmentsOf(t) : seg[s].no = n /\ question[s].st = st}

HasRevision(t, rev) ==
    \E s \in SegmentsOf(t) : question[s].st # "none" /\ question[s].rev = rev

NoSegment == [st |-> "none", outcome |-> "none", task |-> CHOOSE t \in Task : TRUE,
    no |-> 1, charge |-> 0, stop |-> "none", reason |-> "none",
    session |-> FALSE, ask |-> 0, pay |-> 0, cap |-> 0, rpt |-> 0]

NoQuestion == [st |-> "none", rev |-> 0]

Init ==
    /\ status = [t \in Task |-> "absent"]
    /\ readySeq = [t \in Task |-> 0]
    /\ nextReady = 1
    /\ fallback = [t \in Task |-> 0]
    /\ attempt = [t \in Task |-> [n \in AttemptNo |-> "none"]]
    /\ seg = [s \in Segment |-> NoSegment]
    /\ nextSeg = 1
    /\ question = [s \in Segment |-> NoQuestion]
    /\ events = {}
    /\ review = [s \in Segment |-> "none"]
    /\ retried = {}
    /\ launch = [l \in Launch |-> "none"]
    /\ host = [l \in Launch |-> "none"]
    /\ proc = [l \in Launch |-> "none"]
    /\ conn = [l \in Launch |-> "none"]
    /\ epoch = 1
    /\ limits \in LimitConfigs
    /\ retiring = {}
-----------------------------------------------------------------------------
(* Dependencies and the ready queue *)

\* Tasks of R take consecutive ready sequences in the order of their rank.
Sequenced(R, rank) ==
    /\ readySeq' = [t \in Task |-> IF t \in R
                        THEN nextReady + Cardinality({u \in R : rank[u] < rank[t]})
                        ELSE readySeq[t]]
    /\ nextReady' = nextReady + Cardinality(R)

\* Given statuses st, S contains every queued or ready task that a failed,
\* cancelled or blocked dependency reaches through S.
ClosedUnderBlocking(S, st) ==
    \A t \in Task :
        /\ st[t] \in {"queued", "ready"}
        /\ \E d \in Deps[t] :
               st[d] \in {"failed", "cancelled", "blocked_dependency"} \/ d \in S
        => t \in S

\* Mutant: one pass over the tasks instead of the loop.
blockDirectDependents(st) ==
    [t \in Task |->
        IF /\ st[t] \in {"queued", "ready"}
           /\ \E d \in Deps[t] : st[d] \in {"failed", "cancelled", "blocked_dependency"}
        THEN "blocked_dependency"
        ELSE st[t]]

\* The loop of blockFailedDependencies stops at the least such set.
blockFailedDependencies(st) ==
    [t \in Task |->
        IF /\ st[t] \in {"queued", "ready"}
           /\ \A S \in SUBSET Task : ClosedUnderBlocking(S, st) => t \in S
        THEN "blocked_dependency"
        ELSE st[t]]

\* Queued tasks whose dependencies are all completed become ready.
releaseReady(st) ==
    LET R == {t \in Task : /\ st[t] = "queued"
                           /\ \A d \in Deps[t] : st[d] = "completed"}
    IN  /\ status' = [t \in Task |-> IF t \in R THEN "ready" ELSE st[t]]
        /\ Sequenced(R, [t \in Task |-> t])

\* A task enters the tail of the ready queue.
takeReadySequence(t, st) ==
    /\ status' = [status EXCEPT ![t] = st]
    /\ readySeq' = [readySeq EXCEPT ![t] = nextReady]
    /\ nextReady' = nextReady + 1

\* Mutant: a task without attempts left gets a status of its own.
ExhaustedStatus(t) ==
    [status EXCEPT ![t] = IF Cardinality(AttemptsOf(t)) >= AttemptLimit(t)
                          THEN "budget_exhausted" ELSE "failed"]

\* Task t leaves an attempt as failed: its dependents are blocked only when
\* its own attempts are used up.
FailedStatus(t) ==
    LET st == [status EXCEPT ![t] = "failed"]
    IN  IF Cardinality(AttemptsOf(t)) >= AttemptLimit(t)
        THEN blockFailedDependencies(st)
        ELSE st
-----------------------------------------------------------------------------
(* Plans and source hosts *)

\* A whole plan is admitted with its launch, or nothing is.
SubmitPlan(l) ==
    LET plan == {t \in Task : LaunchOf[t] = l}
        free == {t \in plan : Deps[t] = {}}
    IN  /\ launch[l] = "none"
        /\ Cardinality({k \in Launch : launch[k] \notin {"none", "released"}}) < MaxHosts
        /\ launch' = [launch EXCEPT ![l] = "reserved"]
        /\ status' = [t \in Task |-> IF t \in free THEN "ready"
                                     ELSE IF t \in plan THEN "queued"
                                     ELSE status[t]]
        /\ Sequenced(free, PlanOrder)
        /\ UNCHANGED <<fallback, workVars, decisionVars, host, proc, conn,
                       retiring, configVars>>

\* handleHost: a hello that passes the checks binds the launch to a process.
\* A different process may take over a host that still owns work only after
\* AuthorizeHostRebind.  A newer connection supersedes an older one; until it
\* is entered in s.hosts ("rehello") the older one still is.
RegisterHost(l, p) ==
    /\ launch[l] # "none"
    /\ \/ p = proc[l]
       \/ \A s \in ActiveSegments : HostOf(s) # l
       \/ host[l] = "reconcile_authorized"
    /\ host' = [host EXCEPT ![l] = "ready"]
    /\ launch' = [launch EXCEPT ![l] = "ready"]
    /\ proc' = [proc EXCEPT ![l] = p]
    /\ conn' = [conn EXCEPT ![l] =
           IF @ \in {"none", "closed", "hello"} THEN "hello" ELSE "rehello"]
    /\ UNCHANGED <<taskVars, workVars, decisionVars, retiring, configVars>>

\* handleHost asks for it, before it registers another process, when the
\* bound one owns work and is gone.
AuthorizeHostRebind(l) ==
    /\ host[l] = "offline"
    /\ \E s \in ActiveSegments : HostOf(s) = l
    /\ host' = [host EXCEPT ![l] = "reconcile_authorized"]
    /\ UNCHANGED <<taskVars, workVars, decisionVars, launch, proc, conn, retiring,
                   configVars>>

\* The registered host replays its spool before new work is dispatched to it.
BeginHostReconcile(l) ==
    /\ conn[l] \in {"hello", "rehello"}
    /\ conn' = [conn EXCEPT ![l] = "replay"]
    /\ host' = [host EXCEPT ![l] = "reconciling"]
    /\ launch' = [launch EXCEPT ![l] = "reconciling"]
    /\ UNCHANGED <<taskVars, workVars, decisionVars, proc, retiring, configVars>>

\* A session that RetireHost closed meanwhile may still get here.
FinishHostReconcile(l) ==
    /\ conn[l] \in {"replay", "closed"}
    /\ conn' = [conn EXCEPT ![l] = IF @ = "replay" THEN "serving" ELSE "none"]
    /\ host' = [host EXCEPT ![l] = IF @ = "reconciling" THEN "ready" ELSE @]
    /\ launch' = [launch EXCEPT ![l] = "ready"]
    /\ UNCHANGED <<taskVars, workVars, decisionVars, proc, retiring, configVars>>

\* The session ends: MarkHostOffline only touches a host that is ready.
MarkHostOffline(l) ==
    /\ conn[l] \in {"replay", "serving", "rehello"}
    /\ conn' = [conn EXCEPT ![l] = IF @ = "rehello" THEN "hello" ELSE "none"]
    /\ host' = [host EXCEPT ![l] = IF @ = "ready" THEN "offline" ELSE @]
    /\ launch' = [launch EXCEPT ![l] = IF host[l] = "ready" THEN "offline" ELSE @]
    /\ UNCHANGED <<taskVars, workVars, decisionVars, proc, retiring, configVars>>

\* A restart loads the limits file and opens a new epoch: every host row goes
\* offline, a launch only if it was ready.  What a handler held is lost.
BeginCoordinatorEpoch ==
    /\ epoch < MaxEpoch
    /\ epoch' = epoch + 1
    /\ limits' \in LimitConfigs
    /\ host' = [l \in Launch |-> IF host[l] = "none" THEN "none" ELSE "offline"]
    /\ launch' = [l \in Launch |-> IF launch[l] = "ready" THEN "offline" ELSE launch[l]]
    /\ conn' = [l \in Launch |-> "none"]
    /\ retiring' = {}
    /\ UNCHANGED <<taskVars, workVars, decisionVars, proc>>

\* The read of retireCompletedHosts, before it retires them one by one.
RetirableHosts ==
    LET idle == {l \in Launch :
            /\ host[l] = "ready"
            /\ \A t \in Task : LaunchOf[t] = l =>
                   status[t] \in {"completed", "result_ready", "cancelled",
                                  "failed", "blocked_dependency"}
            /\ \A s \in Segment : HostOf(s) = l => seg[s].rpt = 0}
    IN  /\ ~ (idle \subseteq retiring)
        /\ retiring' = retiring \cup idle
        /\ UNCHANGED <<taskVars, workVars, decisionVars, launch, host, proc, conn,
                       configVars>>

\* The host is released and its session, if it is registered, closed.
RetireHost(l) ==
    /\ l \in retiring
    /\ host' = [host EXCEPT ![l] = IF @ = "ready" THEN "released" ELSE @]
    /\ launch' = [launch EXCEPT ![l] = "released"]
    /\ conn' = [conn EXCEPT ![l] = CASE @ = "replay" -> "closed"
                                      [] @ = "serving" -> "none"
                                      [] @ = "rehello" -> "hello"
                                      [] OTHER -> @]
    /\ retiring' = retiring \ {l}
    /\ UNCHANGED <<taskVars, workVars, decisionVars, proc, configVars>>
-----------------------------------------------------------------------------
(* Scheduling *)

\* Active segments of tasks whose current payload uses resource r.
InUse(r) == {s \in ActiveSegments :
                 r \in Keys[seg[s].task][fallback[seg[s].task] + 1]}

CapOf(r) == IF limits.cap[r] = 0 THEN limits.global ELSE limits.cap[r]

\* Mutant: a resource may be used once more than its limit says.
FitsOneMore(t) ==
    \A r \in Keys[t][fallback[t] + 1] : Cardinality(InUse(r)) <= CapOf(r)

Fits(t) ==
    \A r \in Keys[t][fallback[t] + 1] : Cardinality(InUse(r)) < CapOf(r)

Candidates(l) == {t \in Task : /\ LaunchOf[t] = l
                               /\ status[t] \in {"ready", "resume_queued"}
                               /\ Fits(t)}

\* The first candidate in ready order is the only one ClaimReady looks at.
selectReady(t, l) ==
    t \in Candidates(l) /\ \A u \in Candidates(l) : readySeq[t] <= readySeq[u]

\* Mutant: a segment is granted its task's maximum, whatever the group used.
GrantMaximum(t) == MaxActive[t]

\* What is left of the group's budget, at most the task's maximum; without
\* a positive rest the claim fails.
Grant(t) ==
    LET remaining == GroupBudget - Charged(GroupOf[t])
    IN  IF MaxActive[t] > remaining THEN remaining ELSE MaxActive[t]

\* Mutant: attempts are counted and numbered per task.
ClaimOwnAttempt(t, n) ==
    IF status[t] = "resume_queued"
    THEN /\ IsLatestAttempt(t, n)
         /\ \A s \in ActiveOf(t) : seg[s].no # n
    ELSE /\ Cardinality(AttemptsOf(t)) < AttemptLimit(t)
         /\ n = Cardinality(AttemptsOf(t)) + 1

\* The attempt a claim of t runs in: the latest one when resuming, otherwise
\* a new one numbered after all attempts of the budget group.
ClaimAttempt(t, n) ==
    IF status[t] = "resume_queued"
    THEN /\ IsLatestAttempt(t, n)
         /\ \A s \in ActiveOf(t) : seg[s].no # n
    ELSE /\ Cardinality(GroupAttempts(GroupOf[t])) < AttemptLimit(t)
         /\ n = Cardinality(GroupAttempts(GroupOf[t])) + 1

\* The answered question a resumed claim carries to the host.
ClaimedQuestion(t, n, q) ==
    LET queued == IF status[t] = "resume_queued"
                  THEN QuestionsIn(t, n, "resume_queued") ELSE {}
    IN  \/ queued = {} /\ q = 0
        \/ q \in queued /\ \A r \in queued : question[r].rev <= question[q].rev

\* The rows a claim inserts: segment, reservation and pending capability.
LaunchedSegment(t, n, q) ==
    [st |-> "launch_requested", outcome |-> "none", task |-> t, no |-> n,
     charge |-> Grant(t), stop |-> "none", reason |-> "none", session |-> FALSE,
     ask |-> q, pay |-> fallback[t], cap |-> 0, rpt |-> 0]

ClaimReady(l, t) ==
    \E n \in AttemptNo, q \in {0} \cup Segment :
        /\ nextSeg <= MaxSegment
        /\ host[l] = "ready"
        /\ Cardinality(ActiveSegments) < limits.global
        /\ selectReady(t, l)
        /\ ClaimAttempt(t, n)
        /\ ClaimedQuestion(t, n, q)
        /\ Grant(t) \in 1..MaxActive[t]
        /\ status' = [status EXCEPT ![t] = "running"]
        /\ attempt' = [attempt EXCEPT ![t][n] = "running"]
        /\ seg' = [seg EXCEPT ![nextSeg] = LaunchedSegment(t, n, q)]
        /\ nextSeg' = nextSeg + 1
        /\ question' = [s \in Segment |->
               IF s = q THEN [question[s] EXCEPT !.st = "resume_started"]
               ELSE question[s]]
        /\ UNCHANGED <<readySeq, nextReady, fallback, decisionVars, hostVars,
                       configVars>>

\* The grant PendingLaunches sends again for a segment still at
\* launch_requested: it reads the payload and the question afresh.
ResentPayload(s) == fallback[seg[s].task]

\* Mutant: only an answer that was never sent is looked up.
ResentQueuedQuestion(s, q) ==
    LET queued == QuestionsIn(seg[s].task, seg[s].no, "resume_queued")
    IN  \/ queued = {} /\ q = 0
        \/ q \in queued /\ \A r \in queued : question[r].rev <= question[q].rev

ResentQuestion(s, q) ==
    LET started == QuestionsIn(seg[s].task, seg[s].no, "resume_started")
    IN  \/ started = {} /\ q = 0
        \/ q \in started /\ \A r \in started : question[r].rev <= question[q].rev
-----------------------------------------------------------------------------
(* Events of a host: CommitHostEvent and applyEvent *)

HostConnected(s) ==
    seg[s].st # "none" /\ host[HostOf(s)] \in {"ready", "reconciling"}

\* prepared, spawned and running advance a segment that is at the step before.
EventProgress(s) ==
    /\ HostConnected(s)
    /\ seg[s].st \in {"launch_requested", "prepared", "spawned"}
    /\ seg' = [seg EXCEPT ![s].st = CASE @ = "launch_requested" -> "prepared"
                                      [] @ = "prepared" -> "spawned"
                                      [] @ = "spawned" -> "running"]
    /\ UNCHANGED <<taskVars, attempt, nextSeg, question, decisionVars, hostVars,
                   configVars>>

\* UNIQUE(task_id, question_revision), and no outcome yet.
QuestionAdmitted(s, rev) ==
    /\ seg[s].st \in Occupying
    /\ ~ HasRevision(seg[s].task, rev)
    /\ seg[s].outcome = "none"

\* A question that came through a report also stops its segment, which must
\* have started and have no stop request.  (A stop with reason
\* waiting_question would do too, but it only exists beside the outcome
\* "question", which QuestionAdmitted has refused by then.)
ensureQuestionStop(s) ==
    /\ seg[s].stop = "none"
    /\ seg[s].st \in {"prepared", "spawned", "running"}
    /\ seg' = [seg EXCEPT ![s] = [seg[s] EXCEPT
           !.outcome = "question", !.session = TRUE, !.rpt = 0, !.st = "stopping",
           !.stop = "pending", !.reason = "waiting_question"]]
    /\ status' = [status EXCEPT ![seg[s].task] = "stopping"]

\* The first session event of a segment; it makes a question that was waiting
\* for the session real (materializePendingReportQuestion).
EventSession(s) ==
    /\ HostConnected(s)
    /\ seg[s].st \in Occupying
    /\ ~ seg[s].session
    /\ \/ /\ seg[s].rpt = 0
          /\ seg' = [seg EXCEPT ![s].session = TRUE]
          /\ UNCHANGED <<status, question>>
       \/ /\ seg[s].rpt # 0
          /\ QuestionAdmitted(s, seg[s].rpt)
          /\ question' = [question EXCEPT ![s] = [st |-> "open", rev |-> seg[s].rpt]]
          /\ ensureQuestionStop(s)
    /\ UNCHANGED <<readySeq, nextReady, fallback, attempt, nextSeg, decisionVars,
                   hostVars, configVars>>

\* The host numbers its question after the one its grant answers.
NextRevision(s) == IF seg[s].ask = 0 THEN 1 ELSE question[seg[s].ask].rev + 1

EventQuestion(s) ==
    /\ HostConnected(s)
    /\ QuestionAdmitted(s, NextRevision(s))
    /\ question' = [question EXCEPT ![s] = [st |-> "open", rev |-> NextRevision(s)]]
    /\ seg' = [seg EXCEPT ![s].outcome = "question"]
    /\ UNCHANGED <<taskVars, attempt, nextSeg, decisionVars, hostVars, configVars>>

\* Mutant: the last outcome event wins.
OutcomeOfLast(s, kind) == IF seg[s].st \in Occupying THEN kind ELSE seg[s].outcome

OutcomeAfter(s, kind) ==
    IF seg[s].st \in Occupying /\ seg[s].outcome = "none" THEN kind ELSE seg[s].outcome

\* result, stopped and failed: the first one decides the outcome, all of them
\* are kept.  stopped marks the stop request even when the segment is gone.
EventOutcome(s, kind) ==
    /\ HostConnected(s)
    /\ seg' = [seg EXCEPT ![s] = [seg[s] EXCEPT
           !.outcome = OutcomeAfter(s, kind),
           !.stop = IF kind = "stopped" /\ @ # "none" THEN "accepted" ELSE @]]
    /\ events' = events \cup (IF kind = "stopped" THEN {} ELSE {<<s, kind>>})
    /\ <<seg', events'>> # <<seg, events>>
    /\ UNCHANGED <<taskVars, attempt, nextSeg, question, review, retried, hostVars,
                   configVars>>

\* Mutant: an unknown event is applied to an exited segment too.
EventUnknownLate(s) ==
    /\ HostConnected(s)
    /\ seg' = [seg EXCEPT ![s].st = "unknown"]
    /\ attempt' = [attempt EXCEPT ![seg[s].task][seg[s].no] = "unknown"]
    /\ status' = [status EXCEPT ![seg[s].task] = "unknown"]
    /\ UNCHANGED <<readySeq, nextReady, fallback, nextSeg, question, decisionVars,
                   hostVars, configVars>>

EventUnknown(s) ==
    /\ HostConnected(s)
    /\ seg[s].st \in Occupying
    /\ seg' = [seg EXCEPT ![s].st = "unknown"]
    /\ attempt' = [attempt EXCEPT ![seg[s].task][seg[s].no] = "unknown"]
    /\ status' = [status EXCEPT ![seg[s].task] = "unknown"]
    /\ UNCHANGED <<readySeq, nextReady, fallback, nextSeg, question, decisionVars,
                   hostVars, configVars>>

Settled(grant, used) == IF used < 0 \/ used > grant THEN grant ELSE used

\* A result completes the task at once under the fixture policy, or when the
\* exit event carries the expected artifact; otherwise its owner reviews it.
ExitTaskStatus(s, match) ==
    CASE seg[s].outcome = "result" ->
           IF \/ Policy[seg[s].task] = "exit_success_fixture"
              \/ Policy[seg[s].task] = "artifact" /\ match
           THEN "completed" ELSE "result_ready"
      [] seg[s].outcome = "question" -> "waiting_question"
      [] seg[s].outcome = "failed" -> "failed"
      [] OTHER -> "interrupted"

ExitAttemptStatus(s) ==
    CASE seg[s].outcome = "result" -> "result_ready"
      [] seg[s].outcome = "failed" -> "failed"
      [] OTHER -> "interrupted"

\* Mutant: the answered question is left at resume_started.
QuestionsLeftStarted(s) == question

\* The exit of the segment launched for an answer resolves the question.
QuestionsAfterExit(s) ==
    [q \in Segment |->
        IF q \in QuestionsIn(seg[s].task, seg[s].no, "resume_started")
        THEN [question[q] EXCEPT !.st = "resolved"] ELSE question[q]]

\* exited: the segment frees its slot and settles its budget, the answered
\* question is resolved and the task moves on.
applyExit(s, used, match) ==
    LET t == seg[s].task
        after == ExitTaskStatus(s, match)
    IN  /\ HostConnected(s)
        /\ seg[s].st \in Occupying
        /\ seg' = [seg EXCEPT ![s] = [seg[s] EXCEPT
               !.st = "exited",
               !.charge = Settled(@, used),
               !.stop = IF @ = "none" THEN @ ELSE "completed"]]
        /\ attempt' = [attempt EXCEPT ![t][seg[s].no] = ExitAttemptStatus(s)]
        /\ question' = QuestionsAfterExit(s)
        /\ \/ after = "completed" /\ releaseReady([status EXCEPT ![t] = "completed"])
           \/ /\ after # "completed"
              /\ status' = IF after = "failed" THEN FailedStatus(t)
                           ELSE [status EXCEPT ![t] = after]
              /\ UNCHANGED <<readySeq, nextReady>>
        /\ UNCHANGED <<fallback, nextSeg, decisionVars, hostVars, configVars>>
-----------------------------------------------------------------------------
(* Reports a worker sends through its capability *)

RegisterReportCapability(s) ==
    /\ HostConnected(s)
    /\ seg[s].cap # epoch
    /\ seg' = [seg EXCEPT ![s].cap = epoch]
    /\ UNCHANGED <<taskVars, attempt, nextSeg, question, decisionVars, hostVars,
                   configVars>>

CapabilityUsable(s) ==
    seg[s].st # "none" /\ seg[s].cap = epoch /\ host[HostOf(s)] = "ready"

\* At most one question of a task is under way.  Without a session it waits
\* for one, with a session it takes effect like the host's own.
ReportQuestion(s, rev) ==
    /\ CapabilityUsable(s)
    /\ \A r \in SegmentsOf(seg[s].task) :
           /\ question[r].st \notin {"open", "resume_queued", "resume_started"}
           /\ seg[r].rpt = 0
    /\ \/ /\ ~ seg[s].session
          /\ seg' = [seg EXCEPT ![s].rpt = rev]
          /\ UNCHANGED <<status, question>>
       \/ /\ seg[s].session
          /\ QuestionAdmitted(s, rev)
          /\ question' = [question EXCEPT ![s] = [st |-> "open", rev |-> rev]]
          /\ ensureQuestionStop(s)
    /\ UNCHANGED <<readySeq, nextReady, fallback, attempt, nextSeg, decisionVars,
                   hostVars, configVars>>

\* A reported failure changes no task, but a retry may be based on it.
ReportFailure(s) ==
    /\ CapabilityUsable(s)
    /\ <<s, "report_failed">> \notin events
    /\ events' = events \cup {<<s, "report_failed">>}
    /\ UNCHANGED <<taskVars, workVars, review, retried, hostVars, configVars>>
-----------------------------------------------------------------------------
(* Decisions of the owner *)

QueueResume(t) ==
    /\ status[t] = "interrupted"
    /\ ActiveOf(t) = {}
    /\ takeReadySequence(t, "resume_queued")
    /\ UNCHANGED <<fallback, workVars, decisionVars, hostVars, configVars>>

\* Only the question of the latest segment, once that segment has exited.
AnswerQuestion(t, s) ==
    /\ question[s].st = "open"
    /\ status[t] = "waiting_question"
    /\ ActiveOf(t) = {}
    /\ IsLatest(s, t)
    /\ question' = [question EXCEPT ![s].st = "resume_queued"]
    /\ takeReadySequence(t, "resume_queued")
    /\ UNCHANGED <<fallback, attempt, seg, nextSeg, decisionVars, hostVars,
                   configVars>>

\* Mutant: neither the task's status nor an earlier decision is looked at.
ReviewAnytime(t, s) == <<s, "result">> \in events /\ IsLatest(s, t)

ReviewAllowed(t, s) ==
    /\ status[t] = "result_ready"
    /\ <<s, "result">> \in events
    /\ review[s] = "none"
    /\ IsLatest(s, t)

\* Mutant: acceptance does not release dependents.
AcceptWithoutRelease(t, s) ==
    /\ ReviewAllowed(t, s)
    /\ review' = [review EXCEPT ![s] = "accept"]
    /\ status' = [status EXCEPT ![t] = "completed"]
    /\ UNCHANGED <<readySeq, nextReady, fallback, workVars, events, retried,
                   hostVars, configVars>>

AcceptResult(t, s) ==
    /\ ReviewAllowed(t, s)
    /\ review' = [review EXCEPT ![s] = "accept"]
    /\ releaseReady([status EXCEPT ![t] = "completed"])
    /\ UNCHANGED <<fallback, workVars, events, retried, hostVars, configVars>>

\* Mutant: the attempt keeps its status.
RejectTaskOnly(t, s) ==
    /\ ReviewAllowed(t, s)
    /\ review' = [review EXCEPT ![s] = "reject"]
    /\ status' = FailedStatus(t)
    /\ UNCHANGED <<readySeq, nextReady, fallback, workVars, events, retried,
                   hostVars, configVars>>

RejectResult(t, s) ==
    /\ ReviewAllowed(t, s)
    /\ review' = [review EXCEPT ![s] = "reject"]
    /\ attempt' = [attempt EXCEPT ![t][seg[s].no] = "failed"]
    /\ status' = FailedStatus(t)
    /\ UNCHANGED <<readySeq, nextReady, fallback, seg, nextSeg, question, events,
                   retried, hostVars, configVars>>

\* Mutant: the failure of any attempt of the task will do.
RetryOfAnyAttempt(t, e) ==
    LET s == e[1]
    IN  /\ status[t] = "failed"
        /\ e \in events \ retried
        /\ s \in SegmentsOf(t)
        /\ e[2] = "result" => review[s] = "reject"
        /\ ActiveOf(t) = {}
        /\ Cardinality(GroupAttempts(GroupOf[t])) < AttemptLimit(t)
        /\ attempt[t][seg[s].no] = "failed"

\* A retry names the failure, or the rejected result, it follows from.
RetryAllowed(t, e) ==
    LET s == e[1]
    IN  /\ status[t] = "failed"
        /\ e \in events \ retried
        /\ s \in SegmentsOf(t)
        /\ e[2] = "result" => review[s] = "reject"
        /\ ActiveOf(t) = {}
        /\ Cardinality(GroupAttempts(GroupOf[t])) < AttemptLimit(t)
        /\ attempt[t][seg[s].no] = "failed"
        /\ IsLatestAttempt(t, seg[s].no)

QueueRetry(t, e, useNextFallback) ==
    /\ RetryAllowed(t, e)
    /\ useNextFallback => fallback[t] + 1 < Len(Keys[t])
    /\ fallback' = [fallback EXCEPT ![t] = IF useNextFallback THEN @ + 1 ELSE @]
    /\ retried' = retried \cup {e}
    /\ takeReadySequence(t, "ready")
    /\ UNCHANGED <<workVars, events, review, hostVars, configVars>>
-----------------------------------------------------------------------------
(* Stopping *)

\* Mutant: a launched task is cancelled like a waiting one.
CancelAnyTask(t) ==
    /\ status[t] \in {"queued", "ready", "resume_queued", "running"}
    /\ status' = blockFailedDependencies([status EXCEPT ![t] = "cancelled"])
    /\ UNCHANGED <<readySeq, nextReady, fallback, workVars, decisionVars, hostVars,
                   configVars>>

\* RequestStop of a task that is not launched cancels it.
CancelTask(t) ==
    /\ status[t] \in {"queued", "ready", "resume_queued"}
    /\ status' = blockFailedDependencies([status EXCEPT ![t] = "cancelled"])
    /\ UNCHANGED <<readySeq, nextReady, fallback, workVars, decisionVars, hostVars,
                   configVars>>

\* RequestStop of a launched task: the first request for its segment decides
\* the outcome.
StopTask(t) ==
    /\ status[t] \notin {"absent", "queued", "ready", "resume_queued"}
    /\ \E s \in ActiveOf(t) :
           /\ \A r \in ActiveOf(t) : r <= s
           /\ seg[s].stop = "none"
           /\ seg' = [seg EXCEPT ![s] = [seg[s] EXCEPT
                  !.st = "stopping", !.outcome = "stopped", !.stop = "pending",
                  !.reason = "request"]]
    /\ status' = [status EXCEPT ![t] = "stopping"]
    /\ UNCHANGED <<readySeq, nextReady, fallback, attempt, nextSeg, question,
                   decisionVars, hostVars, configVars>>

\* Shutdown gives up waiting for hosts to confirm.
MarkStoppingUnknown ==
    LET row(s) == [seg[s] EXCEPT
                     !.st = IF @ = "stopping" THEN "unknown" ELSE @,
                     !.stop = IF @ \in {"pending", "accepted"} THEN "unknown" ELSE @]
        lost == {s \in Segment : seg[s].st \in {"stopping", "unknown"}}
    IN  /\ seg' = [s \in Segment |-> row(s)]
        /\ attempt' = [t \in Task |-> [n \in AttemptNo |->
               IF \E s \in lost : seg[s].task = t /\ seg[s].no = n
               THEN "unknown" ELSE attempt[t][n]]]
        /\ status' = [t \in Task |->
               IF \E s \in lost : seg[s].task = t THEN "unknown" ELSE status[t]]
        /\ <<seg', attempt', status'>> # <<seg, attempt, status>>
        /\ UNCHANGED <<readySeq, nextReady, fallback, nextSeg, question,
                       decisionVars, hostVars, configVars>>
-----------------------------------------------------------------------------
Next ==
    \/ \E l \in Launch : SubmitPlan(l)
    \/ \E l \in Launch, p \in Proc : RegisterHost(l, p)
    \/ \E l \in Launch : AuthorizeHostRebind(l)
    \/ \E l \in Launch : BeginHostReconcile(l)
    \/ \E l \in Launch : FinishHostReconcile(l)
    \/ \E l \in Launch : MarkHostOffline(l)
    \/ \E l \in Launch : RetireHost(l)
    \/ RetirableHosts
    \/ BeginCoordinatorEpoch
    \/ \E l \in Launch, t \in Task : ClaimReady(l, t)
    \/ \E s \in Segment : EventProgress(s)
    \/ \E s \in Segment : EventSession(s)
    \/ \E s \in Segment : EventQuestion(s)
    \/ \E s \in Segment, k \in {"result", "stopped", "failed"} : EventOutcome(s, k)
    \/ \E s \in Segment : EventUnknown(s)
    \/ \E s \in Segment, u \in ActiveReport, m \in BOOLEAN : applyExit(s, u, m)
    \/ \E s \in Segment : RegisterReportCapability(s)
    \/ \E s \in Segment, r \in ReportRev : ReportQuestion(s, r)
    \/ \E s \in Segment : ReportFailure(s)
    \/ \E t \in Task : QueueResume(t)
    \/ \E t \in Task, s \in Segment : AnswerQuestion(t, s)
    \/ \E t \in Task, s \in Segment : AcceptResult(t, s)
    \/ \E t \in Task, s \in Segment : RejectResult(t, s)
    \/ \E t \in Task, e \in events, b \in BOOLEAN : QueueRetry(t, e, b)
    \/ \E t \in Task : CancelTask(t)
    \/ \E t \in Task : StopTask(t)
    \/ MarkStoppingUnknown

Spec == Init /\ [][Next]_vars
-----------------------------------------------------------------------------
(* Properties *)

TypeOK ==
    /\ status \in [Task -> TaskStatus]
    /\ readySeq \in [Task -> Nat]
    /\ nextReady \in Nat
    /\ fallback \in [Task -> Nat]
    /\ attempt \in [Task -> [AttemptNo -> AttemptStatus]]
    /\ seg \in [Segment -> SegmentRow]
    /\ nextSeg \in 1..(MaxSegment + 1)
    /\ question \in [Segment -> QuestionRow]
    /\ events \subseteq Segment \X {"result", "failed", "report_failed"}
    /\ review \in [Segment -> {"none", "accept", "reject"}]
    /\ retried \subseteq events
    /\ launch \in [Launch -> {"none", "reserved", "ready", "reconciling",
                              "offline", "released"}]
    /\ host \in [Launch -> {"none", "ready", "reconciling", "offline",
                            "reconcile_authorized", "released"}]
    /\ proc \in [Launch -> Proc \cup {"none"}]
    /\ conn \in [Launch -> {"none", "hello", "rehello", "replay", "serving", "closed"}]
    /\ epoch \in Nat
    /\ limits \in LimitConfigs
    /\ retiring \subseteq Launch

\* A task is shown as running, stopping or unknown exactly while one of its
\* segments holds a slot, and never two at once: no stop, late event, retry or
\* restart lets a second worker start beside an unconfirmed one.
SlotOwnership ==
    \A t \in Task :
        /\ status[t] \in {"running", "stopping", "unknown"} <=> ActiveOf(t) # {}
        /\ \A r, s \in ActiveOf(t) : r = s

\* A task that was ever attempted, or may be, has only completed dependencies,
\* and stays so: a completed upstream is never reopened.
DependencySafety ==
    \A t \in Task :
        AttemptsOf(t) # {} \/ status[t] \in {"ready", "resume_queued"} =>
            \A d \in Deps[t] : status[d] = "completed"

\* No lost release: a queued task still waits for some dependency.
QueuedWaits ==
    \A t \in Task :
        status[t] = "queued" => \E d \in Deps[t] : status[d] # "completed"

\* Cancellation and blocking reach every dependent, however far downstream.
BlockingPropagates ==
    \A t \in Task : \A d \in Deps[t] :
        status[d] \in {"cancelled", "blocked_dependency"} =>
            status[t] \in {"cancelled", "blocked_dependency"}

\* The tasks of a budget group share their attempts, also across plans:
\* together they never start more than the largest max_attempts among them,
\* and each attempt number is used once in the group.
GroupAttemptCeiling ==
    \A t \in Task :
        /\ \E u \in Task : /\ GroupOf[u] = GroupOf[t]
                           /\ Cardinality(GroupAttempts(GroupOf[t])) <= MaxAttempts[u]
        /\ \A u \in Task : GroupOf[u] = GroupOf[t] /\ u # t =>
               AttemptsOf(t) \cap AttemptsOf(u) = {}

\* What the segments of a budget group have used, and what is reserved for
\* those not settled, stays within the group's budget.
GroupBudgetKept == \A g \in Group : Charged(g) <= GroupBudget

\* An attempt leads to at most one retry, whichever of its events (host
\* failure, reported failure, rejected result) the decisions name.
RetryOncePerAttempt ==
    \A e, f \in retried :
        /\ seg[e[1]].task = seg[f[1]].task
        /\ seg[e[1]].no = seg[f[1]].no
        => e = f

\* A grant sent again after a crash or a reconnection is the grant the claim
\* made: same payload, same answered question.
ResendIdentity ==
    \A s \in Segment : seg[s].st = "launch_requested" =>
        ResentPayload(s) = seg[s].pay /\ ResentQuestion(s, seg[s].ask)

\* An answer is neither lost nor used twice: it waits with its task (or the
\* task was cancelled), then it is with exactly the segment launched for it.
AnswerCarried ==
    \A q \in Segment :
        /\ question[q].st = "resume_queued" =>
               status[seg[q].task] \in {"resume_queued", "cancelled"}
        /\ question[q].st = "resume_started" =>
               \E s \in ActiveOf(seg[q].task) : seg[s].ask = q

\* A task that waits for its owner can be decided: the open question belongs
\* to the latest segment, the result can be reviewed, a failure with attempts
\* left in its group can be retried, an interruption resumed.
OwnerCanDecide ==
    \A t \in Task :
        /\ status[t] = "waiting_question" =>
               \E s \in Segment : IsLatest(s, t) /\ question[s].st = "open"
        /\ status[t] = "result_ready" => \E s \in Segment : ReviewAllowed(t, s)
        /\ /\ status[t] = "failed"
           /\ Cardinality(GroupAttempts(GroupOf[t])) < AttemptLimit(t)
           => \E e \in events : RetryAllowed(t, e)
        /\ status[t] = "interrupted" =>
               \E n \in AttemptNo :
                   IsLatestAttempt(t, n) /\ attempt[t][n] = "interrupted"

\* A launch never exceeds the limits loaded last: neither all segments
\* holding a slot, nor those launched with a payload that uses a resource.
LaunchWithinLimits ==
    [][ \A s \in Segment : seg[s].st = "none" /\ seg'[s].st # "none" =>
          /\ Cardinality(ActiveSegments') <= limits.global
          /\ \A r \in Keys[seg'[s].task][seg'[s].pay + 1] :
                 Cardinality({a \in ActiveSegments' :
                     r \in Keys[seg'[a].task][seg'[a].pay + 1]}) <= CapOf(r) ]_vars

\* Finished work stays finished: completed, cancelled and blocked tasks keep
\* their status, and an exited segment its outcome and its settled budget,
\* whatever arrives late.
FinishedStays ==
    [][ /\ \A t \in Task :
              status[t] \in {"completed", "cancelled", "blocked_dependency"} =>
                  status'[t] = status[t]
        /\ \A s \in Segment : seg[s].st = "exited" =>
              /\ seg'[s].st = "exited"
              /\ seg'[s].outcome = seg[s].outcome
              /\ seg'[s].charge = seg[s].charge ]_vars

\* A task stopped on request ends interrupted, even when its worker's result,
\* failure or question arrives between the request and the exit.
StopRequestWins ==
    [][ \A s \in Segment :
          /\ seg[s].reason = "request"
          /\ seg[s].st # "exited"
          /\ seg'[s].st = "exited"
          => status'[seg[s].task] = "interrupted" ]_vars

=============================================================================
