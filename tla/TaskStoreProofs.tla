--------------------------- MODULE TaskStoreProofs ---------------------------
(***************************************************************************)
(* Proofs about TaskStore, for every plan, limit, budget and bound: first  *)
(* its types and who holds a slot, then, on top of SlotInv, the rest of    *)
(* the ledger of tasks, attempts, segments, questions and decisions:       *)
(* dependencies, the attempts of a budget group, the answers and the       *)
(* payload a grant carries, retries, reviews, stops and the limits and     *)
(* budgets of a launch.                                                    *)
(***************************************************************************)
EXTENDS TaskStore, FiniteSetTheorems, WellFoundedInduction, TLAPS

\* Number of elements of a set of tasks.
LEMMA TaskCardinality ==
    ASSUME NEW R \in SUBSET Task
    PROVE  Cardinality(R) \in Nat
BY FS_Subset, FS_CardinalityType, TaskAssumption

\* Placing tasks in the ready queue keeps the queue's types.
LEMMA SequencedType ==
    ASSUME NEW R \in SUBSET Task, NEW rank \in [Task -> Nat], TypeOK,
           Sequenced(R, rank)
    PROVE  readySeq' \in [Task -> Nat] /\ nextReady' \in Nat
<1>1. Cardinality(R) \in Nat
  BY TaskCardinality
<1>2. \A t \in Task : Cardinality({u \in R : rank[u] < rank[t]}) \in Nat
  BY TaskCardinality
<1> QED
  BY <1>1, <1>2 DEF Sequenced, TypeOK

\* releaseReady keeps the types of what it changes.
LEMMA ReleaseType ==
    ASSUME TypeOK, NEW st \in [Task -> TaskStatus], releaseReady(st)
    PROVE  /\ status' \in [Task -> TaskStatus]
           /\ readySeq' \in [Task -> Nat] /\ nextReady' \in Nat
<1> DEFINE R == {t \in Task : /\ st[t] = "queued"
                              /\ \A d \in Deps[t] : st[d] = "completed"}
       rank == [t \in Task |-> t]
<1>1. Sequenced(R, rank) /\ status' = [t \in Task |-> IF t \in R THEN "ready" ELSE st[t]]
  BY DEF releaseReady
<1>2. rank \in [Task -> Nat]
  BY TaskAssumption
<1> HIDE DEF R, rank
<1>3. status' \in [Task -> TaskStatus]
  BY <1>1 DEF TaskStatus
<1>4. R \in SUBSET Task
  BY DEF R
<1> QED
  BY <1>1, <1>2, <1>3, <1>4, SequencedType

\* A task that fails leaves every task with a status.
LEMMA FailedType ==
    ASSUME TypeOK, NEW t \in Task
    PROVE  FailedStatus(t) \in [Task -> TaskStatus]
<1> DEFINE st == [status EXCEPT ![t] = "failed"]
<1>1. st \in [Task -> TaskStatus]
  BY DEF TypeOK, TaskStatus
<1>2. ASSUME NEW f \in [Task -> TaskStatus]
      PROVE  blockFailedDependencies(f) \in [Task -> TaskStatus]
  BY DEF blockFailedDependencies, TaskStatus
<1> QED
  BY <1>1, <1>2 DEF FailedStatus

\* An unused row of the segment table has the type of a segment.
LEMMA NoSegmentType == NoSegment \in SegmentRow
<1>1. (CHOOSE t \in Task : TRUE) \in Task
  BY TaskAssumption
<1> QED
  BY <1>1 DEF NoSegment, SegmentRow, Outcome, Occupying, AttemptNo

\* Every initial state is well typed.
LEMMA TypeInit == Init => TypeOK
<1> SUFFICES ASSUME Init PROVE TypeOK
  OBVIOUS
<1>1. seg \in [Segment -> SegmentRow]
  BY NoSegmentType DEF Init
<1>2. question \in [Segment -> QuestionRow]
  BY DEF Init, NoQuestion, QuestionRow
<1>3. nextSeg \in 1..(MaxSegment + 1)
  BY BoundAssumption DEF Init
<1>4. attempt \in [Task -> [AttemptNo -> AttemptStatus]]
  BY DEF Init, AttemptStatus
<1>5. status \in [Task -> TaskStatus]
  BY DEF Init, TaskStatus
<1> QED
  BY <1>1, <1>2, <1>3, <1>4, <1>5 DEF Init, TypeOK

\* Host registration and retirement keep the types.
LEMMA TypeHosts ==
    ASSUME TypeOK, NEW l \in Launch,
           \/ \E p \in Proc : RegisterHost(l, p)
           \/ AuthorizeHostRebind(l)
           \/ BeginHostReconcile(l)
           \/ FinishHostReconcile(l)
           \/ MarkHostOffline(l)
           \/ RetireHost(l)
    PROVE  TypeOK'
<1> USE DEF TypeOK, taskVars, workVars, decisionVars, configVars
<1>1. CASE \E p \in Proc : RegisterHost(l, p)
  BY <1>1 DEF RegisterHost
<1>2. CASE AuthorizeHostRebind(l)
  BY <1>2 DEF AuthorizeHostRebind
<1>3. CASE BeginHostReconcile(l)
  BY <1>3 DEF BeginHostReconcile
<1>4. CASE FinishHostReconcile(l)
  BY <1>4 DEF FinishHostReconcile
<1>5. CASE MarkHostOffline(l)
  BY <1>5 DEF MarkHostOffline
<1>6. CASE RetireHost(l)
  BY <1>6 DEF RetireHost
<1> QED
  BY <1>1, <1>2, <1>3, <1>4, <1>5, <1>6

\* Admission, restart and the choice of hosts to retire keep the types.
LEMMA TypeAdmission ==
    ASSUME TypeOK,
           \/ \E l \in Launch : SubmitPlan(l)
           \/ BeginCoordinatorEpoch
           \/ RetirableHosts
    PROVE  TypeOK'
<1> USE DEF taskVars, workVars, decisionVars, configVars
<1>1. ASSUME NEW l \in Launch, SubmitPlan(l)
      PROVE  TypeOK'
  <2> DEFINE free == {t \in {u \in Task : LaunchOf[u] = l} : Deps[t] = {}}
  <2>1. Sequenced(free, PlanOrder)
    BY <1>1 DEF SubmitPlan
  <2>2. readySeq' \in [Task -> Nat] /\ nextReady' \in Nat
    BY <2>1, SequencedType, TaskAssumption
  <2>3. status' \in [Task -> TaskStatus]
    BY <1>1 DEF SubmitPlan, TypeOK, TaskStatus
  <2> QED
    BY <1>1, <2>2, <2>3 DEF SubmitPlan, TypeOK
<1>2. CASE BeginCoordinatorEpoch
  BY <1>2 DEF BeginCoordinatorEpoch, TypeOK
<1>3. CASE RetirableHosts
  BY <1>3 DEF RetirableHosts, TypeOK
<1> QED
  BY <1>1, <1>2, <1>3

\* A claim keeps the types: the attempt number is in range, the grant is
\* positive and the new row is a segment.
LEMMA TypeClaim ==
    ASSUME TypeOK, NEW l \in Launch, NEW t \in Task, ClaimReady(l, t)
    PROVE  TypeOK'
<1>1. PICK n \in AttemptNo, q \in {0} \cup Segment :
        /\ nextSeg <= MaxSegment
        /\ Grant(t) \in 1..MaxActive[t]
        /\ status' = [status EXCEPT ![t] = "running"]
        /\ attempt' = [attempt EXCEPT ![t][n] = "running"]
        /\ seg' = [seg EXCEPT ![nextSeg] = LaunchedSegment(t, n, q)]
        /\ nextSeg' = nextSeg + 1
        /\ question' = [s \in Segment |->
               IF s = q THEN [question[s] EXCEPT !.st = "resume_started"]
               ELSE question[s]]
        /\ UNCHANGED <<readySeq, nextReady, fallback, decisionVars, hostVars,
                       configVars>>
  BY DEF ClaimReady
<1>2. Grant(t) \in Nat
  BY <1>1, BudgetAssumption
<1>3. LaunchedSegment(t, n, q) \in SegmentRow
  BY <1>2 DEF LaunchedSegment, SegmentRow, Occupying, Outcome, TypeOK
<1>4. seg' \in [Segment -> SegmentRow]
  BY <1>1, <1>3 DEF TypeOK
<1>5. question' \in [Segment -> QuestionRow]
  BY <1>1 DEF TypeOK, QuestionRow
<1>6. attempt' \in [Task -> [AttemptNo -> AttemptStatus]]
  BY <1>1 DEF TypeOK, AttemptStatus
<1>7. status' \in [Task -> TaskStatus]
  BY <1>1 DEF TypeOK, TaskStatus
<1>8. nextSeg' \in 1..(MaxSegment + 1)
  BY <1>1, BoundAssumption DEF TypeOK
<1> QED
  BY <1>1, <1>4, <1>5, <1>6, <1>7, <1>8
     DEF TypeOK, decisionVars, hostVars, configVars

\* A row with a new status, outcome, stop or session is still a segment.
LEMMA RowTypes ==
    ASSUME NEW r \in SegmentRow
    PROVE  /\ \A x \in {"none", "exited"} \cup Occupying :
                  [r EXCEPT !.st = x] \in SegmentRow
           /\ \A x \in Outcome : [r EXCEPT !.outcome = x] \in SegmentRow
           /\ [r EXCEPT !.session = TRUE] \in SegmentRow
           /\ \A x \in Nat : [r EXCEPT !.rpt = x] \in SegmentRow
           /\ \A x \in Nat : [r EXCEPT !.cap = x] \in SegmentRow
BY DEF SegmentRow

\* So are the rows that a stop, an outcome and an exit write.
LEMMA StopRowTypes ==
    ASSUME NEW r \in SegmentRow
    PROVE  /\ [r EXCEPT !.outcome = "question", !.session = TRUE, !.rpt = 0,
                   !.st = "stopping", !.stop = "pending",
                   !.reason = "waiting_question"] \in SegmentRow
           /\ [r EXCEPT !.st = "stopping", !.outcome = "stopped",
                   !.stop = "pending", !.reason = "request"] \in SegmentRow
BY DEF SegmentRow, Occupying, Outcome

\* An outcome event, an exit and the end of a shutdown rewrite a row.
LEMMA OutcomeRowTypes ==
    ASSUME NEW r \in SegmentRow, NEW o \in Outcome, NEW c \in Nat,
           NEW x \in {"none", "exited"} \cup Occupying,
           NEW p \in {"none", "pending", "accepted", "completed", "unknown"}
    PROVE  /\ [r EXCEPT !.outcome = o, !.stop = p] \in SegmentRow
           /\ [r EXCEPT !.st = "exited", !.charge = c, !.stop = p] \in SegmentRow
           /\ [r EXCEPT !.st = x, !.stop = p] \in SegmentRow
<1>1. ASSUME NEW w \in SegmentRow
      PROVE  [w EXCEPT !.stop = p] \in SegmentRow
  BY DEF SegmentRow
<1>2. [r EXCEPT !.st = "exited", !.charge = c] \in SegmentRow
  BY DEF SegmentRow
<1>3. [r EXCEPT !.outcome = o] \in SegmentRow /\ [r EXCEPT !.st = x] \in SegmentRow
  BY RowTypes
<1> QED
  BY <1>1, <1>2, <1>3

\* The rows of the segment table that an event touches stay well typed.
LEMMA SegmentTask ==
    ASSUME TypeOK, NEW s \in Segment
    PROVE  seg[s].task \in Task /\ seg[s].no \in AttemptNo
BY DEF TypeOK, SegmentRow

\* A question that stops its segment keeps the types.
LEMMA TypeQuestionStop ==
    ASSUME TypeOK, NEW s \in Segment, ensureQuestionStop(s)
    PROVE  /\ seg' \in [Segment -> SegmentRow]
           /\ status' \in [Task -> TaskStatus]
<1>1. seg[s] \in SegmentRow
  BY DEF TypeOK
<1>2. seg' \in [Segment -> SegmentRow]
  BY <1>1, StopRowTypes DEF TypeOK, ensureQuestionStop
<1>3. status' \in [Task -> TaskStatus]
  BY SegmentTask DEF TypeOK, ensureQuestionStop, TaskStatus
<1> QED
  BY <1>2, <1>3

\* Host events other than exit keep the types.
LEMMA TypeHostEvent ==
    ASSUME TypeOK, NEW s \in Segment,
           \/ EventProgress(s)
           \/ EventSession(s)
           \/ EventQuestion(s)
           \/ \E k \in {"result", "stopped", "failed"} : EventOutcome(s, k)
           \/ EventUnknown(s)
    PROVE  TypeOK'
<1> USE DEF taskVars, decisionVars, hostVars, configVars
<1>1. CASE EventProgress(s)
  <2>1. seg' \in [Segment -> SegmentRow]
    <3>1. PICK x \in Occupying : seg' = [seg EXCEPT ![s].st = x]
      BY <1>1 DEF EventProgress, Occupying
    <3>2. [seg[s] EXCEPT !.st = x] \in SegmentRow
      BY RowTypes DEF TypeOK
    <3> QED
      BY <3>1, <3>2 DEF TypeOK
  <2> QED
    BY <1>1, <2>1 DEF EventProgress, TypeOK
<1>2. CASE EventSession(s)
  <2>1. CASE seg[s].rpt = 0
    <3>1. seg' \in [Segment -> SegmentRow]
      BY <1>2, <2>1, RowTypes DEF EventSession, TypeOK
    <3> QED
      BY <1>2, <2>1, <3>1 DEF EventSession, TypeOK
  <2>2. CASE seg[s].rpt # 0
    <3>1. ensureQuestionStop(s)
      BY <1>2, <2>2 DEF EventSession
    <3>2. seg[s].rpt \in Nat
      BY DEF TypeOK, SegmentRow
    <3>3. question' \in [Segment -> QuestionRow]
      BY <1>2, <2>2, <3>2 DEF EventSession, TypeOK, QuestionRow
    <3> QED
      BY <1>2, <3>1, <3>3, TypeQuestionStop DEF EventSession, TypeOK
  <2> QED
    BY <2>1, <2>2
<1>3. CASE EventQuestion(s)
  <2>1. seg' \in [Segment -> SegmentRow]
    BY <1>3, RowTypes DEF EventQuestion, TypeOK, Outcome
  <2>2. NextRevision(s) \in Nat
    BY DEF NextRevision, TypeOK, SegmentRow, QuestionRow
  <2>3. question' \in [Segment -> QuestionRow]
    BY <1>3, <2>2 DEF EventQuestion, TypeOK, QuestionRow
  <2> QED
    BY <1>3, <2>1, <2>3 DEF EventQuestion, TypeOK
<1>4. ASSUME NEW k \in {"result", "stopped", "failed"}, EventOutcome(s, k)
      PROVE  TypeOK'
  <2>1. OutcomeAfter(s, k) \in Outcome
    BY DEF OutcomeAfter, TypeOK, SegmentRow, Outcome
  <2>2. seg' \in [Segment -> SegmentRow]
    <3> DEFINE p == IF k = "stopped" /\ seg[s].stop # "none"
                    THEN "accepted" ELSE seg[s].stop
    <3>1. seg' = [seg EXCEPT ![s] =
                    [seg[s] EXCEPT !.outcome = OutcomeAfter(s, k), !.stop = p]]
      BY <1>4 DEF EventOutcome
    <3>2. seg[s] \in SegmentRow
      BY DEF TypeOK
    <3>3. p \in {"none", "pending", "accepted", "completed", "unknown"}
      BY <3>2 DEF SegmentRow
    <3> HIDE DEF p
    <3>4. [seg[s] EXCEPT !.outcome = OutcomeAfter(s, k), !.stop = p] \in SegmentRow
      BY <2>1, <3>2, <3>3, OutcomeRowTypes
    <3> QED
      BY <3>1, <3>4 DEF TypeOK
  <2>3. events' \subseteq Segment \X {"result", "failed", "report_failed"}
    BY <1>4 DEF EventOutcome, TypeOK
  <2>4. retried' \subseteq events'
    BY <1>4 DEF EventOutcome, TypeOK
  <2> QED
    BY <1>4, <2>2, <2>3, <2>4 DEF EventOutcome, TypeOK
<1>5. CASE EventUnknown(s)
  <2>1. seg' \in [Segment -> SegmentRow]
    BY <1>5, RowTypes DEF EventUnknown, TypeOK, Occupying
  <2>2. attempt' \in [Task -> [AttemptNo -> AttemptStatus]]
    BY <1>5, SegmentTask DEF EventUnknown, TypeOK, AttemptStatus
  <2>3. status' \in [Task -> TaskStatus]
    BY <1>5, SegmentTask DEF EventUnknown, TypeOK, TaskStatus
  <2> QED
    BY <1>5, <2>1, <2>2, <2>3 DEF EventUnknown, TypeOK
<1> QED
  BY <1>1, <1>2, <1>3, <1>4, <1>5

\* An exit keeps the types: the settled charge is a natural number.
LEMMA TypeExit ==
    ASSUME TypeOK, NEW s \in Segment, NEW u \in ActiveReport, NEW m \in BOOLEAN,
           applyExit(s, u, m)
    PROVE  TypeOK'
<1> DEFINE t == seg[s].task
           after == ExitTaskStatus(s, m)
<1>1. t \in Task /\ seg[s].no \in AttemptNo /\ seg[s].charge \in Nat
  BY DEF TypeOK, SegmentRow
<1>2. Settled(seg[s].charge, u) \in Nat
  BY <1>1, BudgetAssumption DEF Settled
<1>3. seg' \in [Segment -> SegmentRow]
  <2> DEFINE p == IF seg[s].stop = "none" THEN seg[s].stop ELSE "completed"
             c == Settled(seg[s].charge, u)
  <2>1. seg' = [seg EXCEPT ![s] =
                  [seg[s] EXCEPT !.st = "exited", !.charge = c, !.stop = p]]
    BY DEF applyExit
  <2>2. seg[s] \in SegmentRow
    BY DEF TypeOK
  <2>3. p \in {"none", "pending", "accepted", "completed", "unknown"}
    BY <2>2 DEF SegmentRow
  <2> HIDE DEF p, c
  <2>4. c \in Nat
    BY <1>2 DEF c
  <2>5. [seg[s] EXCEPT !.st = "exited", !.charge = c, !.stop = p] \in SegmentRow
    BY <2>2, <2>3, <2>4, OutcomeRowTypes DEF Outcome
  <2> QED
    BY <2>1, <2>5 DEF TypeOK
<1>4. attempt' \in [Task -> [AttemptNo -> AttemptStatus]]
  <2>1. ExitAttemptStatus(s) \in AttemptStatus
    BY DEF ExitAttemptStatus, AttemptStatus
  <2> QED
    BY <1>1, <2>1 DEF applyExit, TypeOK
<1>5. question' \in [Segment -> QuestionRow]
  BY DEF applyExit, QuestionsAfterExit, TypeOK, QuestionRow
<1>6. after \in TaskStatus
  BY DEF ExitTaskStatus, TaskStatus
<1>7. /\ status' \in [Task -> TaskStatus]
      /\ readySeq' \in [Task -> Nat] /\ nextReady' \in Nat
  <2>1. CASE after = "completed"
    <3>1. releaseReady([status EXCEPT ![t] = "completed"])
      BY <2>1 DEF applyExit
    <3>2. [status EXCEPT ![t] = "completed"] \in [Task -> TaskStatus]
      BY <1>1 DEF TypeOK, TaskStatus
    <3> QED
      BY <3>1, <3>2, ReleaseType
  <2>2. CASE after # "completed"
    <3>1. /\ status' = IF after = "failed" THEN FailedStatus(t)
                       ELSE [status EXCEPT ![t] = after]
          /\ UNCHANGED <<readySeq, nextReady>>
      BY <2>2 DEF applyExit
    <3>2. [status EXCEPT ![t] = after] \in [Task -> TaskStatus]
      BY <1>1, <1>6 DEF TypeOK
    <3>3. FailedStatus(t) \in [Task -> TaskStatus]
      BY <1>1, FailedType
    <3> QED
      BY <3>1, <3>2, <3>3 DEF TypeOK
  <2> QED
    BY <2>1, <2>2
<1> QED
  BY <1>3, <1>4, <1>5, <1>7 DEF applyExit, TypeOK, decisionVars, hostVars, configVars

\* Reports keep the types.
LEMMA TypeReport ==
    ASSUME TypeOK, NEW s \in Segment,
           \/ RegisterReportCapability(s)
           \/ \E r \in ReportRev : ReportQuestion(s, r)
           \/ ReportFailure(s)
    PROVE  TypeOK'
<1> USE DEF taskVars, workVars, decisionVars, hostVars, configVars
<1>1. CASE RegisterReportCapability(s)
  <2>1. seg' \in [Segment -> SegmentRow]
    BY <1>1, RowTypes DEF RegisterReportCapability, TypeOK
  <2> QED
    BY <1>1, <2>1 DEF RegisterReportCapability, TypeOK
<1>2. ASSUME NEW r \in ReportRev, ReportQuestion(s, r)
      PROVE  TypeOK'
  <2>1. r \in Nat
    BY BoundAssumption
  <2>2. CASE ~ seg[s].session
    <3>1. seg' = [seg EXCEPT ![s].rpt = r] /\ UNCHANGED <<status, question>>
      BY <1>2, <2>2 DEF ReportQuestion
    <3>2. seg' \in [Segment -> SegmentRow]
      BY <2>1, <3>1, RowTypes DEF TypeOK
    <3> QED
      BY <1>2, <3>1, <3>2 DEF ReportQuestion, TypeOK
  <2>3. CASE seg[s].session
    <3>1. /\ ensureQuestionStop(s)
          /\ question' = [question EXCEPT ![s] = [st |-> "open", rev |-> r]]
      BY <1>2, <2>3 DEF ReportQuestion
    <3>2. question' \in [Segment -> QuestionRow]
      BY <2>1, <3>1 DEF TypeOK, QuestionRow
    <3> QED
      BY <1>2, <3>1, <3>2, TypeQuestionStop DEF ReportQuestion, TypeOK
  <2> QED
    BY <2>2, <2>3
<1>3. CASE ReportFailure(s)
  BY <1>3 DEF ReportFailure, TypeOK
<1> QED
  BY <1>1, <1>2, <1>3

\* A task that takes the next place in the queue keeps the types.
LEMMA TypeReadySequence ==
    ASSUME TypeOK, NEW t \in Task, NEW x \in TaskStatus, takeReadySequence(t, x)
    PROVE  /\ status' \in [Task -> TaskStatus]
           /\ readySeq' \in [Task -> Nat] /\ nextReady' \in Nat
BY DEF takeReadySequence, TypeOK

\* The owner's decisions keep the types.
LEMMA TypeDecision ==
    ASSUME TypeOK, NEW t \in Task,
           \/ QueueResume(t)
           \/ \E s \in Segment : AnswerQuestion(t, s)
           \/ \E s \in Segment : AcceptResult(t, s)
           \/ \E s \in Segment : RejectResult(t, s)
           \/ \E e \in events, b \in BOOLEAN : QueueRetry(t, e, b)
    PROVE  TypeOK'
<1> USE DEF taskVars, workVars, decisionVars, hostVars, configVars
<1>0. "resume_queued" \in TaskStatus /\ "ready" \in TaskStatus
  BY DEF TaskStatus
<1>1. CASE QueueResume(t)
  <2>1. takeReadySequence(t, "resume_queued")
    BY <1>1 DEF QueueResume
  <2> QED
    BY <1>0, <1>1, <2>1, TypeReadySequence DEF QueueResume, TypeOK
<1>2. ASSUME NEW s \in Segment, AnswerQuestion(t, s)
      PROVE  TypeOK'
  <2>1. takeReadySequence(t, "resume_queued")
    BY <1>2 DEF AnswerQuestion
  <2>2. question' \in [Segment -> QuestionRow]
    BY <1>2, ZenonT(60) DEF AnswerQuestion, TypeOK, QuestionRow
  <2> QED
    BY <1>0, <1>2, <2>1, <2>2, TypeReadySequence DEF AnswerQuestion, TypeOK
<1>3. ASSUME NEW s \in Segment, AcceptResult(t, s)
      PROVE  TypeOK'
  <2>1. releaseReady([status EXCEPT ![t] = "completed"])
    BY <1>3 DEF AcceptResult
  <2>2. [status EXCEPT ![t] = "completed"] \in [Task -> TaskStatus]
    BY DEF TypeOK, TaskStatus
  <2>3. /\ status' \in [Task -> TaskStatus]
        /\ readySeq' \in [Task -> Nat] /\ nextReady' \in Nat
    BY <2>1, <2>2, ReleaseType
  <2>4. review' \in [Segment -> {"none", "accept", "reject"}]
    BY <1>3 DEF AcceptResult, TypeOK
  <2> QED
    BY <1>3, <2>3, <2>4 DEF AcceptResult, TypeOK
<1>4. ASSUME NEW s \in Segment, RejectResult(t, s)
      PROVE  TypeOK'
  <2>1. status' \in [Task -> TaskStatus]
    BY <1>4, FailedType DEF RejectResult
  <2>2. review' \in [Segment -> {"none", "accept", "reject"}]
    BY <1>4 DEF RejectResult, TypeOK
  <2>3. attempt' \in [Task -> [AttemptNo -> AttemptStatus]]
    BY <1>4, SegmentTask DEF RejectResult, TypeOK, AttemptStatus
  <2> QED
    BY <1>4, <2>1, <2>2, <2>3 DEF RejectResult, TypeOK
<1>5. ASSUME NEW e \in events, NEW b \in BOOLEAN, QueueRetry(t, e, b)
      PROVE  TypeOK'
  <2>1. takeReadySequence(t, "ready")
    BY <1>5 DEF QueueRetry
  <2>2. fallback' \in [Task -> Nat]
    BY <1>5 DEF QueueRetry, TypeOK
  <2> QED
    BY <1>0, <1>5, <2>1, <2>2, TypeReadySequence DEF QueueRetry, TypeOK
<1> QED
  BY <1>1, <1>2, <1>3, <1>4, <1>5

\* Cancelling, stopping and giving up on a stop keep the types.
LEMMA TypeStop ==
    ASSUME TypeOK,
           \/ \E t \in Task : CancelTask(t) \/ StopTask(t)
           \/ MarkStoppingUnknown
    PROVE  TypeOK'
<1> USE DEF taskVars, workVars, decisionVars, hostVars, configVars
<1>1. ASSUME NEW t \in Task, CancelTask(t)
      PROVE  TypeOK'
  <2>1. status' \in [Task -> TaskStatus]
    BY <1>1 DEF CancelTask, blockFailedDependencies, TypeOK, TaskStatus
  <2> QED
    BY <1>1, <2>1 DEF CancelTask, TypeOK
<1>2. ASSUME NEW t \in Task, StopTask(t)
      PROVE  TypeOK'
  <2>1. PICK s \in Segment : seg' = [seg EXCEPT ![s] = [seg[s] EXCEPT
          !.st = "stopping", !.outcome = "stopped", !.stop = "pending",
          !.reason = "request"]]
    BY <1>2 DEF StopTask, ActiveOf, ActiveSegments
  <2>2. seg' \in [Segment -> SegmentRow]
    BY <2>1, StopRowTypes DEF TypeOK
  <2>3. status' \in [Task -> TaskStatus]
    BY <1>2 DEF StopTask, TypeOK, TaskStatus
  <2> QED
    BY <1>2, <2>2, <2>3 DEF StopTask, TypeOK
<1>3. CASE MarkStoppingUnknown
  <2> DEFINE x(s) == IF seg[s].st = "stopping" THEN "unknown" ELSE seg[s].st
             p(s) == IF seg[s].stop \in {"pending", "accepted"}
                     THEN "unknown" ELSE seg[s].stop
  <2>1. seg' = [s \in Segment |-> [seg[s] EXCEPT !.st = x(s), !.stop = p(s)]]
    BY <1>3 DEF MarkStoppingUnknown
  <2>2. ASSUME NEW s \in Segment
        PROVE  [seg[s] EXCEPT !.st = x(s), !.stop = p(s)] \in SegmentRow
    <3>1. seg[s] \in SegmentRow
      BY DEF TypeOK
    <3>2. x(s) \in {"none", "exited"} \cup Occupying
      BY <3>1 DEF SegmentRow, Occupying
    <3>3. p(s) \in {"none", "pending", "accepted", "completed", "unknown"}
      BY <3>1 DEF SegmentRow
    <3>4. "none" \in Outcome /\ 0 \in Nat
      BY DEF Outcome
    <3> HIDE DEF x, p
    <3> QED
      BY <3>1, <3>2, <3>3, <3>4, OutcomeRowTypes
  <2> HIDE DEF x, p
  <2>3. seg' \in [Segment -> SegmentRow]
    BY <2>1, <2>2
  <2>4. attempt' \in [Task -> [AttemptNo -> AttemptStatus]]
    <3>1. attempt \in [Task -> [AttemptNo -> AttemptStatus]]
      BY DEF TypeOK
    <3>2. \A t \in Task, n \in AttemptNo : attempt[t][n] \in AttemptStatus
      BY <3>1
    <3>3. attempt' = [t \in Task |-> [n \in AttemptNo |->
             IF \E s \in {r \in Segment : seg[r].st \in {"stopping", "unknown"}} :
                    seg[s].task = t /\ seg[s].no = n
             THEN "unknown" ELSE attempt[t][n]]]
      BY <1>3 DEF MarkStoppingUnknown
    <3>4. "unknown" \in AttemptStatus
      BY DEF AttemptStatus
    <3> QED
      BY <3>2, <3>3, <3>4
  <2>5. status' \in [Task -> TaskStatus]
    BY <1>3 DEF MarkStoppingUnknown, TypeOK, TaskStatus
  <2> QED
    BY <1>3, <2>3, <2>4, <2>5 DEF MarkStoppingUnknown, TypeOK
<1> QED
  BY <1>1, <1>2, <1>3

\* Every step keeps the types.
LEMMA TypeStep == TypeOK /\ [Next]_vars => TypeOK'
<1> SUFFICES ASSUME TypeOK, [Next]_vars PROVE TypeOK'
  OBVIOUS
<1>1. CASE UNCHANGED vars
  BY <1>1 DEF TypeOK, vars, taskVars, workVars, decisionVars, hostVars, configVars
<1>2. CASE Next
  BY <1>2, TypeHosts, TypeAdmission, TypeClaim, TypeHostEvent, TypeExit,
     TypeReport, TypeDecision, TypeStop DEF Next
<1> QED
  BY <1>1, <1>2

\* The store's rows keep their types whatever transactions commit: the
\* statuses are those of the schema, grants and revisions stay natural
\* numbers, and decisions only name committed events.
THEOREM TypeCorrect == Spec => []TypeOK
BY TypeInit, TypeStep, PTL DEF Spec
-----------------------------------------------------------------------------
(* Slot ownership *)

\* The statuses a task has while one of its segments holds a slot.
Live == {"running", "stopping", "unknown"}

\* Segments are handed out in order.
AllocationOrder == \A s \in Segment : s >= nextSeg => seg[s].st = "none"

\* Tasks appear with the launch of their plan.
AbsentUntilSubmitted ==
    \A t \in Task : launch[LaunchOf[t]] = "none" => status[t] = "absent"

\* SlotOwnership alone is not inductive: a claim must find its row unused and
\* a submission its tasks unknown.
SlotInv == TypeOK /\ AllocationOrder /\ AbsentUntilSubmitted /\ SlotOwnership

\* Segment s holds a slot after the step exactly if it did before, and it is
\* not created by the step.
RowKept(s) ==
    /\ seg'[s].task = seg[s].task
    /\ seg'[s].st \in Occupying <=> seg[s].st \in Occupying
    /\ seg[s].st = "none" => seg'[s].st = "none"

\* Task t is live after the step exactly if it was before, and it is not
\* submitted by the step.
StatusKept(t) ==
    /\ status'[t] \in Live <=> status[t] \in Live
    /\ launch'[LaunchOf[t]] = "none" =>
           /\ launch[LaunchOf[t]] = "none"
           /\ status[t] = "absent" => status'[t] = "absent"

\* A step that starts and ends no segment keeps the invariant.
LEMMA SlotKept ==
    ASSUME SlotInv, TypeOK', nextSeg' = nextSeg,
           \A s \in Segment : RowKept(s),
           \A t \in Task : StatusKept(t)
    PROVE  SlotInv'
<1>1. \A t \in Task : ActiveOf(t)' = ActiveOf(t)
  BY DEF ActiveOf, ActiveSegments, RowKept
<1>2. SlotOwnership'
  BY <1>1 DEF SlotInv, SlotOwnership, StatusKept, Live
<1>3. AllocationOrder'
  BY DEF SlotInv, AllocationOrder, RowKept
<1>4. AbsentUntilSubmitted'
  BY DEF SlotInv, AbsentUntilSubmitted, StatusKept
<1> QED
  BY <1>2, <1>3, <1>4 DEF SlotInv

\* blockFailedDependencies only moves queued and ready tasks to blocked.
LEMMA BlockMoves ==
    ASSUME NEW f \in [Task -> TaskStatus], NEW t \in Task
    PROVE  \/ blockFailedDependencies(f)[t] = f[t]
           \/ /\ f[t] \in {"queued", "ready"}
              /\ blockFailedDependencies(f)[t] = "blocked_dependency"
BY DEF blockFailedDependencies

\* releaseReady only moves queued tasks whose dependencies are completed.
LEMMA ReleaseMoves ==
    ASSUME NEW f \in [Task -> TaskStatus], releaseReady(f), NEW t \in Task
    PROVE  \/ status'[t] = f[t]
           \/ /\ f[t] = "queued" /\ status'[t] = "ready"
              /\ \A d \in Deps[t] : f[d] = "completed"
BY DEF releaseReady

\* A failure moves the task itself and possibly blocks waiting ones.
LEMMA FailedMoves ==
    ASSUME TypeOK, NEW u \in Task, NEW t \in Task
    PROVE  \/ FailedStatus(u)[t] = status[t] /\ t # u
           \/ FailedStatus(u)[t] = "failed" /\ t = u
           \/ /\ status[t] \in {"queued", "ready"} /\ t # u
              /\ FailedStatus(u)[t] = "blocked_dependency"
<1> DEFINE f == [status EXCEPT ![u] = "failed"]
<1>1. f \in [Task -> TaskStatus]
  BY DEF TypeOK, TaskStatus
<1>2. \/ blockFailedDependencies(f)[t] = f[t]
      \/ /\ f[t] \in {"queued", "ready"}
         /\ blockFailedDependencies(f)[t] = "blocked_dependency"
  BY <1>1, BlockMoves
<1>3. f[t] = IF t = u THEN "failed" ELSE status[t]
  BY DEF TypeOK
<1>4. FailedStatus(u)[t] = f[t] \/ FailedStatus(u)[t] = blockFailedDependencies(f)[t]
  BY DEF FailedStatus
<1> HIDE DEF f
<1> QED
  BY <1>2, <1>3, <1>4

\* A live segment makes its task live.
LEMMA ActiveIsLive ==
    ASSUME SlotInv, NEW s \in Segment, seg[s].st \in Occupying
    PROVE  seg[s].task \in Task /\ status[seg[s].task] \in Live
<1>1. seg[s].task \in Task
  BY SegmentTask DEF SlotInv
<1>2. s \in ActiveOf(seg[s].task)
  BY DEF ActiveOf, ActiveSegments
<1> QED
  BY <1>1, <1>2 DEF SlotInv, SlotOwnership, Live

\* Steps of hosts, admission and restart start and end no segment.
LEMMA SlotHosts ==
    ASSUME SlotInv, TypeOK',
           \/ \E l \in Launch, p \in Proc : RegisterHost(l, p)
           \/ \E l \in Launch : AuthorizeHostRebind(l) \/ BeginHostReconcile(l)
           \/ \E l \in Launch : FinishHostReconcile(l) \/ MarkHostOffline(l)
           \/ \E l \in Launch : RetireHost(l) \/ SubmitPlan(l)
           \/ RetirableHosts
           \/ BeginCoordinatorEpoch
    PROVE  SlotInv'
<1> USE DEF taskVars, workVars
<1>1. ASSUME UNCHANGED <<taskVars, workVars>>,
             \A l \in Launch : launch'[l] = "none" => launch[l] = "none"
      PROVE  SlotInv'
  <2>1. \A s \in Segment : RowKept(s)
    BY <1>1 DEF RowKept
  <2>2. \A t \in Task : StatusKept(t)
    BY <1>1, TaskAssumption DEF StatusKept
  <2> QED
    BY <1>1, <2>1, <2>2, SlotKept
<1>2. ASSUME NEW l \in Launch, NEW x \in {"ready", "reconciling", "released"},
             UNCHANGED <<taskVars, workVars>>, launch' = [launch EXCEPT ![l] = x]
      PROVE  SlotInv'
  BY <1>1, <1>2 DEF SlotInv, TypeOK
<1>3. ASSUME NEW l \in Launch, NEW p \in Proc, RegisterHost(l, p)
      PROVE  SlotInv'
  BY <1>2, <1>3 DEF RegisterHost
<1>4. ASSUME NEW l \in Launch, AuthorizeHostRebind(l)
      PROVE  SlotInv'
  BY <1>1, <1>4 DEF AuthorizeHostRebind
<1>5. ASSUME NEW l \in Launch, BeginHostReconcile(l)
      PROVE  SlotInv'
  BY <1>2, <1>5 DEF BeginHostReconcile
<1>6. ASSUME NEW l \in Launch, FinishHostReconcile(l)
      PROVE  SlotInv'
  BY <1>2, <1>6 DEF FinishHostReconcile
<1>7. ASSUME NEW l \in Launch, MarkHostOffline(l)
      PROVE  SlotInv'
  BY <1>1, <1>7 DEF MarkHostOffline, SlotInv, TypeOK
<1>8. ASSUME NEW l \in Launch, RetireHost(l)
      PROVE  SlotInv'
  BY <1>2, <1>8 DEF RetireHost
<1>9. CASE RetirableHosts
  BY <1>1, <1>9 DEF RetirableHosts
<1>10. CASE BeginCoordinatorEpoch
  BY <1>1, <1>10 DEF BeginCoordinatorEpoch
<1>11. ASSUME NEW l \in Launch, SubmitPlan(l)
       PROVE  SlotInv'
  <2>1. \A s \in Segment : RowKept(s)
    BY <1>11 DEF SubmitPlan, RowKept
  <2>2. ASSUME NEW t \in Task
        PROVE  StatusKept(t)
    <3>1. CASE LaunchOf[t] = l
      BY <1>11, <3>1 DEF SubmitPlan, StatusKept, SlotInv, AbsentUntilSubmitted,
         Live, TypeOK
    <3>2. CASE LaunchOf[t] # l
      BY <1>11, <3>2, TaskAssumption DEF SubmitPlan, StatusKept, SlotInv, TypeOK
    <3> QED
      BY <3>1, <3>2
  <2>3. nextSeg' = nextSeg
    BY <1>11 DEF SubmitPlan
  <2> QED
    BY <2>1, <2>2, <2>3, SlotKept
<1> QED
  BY <1>3, <1>4, <1>5, <1>6, <1>7, <1>8, <1>9, <1>10, <1>11

\* A claim finds its task without a live segment and takes an unused row.
LEMMA SlotClaim ==
    ASSUME SlotInv, TypeOK', NEW l \in Launch, NEW t \in Task, ClaimReady(l, t)
    PROVE  SlotInv'
<1>1. PICK n \in AttemptNo, q \in {0} \cup Segment :
        /\ nextSeg <= MaxSegment
        /\ selectReady(t, l)
        /\ status' = [status EXCEPT ![t] = "running"]
        /\ seg' = [seg EXCEPT ![nextSeg] = LaunchedSegment(t, n, q)]
        /\ nextSeg' = nextSeg + 1
        /\ launch' = launch
  BY DEF ClaimReady, hostVars
<1>2. status[t] \in {"ready", "resume_queued"}
  BY <1>1 DEF selectReady, Candidates
<1>3. ActiveOf(t) = {}
  BY <1>2 DEF SlotInv, SlotOwnership
<1>4. nextSeg \in Segment /\ seg[nextSeg].st = "none"
  BY <1>1, BoundAssumption DEF SlotInv, TypeOK, AllocationOrder, Segment
<1>5. \A s \in Segment : s # nextSeg => seg'[s] = seg[s]
  BY <1>1 DEF SlotInv, TypeOK
<1>6. seg'[nextSeg].st = "launch_requested" /\ seg'[nextSeg].task = t
  BY <1>1, <1>4 DEF SlotInv, TypeOK, LaunchedSegment
<1>7. ActiveOf(t)' = {nextSeg}
  BY <1>3, <1>4, <1>5, <1>6 DEF ActiveOf, ActiveSegments, Occupying
<1>8. \A u \in Task : u # t => ActiveOf(u)' = ActiveOf(u)
  BY <1>4, <1>5, <1>6 DEF ActiveOf, ActiveSegments, Occupying
<1>9. SlotOwnership'
  <2>1. status'[t] = "running" /\ \A u \in Task : u # t => status'[u] = status[u]
    BY <1>1 DEF SlotInv, TypeOK
  <2> QED
    BY <1>7, <1>8, <2>1 DEF SlotInv, SlotOwnership
<1>10. AllocationOrder'
  BY <1>1, <1>4, <1>5 DEF SlotInv, AllocationOrder, TypeOK, Segment
<1>11. AbsentUntilSubmitted'
  BY <1>1, <1>2 DEF SlotInv, AbsentUntilSubmitted, TypeOK
<1> QED
  BY <1>9, <1>10, <1>11 DEF SlotInv

\* A step that rewrites the row of one live segment, keeps it live and leaves
\* its task live keeps the invariant.
LEMMA SlotRewrite ==
    ASSUME SlotInv, TypeOK', NEW s \in Segment, NEW w \in SegmentRow,
           seg[s].st \in Occupying,
           seg' = [seg EXCEPT ![s] = w],
           w.task = seg[s].task, w.st \in Occupying,
           nextSeg' = nextSeg, launch' = launch,
           \/ status' = status
           \/ \E x \in {"stopping", "unknown"} :
                  status' = [status EXCEPT ![seg[s].task] = x]
    PROVE  SlotInv'
<1>1. seg[s].task \in Task /\ status[seg[s].task] \in Live
  BY ActiveIsLive
<1>2. seg[s].st # "none"
  BY DEF Occupying
<1>3. \A r \in Segment : RowKept(r)
  BY <1>2 DEF RowKept, SlotInv, TypeOK
<1>4. \A t \in Task : StatusKept(t)
  BY <1>1 DEF StatusKept, SlotInv, TypeOK, Live
<1> QED
  BY <1>3, <1>4, SlotKept

\* A question that stops its segment starts and ends none.
LEMMA SlotQuestionStop ==
    ASSUME SlotInv, TypeOK', NEW s \in Segment, ensureQuestionStop(s),
           nextSeg' = nextSeg, launch' = launch
    PROVE  SlotInv'
<1> DEFINE w == [seg[s] EXCEPT
              !.outcome = "question", !.session = TRUE, !.rpt = 0,
              !.st = "stopping", !.stop = "pending", !.reason = "waiting_question"]
<1>1. seg[s] \in SegmentRow /\ seg[s].st \in Occupying
  BY DEF ensureQuestionStop, Occupying, SlotInv, TypeOK
<1>2. w \in SegmentRow
  BY <1>1, StopRowTypes
<1>3. w.st = "stopping" /\ w.task = seg[s].task
  BY <1>1 DEF SegmentRow
<1>4. seg' = [seg EXCEPT ![s] = w] /\ status' = [status EXCEPT ![seg[s].task] = "stopping"]
  BY DEF ensureQuestionStop
<1> HIDE DEF w
<1> QED
  BY <1>1, <1>2, <1>3, <1>4, SlotRewrite DEF Occupying

\* Events other than exit, and reports, start and end no segment.
LEMMA SlotEvents ==
    ASSUME SlotInv, TypeOK', NEW s \in Segment,
           \/ EventProgress(s)
           \/ EventSession(s)
           \/ EventQuestion(s)
           \/ \E k \in {"result", "stopped", "failed"} : EventOutcome(s, k)
           \/ EventUnknown(s)
           \/ RegisterReportCapability(s)
           \/ \E v \in ReportRev : ReportQuestion(s, v)
           \/ ReportFailure(s)
    PROVE  SlotInv'
<1> USE DEF taskVars, workVars, hostVars
<1>0. seg[s] \in SegmentRow
  BY DEF SlotInv, TypeOK
<1>1. ASSUME \A r \in Segment : RowKept(r), UNCHANGED <<status, nextSeg, launch>>
      PROVE  SlotInv'
  <2>1. \A t \in Task : StatusKept(t)
    BY <1>1 DEF StatusKept
  <2> QED
    BY <1>1, <2>1, SlotKept
<1>2. ASSUME NEW w, seg' = [seg EXCEPT ![s] = w], w.task = seg[s].task,
             w.st = seg[s].st, UNCHANGED <<status, nextSeg, launch>>
      PROVE  SlotInv'
  <2>1. \A r \in Segment : RowKept(r)
    BY <1>2 DEF RowKept, SlotInv, TypeOK
  <2> QED
    BY <1>1, <1>2, <2>1
<1>3. CASE EventProgress(s)
  <2>1. PICK x \in Occupying : seg' = [seg EXCEPT ![s] = [seg[s] EXCEPT !.st = x]]
    BY <1>3 DEF EventProgress, Occupying
  <2> DEFINE w == [seg[s] EXCEPT !.st = x]
  <2>2. w \in SegmentRow
    BY <1>0, RowTypes
  <2>3. w.task = seg[s].task /\ w.st = x
    BY <1>0 DEF SegmentRow
  <2>4. seg[s].st \in Occupying
    BY <1>3 DEF EventProgress, Occupying
  <2>5. seg' = [seg EXCEPT ![s] = w]
    BY <2>1
  <2> HIDE DEF w
  <2> QED
    BY <1>3, <2>2, <2>3, <2>4, <2>5, SlotRewrite DEF EventProgress
<1>4. CASE EventSession(s)
  <2>1. CASE seg[s].rpt = 0
    <3> DEFINE w == [seg[s] EXCEPT !.session = TRUE]
    <3>1. seg' = [seg EXCEPT ![s] = w] /\ UNCHANGED <<status, nextSeg, launch>>
      BY <1>4, <2>1 DEF EventSession
    <3>2. w.task = seg[s].task /\ w.st = seg[s].st
      BY <1>0 DEF SegmentRow
    <3> QED
      BY <1>2, <3>1, <3>2
  <2>2. CASE seg[s].rpt # 0
    BY <1>4, <2>2, SlotQuestionStop DEF EventSession
  <2> QED
    BY <2>1, <2>2
<1>5. CASE EventQuestion(s)
  <2> DEFINE w == [seg[s] EXCEPT !.outcome = "question"]
  <2>1. seg' = [seg EXCEPT ![s] = w] /\ UNCHANGED <<status, nextSeg, launch>>
    BY <1>5 DEF EventQuestion
  <2>2. w.task = seg[s].task /\ w.st = seg[s].st
    BY <1>0 DEF SegmentRow
  <2> QED
    BY <1>2, <2>1, <2>2
<1>6. ASSUME NEW k \in {"result", "stopped", "failed"}, EventOutcome(s, k)
      PROVE  SlotInv'
  <2> DEFINE w == [seg[s] EXCEPT !.outcome = OutcomeAfter(s, k),
               !.stop = IF k = "stopped" /\ @ # "none" THEN "accepted" ELSE @]
  <2>1. seg' = [seg EXCEPT ![s] = w] /\ UNCHANGED <<status, nextSeg, launch>>
    BY <1>6 DEF EventOutcome
  <2>2. w.task = seg[s].task /\ w.st = seg[s].st
    BY <1>0 DEF SegmentRow
  <2> QED
    BY <1>2, <2>1, <2>2
<1>7. CASE EventUnknown(s)
  <2> DEFINE w == [seg[s] EXCEPT !.st = "unknown"]
  <2>1. w \in SegmentRow
    BY <1>0, RowTypes DEF Occupying
  <2>2. w.task = seg[s].task /\ w.st \in Occupying
    BY <1>0 DEF SegmentRow, Occupying
  <2>3. seg' = [seg EXCEPT ![s] = w] /\ status' = [status EXCEPT ![seg[s].task] = "unknown"]
    BY <1>7 DEF EventUnknown
  <2> HIDE DEF w
  <2> QED
    BY <1>7, <2>1, <2>2, <2>3, SlotRewrite DEF EventUnknown
<1>8. CASE RegisterReportCapability(s)
  <2> DEFINE w == [seg[s] EXCEPT !.cap = epoch]
  <2>1. seg' = [seg EXCEPT ![s] = w] /\ UNCHANGED <<status, nextSeg, launch>>
    BY <1>8 DEF RegisterReportCapability
  <2>2. w.task = seg[s].task /\ w.st = seg[s].st
    BY <1>0 DEF SegmentRow
  <2> QED
    BY <1>2, <2>1, <2>2
<1>9. ASSUME NEW v \in ReportRev, ReportQuestion(s, v)
      PROVE  SlotInv'
  <2>1. CASE ~ seg[s].session
    <3> DEFINE w == [seg[s] EXCEPT !.rpt = v]
    <3>1. seg' = [seg EXCEPT ![s] = w] /\ UNCHANGED <<status, nextSeg, launch>>
      BY <1>9, <2>1 DEF ReportQuestion
    <3>2. w.task = seg[s].task /\ w.st = seg[s].st
      BY <1>0 DEF SegmentRow
    <3> QED
      BY <1>2, <3>1, <3>2
  <2>2. CASE seg[s].session
    BY <1>9, <2>2, SlotQuestionStop DEF ReportQuestion
  <2> QED
    BY <2>1, <2>2
<1>10. CASE ReportFailure(s)
  <2>1. \A r \in Segment : RowKept(r)
    BY <1>10 DEF ReportFailure, RowKept
  <2> QED
    BY <1>1, <1>10, <2>1 DEF ReportFailure
<1> QED
  BY <1>3, <1>4, <1>5, <1>6, <1>7, <1>8, <1>9, <1>10

\* What an exit does to the statuses: its task leaves the live ones, tasks
\* that wait may become ready or blocked.
LEMMA ExitMoves ==
    ASSUME SlotInv, NEW s \in Segment, NEW u \in ActiveReport, NEW m \in BOOLEAN,
           applyExit(s, u, m), NEW t \in Task
    PROVE  \/ t = seg[s].task /\ status'[t] = ExitTaskStatus(s, m)
           \/ t # seg[s].task /\ status'[t] = status[t]
           \/ /\ t # seg[s].task /\ status[t] \in {"queued", "ready"}
              /\ status'[t] \in {"ready", "blocked_dependency"}
<1> DEFINE a == seg[s].task
           after == ExitTaskStatus(s, m)
           f == [status EXCEPT ![a] = "completed"]
<1>1. a \in Task /\ TypeOK
  BY SegmentTask DEF SlotInv
<1>2. CASE after = "completed"
  <2>1. releaseReady(f)
    BY <1>2 DEF applyExit
  <2>2. f \in [Task -> TaskStatus] /\ f[t] = IF t = a THEN "completed" ELSE status[t]
    BY <1>1 DEF TypeOK, TaskStatus
  <2>3. \/ status'[t] = f[t]
        \/ f[t] = "queued" /\ status'[t] = "ready"
    BY <2>1, <2>2, ReleaseMoves
  <2> HIDE DEF f, after
  <2> QED
    BY <1>2, <2>2, <2>3 DEF after
<1>3. CASE after # "completed"
  <2>1. status' = IF after = "failed" THEN FailedStatus(a) ELSE [status EXCEPT ![a] = after]
    BY <1>3 DEF applyExit
  <2>2. CASE after = "failed"
    <3>1. status' = FailedStatus(a)
      BY <2>1, <2>2
    <3> QED
      BY <1>1, <2>2, <3>1, FailedMoves
  <2>3. CASE after # "failed"
    BY <1>1, <2>1, <2>3 DEF TypeOK
  <2> QED
    BY <2>2, <2>3
<1> QED
  BY <1>2, <1>3

\* An exit frees the slot and its task is live no longer.
LEMMA SlotExit ==
    ASSUME SlotInv, TypeOK', NEW s \in Segment, NEW u \in ActiveReport,
           NEW m \in BOOLEAN, applyExit(s, u, m)
    PROVE  SlotInv'
<1>0. PICK a \in Task : a = seg[s].task
  BY SegmentTask DEF SlotInv
<1>1. /\ seg[s] \in SegmentRow /\ seg[s].st \in Occupying
      /\ a \in Task /\ status[a] \in Live
  BY <1>0, ActiveIsLive DEF applyExit, SlotInv, TypeOK
<1>2. nextSeg' = nextSeg /\ launch' = launch
  BY DEF applyExit, hostVars
<1>3. /\ seg'[s].st = "exited" /\ seg'[s].task = a
      /\ \A r \in Segment : r # s => seg'[r] = seg[r]
  <2> DEFINE w == [seg[s] EXCEPT
               !.st = "exited",
               !.charge = Settled(@, u),
               !.stop = IF @ = "none" THEN @ ELSE "completed"]
  <2>1. seg' = [seg EXCEPT ![s] = w]
    BY DEF applyExit
  <2>2. w.st = "exited" /\ w.task = a
    BY <1>0, <1>1 DEF SegmentRow
  <2> HIDE DEF w
  <2> QED
    BY <2>1, <2>2 DEF SlotInv, TypeOK
<1>4. \A r \in ActiveOf(a) : r = s
  <2>1. s \in ActiveOf(a)
    BY <1>0, <1>1 DEF ActiveOf, ActiveSegments
  <2> QED
    BY <1>1, <2>1 DEF SlotInv, SlotOwnership
<1>5. ActiveOf(a)' = {}
  BY <1>3, <1>4 DEF ActiveOf, ActiveSegments, Occupying
<1>6. \A t \in Task : t # a => ActiveOf(t)' = ActiveOf(t)
  BY <1>0, <1>3 DEF ActiveOf, ActiveSegments
<1>7. ExitTaskStatus(s, m) \notin Live
  BY DEF ExitTaskStatus, Live
<1>8. \A t \in Task : \/ t = a /\ status'[t] = ExitTaskStatus(s, m)
                      \/ t # a /\ status'[t] = status[t]
                      \/ /\ t # a /\ status[t] \in {"queued", "ready"}
                         /\ status'[t] \in {"ready", "blocked_dependency"}
  BY <1>0, ExitMoves
<1>9. SlotOwnership'
  <2>1. \A t \in Task : t # a => (status'[t] \in Live <=> status[t] \in Live)
    BY <1>8 DEF Live
  <2>2. status'[a] \notin Live
    BY <1>1, <1>7, <1>8
  <2>3. ASSUME NEW t \in Task
        PROVE  /\ status'[t] \in Live <=> ActiveOf(t)' # {}
               /\ \A r, q \in ActiveOf(t)' : r = q
    <3>1. CASE t = a
      BY <1>5, <2>2, <3>1
    <3>2. CASE t # a
      BY <1>6, <2>1, <3>2 DEF SlotInv, SlotOwnership, Live
    <3> QED
      BY <3>1, <3>2
  <2> QED
    BY <2>3 DEF SlotOwnership, Live
<1>10. AllocationOrder'
  BY <1>1, <1>2, <1>3 DEF SlotInv, AllocationOrder, Occupying
<1>11. AbsentUntilSubmitted'
  BY <1>1, <1>2, <1>8 DEF SlotInv, AbsentUntilSubmitted, Live
<1> QED
  BY <1>9, <1>10, <1>11 DEF SlotInv

\* Decisions and cancellations touch no segment and no live task.
LEMMA SlotDecision ==
    ASSUME SlotInv, TypeOK', NEW t \in Task,
           \/ QueueResume(t)
           \/ \E s \in Segment : AnswerQuestion(t, s)
           \/ \E s \in Segment : AcceptResult(t, s)
           \/ \E s \in Segment : RejectResult(t, s)
           \/ \E e \in events, b \in BOOLEAN : QueueRetry(t, e, b)
           \/ CancelTask(t)
    PROVE  SlotInv'
<1> USE DEF taskVars, workVars, hostVars
<1>0. TypeOK
  BY DEF SlotInv
<1>1. UNCHANGED <<seg, nextSeg, launch>>
  BY DEF QueueResume, AnswerQuestion, AcceptResult, RejectResult, QueueRetry, CancelTask
<1>2. ASSUME status[t] \notin Live \cup {"absent"},
             status'[t] \notin Live,
             \A v \in Task : v # t =>
                 \/ status'[v] = status[v]
                 \/ /\ status[v] \in {"queued", "ready"}
                    /\ status'[v] \in {"ready", "blocked_dependency"}
      PROVE  SlotInv'
  <2>1. \A r \in Segment : RowKept(r)
    BY <1>1 DEF RowKept
  <2>2. \A v \in Task : StatusKept(v)
    BY <1>1, <1>2 DEF StatusKept, Live
  <2> QED
    BY <1>1, <2>1, <2>2, SlotKept
<1>3. ASSUME NEW x \in {"ready", "resume_queued"}, takeReadySequence(t, x),
             status[t] \notin Live \cup {"absent"}
      PROVE  SlotInv'
  <2>1. status'[t] = x /\ \A v \in Task : v # t => status'[v] = status[v]
    BY <1>0, <1>3 DEF takeReadySequence, TypeOK
  <2> QED
    BY <1>2, <1>3, <2>1 DEF Live
<1>4. CASE QueueResume(t)
  BY <1>3, <1>4 DEF QueueResume, Live
<1>5. ASSUME NEW s \in Segment, AnswerQuestion(t, s)
      PROVE  SlotInv'
  BY <1>3, <1>5 DEF AnswerQuestion, Live
<1>6. ASSUME NEW e \in events, NEW b \in BOOLEAN, QueueRetry(t, e, b)
      PROVE  SlotInv'
  BY <1>3, <1>6 DEF QueueRetry, RetryAllowed, Live
<1>7. ASSUME NEW s \in Segment, AcceptResult(t, s)
      PROVE  SlotInv'
  <2> DEFINE f == [status EXCEPT ![t] = "completed"]
  <2>1. releaseReady(f) /\ status[t] = "result_ready"
    BY <1>7 DEF AcceptResult, ReviewAllowed
  <2>2. f \in [Task -> TaskStatus]
    BY <1>0 DEF TypeOK, TaskStatus
  <2>3. \A v \in Task : f[v] = IF v = t THEN "completed" ELSE status[v]
    BY <1>0 DEF TypeOK
  <2> HIDE DEF f
  <2>4. \A v \in Task : \/ status'[v] = f[v]
                        \/ f[v] = "queued" /\ status'[v] = "ready"
    BY <2>1, <2>2, ReleaseMoves
  <2> QED
    BY <1>2, <2>1, <2>3, <2>4 DEF Live
<1>8. ASSUME NEW s \in Segment, RejectResult(t, s)
      PROVE  SlotInv'
  <2>1. status' = FailedStatus(t) /\ status[t] = "result_ready"
    BY <1>8 DEF RejectResult, ReviewAllowed
  <2>2. \A v \in Task :
            \/ status'[v] = status[v] /\ v # t
            \/ status'[v] = "failed" /\ v = t
            \/ /\ status[v] \in {"queued", "ready"} /\ v # t
               /\ status'[v] = "blocked_dependency"
    BY <1>0, <2>1, FailedMoves
  <2> QED
    BY <1>2, <2>1, <2>2 DEF Live
<1>9. CASE CancelTask(t)
  <2> DEFINE f == [status EXCEPT ![t] = "cancelled"]
  <2>1. /\ status' = blockFailedDependencies(f)
        /\ status[t] \in {"queued", "ready", "resume_queued"}
    BY <1>9 DEF CancelTask
  <2>2. f \in [Task -> TaskStatus]
    BY <1>0 DEF TypeOK, TaskStatus
  <2>3. \A v \in Task : f[v] = IF v = t THEN "cancelled" ELSE status[v]
    BY <1>0 DEF TypeOK
  <2> HIDE DEF f
  <2>4. \A v \in Task : \/ status'[v] = f[v]
                        \/ /\ f[v] \in {"queued", "ready"}
                           /\ status'[v] = "blocked_dependency"
    BY <2>1, <2>2, BlockMoves
  <2> QED
    BY <1>2, <2>1, <2>3, <2>4 DEF Live
<1> QED
  BY <1>4, <1>5, <1>6, <1>7, <1>8, <1>9

\* A stop keeps the slot until the host confirms, also when shutdown gives up.
LEMMA SlotStop ==
    ASSUME SlotInv, TypeOK', (\E t \in Task : StopTask(t)) \/ MarkStoppingUnknown
    PROVE  SlotInv'
<1> USE DEF hostVars
<1>1. ASSUME NEW t \in Task, StopTask(t)
      PROVE  SlotInv'
  <2>1. PICK s \in ActiveOf(t) : seg' = [seg EXCEPT ![s] = [seg[s] EXCEPT
          !.st = "stopping", !.outcome = "stopped", !.stop = "pending",
          !.reason = "request"]]
    BY <1>1 DEF StopTask
  <2>2. s \in Segment /\ seg[s].task = t /\ seg[s].st \in Occupying
    BY DEF ActiveOf, ActiveSegments
  <2> DEFINE w == [seg[s] EXCEPT
          !.st = "stopping", !.outcome = "stopped", !.stop = "pending",
          !.reason = "request"]
  <2>3. seg[s] \in SegmentRow
    BY <2>2 DEF SlotInv, TypeOK
  <2>4. w \in SegmentRow
    BY <2>3, StopRowTypes
  <2>5. w.task = seg[s].task /\ w.st \in Occupying
    BY <2>3 DEF SegmentRow, Occupying
  <2>6. /\ seg' = [seg EXCEPT ![s] = w]
        /\ status' = [status EXCEPT ![seg[s].task] = "stopping"]
        /\ nextSeg' = nextSeg /\ launch' = launch
    BY <1>1, <2>1, <2>2 DEF StopTask
  <2> HIDE DEF w
  <2> QED
    BY <2>2, <2>4, <2>5, <2>6, SlotRewrite
<1>2. CASE MarkStoppingUnknown
  <2>1. nextSeg' = nextSeg /\ launch' = launch
    BY <1>2 DEF MarkStoppingUnknown
  <2>2. ASSUME NEW r \in Segment
        PROVE  RowKept(r)
    <3> DEFINE w == [seg[r] EXCEPT
                     !.st = IF @ = "stopping" THEN "unknown" ELSE @,
                     !.stop = IF @ \in {"pending", "accepted"} THEN "unknown" ELSE @]
    <3>1. seg'[r] = w
      BY <1>2 DEF MarkStoppingUnknown
    <3>2. seg[r] \in SegmentRow
      BY DEF SlotInv, TypeOK
    <3>3. /\ w.task = seg[r].task
          /\ w.st = IF seg[r].st = "stopping" THEN "unknown" ELSE seg[r].st
      BY <3>2 DEF SegmentRow
    <3> HIDE DEF w
    <3> QED
      BY <3>1, <3>3 DEF RowKept, Occupying
  <2>3. ASSUME NEW t \in Task
        PROVE  StatusKept(t)
    <3>1. CASE \E s \in Segment : seg[s].st \in {"stopping", "unknown"} /\ seg[s].task = t
      <4>1. status'[t] = "unknown"
        BY <1>2, <3>1 DEF MarkStoppingUnknown
      <4>2. status[t] \in Live
        BY <3>1, ActiveIsLive DEF Occupying
      <4> QED
        BY <2>1, <4>1, <4>2 DEF StatusKept, Live
    <3>2. CASE ~ \E s \in Segment : seg[s].st \in {"stopping", "unknown"} /\ seg[s].task = t
      <4>1. status'[t] = status[t]
        BY <1>2, <3>2 DEF MarkStoppingUnknown
      <4> QED
        BY <2>1, <4>1 DEF StatusKept
    <3> QED
      BY <3>1, <3>2
  <2> QED
    BY <2>1, <2>2, <2>3, SlotKept
<1> QED
  BY <1>1, <1>2

\* No unused row holds a slot, and no task exists.
LEMMA SlotInit == Init => SlotInv
<1> SUFFICES ASSUME Init PROVE SlotInv
  OBVIOUS
<1>1. \A s \in Segment : seg[s].st = "none"
  BY DEF Init, NoSegment
<1>2. \A t \in Task : ActiveOf(t) = {}
  BY <1>1 DEF ActiveOf, ActiveSegments, Occupying
<1>3. \A t \in Task : status[t] = "absent"
  BY DEF Init
<1> QED
  BY <1>1, <1>2, <1>3, TypeInit
     DEF SlotInv, AllocationOrder, AbsentUntilSubmitted, SlotOwnership

\* The strengthened invariant is inductive.
LEMMA SlotStep == SlotInv /\ [Next]_vars => SlotInv'
<1> SUFFICES ASSUME SlotInv, [Next]_vars PROVE SlotInv'
  OBVIOUS
<1>1. TypeOK'
  BY TypeStep DEF SlotInv
<1>2. CASE UNCHANGED vars
  <2>1. UNCHANGED <<status, seg, nextSeg, launch>>
    BY <1>2 DEF vars, taskVars, workVars, hostVars
  <2>2. \A r \in Segment : RowKept(r)
    BY <2>1 DEF RowKept
  <2>3. \A t \in Task : StatusKept(t)
    BY <2>1 DEF StatusKept
  <2> QED
    BY <1>1, <2>1, <2>2, <2>3, SlotKept
<1>3. CASE Next
  BY <1>1, <1>3, SlotHosts, SlotClaim, SlotEvents, SlotExit, SlotDecision, SlotStop
     DEF Next
<1> QED
  BY <1>2, <1>3

\* For every plan and every interleaving of requests, events, stops and
\* restarts: a task is live exactly while a segment of it holds a slot, and
\* no two segments of a task hold slots at once.
THEOREM SlotsOwned == Spec => []SlotOwnership
<1>1. SlotInv => SlotOwnership
  BY DEF SlotInv
<1> QED
  BY SlotInit, SlotStep, <1>1, PTL DEF Spec

-----------------------------------------------------------------------------
(* The inductive invariant of the ledger *)

Used(s) == seg[s].st # "none"
Active(s) == seg[s].st \in Occupying

\* Rows and attempts belong together, and numbers grow in creation order.
RowHasAttempt ==
    \A s \in Segment : Used(s) => attempt[seg[s].task][seg[s].no] # "none"

AttemptHasRow ==
    \A t \in Task, n \in AttemptNo : attempt[t][n] # "none" =>
        \E s \in Segment : Used(s) /\ seg[s].task = t /\ seg[s].no = n

NumbersGrow ==
    \A r, s \in Segment :
        Used(r) /\ Used(s) /\ seg[r].task = seg[s].task /\ r < s =>
            seg[r].no <= seg[s].no

\* A segment that holds a slot is the newest of its task.
ActiveIsNewest ==
    \A r, s \in Segment :
        Active(s) /\ Used(r) /\ seg[r].task = seg[s].task => r <= s

\* A requested stop has decided the outcome.
RequestDecides ==
    \A s \in Segment : seg[s].reason = "request" => seg[s].outcome = "stopped"

\* The payload of a task is not changed under an active segment.
PayloadHeld ==
    /\ \A s \in Segment : Active(s) => seg[s].pay = fallback[seg[s].task]
    /\ \A t \in Task : fallback[t] < Len(Keys[t])

\* What a question, a review or a retry is based on is there.
QuestionHasOutcome ==
    \A s \in Segment : question[s].st # "none" => Used(s) /\ seg[s].outcome # "none"

OutcomeRecorded ==
    \A s \in Segment :
        seg[s].outcome \in {"result", "failed"} => <<s, seg[s].outcome>> \in events

EventHasRow == \A e \in events : Used(e[1])

ReviewHasExit == \A s \in Segment : review[s] # "none" => seg[s].st = "exited"

RowInv ==
    /\ RowHasAttempt /\ AttemptHasRow /\ NumbersGrow /\ ActiveIsNewest
    /\ RequestDecides /\ PayloadHeld /\ QuestionHasOutcome /\ OutcomeRecorded
    /\ EventHasRow /\ ReviewHasExit

\* No attempt is numbered beyond the count of its group's attempts.
NumbersCounted ==
    \A t \in Task : \A n \in AttemptsOf(t) :
        n <= Cardinality(GroupAttempts(GroupOf[t]))

\* A task beyond waiting has been attempted; the tasks of a plan appear
\* together.
Started ==
    \A t \in Task :
        status[t] \notin {"absent", "queued", "ready", "cancelled",
                          "blocked_dependency"} => AttemptsOf(t) # {}

PresentOnceSubmitted ==
    \A t \in Task : launch[LaunchOf[t]] # "none" => status[t] # "absent"

\* Only the host of a submitted plan connects, and only such a host retires.
SubmittedFirst ==
    \A l \in Launch :
        conn[l] # "none" \/ host[l] # "none" \/ l \in retiring => launch[l] # "none"

DependInv ==
    /\ Started /\ PresentOnceSubmitted /\ SubmittedFirst
    /\ DependencySafety /\ QueuedWaits /\ BlockingPropagates

\* The question an active segment was launched for; the one it asks.
AskedIsStarted ==
    \A s \in Segment : Active(s) /\ seg[s].ask # 0 =>
        /\ question[seg[s].ask].st = "resume_started"
        /\ seg[seg[s].ask].task = seg[s].task
        /\ seg[seg[s].ask].no = seg[s].no

QuestionIsOpen ==
    \A s \in Segment : Active(s) /\ seg[s].outcome = "question" =>
        question[s].st = "open"

\* An answer waits alone, with the latest attempt.
OneAnswerWaits ==
    \A q, r \in Segment :
        /\ question[q].st = "resume_queued" /\ question[r].st = "resume_queued"
        /\ seg[q].task = seg[r].task
        => q = r

AnswerOfLatest ==
    \A q \in Segment :
        question[q].st = "resume_queued" /\ status[seg[q].task] = "resume_queued" =>
            IsLatestAttempt(seg[q].task, seg[q].no)

AnswerInv ==
    AskedIsStarted /\ QuestionIsOpen /\ OneAnswerWaits /\ AnswerOfLatest /\ AnswerCarried

\* A retried attempt is past, or its task waits for the next one, or has
\* ended before it.
RetriedIsPast ==
    \A e \in retried :
        \/ ~ IsLatestAttempt(seg[e[1]].task, seg[e[1]].no)
        \/ status[seg[e[1]].task] \in {"ready", "cancelled", "blocked_dependency"}

\* What the owner of a task that waits for a decision can base it on.
Decidable(t) ==
    /\ status[t] = "waiting_question" =>
           \E s \in Segment : IsLatest(s, t) /\ question[s].st = "open"
    /\ status[t] = "result_ready" =>
           \E s \in Segment : /\ IsLatest(s, t) /\ <<s, "result">> \in events
                              /\ review[s] = "none"
    /\ status[t] = "failed" =>
           \E e \in events \ retried :
               /\ e[1] \in SegmentsOf(t)
               /\ e[2] = "result" => review[e[1]] = "reject"
               /\ attempt[t][seg[e[1]].no] = "failed"
               /\ IsLatestAttempt(t, seg[e[1]].no)
    /\ status[t] = "interrupted" =>
           \E n \in AttemptNo : IsLatestAttempt(t, n) /\ attempt[t][n] = "interrupted"

DecisionInv ==
    /\ RetriedIsPast /\ RetryOncePerAttempt
    /\ \A t \in Task : Decidable(t)

LedgerInv ==
    /\ SlotInv
    /\ RowInv
    /\ NumbersCounted /\ GroupAttemptCeiling
    /\ DependInv
    /\ AnswerInv
    /\ DecisionInv
-----------------------------------------------------------------------------
(* Steps that claim nothing, end nothing and decide nothing *)

\* An outcome is decided once, unless a requested stop overrides it.
OutcomeMoves(s) ==
    \/ seg'[s].outcome = seg[s].outcome /\ seg'[s].reason = seg[s].reason
    \/ /\ Active(s) /\ seg[s].outcome = "none"
       /\ seg'[s].outcome # "none"
       /\ seg'[s].reason \in {seg[s].reason, "waiting_question"}
       /\ seg'[s].outcome \in {"result", "failed"} => <<s, seg'[s].outcome>> \in events'
       /\ seg'[s].outcome = "question" => question'[s].st = "open"
    \/ Active(s) /\ seg'[s].outcome = "stopped" /\ seg'[s].reason = "request"

\* What identifies a row, and the grant it was launched with.
RowStands(s) ==
    /\ seg'[s].task = seg[s].task /\ seg'[s].no = seg[s].no
    /\ seg'[s].ask = seg[s].ask /\ seg'[s].pay = seg[s].pay
    /\ seg'[s].st = "none" <=> seg[s].st = "none"

QuestionStirs(s) ==
    \/ question'[s] = question[s]
    \/ /\ Active(s) /\ seg[s].outcome = "none"
       /\ seg'[s].outcome = "question" /\ question'[s].st = "open"

RowStirs(s) ==
    /\ RowStands(s)
    /\ seg'[s].st \in Occupying <=> seg[s].st \in Occupying
    /\ seg'[s].st = "exited" <=> seg[s].st = "exited"
    /\ seg'[s].charge = seg[s].charge
    /\ OutcomeMoves(s)
    /\ QuestionStirs(s)

TaskStirs(t) ==
    \/ status'[t] = status[t]
    \/ status[t] \in Live /\ status'[t] \in Live

AttemptStirs(t, n) ==
    \/ attempt'[t][n] = attempt[t][n]
    \/ attempt[t][n] # "none" /\ attempt'[t][n] = "unknown" /\ status[t] \in Live

\* A step of a host, a report, a stop or a restart.
Stirs ==
    /\ \A s \in Segment : RowStirs(s)
    /\ \A t \in Task : TaskStirs(t)
    /\ \A t \in Task, n \in AttemptNo : AttemptStirs(t, n)
    /\ \A l \in Launch : launch'[l] = "none" <=> launch[l] = "none"
    /\ events \subseteq events'
    /\ \A e \in events' : e \in events \/ Used(e[1])
    /\ UNCHANGED <<nextSeg, fallback, review, retried>>

\* A row that is not touched stirs in no way.
LEMMA RowRests ==
    ASSUME NEW s, seg'[s] = seg[s], question'[s] = question[s]
    PROVE  RowStirs(s)
BY DEF RowStirs, RowStands, OutcomeMoves, QuestionStirs

\* A step that rewrites one row leaves the others at rest.
LEMMA OneRowStirs ==
    ASSUME TypeOK, NEW s \in Segment, NEW w, seg' = [seg EXCEPT ![s] = w],
           \A r \in Segment : r # s => question'[r] = question[r],
           RowStirs(s)
    PROVE  \A r \in Segment : RowStirs(r)
<1> SUFFICES ASSUME NEW r \in Segment, r # s PROVE RowStirs(r)
  OBVIOUS
<1>1. seg'[r] = seg[r]
  BY DEF TypeOK
<1> QED
  BY <1>1, RowRests

\* Steps of hosts and restarts leave rows, tasks and decisions alone.
LEMMA HostsStir ==
    ASSUME TypeOK, SubmittedFirst,
           \/ \E l \in Launch, p \in Proc : RegisterHost(l, p)
           \/ \E l \in Launch : AuthorizeHostRebind(l) \/ BeginHostReconcile(l)
           \/ \E l \in Launch : FinishHostReconcile(l) \/ MarkHostOffline(l)
           \/ \E l \in Launch : RetireHost(l)
           \/ RetirableHosts
           \/ BeginCoordinatorEpoch
           \/ UNCHANGED vars
    PROVE  Stirs
<1> USE DEF taskVars, workVars, decisionVars
<1>1. ASSUME UNCHANGED <<taskVars, workVars, decisionVars>>,
             \A l \in Launch : launch'[l] = "none" <=> launch[l] = "none"
      PROVE  Stirs
  <2>1. \A s \in Segment : RowStirs(s)
    BY <1>1, RowRests
  <2> QED
    BY <1>1, <2>1 DEF Stirs, TaskStirs, AttemptStirs
<1>2. ASSUME NEW l \in Launch, launch[l] # "none",
             NEW x \in {"ready", "reconciling", "released"},
             UNCHANGED <<taskVars, workVars, decisionVars>>,
             launch' = [launch EXCEPT ![l] = x]
      PROVE  Stirs
  BY <1>1, <1>2 DEF TypeOK
<1>3. ASSUME NEW l \in Launch, NEW p \in Proc, RegisterHost(l, p)
      PROVE  Stirs
  BY <1>2, <1>3 DEF RegisterHost
<1>4. ASSUME NEW l \in Launch, AuthorizeHostRebind(l)
      PROVE  Stirs
  BY <1>1, <1>4 DEF AuthorizeHostRebind
<1>5. ASSUME NEW l \in Launch, BeginHostReconcile(l)
      PROVE  Stirs
  BY <1>2, <1>5 DEF BeginHostReconcile, SubmittedFirst
<1>6. ASSUME NEW l \in Launch, FinishHostReconcile(l)
      PROVE  Stirs
  BY <1>2, <1>6 DEF FinishHostReconcile, SubmittedFirst
<1>7. ASSUME NEW l \in Launch, MarkHostOffline(l)
      PROVE  Stirs
  BY <1>1, <1>7 DEF MarkHostOffline, SubmittedFirst, TypeOK
<1>8. ASSUME NEW l \in Launch, RetireHost(l)
      PROVE  Stirs
  BY <1>2, <1>8 DEF RetireHost, SubmittedFirst
<1>9. CASE RetirableHosts
  BY <1>1, <1>9 DEF RetirableHosts
<1>10. CASE BeginCoordinatorEpoch
  BY <1>1, <1>10 DEF BeginCoordinatorEpoch
<1>11. CASE UNCHANGED vars
  BY <1>1, <1>11 DEF vars, hostVars
<1> QED
  BY <1>3, <1>4, <1>5, <1>6, <1>7, <1>8, <1>9, <1>10, <1>11

\* A step that only rewrites one row, and records events of used rows, stirs.
LEMMA RowStep ==
    ASSUME TypeOK, NEW s \in Segment, NEW w, seg' = [seg EXCEPT ![s] = w],
           \A r \in Segment : r # s => question'[r] = question[r],
           RowStirs(s),
           \A t \in Task : TaskStirs(t),
           \A t \in Task, n \in AttemptNo : AttemptStirs(t, n),
           events \subseteq events',
           \A e \in events' : e \in events \/ Used(e[1]),
           UNCHANGED <<nextSeg, fallback, review, retried, launch>>
    PROVE  Stirs
BY OneRowStirs DEF Stirs

\* A question that stops its segment stirs its row and its task.
LEMMA QuestionStopStirs ==
    ASSUME SlotInv, NEW s \in Segment, NEW v \in Nat, ensureQuestionStop(s),
           QuestionAdmitted(s, v),
           question' = [question EXCEPT ![s] = [st |-> "open", rev |-> v]],
           UNCHANGED <<nextSeg, fallback, attempt, decisionVars, launch>>
    PROVE  Stirs
<1> DEFINE w == [seg[s] EXCEPT
              !.outcome = "question", !.session = TRUE, !.rpt = 0,
              !.st = "stopping", !.stop = "pending", !.reason = "waiting_question"]
<1>0. TypeOK
  BY DEF SlotInv
<1>1. seg[s] \in SegmentRow /\ Active(s) /\ seg[s].outcome = "none"
  BY <1>0 DEF QuestionAdmitted, Active, TypeOK
<1>2. seg' = [seg EXCEPT ![s] = w] /\ status' = [status EXCEPT ![seg[s].task] = "stopping"]
  BY DEF ensureQuestionStop
<1>3. /\ w.task = seg[s].task /\ w.no = seg[s].no /\ w.ask = seg[s].ask
      /\ w.pay = seg[s].pay /\ w.charge = seg[s].charge
      /\ w.st = "stopping" /\ w.outcome = "question" /\ w.reason = "waiting_question"
  BY <1>1 DEF SegmentRow
<1> HIDE DEF w
<1>4. seg'[s] = w
  BY <1>0, <1>2 DEF TypeOK
<1>5. question'[s].st = "open" /\ \A r \in Segment : r # s => question'[r] = question[r]
  BY <1>0 DEF TypeOK
<1>6. RowStirs(s)
  BY <1>1, <1>3, <1>4, <1>5
     DEF RowStirs, RowStands, OutcomeMoves, QuestionStirs, Active, Occupying
<1>7. \A t \in Task : TaskStirs(t)
  <2>1. seg[s].task \in Task /\ status[seg[s].task] \in Live
    BY <1>1, ActiveIsLive DEF Active
  <2> QED
    BY <1>0, <1>2, <2>1 DEF TaskStirs, Live, TypeOK
<1>8. \A t \in Task, n \in AttemptNo : AttemptStirs(t, n)
  BY DEF AttemptStirs
<1> QED
  BY <1>0, <1>2, <1>5, <1>6, <1>7, <1>8, RowStep DEF decisionVars

\* A step that rewrites one row without touching its identity, its status or
\* its outcome stirs.
LEMMA PlainRowStirs ==
    ASSUME TypeOK, NEW s \in Segment, NEW w, seg' = [seg EXCEPT ![s] = w],
           w.task = seg[s].task, w.no = seg[s].no, w.ask = seg[s].ask,
           w.pay = seg[s].pay, w.charge = seg[s].charge,
           w.outcome = seg[s].outcome, w.reason = seg[s].reason,
           \/ w.st = seg[s].st
           \/ Active(s) /\ w.st \in Occupying,
           UNCHANGED <<status, attempt, nextSeg, question, fallback, decisionVars,
                       launch>>
    PROVE  Stirs
<1>1. seg'[s] = w
  BY DEF TypeOK
<1>2. RowStirs(s)
  BY <1>1 DEF RowStirs, RowStands, OutcomeMoves, QuestionStirs, Active, Occupying
<1> QED
  BY <1>2, RowStep DEF decisionVars, TaskStirs, AttemptStirs

\* An event other than exit, and a report, stirs.
LEMMA EventsStir ==
    ASSUME SlotInv, RowHasAttempt, NEW s \in Segment,
           \/ EventProgress(s)
           \/ EventSession(s)
           \/ EventQuestion(s)
           \/ \E k \in {"result", "stopped", "failed"} : EventOutcome(s, k)
           \/ EventUnknown(s)
           \/ RegisterReportCapability(s)
           \/ \E v \in ReportRev : ReportQuestion(s, v)
           \/ ReportFailure(s)
    PROVE  Stirs
<1> USE DEF taskVars, workVars, hostVars
<1>0. TypeOK /\ seg[s] \in SegmentRow
  BY DEF SlotInv, TypeOK
<1>1. CASE EventProgress(s)
  <2>1. PICK x \in Occupying : seg' = [seg EXCEPT ![s] = [seg[s] EXCEPT !.st = x]]
    BY <1>1 DEF EventProgress, Occupying
  <2> DEFINE w == [seg[s] EXCEPT !.st = x]
  <2>2. /\ w.task = seg[s].task /\ w.no = seg[s].no /\ w.ask = seg[s].ask
        /\ w.pay = seg[s].pay /\ w.charge = seg[s].charge /\ w.outcome = seg[s].outcome
        /\ w.reason = seg[s].reason /\ w.st = x
    BY <1>0 DEF SegmentRow
  <2>3. Active(s) /\ seg' = [seg EXCEPT ![s] = w]
    BY <1>1, <2>1 DEF EventProgress, Occupying, Active
  <2> HIDE DEF w
  <2> QED
    BY <1>0, <1>1, <2>2, <2>3, PlainRowStirs DEF EventProgress
<1>2. CASE EventSession(s)
  <2>1. CASE seg[s].rpt = 0
    <3> DEFINE w == [seg[s] EXCEPT !.session = TRUE]
    <3>1. /\ seg' = [seg EXCEPT ![s] = w]
          /\ UNCHANGED <<status, attempt, nextSeg, question, fallback, decisionVars,
                         launch>>
      BY <1>2, <2>1 DEF EventSession
    <3>2. /\ w.task = seg[s].task /\ w.no = seg[s].no /\ w.ask = seg[s].ask
          /\ w.pay = seg[s].pay /\ w.charge = seg[s].charge
          /\ w.outcome = seg[s].outcome /\ w.reason = seg[s].reason
          /\ w.st = seg[s].st
      BY <1>0 DEF SegmentRow
    <3> HIDE DEF w
    <3> QED
      BY <1>0, <3>1, <3>2, PlainRowStirs
  <2>2. CASE seg[s].rpt # 0
    <3>1. seg[s].rpt \in Nat
      BY <1>0 DEF SegmentRow
    <3> QED
      BY <1>2, <2>2, <3>1, QuestionStopStirs DEF EventSession
  <2> QED
    BY <2>1, <2>2
<1>3. CASE EventQuestion(s)
  <2> DEFINE w == [seg[s] EXCEPT !.outcome = "question"]
  <2>1. seg' = [seg EXCEPT ![s] = w] /\ Active(s) /\ seg[s].outcome = "none"
    BY <1>3 DEF EventQuestion, QuestionAdmitted, Active
  <2>2. /\ w.task = seg[s].task /\ w.no = seg[s].no /\ w.ask = seg[s].ask
        /\ w.pay = seg[s].pay /\ w.charge = seg[s].charge /\ w.outcome = "question"
        /\ w.reason = seg[s].reason /\ w.st = seg[s].st
    BY <1>0 DEF SegmentRow
  <2> HIDE DEF w
  <2>3. seg'[s] = w
    BY <1>0, <2>1 DEF TypeOK
  <2>4. question'[s].st = "open" /\ \A r \in Segment : r # s => question'[r] = question[r]
    BY <1>0, <1>3 DEF EventQuestion, TypeOK
  <2>5. RowStirs(s)
    BY <2>1, <2>2, <2>3, <2>4 DEF RowStirs, RowStands, OutcomeMoves, QuestionStirs
  <2> QED
    BY <1>0, <1>3, <2>1, <2>4, <2>5, RowStep
       DEF EventQuestion, decisionVars, TaskStirs, AttemptStirs
<1>4. ASSUME NEW k \in {"result", "stopped", "failed"}, EventOutcome(s, k)
      PROVE  Stirs
  <2> DEFINE w == [seg[s] EXCEPT !.outcome = OutcomeAfter(s, k),
               !.stop = IF k = "stopped" /\ @ # "none" THEN "accepted" ELSE @]
  <2>1. seg' = [seg EXCEPT ![s] = w] /\ question' = question
    BY <1>4 DEF EventOutcome
  <2>2. /\ w.task = seg[s].task /\ w.no = seg[s].no /\ w.ask = seg[s].ask
        /\ w.pay = seg[s].pay /\ w.charge = seg[s].charge
        /\ w.outcome = OutcomeAfter(s, k)
        /\ w.reason = seg[s].reason /\ w.st = seg[s].st
    BY <1>0 DEF SegmentRow
  <2> HIDE DEF w
  <2>3. seg'[s] = w
    BY <1>0, <2>1 DEF TypeOK
  <2>4. /\ events \subseteq events'
        /\ k # "stopped" => <<s, k>> \in events'
        /\ \A e \in events' : e \in events \/ e = <<s, k>>
    BY <1>4 DEF EventOutcome
  <2>5. Used(s)
    BY <1>4 DEF EventOutcome, HostConnected, Used
  <2>6. OutcomeMoves(s)
    BY <2>2, <2>3, <2>4 DEF OutcomeMoves, OutcomeAfter, Active
  <2>7. RowStirs(s)
    BY <2>1, <2>2, <2>3, <2>6 DEF RowStirs, RowStands, QuestionStirs
  <2>8. \A e \in events' : e \in events \/ Used(e[1])
    BY <2>4, <2>5
  <2> QED
    BY <1>0, <1>4, <2>1, <2>4, <2>7, <2>8, RowStep
       DEF EventOutcome, TaskStirs, AttemptStirs
<1>5. CASE EventUnknown(s)
  <2> DEFINE w == [seg[s] EXCEPT !.st = "unknown"]
  <2>1. seg' = [seg EXCEPT ![s] = w] /\ question' = question /\ Active(s)
    BY <1>5 DEF EventUnknown, Active
  <2>2. /\ w.task = seg[s].task /\ w.no = seg[s].no /\ w.ask = seg[s].ask
        /\ w.pay = seg[s].pay /\ w.charge = seg[s].charge /\ w.outcome = seg[s].outcome
        /\ w.reason = seg[s].reason /\ w.st = "unknown"
    BY <1>0 DEF SegmentRow
  <2> HIDE DEF w
  <2>3. seg'[s] = w
    BY <1>0, <2>1 DEF TypeOK
  <2>4. RowStirs(s)
    BY <2>1, <2>2, <2>3
       DEF RowStirs, RowStands, OutcomeMoves, QuestionStirs, Active, Occupying
  <2>5. /\ seg[s].task \in Task /\ status[seg[s].task] \in Live
        /\ seg[s].no \in AttemptNo /\ attempt[seg[s].task][seg[s].no] # "none"
    BY <1>0, <2>1, ActiveIsLive, SegmentTask DEF Active, Used, RowHasAttempt, Occupying
  <2>6. \A t \in Task : TaskStirs(t)
    BY <1>0, <1>5, <2>5 DEF EventUnknown, TaskStirs, Live, TypeOK
  <2>7. \A t \in Task, n \in AttemptNo : AttemptStirs(t, n)
    BY <1>0, <1>5, <2>5 DEF EventUnknown, AttemptStirs, TypeOK
  <2> QED
    BY <1>0, <1>5, <2>1, <2>4, <2>6, <2>7, RowStep DEF EventUnknown, decisionVars
<1>6. CASE RegisterReportCapability(s)
  <2> DEFINE w == [seg[s] EXCEPT !.cap = epoch]
  <2>1. /\ seg' = [seg EXCEPT ![s] = w]
        /\ UNCHANGED <<status, attempt, nextSeg, question, fallback, decisionVars,
                       launch>>
    BY <1>6 DEF RegisterReportCapability
  <2>2. /\ w.task = seg[s].task /\ w.no = seg[s].no /\ w.ask = seg[s].ask
        /\ w.pay = seg[s].pay /\ w.charge = seg[s].charge /\ w.outcome = seg[s].outcome
        /\ w.reason = seg[s].reason /\ w.st = seg[s].st
    BY <1>0 DEF SegmentRow
  <2> HIDE DEF w
  <2> QED
    BY <1>0, <2>1, <2>2, PlainRowStirs
<1>7. ASSUME NEW v \in ReportRev, ReportQuestion(s, v)
      PROVE  Stirs
  <2>1. CASE ~ seg[s].session
    <3> DEFINE w == [seg[s] EXCEPT !.rpt = v]
    <3>1. /\ seg' = [seg EXCEPT ![s] = w]
          /\ UNCHANGED <<status, attempt, nextSeg, question, fallback, decisionVars,
                         launch>>
      BY <1>7, <2>1 DEF ReportQuestion
    <3>2. /\ w.task = seg[s].task /\ w.no = seg[s].no /\ w.ask = seg[s].ask
          /\ w.pay = seg[s].pay /\ w.charge = seg[s].charge
          /\ w.outcome = seg[s].outcome /\ w.reason = seg[s].reason
          /\ w.st = seg[s].st
      BY <1>0 DEF SegmentRow
    <3> HIDE DEF w
    <3> QED
      BY <1>0, <3>1, <3>2, PlainRowStirs
  <2>2. CASE seg[s].session
    <3>1. v \in Nat
      BY BoundAssumption
    <3> QED
      BY <1>7, <2>2, <3>1, QuestionStopStirs DEF ReportQuestion
  <2> QED
    BY <2>1, <2>2
<1>8. CASE ReportFailure(s)
  <2>1. \A r \in Segment : RowStirs(r)
    BY <1>8, RowRests DEF ReportFailure
  <2>2. Used(s)
    BY <1>8 DEF ReportFailure, CapabilityUsable, Used
  <2>3. events \subseteq events' /\ \A e \in events' : e \in events \/ Used(e[1])
    BY <1>8, <2>2 DEF ReportFailure
  <2> QED
    BY <1>8, <2>1, <2>3 DEF ReportFailure, Stirs, TaskStirs, AttemptStirs
<1> QED
  BY <1>1, <1>2, <1>3, <1>4, <1>5, <1>6, <1>7, <1>8

\* A stop, and giving up on stops, stirs.
LEMMA StopsStir ==
    ASSUME SlotInv, RowHasAttempt, (\E t \in Task : StopTask(t)) \/ MarkStoppingUnknown
    PROVE  Stirs
<1> USE DEF hostVars, decisionVars
<1>0. TypeOK
  BY DEF SlotInv
<1>1. ASSUME NEW t \in Task, StopTask(t)
      PROVE  Stirs
  <2>1. PICK s \in ActiveOf(t) : seg' = [seg EXCEPT ![s] = [seg[s] EXCEPT
          !.st = "stopping", !.outcome = "stopped", !.stop = "pending",
          !.reason = "request"]]
    BY <1>1 DEF StopTask
  <2>2. s \in Segment /\ seg[s].task = t /\ Active(s) /\ seg[s] \in SegmentRow
    BY <1>0 DEF ActiveOf, ActiveSegments, Active, TypeOK
  <2> DEFINE w == [seg[s] EXCEPT
          !.st = "stopping", !.outcome = "stopped", !.stop = "pending",
          !.reason = "request"]
  <2>3. /\ w.task = seg[s].task /\ w.no = seg[s].no /\ w.ask = seg[s].ask
        /\ w.pay = seg[s].pay /\ w.charge = seg[s].charge /\ w.outcome = "stopped"
        /\ w.reason = "request" /\ w.st = "stopping"
    BY <2>2 DEF SegmentRow
  <2>4. seg' = [seg EXCEPT ![s] = w] /\ question' = question
    BY <1>1, <2>1 DEF StopTask
  <2> HIDE DEF w
  <2>5. seg'[s] = w
    BY <1>0, <2>2, <2>4 DEF TypeOK
  <2>6. RowStirs(s)
    BY <2>2, <2>3, <2>4, <2>5
       DEF RowStirs, RowStands, OutcomeMoves, QuestionStirs, Active, Occupying
  <2>7. status[t] \in Live
    BY <2>2, ActiveIsLive DEF Active
  <2>8. \A u \in Task : TaskStirs(u)
    BY <1>0, <1>1, <2>7 DEF StopTask, TaskStirs, Live, TypeOK
  <2> QED
    BY <1>0, <1>1, <2>2, <2>4, <2>6, <2>8, RowStep DEF StopTask, AttemptStirs
<1>2. CASE MarkStoppingUnknown
  <2>1. ASSUME NEW r \in Segment
        PROVE  RowStirs(r)
    <3> DEFINE w == [seg[r] EXCEPT
                     !.st = IF @ = "stopping" THEN "unknown" ELSE @,
                     !.stop = IF @ \in {"pending", "accepted"} THEN "unknown" ELSE @]
    <3>1. seg'[r] = w
      BY <1>2 DEF MarkStoppingUnknown
    <3>2. seg[r] \in SegmentRow
      BY <1>0 DEF TypeOK
    <3>3. /\ w.task = seg[r].task /\ w.no = seg[r].no /\ w.ask = seg[r].ask
          /\ w.pay = seg[r].pay /\ w.charge = seg[r].charge
          /\ w.outcome = seg[r].outcome /\ w.reason = seg[r].reason
          /\ w.st = IF seg[r].st = "stopping" THEN "unknown" ELSE seg[r].st
      BY <3>2 DEF SegmentRow
    <3> HIDE DEF w
    <3>4. question' = question
      BY <1>2 DEF MarkStoppingUnknown
    <3> QED
      BY <3>1, <3>3, <3>4
         DEF RowStirs, RowStands, OutcomeMoves, QuestionStirs, Active, Occupying
  <2> DEFINE lost == {s \in Segment : seg[s].st \in {"stopping", "unknown"}}
  <2>2. \A s \in lost : /\ status[seg[s].task] \in Live
                        /\ attempt[seg[s].task][seg[s].no] # "none"
    BY ActiveIsLive DEF RowHasAttempt, Used, Occupying
  <2>3. ASSUME NEW t \in Task
        PROVE  TaskStirs(t)
    <3>1. status'[t] = IF \E s \in lost : seg[s].task = t THEN "unknown" ELSE status[t]
      BY <1>2 DEF MarkStoppingUnknown
    <3> QED
      BY <2>2, <3>1 DEF TaskStirs, Live
  <2>4. ASSUME NEW t \in Task, NEW n \in AttemptNo
        PROVE  AttemptStirs(t, n)
    <3>1. attempt'[t][n] = IF \E s \in lost : seg[s].task = t /\ seg[s].no = n
                           THEN "unknown" ELSE attempt[t][n]
      BY <1>2 DEF MarkStoppingUnknown
    <3> QED
      BY <2>2, <3>1 DEF AttemptStirs
  <2> QED
    BY <1>2, <2>1, <2>3, <2>4 DEF MarkStoppingUnknown, Stirs
<1> QED
  BY <1>1, <1>2

-----------------------------------------------------------------------------
(* The shape of a claim, an exit and a decision *)

\* A step that creates no segment: rows keep their identity, decided outcomes
\* stand, and payloads change only where nothing is active.
RowKeeps(s) ==
    /\ RowStands(s)
    /\ seg'[s].st \in Occupying => seg[s].st \in Occupying
    /\ seg[s].st = "exited" => seg'[s].st = "exited"
    /\ OutcomeMoves(s)
    /\ question'[s].st # "none" =>
           question[s].st # "none" \/ (Active(s) /\ seg'[s].outcome # "none")
    /\ review'[s] # "none" => review[s] # "none" \/ seg[s].st = "exited"

Keeps ==
    /\ \A s \in Segment : RowKeeps(s)
    /\ \A t \in Task, n \in AttemptNo : attempt'[t][n] = "none" <=> attempt[t][n] = "none"
    /\ \A t \in Task : \/ fallback'[t] = fallback[t]
                       \/ ActiveOf(t) = {} /\ fallback'[t] < Len(Keys[t])
    /\ events \subseteq events'
    /\ \A e \in events' : e \in events \/ Used(e[1])

\* Task t claims the next segment for its attempt n, with answer q.
Claims(t, n, q) ==
    /\ nextSeg \in Segment
    /\ \A s \in Segment : s >= nextSeg => ~ Used(s)
    /\ status[t] \in {"ready", "resume_queued"}
    /\ ClaimAttempt(t, n) /\ ClaimedQuestion(t, n, q)
    /\ status'[t] = "running"
    /\ \A u \in Task : u # t => status'[u] = status[u]
    /\ seg'[nextSeg].st = "launch_requested" /\ seg'[nextSeg].outcome = "none"
    /\ seg'[nextSeg].task = t /\ seg'[nextSeg].no = n
    /\ seg'[nextSeg].reason = "none" /\ seg'[nextSeg].ask = q
    /\ seg'[nextSeg].pay = fallback[t]
    /\ \A s \in Segment : s # nextSeg => seg'[s] = seg[s]
    /\ attempt'[t][n] = "running"
    /\ \A u \in Task, m \in AttemptNo :
           u # t \/ m # n => attempt'[u][m] = attempt[u][m]
    /\ \A s \in Segment : s = q => question'[s].st = "resume_started"
    /\ \A s \in Segment : s # q => question'[s] = question[s]
    /\ UNCHANGED <<fallback, events, review, retried, launch>>

\* ClaimReady claims one attempt and one segment, and carries one question.
LEMMA ClaimShape ==
    ASSUME SlotInv, NEW l \in Launch, NEW t \in Task, ClaimReady(l, t)
    PROVE  \E n \in AttemptNo, q \in {0} \cup Segment : Claims(t, n, q)
<1>0. TypeOK
  BY DEF SlotInv
<1>1. PICK n \in AttemptNo, q \in {0} \cup Segment :
        /\ nextSeg <= MaxSegment
        /\ selectReady(t, l)
        /\ ClaimAttempt(t, n)
        /\ ClaimedQuestion(t, n, q)
        /\ status' = [status EXCEPT ![t] = "running"]
        /\ attempt' = [attempt EXCEPT ![t][n] = "running"]
        /\ seg' = [seg EXCEPT ![nextSeg] = LaunchedSegment(t, n, q)]
        /\ question' = [s \in Segment |->
               IF s = q THEN [question[s] EXCEPT !.st = "resume_started"]
               ELSE question[s]]
        /\ UNCHANGED <<fallback, events, review, retried, launch>>
  BY DEF ClaimReady, hostVars, decisionVars
<1>2. nextSeg \in Segment
  BY <1>0, <1>1, BoundAssumption DEF TypeOK, Segment
<1>3. status[t] \in {"ready", "resume_queued"}
  BY <1>1 DEF selectReady, Candidates
<1>4. /\ status'[t] = "running"
      /\ \A u \in Task : u # t => status'[u] = status[u]
  BY <1>0, <1>1 DEF TypeOK
<1>5. /\ seg'[nextSeg] = LaunchedSegment(t, n, q)
      /\ \A s \in Segment : s # nextSeg => seg'[s] = seg[s]
  BY <1>0, <1>1, <1>2 DEF TypeOK
<1>6. /\ attempt'[t][n] = "running"
      /\ \A u \in Task, m \in AttemptNo :
             u # t \/ m # n => attempt'[u][m] = attempt[u][m]
  BY <1>0, <1>1 DEF TypeOK
<1>7. /\ \A s \in Segment : s = q => question'[s].st = "resume_started"
      /\ \A s \in Segment : s # q => question'[s] = question[s]
  BY <1>0, <1>1 DEF TypeOK, QuestionRow
<1>8. \A s \in Segment : s >= nextSeg => ~ Used(s)
  BY DEF SlotInv, AllocationOrder, Used
<1>9. Claims(t, n, q)
  BY <1>1, <1>2, <1>3, <1>4, <1>5, <1>6, <1>7, <1>8 DEF Claims, LaunchedSegment
<1> QED
  BY <1>9

\* Segment s exits: its row is settled, its attempt ends and the answers it
\* was launched for are resolved.
Ends(s) ==
    /\ Active(s)
    /\ seg'[s].st = "exited"
    /\ seg'[s].task = seg[s].task /\ seg'[s].no = seg[s].no
    /\ seg'[s].ask = seg[s].ask /\ seg'[s].pay = seg[s].pay
    /\ seg'[s].outcome = seg[s].outcome /\ seg'[s].reason = seg[s].reason
    /\ \A r \in Segment : r # s => seg'[r] = seg[r]
    /\ attempt'[seg[s].task][seg[s].no] = ExitAttemptStatus(s)
    /\ \A u \in Task, m \in AttemptNo :
           u # seg[s].task \/ m # seg[s].no => attempt'[u][m] = attempt[u][m]
    /\ \A q \in Segment :
           IF q \in QuestionsIn(seg[s].task, seg[s].no, "resume_started")
           THEN question'[q].st = "resolved" ELSE question'[q] = question[q]
    /\ UNCHANGED <<nextSeg, fallback, events, review, retried, launch>>

\* An exit settles its segment and nothing of the others.
LEMMA ExitShape ==
    ASSUME SlotInv, NEW s \in Segment, NEW u \in ActiveReport, NEW m \in BOOLEAN,
           applyExit(s, u, m)
    PROVE  Ends(s)
<1>0. TypeOK /\ seg[s] \in SegmentRow /\ seg[s].task \in Task /\ seg[s].no \in AttemptNo
  BY SegmentTask DEF SlotInv, TypeOK
<1> DEFINE w == [seg[s] EXCEPT
               !.st = "exited",
               !.charge = Settled(@, u),
               !.stop = IF @ = "none" THEN @ ELSE "completed"]
<1>1. /\ seg' = [seg EXCEPT ![s] = w] /\ Active(s)
      /\ attempt' = [attempt EXCEPT ![seg[s].task][seg[s].no] = ExitAttemptStatus(s)]
      /\ question' = QuestionsAfterExit(s)
      /\ UNCHANGED <<nextSeg, fallback, events, review, retried, launch>>
  BY DEF applyExit, hostVars, decisionVars, Active
<1>2. /\ w.st = "exited" /\ w.task = seg[s].task /\ w.no = seg[s].no
      /\ w.ask = seg[s].ask /\ w.pay = seg[s].pay
      /\ w.outcome = seg[s].outcome /\ w.reason = seg[s].reason
  BY <1>0 DEF SegmentRow
<1> HIDE DEF w
<1>3. seg'[s] = w /\ \A r \in Segment : r # s => seg'[r] = seg[r]
  BY <1>0, <1>1 DEF TypeOK
<1>4. /\ attempt'[seg[s].task][seg[s].no] = ExitAttemptStatus(s)
      /\ \A a \in Task, n \in AttemptNo :
             a # seg[s].task \/ n # seg[s].no => attempt'[a][n] = attempt[a][n]
  BY <1>0, <1>1 DEF TypeOK
<1>5. \A q \in Segment :
          IF q \in QuestionsIn(seg[s].task, seg[s].no, "resume_started")
          THEN question'[q].st = "resolved" ELSE question'[q] = question[q]
  BY <1>0, <1>1 DEF QuestionsAfterExit, TypeOK, QuestionRow
<1> QED
  BY <1>1, <1>2, <1>3, <1>4, <1>5 DEF Ends

\* A task that is not live has no active segment, and the other way round.
LEMMA LiveIsActive ==
    ASSUME SlotInv, NEW t \in Task
    PROVE  /\ status[t] \in Live <=> ActiveOf(t) # {}
           /\ status[t] \notin Live => \A s \in SegmentsOf(t) : seg[s].st = "exited"
<1>1. status[t] \in Live <=> ActiveOf(t) # {}
  BY DEF SlotInv, SlotOwnership, Live
<1>2. ASSUME NEW s \in SegmentsOf(t), ActiveOf(t) = {}
      PROVE  seg[s].st = "exited"
  <2>1. seg[s] \in SegmentRow
    BY DEF SlotInv, TypeOK, SegmentsOf
  <2>2. seg[s].st \in {"none", "exited"} \cup Occupying
    BY <2>1 DEF SegmentRow
  <2> QED
    BY <1>2, <2>2 DEF SegmentsOf, ActiveOf, ActiveSegments
<1> QED
  BY <1>1, <1>2

\* The segment whose result is reviewed has exited.
LEMMA ReviewedHasExited ==
    ASSUME SlotInv, NEW t \in Task, NEW s \in Segment, ReviewAllowed(t, s)
    PROVE  seg[s].st = "exited" /\ seg[s].task = t /\ Used(s) /\ ActiveOf(t) = {}
<1>1. status[t] \notin Live /\ s \in SegmentsOf(t)
  BY DEF ReviewAllowed, IsLatest, Live
<1> QED
  BY <1>1, LiveIsActive DEF SegmentsOf, Used
-----------------------------------------------------------------------------
(* Rows and attempts *)

\* Steps of hosts, events, reports and stops create no segment.
LEMMA StirsKeeps ==
    ASSUME Stirs
    PROVE  Keeps
<1>1. \A s \in Segment : RowKeeps(s)
  BY DEF Stirs, RowStirs, RowKeeps, QuestionStirs
<1>2. \A t \in Task, n \in AttemptNo : attempt'[t][n] = "none" <=> attempt[t][n] = "none"
  BY DEF Stirs, AttemptStirs
<1> QED
  BY <1>1, <1>2 DEF Stirs, Keeps

\* Neither does an exit.
LEMMA ExitKeeps ==
    ASSUME SlotInv, RowInv, NEW s \in Segment, Ends(s)
    PROVE  Keeps
<1>1. ASSUME NEW r \in Segment
      PROVE  RowKeeps(r)
  <2>1. question'[r].st # "none" => question[r].st # "none"
    BY DEF Ends, QuestionsIn
  <2> QED
    BY <2>1 DEF Ends, RowKeeps, RowStands, OutcomeMoves, Active, Occupying
<1>2. \A t \in Task, n \in AttemptNo : attempt'[t][n] = "none" <=> attempt[t][n] = "none"
  <2>1. ExitAttemptStatus(s) # "none"
    BY DEF ExitAttemptStatus
  <2>2. attempt[seg[s].task][seg[s].no] # "none"
    BY DEF RowInv, RowHasAttempt, Ends, Active, Used, Occupying
  <2> QED
    BY <2>1, <2>2 DEF Ends
<1> QED
  BY <1>1, <1>2 DEF Ends, Keeps

\* Neither does a decision of the owner or the admission of a plan.
LEMMA DecisionKeeps ==
    ASSUME SlotInv, RowInv, NEW t \in Task,
           \/ \E l \in Launch : SubmitPlan(l)
           \/ QueueResume(t)
           \/ \E s \in Segment : AnswerQuestion(t, s)
           \/ \E s \in Segment : AcceptResult(t, s)
           \/ \E s \in Segment : RejectResult(t, s)
           \/ \E e \in events, b \in BOOLEAN : QueueRetry(t, e, b)
           \/ CancelTask(t)
    PROVE  Keeps
<1> USE DEF workVars, decisionVars, taskVars
<1>0. TypeOK
  BY DEF SlotInv
<1>1. seg' = seg /\ events' = events
  BY DEF SubmitPlan, QueueResume, AnswerQuestion, AcceptResult, RejectResult,
     QueueRetry, CancelTask
<1>2. \A u \in Task : \/ fallback'[u] = fallback[u]
                      \/ ActiveOf(u) = {} /\ fallback'[u] < Len(Keys[u])
  <2>1. ASSUME NEW e \in events, NEW b \in BOOLEAN, QueueRetry(t, e, b), NEW u \in Task
        PROVE  \/ fallback'[u] = fallback[u]
               \/ ActiveOf(u) = {} /\ fallback'[u] < Len(Keys[u])
    <3>1. fallback' = [fallback EXCEPT ![t] = IF b THEN @ + 1 ELSE @]
      BY <2>1 DEF QueueRetry
    <3>2. b => fallback[t] + 1 < Len(Keys[t])
      BY <2>1 DEF QueueRetry
    <3>3. ActiveOf(t) = {}
      BY <2>1 DEF QueueRetry, RetryAllowed
    <3> QED
      BY <1>0, <3>1, <3>2, <3>3 DEF TypeOK
  <2> QED
    BY <2>1 DEF SubmitPlan, QueueResume, AnswerQuestion, AcceptResult, RejectResult,
       CancelTask
<1>3. \A u \in Task, n \in AttemptNo : attempt'[u][n] = "none" <=> attempt[u][n] = "none"
  <2>1. ASSUME NEW s \in Segment, RejectResult(t, s), NEW u \in Task, NEW n \in AttemptNo
        PROVE  attempt'[u][n] = "none" <=> attempt[u][n] = "none"
    <3>1. seg[s].task = t /\ Used(s)
      BY <2>1, ReviewedHasExited DEF RejectResult
    <3>2. attempt[t][seg[s].no] # "none"
      BY <3>1 DEF RowInv, RowHasAttempt
    <3>3. attempt' = [attempt EXCEPT ![t][seg[s].no] = "failed"]
      BY <2>1 DEF RejectResult
    <3> QED
      BY <1>0, <3>2, <3>3 DEF TypeOK
  <2> QED
    BY <2>1 DEF SubmitPlan, QueueResume, AnswerQuestion, AcceptResult, QueueRetry,
       CancelTask
<1>4. ASSUME NEW r \in Segment
      PROVE  question'[r].st # "none" => question[r].st # "none"
  <2>1. ASSUME NEW s \in Segment, AnswerQuestion(t, s)
        PROVE  question'[r].st # "none" => question[r].st # "none"
    BY <1>0, <2>1 DEF AnswerQuestion, TypeOK, QuestionRow
  <2> QED
    BY <2>1 DEF SubmitPlan, QueueResume, AcceptResult, RejectResult, QueueRetry,
       CancelTask
<1>5. ASSUME NEW r \in Segment
      PROVE  review'[r] # "none" => review[r] # "none" \/ seg[r].st = "exited"
  <2>1. ASSUME NEW s \in Segment, AcceptResult(t, s) \/ RejectResult(t, s)
        PROVE  review'[r] # "none" => review[r] # "none" \/ seg[r].st = "exited"
    <3>1. seg[s].st = "exited"
      BY <2>1, ReviewedHasExited DEF AcceptResult, RejectResult
    <3> QED
      BY <1>0, <2>1, <3>1 DEF AcceptResult, RejectResult, TypeOK
  <2> QED
    BY <2>1 DEF SubmitPlan, QueueResume, AnswerQuestion, QueueRetry, CancelTask
<1>6. \A r \in Segment : RowKeeps(r)
  BY <1>1, <1>4, <1>5 DEF RowKeeps, RowStands, OutcomeMoves
<1> QED
  BY <1>1, <1>2, <1>3, <1>6 DEF Keeps

\* A step that creates no segment keeps what is said of rows and attempts.
LEMMA RowsKept ==
    ASSUME SlotInv, TypeOK', RowInv, Keeps
    PROVE  RowInv'
<1>0. /\ \A s \in Segment : RowKeeps(s) /\ seg[s].task \in Task /\ seg[s].no \in AttemptNo
      /\ \A s \in Segment : RowStands(s)
  BY SegmentTask DEF Keeps, RowKeeps, SlotInv
<1>1. RowHasAttempt'
  BY <1>0 DEF RowInv, RowHasAttempt, Used, RowStands, Keeps
<1>2. AttemptHasRow'
  BY <1>0 DEF RowInv, AttemptHasRow, Used, RowStands, Keeps
<1>3. NumbersGrow'
  BY <1>0 DEF RowInv, NumbersGrow, Used, RowStands
<1>4. ActiveIsNewest'
  BY <1>0 DEF RowInv, ActiveIsNewest, Used, Active, RowStands, RowKeeps
<1>5. RequestDecides'
  BY <1>0 DEF RowInv, RequestDecides, RowKeeps, OutcomeMoves
<1>6. PayloadHeld'
  <2>1. ASSUME NEW s \in Segment, Active(s)'
        PROVE  seg'[s].pay = fallback'[seg'[s].task]
    <3>1. Active(s) /\ seg'[s].pay = seg[s].pay /\ seg'[s].task = seg[s].task
      BY <1>0, <2>1 DEF RowKeeps, RowStands, Active
    <3>2. s \in ActiveOf(seg[s].task)
      BY <3>1 DEF ActiveOf, ActiveSegments, Active
    <3> QED
      BY <1>0, <3>1, <3>2 DEF RowInv, PayloadHeld, Keeps
  <2>2. \A t \in Task : fallback'[t] < Len(Keys[t])
    BY DEF RowInv, PayloadHeld, Keeps
  <2> QED
    BY <2>1, <2>2 DEF PayloadHeld
<1>7. QuestionHasOutcome'
  BY <1>0, ZenonT(60) DEF RowInv, QuestionHasOutcome, RowKeeps, RowStands, OutcomeMoves, Used,
     Active, Occupying
<1>8. OutcomeRecorded'
  BY <1>0 DEF RowInv, OutcomeRecorded, RowKeeps, OutcomeMoves, Keeps
<1>9. EventHasRow'
  <2>1. \A e \in events' : e[1] \in Segment
    BY DEF TypeOK
  <2> QED
    BY <1>0, <2>1 DEF RowInv, EventHasRow, RowStands, Used, Keeps
<1>10. ReviewHasExit'
  BY <1>0 DEF RowInv, ReviewHasExit, RowKeeps
<1> QED
  BY <1>1, <1>2, <1>3, <1>4, <1>5, <1>6, <1>7, <1>8, <1>9, <1>10 DEF RowInv

\* The attempts of a group are finitely many.
LEMMA AttemptsCounted ==
    ASSUME NEW g
    PROVE  IsFiniteSet(GroupAttempts(g)) /\ Cardinality(GroupAttempts(g)) \in Nat
<1>1. IsFiniteSet(AttemptNo)
  <2>1. AttemptNo \in SUBSET Nat /\ \A n \in AttemptNo : n <= 3
    BY DEF AttemptNo
  <2> QED
    BY <2>1, FS_BoundedSetOfNaturals
<1>2. IsFiniteSet(Task \X AttemptNo)
  BY <1>1, FS_Product, TaskAssumption
<1>3. GroupAttempts(g) \in SUBSET (Task \X AttemptNo)
  BY DEF GroupAttempts
<1> QED
  BY <1>2, <1>3, FS_Subset, FS_CardinalityType

\* The attempt a claim runs in is the latest of its task.
LEMMA ClaimIsLatest ==
    ASSUME TypeOK, NumbersCounted, NEW t \in Task, NEW n \in AttemptNo,
           ClaimAttempt(t, n)
    PROVE  \A m \in AttemptsOf(t) : m <= n
<1>1. CASE status[t] = "resume_queued"
  BY <1>1 DEF ClaimAttempt, IsLatestAttempt
<1>2. CASE status[t] # "resume_queued"
  <2>1. n = Cardinality(GroupAttempts(GroupOf[t])) + 1 /\ n \in Int
    BY <1>2 DEF ClaimAttempt, AttemptNo
  <2>2. PICK c : c = Cardinality(GroupAttempts(GroupOf[t]))
    OBVIOUS
  <2>3. \A m \in AttemptsOf(t) : m <= c /\ m \in Int
    BY <2>2 DEF NumbersCounted, AttemptsOf, AttemptNo
  <2>4. c \in Int
    BY <2>2, AttemptsCounted
  <2> QED
    BY <2>1, <2>2, <2>3, <2>4
<1> QED
  BY <1>1, <1>2

\* A claim keeps what is said of rows and attempts.
LEMMA RowsClaimed ==
    ASSUME SlotInv, TypeOK', RowInv, NumbersCounted, NEW t \in Task,
           NEW n \in AttemptNo, NEW q \in {0} \cup Segment, Claims(t, n, q)
    PROVE  RowInv'
<1>x. PICK x \in Segment : x = nextSeg
  BY DEF Claims
<1>0. TypeOK /\ x \in Segment /\ Segment \subseteq Int
  BY DEF SlotInv, Segment
<1>1. /\ ~ Used(x) /\ Used(x)' /\ Active(x)'
      /\ \A s \in Segment : s # x => seg'[s] = seg[s]
      /\ \A s \in Segment : Used(s) => s < x
      /\ seg'[x].task = t /\ seg'[x].no = n
  BY <1>x, <1>0 DEF Claims, Used, Active, Occupying
<1>2. ActiveOf(t) = {}
  BY LiveIsActive DEF Claims, Live
<1>3. RowHasAttempt'
  BY <1>0, <1>1, SegmentTask DEF Claims, RowInv, RowHasAttempt, Used
<1>4. AttemptHasRow'
  <2> SUFFICES ASSUME NEW u \in Task, NEW m \in AttemptNo, attempt'[u][m] # "none"
               PROVE  \E s \in Segment : Used(s)' /\ seg'[s].task = u /\ seg'[s].no = m
    BY DEF AttemptHasRow
  <2>1. CASE u = t /\ m = n
    BY <1>0, <1>1, <2>1
  <2>2. CASE u # t \/ m # n
    <3>1. attempt[u][m] # "none"
      BY <2>2 DEF Claims
    <3>2. PICK s \in Segment : Used(s) /\ seg[s].task = u /\ seg[s].no = m
      BY <3>1 DEF RowInv, AttemptHasRow
    <3>3. s # x
      BY <1>1, <3>2
    <3> QED
      BY <1>1, <3>2, <3>3 DEF Used
  <2> QED
    BY <2>1, <2>2
<1>5. \A r \in Segment : Used(r) /\ seg[r].task = t => seg[r].no <= n
  <2>1. \A m \in AttemptsOf(t) : m <= n
    BY <1>0, ClaimIsLatest DEF Claims
  <2> QED
    BY <1>0, <2>1, SegmentTask DEF RowInv, RowHasAttempt, AttemptsOf
<1>6. NumbersGrow'
  <2> SUFFICES ASSUME NEW r \in Segment, NEW s \in Segment, Used(r)', Used(s)',
                      seg'[r].task = seg'[s].task, r < s
               PROVE  seg'[r].no <= seg'[s].no
    BY DEF NumbersGrow
  <2>1. r # x
    BY <1>0, <1>1 DEF Used
  <2>2. CASE s = x
    BY <1>1, <1>5, <2>1, <2>2 DEF Used
  <2>3. CASE s # x
    BY <1>1, <2>1, <2>3 DEF RowInv, NumbersGrow, Used
  <2> QED
    BY <2>2, <2>3
<1>7. ActiveIsNewest'
  <2> SUFFICES ASSUME NEW r \in Segment, NEW s \in Segment, Active(s)', Used(r)',
                      seg'[r].task = seg'[s].task
               PROVE  r <= s
    BY DEF ActiveIsNewest
  <2>1. CASE s = x
    BY <1>0, <1>1, <2>1 DEF Used
  <2>2. CASE s # x
    <3>1. Active(s) /\ seg'[s] = seg[s]
      BY <1>1, <2>2 DEF Active
    <3>2. r # x
      BY <1>1, <1>2, <3>1 DEF ActiveOf, ActiveSegments, Active
    <3> QED
      BY <1>1, <3>1, <3>2 DEF RowInv, ActiveIsNewest, Used
  <2> QED
    BY <2>1, <2>2
<1>8. RequestDecides'
  BY <1>x, <1>1 DEF RowInv, RequestDecides, Claims
<1>9. PayloadHeld'
  BY <1>x, <1>1, SegmentTask DEF RowInv, PayloadHeld, Claims, Active
<1>10. QuestionHasOutcome'
  <2> SUFFICES ASSUME NEW s \in Segment, question'[s].st # "none"
               PROVE  Used(s)' /\ seg'[s].outcome # "none"
    BY DEF QuestionHasOutcome
  <2>1. question[s].st # "none"
    <3>1. s = q => question[s].st = "resume_queued"
      BY DEF Claims, ClaimedQuestion, QuestionsIn, Segment
    <3> QED
      BY <3>1 DEF Claims
  <2> QED
    BY <1>1, <2>1 DEF RowInv, QuestionHasOutcome, Used
<1>11. OutcomeRecorded'
  BY <1>x, <1>1 DEF RowInv, OutcomeRecorded, Claims
<1>12. EventHasRow'
  <2>1. \A e \in events' : e[1] \in Segment /\ e \in events
    BY DEF TypeOK, Claims
  <2> QED
    BY <1>1, <2>1 DEF RowInv, EventHasRow, Used
<1>13. ReviewHasExit'
  BY <1>1 DEF RowInv, ReviewHasExit, Claims, Used
<1> QED
  BY <1>3, <1>4, <1>6, <1>7, <1>8, <1>9, <1>10, <1>11, <1>12, <1>13 DEF RowInv
-----------------------------------------------------------------------------
(* The attempts of a budget group *)

\* A step that creates no attempt keeps the count and the numbers.
LEMMA CountKept ==
    ASSUME NumbersCounted, GroupAttemptCeiling,
           \A t \in Task, n \in AttemptNo :
               attempt'[t][n] = "none" <=> attempt[t][n] = "none"
    PROVE  /\ NumbersCounted' /\ GroupAttemptCeiling'
           /\ \A t \in Task : AttemptsOf(t)' = AttemptsOf(t)
<1>1. \A t \in Task : AttemptsOf(t)' = AttemptsOf(t)
  BY DEF AttemptsOf
<1>2. \A g : GroupAttempts(g)' = GroupAttempts(g)
  BY DEF GroupAttempts
<1>3. NumbersCounted'
  BY <1>1, <1>2 DEF NumbersCounted
<1>4. GroupAttemptCeiling'
  BY <1>1, <1>2 DEF GroupAttemptCeiling
<1> QED
  BY <1>1, <1>3, <1>4

\* A claim that starts an attempt finds one left in its group, and numbers it
\* after all of them; a claim that resumes starts none.
LEMMA CountClaimed ==
    ASSUME SlotInv, TypeOK', NumbersCounted, GroupAttemptCeiling, NEW t \in Task,
           NEW n \in AttemptNo, NEW q \in {0} \cup Segment, Claims(t, n, q)
    PROVE  NumbersCounted' /\ GroupAttemptCeiling'
<1>0. TypeOK
  BY DEF SlotInv
<1>1. CASE status[t] = "resume_queued"
  <2>1. attempt[t][n] # "none" /\ attempt'[t][n] # "none"
    BY <1>1 DEF Claims, ClaimAttempt, IsLatestAttempt, AttemptsOf
  <2>2. \A u \in Task, m \in AttemptNo :
            attempt'[u][m] = "none" <=> attempt[u][m] = "none"
    BY <2>1 DEF Claims
  <2> QED
    BY <2>2, CountKept
<1>2. CASE status[t] # "resume_queued"
  <2> DEFINE g == GroupOf[t]
             G == GroupAttempts(g)
  <2>1. PICK c \in Nat : c = Cardinality(G)
    BY AttemptsCounted
  <2>2. c < AttemptLimit(t) /\ n = c + 1
    BY <1>2, <2>1 DEF Claims, ClaimAttempt
  <2>3. \A u \in Task : GroupOf[u] = g => \A m \in AttemptsOf(u) : m <= c
    BY <2>1 DEF NumbersCounted
  <2>4. <<t, n>> \notin G
    <3>1. ASSUME <<t, n>> \in G
          PROVE  n \in AttemptsOf(t)
      BY <3>1 DEF GroupAttempts, AttemptsOf
    <3> QED
      BY <2>2, <2>3, <3>1
  <2>5. G' = G \cup {<<t, n>>}
    <3>1. \A u \in Task, m \in AttemptNo :
              attempt'[u][m] # "none" <=> attempt[u][m] # "none" \/ (u = t /\ m = n)
      BY DEF Claims
    <3>2. \A a \in Task \X AttemptNo : (a = <<t, n>>) <=> (a[1] = t /\ a[2] = n)
      OBVIOUS
    <3> QED
      BY <3>1, <3>2 DEF GroupAttempts
  <2>6. \A h : h # g => GroupAttempts(h)' = GroupAttempts(h)
    BY DEF Claims, GroupAttempts
  <2>7. Cardinality(G') = c + 1
    BY <2>1, <2>4, <2>5, AttemptsCounted, FS_AddElement
  <2>8. AttemptsOf(t)' = AttemptsOf(t) \cup {n}
    BY DEF Claims, AttemptsOf
  <2>9. \A u \in Task : u # t => AttemptsOf(u)' = AttemptsOf(u)
    BY DEF Claims, AttemptsOf
  <2> HIDE DEF G
  <2>10. NumbersCounted'
    <3> SUFFICES ASSUME NEW u \in Task, NEW m \in AttemptsOf(u)'
                 PROVE  m <= Cardinality(GroupAttempts(GroupOf[u])')
      BY DEF NumbersCounted
    <3>1. CASE GroupOf[u] = g
      <4>1. m <= c \/ m = n
        BY <2>3, <2>8, <2>9, <3>1
      <4>2. m \in Int
        BY DEF AttemptsOf, AttemptNo
      <4> QED
        BY <2>2, <2>7, <3>1, <4>1, <4>2 DEF G
    <3>2. CASE GroupOf[u] # g
      <4>1. m \in AttemptsOf(u) /\ GroupAttempts(GroupOf[u])' = GroupAttempts(GroupOf[u])
        BY <2>6, <2>9, <3>2
      <4> QED
        BY <4>1 DEF NumbersCounted
    <3> QED
      BY <3>1, <3>2
  <2>11. GroupAttemptCeiling'
    <3> SUFFICES ASSUME NEW u \in Task
                 PROVE  /\ \E v \in Task :
                               /\ GroupOf[v] = GroupOf[u]
                               /\ Cardinality(GroupAttempts(GroupOf[u])') <= MaxAttempts[v]
                        /\ \A v \in Task : GroupOf[v] = GroupOf[u] /\ v # u =>
                               AttemptsOf(u)' \cap AttemptsOf(v)' = {}
      BY DEF GroupAttemptCeiling
    <3>1. \E v \in Task : /\ GroupOf[v] = GroupOf[u]
                          /\ Cardinality(GroupAttempts(GroupOf[u])') <= MaxAttempts[v]
      <4>1. CASE GroupOf[u] = g
        <5>1. MaxAttempts[t] \in 1..3
          BY PlanAssumption DEF AttemptNo
        <5>2. c + 1 <= MaxAttempts[t]
          BY <2>2, <5>1 DEF AttemptLimit
        <5>3. Cardinality(GroupAttempts(GroupOf[u])') <= MaxAttempts[t]
          BY <2>7, <4>1, <5>2 DEF G
        <5> QED
          BY <4>1, <5>3
      <4>2. CASE GroupOf[u] # g
        BY <2>6, <4>2 DEF GroupAttemptCeiling
      <4> QED
        BY <4>1, <4>2
    <3>2. ASSUME NEW v \in Task, GroupOf[v] = GroupOf[u], v # u
          PROVE  AttemptsOf(u)' \cap AttemptsOf(v)' = {}
      <4>1. AttemptsOf(u) \cap AttemptsOf(v) = {}
        BY <3>2 DEF GroupAttemptCeiling
      <4>2. \A w \in Task : GroupOf[w] = g => n \notin AttemptsOf(w)
        BY <2>2, <2>3 DEF AttemptNo
      <4> QED
        BY <2>8, <2>9, <3>2, <4>1, <4>2
    <3> QED
      BY <3>1, <3>2
  <2> QED
    BY <2>10, <2>11
<1> QED
  BY <1>1, <1>2

-----------------------------------------------------------------------------
(* Dependencies *)

\* The statuses of a task that has been attempted and is not finished.
Begun == {"resume_queued", "running", "stopping", "unknown", "waiting_question",
          "interrupted", "result_ready", "failed"}

\* Only hosts of submitted plans connect and retire.
LEMMA SubmittedKept ==
    ASSUME TypeOK, SubmittedFirst, [Next]_vars
    PROVE  SubmittedFirst'
<1> USE DEF SubmittedFirst, hostVars
<1>1. ASSUME NEW l \in Launch, SubmitPlan(l)
      PROVE  SubmittedFirst'
  BY <1>1 DEF SubmitPlan, TypeOK
<1>2. ASSUME NEW l \in Launch, NEW p \in Proc, RegisterHost(l, p)
      PROVE  SubmittedFirst'
  BY <1>2 DEF RegisterHost, TypeOK
<1>3. ASSUME NEW l \in Launch, AuthorizeHostRebind(l)
      PROVE  SubmittedFirst'
  BY <1>3 DEF AuthorizeHostRebind, TypeOK
<1>4. ASSUME NEW l \in Launch, BeginHostReconcile(l)
      PROVE  SubmittedFirst'
  BY <1>4 DEF BeginHostReconcile, TypeOK
<1>5. ASSUME NEW l \in Launch, FinishHostReconcile(l)
      PROVE  SubmittedFirst'
  BY <1>5 DEF FinishHostReconcile, TypeOK
<1>6. ASSUME NEW l \in Launch, MarkHostOffline(l)
      PROVE  SubmittedFirst'
  BY <1>6 DEF MarkHostOffline, TypeOK
<1>7. ASSUME NEW l \in Launch, RetireHost(l)
      PROVE  SubmittedFirst'
  <2>1. launch'[l] = "released" /\ \A k \in Launch : k # l => launch'[k] = launch[k]
    BY <1>7 DEF RetireHost, TypeOK
  <2>2. \A k \in Launch : k # l => /\ conn'[k] = conn[k] /\ host'[k] = host[k]
                                   /\ k \in retiring' => k \in retiring
    BY <1>7 DEF RetireHost, TypeOK
  <2> QED
    BY <2>1, <2>2
<1>8. CASE RetirableHosts
  BY <1>8 DEF RetirableHosts, TypeOK
<1>9. CASE BeginCoordinatorEpoch
  BY <1>9 DEF BeginCoordinatorEpoch, TypeOK
<1>10. CASE UNCHANGED hostVars
  BY <1>10
<1>11. CASE UNCHANGED vars
  BY <1>11 DEF vars
<1>12. ASSUME \/ \E l \in Launch, t \in Task : ClaimReady(l, t)
              \/ \E s \in Segment : EventProgress(s) \/ EventSession(s)
              \/ \E s \in Segment : EventQuestion(s) \/ EventUnknown(s)
              \/ \E s \in Segment, k \in {"result", "stopped", "failed"} : EventOutcome(s, k)
              \/ \E s \in Segment, u \in ActiveReport, m \in BOOLEAN : applyExit(s, u, m)
       PROVE  SubmittedFirst'
  <2>1. ASSUME NEW l \in Launch, NEW t \in Task, ClaimReady(l, t)
        PROVE  UNCHANGED <<launch, host, proc, conn, retiring>>
    BY <2>1 DEF ClaimReady
  <2>2. ASSUME NEW s \in Segment, EventProgress(s)
        PROVE  UNCHANGED <<launch, host, proc, conn, retiring>>
    BY <2>2 DEF EventProgress
  <2>3. ASSUME NEW s \in Segment, NEW u \in ActiveReport, NEW m \in BOOLEAN,
               applyExit(s, u, m)
        PROVE  UNCHANGED <<launch, host, proc, conn, retiring>>
    BY <2>3 DEF applyExit
  <2>4. ASSUME \/ \E s \in Segment : EventSession(s) \/ EventQuestion(s) \/ EventUnknown(s)
               \/ \E s \in Segment, k \in {"result", "stopped", "failed"} :
                      EventOutcome(s, k)
        PROVE  UNCHANGED <<launch, host, proc, conn, retiring>>
    BY <2>4 DEF EventSession, EventQuestion, EventOutcome, EventUnknown
  <2> QED
    BY <1>10, <1>12, <2>1, <2>2, <2>3, <2>4
<1>13. ASSUME \/ \E s \in Segment : RegisterReportCapability(s) \/ ReportFailure(s)
              \/ \E s \in Segment, r \in ReportRev : ReportQuestion(s, r)
              \/ \E t \in Task : QueueResume(t) \/ CancelTask(t) \/ StopTask(t)
              \/ \E t \in Task, s \in Segment : AnswerQuestion(t, s)
              \/ \E t \in Task, s \in Segment : AcceptResult(t, s) \/ RejectResult(t, s)
              \/ \E t \in Task, e \in events, b \in BOOLEAN : QueueRetry(t, e, b)
              \/ MarkStoppingUnknown
       PROVE  SubmittedFirst'
  BY <1>10, <1>13
     DEF RegisterReportCapability, ReportQuestion, ReportFailure, QueueResume,
         AnswerQuestion, AcceptResult, RejectResult, QueueRetry, CancelTask, StopTask,
         MarkStoppingUnknown
<1>14. CASE Next
  <2> HIDE DEF SubmittedFirst
  <2> QED
    BY <1>1, <1>2, <1>3, <1>4, <1>5, <1>6, <1>7, <1>8, <1>9, <1>12, <1>13, <1>14
       DEF Next
<1> QED
  BY <1>11, <1>14

\* A step in which nothing is submitted, finished, released or blocked.
LEMMA DependPlain ==
    ASSUME TypeOK, DependInv, SubmittedFirst',
           \A l \in Launch : launch'[l] = "none" <=> launch[l] = "none",
           \A t \in Task :
               \/ status'[t] = status[t]
               \/ /\ status[t] \in Begun \cup {"ready"}
                  /\ status'[t] \in Begun \cup {"ready"},
           \A t \in Task :
               /\ AttemptsOf(t) \subseteq AttemptsOf(t)'
               /\ AttemptsOf(t)' # {} => \/ AttemptsOf(t) # {}
                                         \/ status[t] \in {"ready", "resume_queued"}
               /\ status[t] = "ready" /\ status'[t] # "ready" => AttemptsOf(t)' # {}
    PROVE  DependInv'
<1>0. \A t \in Task : status[t] \in Begun => AttemptsOf(t) # {}
  BY DEF DependInv, Started, Begun
<1>1. Started'
  BY <1>0 DEF DependInv, Started, Begun
<1>2. PresentOnceSubmitted'
  BY TaskAssumption DEF DependInv, PresentOnceSubmitted, Begun
<1>3. \A t \in Task : status'[t] = "completed" <=> status[t] = "completed"
  BY DEF Begun
<1>4. DependencySafety'
  BY <1>0, <1>3, TaskAssumption DEF DependInv, DependencySafety
<1>5. QueuedWaits'
  <2>1. \A t \in Task : \A d \in Deps[t] : d \in Task
    BY TaskAssumption
  <2>2. \A t \in Task : status'[t] = "queued" => status[t] = "queued"
    BY DEF Begun
  <2> QED
    BY <1>3, <2>1, <2>2 DEF DependInv, QueuedWaits
<1>6. BlockingPropagates'
  BY TaskAssumption DEF DependInv, BlockingPropagates, Begun
<1> QED
  BY <1>1, <1>2, <1>4, <1>5, <1>6 DEF DependInv

\* A plan is admitted whole: its free tasks are ready, the others wait.
LEMMA DependSubmitted ==
    ASSUME SlotInv, DependInv, SubmittedFirst', NEW l \in Launch, SubmitPlan(l)
    PROVE  DependInv'
<1>0. TypeOK
  BY DEF SlotInv
<1>1. /\ \A t \in Task : LaunchOf[t] = l => status[t] = "absent"
      /\ \A t \in Task : AttemptsOf(t)' = AttemptsOf(t)
      /\ \A t \in Task : status'[t] = IF LaunchOf[t] # l THEN status[t]
                                      ELSE IF Deps[t] = {} THEN "ready" ELSE "queued"
      /\ \A k \in Launch : launch'[k] = "none" <=> launch[k] = "none" /\ k # l
  BY <1>0 DEF SubmitPlan, workVars, AttemptsOf, SlotInv, AbsentUntilSubmitted, TypeOK
<1>2. \A t \in Task : \A d \in Deps[t] : d \in Task /\ LaunchOf[d] = LaunchOf[t]
  BY TaskAssumption
<1>3. Started'
  BY <1>1 DEF DependInv, Started
<1>4. PresentOnceSubmitted'
  BY <1>1, TaskAssumption DEF DependInv, PresentOnceSubmitted
<1>5. DependencySafety'
  BY <1>1, <1>2 DEF DependInv, DependencySafety
<1>6. QueuedWaits'
  BY <1>1, <1>2 DEF DependInv, QueuedWaits
<1>7. BlockingPropagates'
  BY <1>1, <1>2 DEF DependInv, BlockingPropagates
<1> QED
  BY <1>3, <1>4, <1>5, <1>6, <1>7 DEF DependInv

\* A task completes and releases the tasks that waited for it last.
LEMMA DependReleased ==
    ASSUME TypeOK, DependInv, SubmittedFirst', NEW t \in Task, status[t] \in Begun,
           releaseReady([status EXCEPT ![t] = "completed"]),
           launch' = launch, \A u \in Task : AttemptsOf(u)' = AttemptsOf(u)
    PROVE  DependInv'
<1> DEFINE f == [status EXCEPT ![t] = "completed"]
<1>1. \A v \in Task : f[v] = IF v = t THEN "completed" ELSE status[v]
  BY DEF TypeOK
<1>2. \A v \in Task :
          status'[v] = IF f[v] = "queued" /\ \A d \in Deps[v] : f[d] = "completed"
                       THEN "ready" ELSE f[v]
  BY DEF releaseReady
<1> HIDE DEF f
<1>3. \A v \in Task : \A d \in Deps[v] : d \in Task
  BY TaskAssumption
<1>4. \A v \in Task : status'[v] = "completed" <=> status[v] = "completed" \/ v = t
  BY <1>1, <1>2
<1>5. Started'
  BY <1>1, <1>2 DEF DependInv, Started, Begun
<1>6. PresentOnceSubmitted'
  BY <1>1, <1>2 DEF DependInv, PresentOnceSubmitted
<1>7. DependencySafety'
  BY <1>1, <1>2, <1>3, <1>4 DEF DependInv, DependencySafety, Begun
<1>8. QueuedWaits'
  BY <1>1, <1>2, <1>3, <1>4 DEF DependInv, QueuedWaits
<1>9. BlockingPropagates'
  BY <1>1, <1>2, <1>3 DEF DependInv, BlockingPropagates, Begun
<1> QED
  BY <1>5, <1>6, <1>7, <1>8, <1>9 DEF DependInv

\* The set the loop of blockFailedDependencies stops at is closed itself.
LEMMA LeastIsClosed ==
    ASSUME NEW f \in [Task -> TaskStatus], NEW v \in Task, NEW d \in Deps[v],
           f[v] \in {"queued", "ready"},
           \/ f[d] \in {"failed", "cancelled", "blocked_dependency"}
           \/ \A S \in SUBSET Task : ClosedUnderBlocking(S, f) => d \in S
    PROVE  blockFailedDependencies(f)[v] = "blocked_dependency"
<1>1. ASSUME NEW S \in SUBSET Task, ClosedUnderBlocking(S, f)
      PROVE  v \in S
  BY <1>1 DEF ClosedUnderBlocking
<1> QED
  BY <1>1 DEF blockFailedDependencies

\* A task fails for good or is cancelled, and blocks what waits for it.
LEMMA DependBlocked ==
    ASSUME SlotInv, DependInv, SubmittedFirst', NEW t \in Task,
           NEW x \in {"failed", "cancelled"},
           status' = blockFailedDependencies([status EXCEPT ![t] = x]),
           x = "failed" => status[t] \in Begun,
           x = "cancelled" => status[t] \in {"queued", "ready", "resume_queued"},
           launch' = launch, \A u \in Task : AttemptsOf(u)' = AttemptsOf(u)
    PROVE  DependInv'
<1>0. TypeOK
  BY DEF SlotInv
<1> DEFINE f == [status EXCEPT ![t] = x]
           Least(v) == \A S \in SUBSET Task : ClosedUnderBlocking(S, f) => v \in S
<1>1. f \in [Task -> TaskStatus] /\ \A v \in Task : f[v] = IF v = t THEN x ELSE status[v]
  BY <1>0 DEF TypeOK, TaskStatus
<1>2. \A v \in Task :
          status'[v] = IF f[v] \in {"queued", "ready"} /\ Least(v)
                       THEN "blocked_dependency" ELSE f[v]
  BY DEF blockFailedDependencies
<1>3. \A v \in Task : \A d \in Deps[v] :
          /\ f[v] \in {"queued", "ready"}
          /\ f[d] \in {"failed", "cancelled", "blocked_dependency"} \/ Least(d)
          => status'[v] = "blocked_dependency"
  BY <1>1, LeastIsClosed
<1> HIDE DEF f, Least
<1>4. \A v \in Task : \A d \in Deps[v] : d \in Task /\ LaunchOf[d] = LaunchOf[v]
  BY TaskAssumption
<1>5. \A v \in Task : status'[v] = "completed" <=> status[v] = "completed"
  BY <1>1, <1>2 DEF Begun
<1>6. Started'
  BY <1>1, <1>2 DEF DependInv, Started, Begun
<1>7. PresentOnceSubmitted'
  BY <1>1, <1>2 DEF DependInv, PresentOnceSubmitted
<1>8. DependencySafety'
  BY <1>1, <1>2, <1>4, <1>5 DEF DependInv, DependencySafety
<1>9. QueuedWaits'
  BY <1>1, <1>2, <1>4, <1>5 DEF DependInv, QueuedWaits
<1>10. ASSUME NEW v \in Task, NEW d \in Deps[v],
              status'[d] \in {"cancelled", "blocked_dependency"}
       PROVE  status'[v] \in {"cancelled", "blocked_dependency"}
  <2>1. f[d] \in {"cancelled", "blocked_dependency"} \/ Least(d)
    BY <1>2, <1>4, <1>10
  <2>2. CASE f[v] \in {"queued", "ready"}
    BY <1>3, <2>1, <2>2
  <2>3. CASE status[d] \in {"cancelled", "blocked_dependency"}
    <3>1. status[v] \in {"cancelled", "blocked_dependency"}
      BY <2>3 DEF DependInv, BlockingPropagates
    <3> QED
      BY <1>1, <1>2, <3>1 DEF Begun
  <2>4. CASE f[v] \notin {"queued", "ready"} /\ status[d] \notin {"cancelled", "blocked_dependency"}
    <3>1. status[d] \in {"queued", "ready", "resume_queued"}
      BY <1>1, <1>2, <1>4, <1>10, <2>4
    <3>2. AttemptsOf(v) = {} /\ status[v] \notin {"ready", "resume_queued"}
      BY <3>1 DEF DependInv, DependencySafety
    <3>3. launch[LaunchOf[v]] # "none"
      BY <1>4, <3>1 DEF SlotInv, AbsentUntilSubmitted
    <3>4. status[v] \in {"queued", "cancelled", "blocked_dependency"}
      BY <3>2, <3>3 DEF DependInv, Started, PresentOnceSubmitted
    <3> QED
      BY <1>1, <1>2, <2>4, <3>4 DEF Begun
  <2> QED
    BY <2>2, <2>3, <2>4
<1>11. BlockingPropagates'
  BY <1>10 DEF BlockingPropagates
<1> QED
  BY <1>6, <1>7, <1>8, <1>9, <1>11 DEF DependInv

\* A task that fails, for good or not.
LEMMA DependFailed ==
    ASSUME SlotInv, DependInv, SubmittedFirst', NEW t \in Task, status[t] \in Begun,
           status' = FailedStatus(t),
           launch' = launch, \A u \in Task : AttemptsOf(u)' = AttemptsOf(u)
    PROVE  DependInv'
<1>1. CASE status' = blockFailedDependencies([status EXCEPT ![t] = "failed"])
  BY <1>1, DependBlocked
<1>2. CASE status' = [status EXCEPT ![t] = "failed"]
  <2>1. TypeOK /\ status'[t] = "failed" /\ \A u \in Task : u # t => status'[u] = status[u]
    BY <1>2 DEF SlotInv, TypeOK
  <2> QED
    BY <2>1, DependPlain DEF Begun
<1> QED
  BY <1>1, <1>2 DEF FailedStatus

\* A claim does not disturb the dependencies.
LEMMA DependClaimed ==
    ASSUME SlotInv, DependInv, SubmittedFirst', NEW t \in Task,
           NEW n \in AttemptNo, NEW q \in {0} \cup Segment, Claims(t, n, q)
    PROVE  DependInv'
<1>0. TypeOK
  BY DEF SlotInv
<1>1. /\ status[t] \in {"ready", "resume_queued"} /\ status'[t] = "running"
      /\ \A u \in Task : u # t => status'[u] = status[u]
      /\ launch' = launch
  BY DEF Claims
<1>2. \A u \in Task : u # t => AttemptsOf(u)' = AttemptsOf(u)
  BY DEF Claims, AttemptsOf
<1>3. AttemptsOf(t) \subseteq AttemptsOf(t)' /\ n \in AttemptsOf(t)'
  BY DEF Claims, AttemptsOf
<1> QED
  BY <1>0, <1>1, <1>2, <1>3, DependPlain DEF Begun

\* Steps of hosts, events, reports and stops do not either.
LEMMA DependStirs ==
    ASSUME SlotInv, DependInv, SubmittedFirst', Stirs,
           \A t \in Task : AttemptsOf(t)' = AttemptsOf(t)
    PROVE  DependInv'
<1>1. \A t \in Task :
          \/ status'[t] = status[t]
          \/ /\ status[t] \in Begun \cup {"ready"} /\ status'[t] \in Begun \cup {"ready"}
             /\ status[t] # "ready"
  BY DEF Stirs, TaskStirs, Live, Begun
<1> QED
  BY <1>1, DependPlain DEF SlotInv, Stirs

\* The statuses an exit leaves its task with.
LEMMA ExitStatuses ==
    ASSUME NEW s, NEW m
    PROVE  /\ ExitTaskStatus(s, m) \in {"completed", "result_ready", "waiting_question",
                                        "failed", "interrupted"}
           /\ ExitTaskStatus(s, m) = "failed" <=> seg[s].outcome = "failed"
           /\ ExitTaskStatus(s, m) \in {"completed", "result_ready"} <=>
                  seg[s].outcome = "result"
           /\ ExitTaskStatus(s, m) = "waiting_question" <=> seg[s].outcome = "question"
<1>1. CASE seg[s].outcome = "result"
  <2>1. ExitTaskStatus(s, m) \in {"completed", "result_ready"}
    BY <1>1 DEF ExitTaskStatus
  <2> QED
    BY <1>1, <2>1
<1>2. CASE seg[s].outcome = "question"
  <2>1. ExitTaskStatus(s, m) = "waiting_question"
    BY <1>2 DEF ExitTaskStatus
  <2> QED
    BY <1>2, <2>1
<1>3. CASE seg[s].outcome = "failed"
  <2>1. ExitTaskStatus(s, m) = "failed"
    BY <1>3 DEF ExitTaskStatus
  <2> QED
    BY <1>3, <2>1
<1>4. CASE seg[s].outcome \notin {"result", "question", "failed"}
  <2>1. ExitTaskStatus(s, m) = "interrupted"
    BY <1>4 DEF ExitTaskStatus
  <2> QED
    BY <1>4, <2>1
<1> QED
  BY <1>1, <1>2, <1>3, <1>4

\* An exit releases, blocks or leaves alone what depends on its task.
LEMMA DependExit ==
    ASSUME SlotInv, DependInv, SubmittedFirst', NEW s \in Segment,
           NEW u \in ActiveReport, NEW m \in BOOLEAN, applyExit(s, u, m),
           \A t \in Task : AttemptsOf(t)' = AttemptsOf(t)
    PROVE  DependInv'
<1> DEFINE a == seg[s].task
           after == ExitTaskStatus(s, m)
<1>1. /\ TypeOK /\ a \in Task /\ status[a] \in Begun
      /\ launch' = launch
  BY ActiveIsLive DEF applyExit, SlotInv, Live, Begun, hostVars
<1>2. CASE after = "completed"
  <2>1. releaseReady([status EXCEPT ![a] = "completed"])
    BY <1>2 DEF applyExit
  <2> QED
    BY <1>1, <2>1, DependReleased
<1>3. CASE after # "completed"
  <2>1. status' = IF after = "failed" THEN FailedStatus(a) ELSE [status EXCEPT ![a] = after]
    BY <1>3 DEF applyExit
  <2>2. CASE after = "failed"
    BY <1>1, <2>1, <2>2, DependFailed
  <2>3. CASE after # "failed"
    <3>1. after \in Begun
      BY <1>3, <2>3, ExitStatuses DEF Begun
    <3> HIDE DEF after, a
    <3>2. status'[a] = after /\ \A t \in Task : t # a => status'[t] = status[t]
      BY <1>1, <2>1, <2>3 DEF TypeOK
    <3>3. \A t \in Task :
              \/ status'[t] = status[t]
              \/ /\ status[t] \in Begun \cup {"ready"} /\ status'[t] \in Begun \cup {"ready"}
                 /\ status[t] # "ready"
      BY <1>1, <3>1, <3>2 DEF Begun
    <3> QED
      BY <1>1, <3>3, DependPlain
  <2> QED
    BY <2>2, <2>3
<1> QED
  BY <1>2, <1>3

\* Decisions release, block or leave alone.
LEMMA DependDecision ==
    ASSUME SlotInv, DependInv, SubmittedFirst', NEW t \in Task,
           \/ QueueResume(t)
           \/ \E s \in Segment : AnswerQuestion(t, s)
           \/ \E s \in Segment : AcceptResult(t, s)
           \/ \E s \in Segment : RejectResult(t, s)
           \/ \E e \in events, b \in BOOLEAN : QueueRetry(t, e, b)
           \/ CancelTask(t),
           \A u \in Task : AttemptsOf(u)' = AttemptsOf(u)
    PROVE  DependInv'
<1>0. TypeOK /\ launch' = launch
  BY DEF SlotInv, QueueResume, AnswerQuestion, AcceptResult, RejectResult, QueueRetry,
     CancelTask, hostVars
<1>1. ASSUME NEW x \in {"ready", "resume_queued"}, takeReadySequence(t, x),
             status[t] \in Begun
      PROVE  DependInv'
  <2>1. status'[t] = x /\ \A v \in Task : v # t => status'[v] = status[v]
    BY <1>0, <1>1 DEF takeReadySequence, TypeOK
  <2>2. \A v \in Task :
            \/ status'[v] = status[v]
            \/ /\ status[v] \in Begun \cup {"ready"} /\ status'[v] \in Begun \cup {"ready"}
               /\ status[v] # "ready"
    BY <1>1, <2>1 DEF Begun
  <2> QED
    BY <1>0, <2>2, DependPlain
<1>2. CASE QueueResume(t)
  BY <1>1, <1>2 DEF QueueResume, Begun
<1>3. ASSUME NEW s \in Segment, AnswerQuestion(t, s)
      PROVE  DependInv'
  BY <1>1, <1>3 DEF AnswerQuestion, Begun
<1>4. ASSUME NEW s \in Segment, AcceptResult(t, s)
      PROVE  DependInv'
  <2>1. releaseReady([status EXCEPT ![t] = "completed"]) /\ status[t] \in Begun
    BY <1>4 DEF AcceptResult, ReviewAllowed, Begun
  <2> QED
    BY <1>0, <2>1, DependReleased
<1>5. ASSUME NEW s \in Segment, RejectResult(t, s)
      PROVE  DependInv'
  <2>1. status' = FailedStatus(t) /\ status[t] \in Begun
    BY <1>5 DEF RejectResult, ReviewAllowed, Begun
  <2> QED
    BY <1>0, <2>1, DependFailed
<1>6. ASSUME NEW e \in events, NEW b \in BOOLEAN, QueueRetry(t, e, b)
      PROVE  DependInv'
  BY <1>1, <1>6 DEF QueueRetry, RetryAllowed, Begun
<1>7. CASE CancelTask(t)
  <2>1. /\ status' = blockFailedDependencies([status EXCEPT ![t] = "cancelled"])
        /\ status[t] \in {"queued", "ready", "resume_queued"}
    BY <1>7 DEF CancelTask
  <2> QED
    BY <1>0, <2>1, DependBlocked
<1> QED
  BY <1>2, <1>3, <1>4, <1>5, <1>6, <1>7

-----------------------------------------------------------------------------
(* Statuses from step to step *)

\* Finished tasks stay as they are, and a task that is ready or waits to be
\* resumed only leaves the queue cancelled or blocked, unless it is claimed.
StatusHolds(t) ==
    /\ status[t] \in {"completed", "cancelled", "blocked_dependency"} =>
           status'[t] = status[t]
    /\ status[t] = "ready" => status'[t] \in {"ready", "cancelled", "blocked_dependency"}
    /\ status[t] = "resume_queued" => status'[t] \in {"resume_queued", "cancelled"}

\* A task that only the fate of another one moves.
Follows(t) ==
    \/ status'[t] = status[t]
    \/ status[t] \in {"queued", "ready"} /\ status'[t] \in {"ready", "blocked_dependency"}

\* A task that is only released or blocked keeps what its status asks for.
LEMMA FollowsHolds ==
    ASSUME NEW t, Follows(t), status[t] = "queued" \/ status'[t] # "ready" \/ status'[t] = status[t]
    PROVE  StatusHolds(t)
BY DEF Follows, StatusHolds

\* What a decision does to the statuses: its own task moves on, the others
\* are at most released or blocked.
LEMMA DecisionMoves ==
    ASSUME SlotInv, NEW t \in Task,
           \/ QueueResume(t)
           \/ \E s \in Segment : AnswerQuestion(t, s)
           \/ \E s \in Segment : AcceptResult(t, s)
           \/ \E s \in Segment : RejectResult(t, s)
           \/ \E e \in events, b \in BOOLEAN : QueueRetry(t, e, b)
           \/ CancelTask(t)
    PROVE  /\ \A v \in Task : v # t => Follows(v) /\ StatusHolds(v)
           /\ QueueResume(t) =>
                  status[t] = "interrupted" /\ status'[t] = "resume_queued"
           /\ (\E s \in Segment : AnswerQuestion(t, s)) =>
                  status[t] = "waiting_question" /\ status'[t] = "resume_queued"
           /\ (\E s \in Segment : AcceptResult(t, s)) =>
                  status[t] = "result_ready" /\ status'[t] = "completed"
           /\ (\E s \in Segment : RejectResult(t, s)) =>
                  status[t] = "result_ready" /\ status'[t] = "failed"
           /\ (\E e \in events, b \in BOOLEAN : QueueRetry(t, e, b)) =>
                  status[t] = "failed" /\ status'[t] = "ready"
           /\ CancelTask(t) =>
                  /\ status[t] \in {"queued", "ready", "resume_queued"}
                  /\ status'[t] = "cancelled"
<1>0. TypeOK
  BY DEF SlotInv
<1> DEFINE Others == \A v \in Task : v # t => Follows(v) /\ StatusHolds(v)
<1>1. ASSUME NEW x, takeReadySequence(t, x)
      PROVE  status'[t] = x /\ Others
  <2>1. status'[t] = x /\ \A v \in Task : v # t => status'[v] = status[v]
    BY <1>0, <1>1 DEF takeReadySequence, TypeOK
  <2> QED
    BY <2>1, FollowsHolds DEF Follows
<1>2. ASSUME NEW x \in TaskStatus \ {"queued"},
             releaseReady([status EXCEPT ![t] = x])
      PROVE  status'[t] = x /\ Others
  <2> DEFINE f == [status EXCEPT ![t] = x]
  <2>1. f \in [Task -> TaskStatus] /\ \A v \in Task : f[v] = IF v = t THEN x ELSE status[v]
    BY <1>0 DEF TypeOK
  <2>2. releaseReady(f)
    BY <1>2
  <2> HIDE DEF f
  <2>3. \A v \in Task : \/ status'[v] = f[v]
                        \/ f[v] = "queued" /\ status'[v] = "ready"
    BY <2>1, <2>2, ReleaseMoves
  <2>4. status'[t] = x
    BY <2>1, <2>3
  <2>5. \A v \in Task : v # t => \/ status'[v] = status[v]
                                 \/ status[v] = "queued" /\ status'[v] = "ready"
    BY <2>1, <2>3
  <2>6. \A v \in Task : v # t => Follows(v) /\ (status[v] = "queued" \/ status'[v] = status[v])
    BY <2>5 DEF Follows
  <2> QED
    BY <2>4, <2>6, FollowsHolds
<1>3. ASSUME \A v \in Task : v # t =>
                 \/ status'[v] = status[v]
                 \/ status[v] \in {"queued", "ready"} /\ status'[v] = "blocked_dependency"
      PROVE  Others
  <2>1. \A v \in Task : v # t =>
            Follows(v) /\ (status'[v] # "ready" \/ status'[v] = status[v])
    BY <1>3 DEF Follows
  <2> QED
    BY <2>1, FollowsHolds
<1>4. ASSUME QueueResume(t)
      PROVE  status[t] = "interrupted" /\ status'[t] = "resume_queued" /\ Others
  BY <1>1, <1>4 DEF QueueResume
<1>5. ASSUME NEW s \in Segment, AnswerQuestion(t, s)
      PROVE  status[t] = "waiting_question" /\ status'[t] = "resume_queued" /\ Others
  BY <1>1, <1>5 DEF AnswerQuestion
<1>6. ASSUME NEW s \in Segment, AcceptResult(t, s)
      PROVE  status[t] = "result_ready" /\ status'[t] = "completed" /\ Others
  <2>1. releaseReady([status EXCEPT ![t] = "completed"]) /\ status[t] = "result_ready"
    BY <1>6 DEF AcceptResult, ReviewAllowed
  <2>2. "completed" \in TaskStatus \ {"queued"}
    BY DEF TaskStatus
  <2> QED
    BY <1>2, <2>1, <2>2
<1>7. ASSUME NEW s \in Segment, RejectResult(t, s)
      PROVE  status[t] = "result_ready" /\ status'[t] = "failed" /\ Others
  <2>1. status' = FailedStatus(t) /\ status[t] = "result_ready"
    BY <1>7 DEF RejectResult, ReviewAllowed
  <2>2. \A v \in Task :
            \/ status'[v] = status[v] /\ v # t
            \/ status'[v] = "failed" /\ v = t
            \/ /\ status[v] \in {"queued", "ready"} /\ v # t
               /\ status'[v] = "blocked_dependency"
    BY <1>0, <2>1, FailedMoves
  <2> QED
    BY <1>3, <2>1, <2>2
<1>8. ASSUME NEW e \in events, NEW b \in BOOLEAN, QueueRetry(t, e, b)
      PROVE  status[t] = "failed" /\ status'[t] = "ready" /\ Others
  BY <1>1, <1>8 DEF QueueRetry, RetryAllowed
<1>9. ASSUME CancelTask(t)
      PROVE  /\ status[t] \in {"queued", "ready", "resume_queued"}
             /\ status'[t] = "cancelled" /\ Others
  <2> DEFINE f == [status EXCEPT ![t] = "cancelled"]
  <2>1. /\ status' = blockFailedDependencies(f)
        /\ status[t] \in {"queued", "ready", "resume_queued"}
    BY <1>9 DEF CancelTask
  <2>2. f \in [Task -> TaskStatus]
    BY <1>0 DEF TypeOK, TaskStatus
  <2>3. \A v \in Task : f[v] = IF v = t THEN "cancelled" ELSE status[v]
    BY <1>0 DEF TypeOK
  <2> HIDE DEF f
  <2>4. \A v \in Task : \/ status'[v] = f[v]
                        \/ /\ f[v] \in {"queued", "ready"}
                           /\ status'[v] = "blocked_dependency"
    BY <2>1, <2>2, BlockMoves
  <2> QED
    BY <1>3, <2>1, <2>3, <2>4
<1>10. Others
  BY <1>4, <1>5, <1>6, <1>7, <1>8, <1>9
<1>11. Others => \A v \in Task : v # t => Follows(v) /\ StatusHolds(v)
  OBVIOUS
<1> HIDE DEF Others
<1> QED
  BY <1>4, <1>5, <1>6, <1>7, <1>8, <1>9, <1>10, <1>11

\* The same of an exit.
LEMMA ExitFollows ==
    ASSUME SlotInv, NEW s \in Segment, NEW u \in ActiveReport, NEW m \in BOOLEAN,
           applyExit(s, u, m)
    PROVE  /\ status[seg[s].task] \in Live
           /\ status'[seg[s].task] = ExitTaskStatus(s, m)
           /\ \A v \in Task : v # seg[s].task => Follows(v) /\ StatusHolds(v)
<1> DEFINE a == seg[s].task
           after == ExitTaskStatus(s, m)
<1>0. TypeOK /\ a \in Task /\ status[a] \in Live
  BY ActiveIsLive DEF applyExit, SlotInv
<1>1. status'[a] = after
  BY <1>0, ExitMoves
<1>2. CASE after = "completed"
  <2> DEFINE f == [status EXCEPT ![a] = "completed"]
  <2>1. releaseReady(f)
    BY <1>2 DEF applyExit
  <2>2. f \in [Task -> TaskStatus]
    BY <1>0 DEF TypeOK, TaskStatus
  <2>3. \A v \in Task : f[v] = IF v = a THEN "completed" ELSE status[v]
    BY <1>0 DEF TypeOK
  <2> HIDE DEF f
  <2>4. \A v \in Task : \/ status'[v] = f[v]
                        \/ f[v] = "queued" /\ status'[v] = "ready"
    BY <2>1, <2>2, ReleaseMoves
  <2>5. \A v \in Task : v # a => Follows(v) /\ (status[v] = "queued" \/ status'[v] = status[v])
    BY <2>3, <2>4 DEF Follows
  <2> QED
    BY <1>0, <1>1, <2>5, FollowsHolds
<1>3. CASE after # "completed"
  <2>1. status' = IF after = "failed" THEN FailedStatus(a) ELSE [status EXCEPT ![a] = after]
    BY <1>3 DEF applyExit
  <2>2. CASE after = "failed"
    <3>1. \A v \in Task :
              \/ status'[v] = status[v] /\ v # a
              \/ status'[v] = "failed" /\ v = a
              \/ /\ status[v] \in {"queued", "ready"} /\ v # a
                 /\ status'[v] = "blocked_dependency"
      BY <1>0, <2>1, <2>2, FailedMoves
    <3>2. \A v \in Task : v # a =>
              Follows(v) /\ (status'[v] # "ready" \/ status'[v] = status[v])
      BY <3>1 DEF Follows
    <3> QED
      BY <1>0, <1>1, <3>2, FollowsHolds
  <2>3. CASE after # "failed"
    <3>1. \A v \in Task : v # a => status'[v] = status[v]
      BY <1>0, <2>1, <2>3 DEF TypeOK
    <3> QED
      BY <1>0, <1>1, <3>1, FollowsHolds DEF Follows
  <2> QED
    BY <2>2, <2>3
<1> QED
  BY <1>2, <1>3

-----------------------------------------------------------------------------
(* Questions and answers *)

\* A question that does not stir was asked by a used row.
LEMMA AskedRow ==
    ASSUME SlotInv, RowInv, NEW q \in Segment, question[q].st # "none"
    PROVE  /\ Used(q) /\ seg[q].task \in Task /\ seg[q].no \in AttemptNo
           /\ q \in SegmentsOf(seg[q].task)
           /\ seg[q].outcome # "none"
BY SegmentTask DEF RowInv, QuestionHasOutcome, SlotInv, SegmentsOf, Used

\* Steps of hosts, events, reports and stops leave answers where they are.
LEMMA AnswersStir ==
    ASSUME SlotInv, RowInv, AnswerInv, Stirs,
           \A t \in Task : AttemptsOf(t)' = AttemptsOf(t)
    PROVE  AnswerInv'
<1>1. \A s \in Segment : RowStirs(s)
  BY DEF Stirs
<1>2. \A s \in Segment : question[s].st # "none" => question'[s] = question[s]
  BY <1>1 DEF RowStirs, QuestionStirs, RowInv, QuestionHasOutcome
<1>3. \A s \in Segment :
          question'[s].st \in {"resume_queued", "resume_started"} =>
              question'[s] = question[s]
  BY <1>1 DEF RowStirs, QuestionStirs
<1>4. \A s \in Segment : /\ Active(s)' <=> Active(s)
                         /\ seg'[s].task = seg[s].task /\ seg'[s].no = seg[s].no
                         /\ seg'[s].ask = seg[s].ask
  BY <1>1 DEF RowStirs, RowStands, Active
<1>5. \A s \in Segment : seg[s].ask \in {0} \cup Segment /\ seg[s].task \in Task
  BY DEF SlotInv, TypeOK, SegmentRow
<1>6. \A t \in Task : /\ status[t] \in {"resume_queued", "cancelled"} =>
                             status'[t] = status[t]
                      /\ status'[t] = "resume_queued" => status[t] = "resume_queued"
                      /\ ActiveOf(t)' = ActiveOf(t)
  BY <1>4 DEF Stirs, TaskStirs, Live, ActiveOf, ActiveSegments, Active
<1>7. AskedIsStarted'
  BY <1>2, <1>4, <1>5 DEF AnswerInv, AskedIsStarted
<1>8. QuestionIsOpen'
  <2> SUFFICES ASSUME NEW s \in Segment, Active(s)', seg'[s].outcome = "question"
               PROVE  question'[s].st = "open"
    BY DEF QuestionIsOpen
  <2>1. CASE seg[s].outcome = "question"
    BY <1>2, <1>4, <2>1 DEF AnswerInv, QuestionIsOpen
  <2>2. CASE seg[s].outcome # "question"
    BY <1>1, <2>2 DEF RowStirs, OutcomeMoves
  <2> QED
    BY <2>1, <2>2
<1>9. OneAnswerWaits'
  BY <1>3, <1>4 DEF AnswerInv, OneAnswerWaits
<1>10. AnswerOfLatest'
  BY <1>3, <1>4, <1>5, <1>6 DEF AnswerInv, AnswerOfLatest, IsLatestAttempt
<1>11. AnswerCarried'
  <2> SUFFICES ASSUME NEW r \in Segment
               PROVE  /\ question'[r].st = "resume_queued" =>
                             status'[seg'[r].task] \in {"resume_queued", "cancelled"}
                      /\ question'[r].st = "resume_started" =>
                             \E s \in ActiveOf(seg[r].task)' : seg'[s].ask = r
    BY DEF AnswerCarried
  <2>1. ASSUME question'[r].st = "resume_queued"
        PROVE  status'[seg'[r].task] \in {"resume_queued", "cancelled"}
    <3>1. status[seg[r].task] \in {"resume_queued", "cancelled"}
      BY <1>3, <2>1 DEF AnswerInv, AnswerCarried
    <3> QED
      BY <1>4, <1>5, <1>6, <3>1
  <2>2. ASSUME question'[r].st = "resume_started"
        PROVE  \E s \in ActiveOf(seg[r].task)' : seg'[s].ask = r
    <3>1. PICK s \in ActiveOf(seg[r].task) : seg[s].ask = r
      BY <1>3, <2>2 DEF AnswerInv, AnswerCarried
    <3>2. s \in Segment /\ Active(s) /\ seg[s].task = seg[r].task
      BY DEF ActiveOf, ActiveSegments, Active
    <3>3. s \in ActiveOf(seg[r].task)'
      BY <1>4, <3>2 DEF ActiveOf, ActiveSegments, Active
    <3> QED
      BY <1>4, <3>1, <3>2, <3>3
  <2> QED
    BY <2>1, <2>2
<1> QED
  BY <1>7, <1>8, <1>9, <1>10, <1>11 DEF AnswerInv

\* A decision other than an answer leaves them there too: a task that waits
\* to be resumed with an answer is not resumed a second time.
LEMMA AnswersDecided ==
    ASSUME SlotInv, RowInv, AnswerInv, UNCHANGED <<seg, question>>,
           \A t \in Task : AttemptsOf(t)' = AttemptsOf(t),
           \A t \in Task :
               /\ StatusHolds(t)
               /\ status'[t] = "resume_queued" =>
                      status[t] \in {"resume_queued", "interrupted"}
    PROVE  AnswerInv'
<1>1. \A s \in Segment : seg[s].task \in Task
  BY SegmentTask DEF SlotInv
<1>2. \A s \in Segment : Active(s)' <=> Active(s)
  BY DEF Active
<1>3. \A t \in Task : /\ ActiveOf(t)' = ActiveOf(t)
                      /\ \A n : IsLatestAttempt(t, n)' <=> IsLatestAttempt(t, n)
  BY DEF ActiveOf, ActiveSegments, IsLatestAttempt
<1>4. AskedIsStarted' /\ QuestionIsOpen' /\ OneAnswerWaits'
  BY <1>2 DEF AnswerInv, AskedIsStarted, QuestionIsOpen, OneAnswerWaits
<1>5. AnswerOfLatest'
  BY <1>1, <1>3 DEF AnswerInv, AnswerOfLatest, AnswerCarried
<1>6. AnswerCarried'
  BY <1>1, <1>3 DEF AnswerInv, AnswerCarried, StatusHolds
<1> QED
  BY <1>4, <1>5, <1>6 DEF AnswerInv

\* The newest row of a task belongs to its latest attempt.
LEMMA NewestIsLatest ==
    ASSUME SlotInv, RowInv, NEW t \in Task, NEW s \in Segment, IsLatest(s, t)
    PROVE  IsLatestAttempt(t, seg[s].no)
<1>1. Used(s) /\ seg[s].task = t /\ seg[s].no \in AttemptNo
  BY SegmentTask DEF IsLatest, SegmentsOf, Used, SlotInv
<1>2. seg[s].no \in AttemptsOf(t)
  BY <1>1 DEF RowInv, RowHasAttempt, AttemptsOf
<1>3. ASSUME NEW m \in AttemptsOf(t)
      PROVE  m <= seg[s].no
  <2>1. PICK r \in Segment : Used(r) /\ seg[r].task = t /\ seg[r].no = m
    BY DEF RowInv, AttemptHasRow, AttemptsOf
  <2>2. r <= s
    BY <2>1 DEF IsLatest, SegmentsOf, Used
  <2>3. CASE r = s
    BY <1>1, <2>1, <2>3 DEF AttemptNo
  <2>4. CASE r # s
    <3>1. r < s
      BY <2>2, <2>4 DEF Segment
    <3> QED
      BY <1>1, <2>1, <3>1 DEF RowInv, NumbersGrow
  <2> QED
    BY <2>3, <2>4
<1> QED
  BY <1>2, <1>3 DEF IsLatestAttempt

\* An answer waits with the task: there was no other, as the task was not
\* waiting to be resumed.
LEMMA AnswersAnswered ==
    ASSUME SlotInv, RowInv, AnswerInv, NEW t \in Task, NEW s \in Segment,
           AnswerQuestion(t, s), StatusHolds(t),
           \A v \in Task : v # t => Follows(v) /\ StatusHolds(v),
           status[t] = "waiting_question", status'[t] = "resume_queued",
           \A u \in Task : AttemptsOf(u)' = AttemptsOf(u)
    PROVE  AnswerInv'
<1>0. TypeOK
  BY DEF SlotInv
<1>1. /\ seg' = seg /\ question[s].st = "open"
      /\ question' = [question EXCEPT ![s].st = "resume_queued"]
      /\ IsLatest(s, t)
  BY DEF AnswerQuestion
<1>2. /\ question'[s].st = "resume_queued"
      /\ \A r \in Segment : r # s => question'[r] = question[r]
  BY <1>0, <1>1 DEF TypeOK, QuestionRow
<1>3. /\ \A r \in Segment : seg[r].task \in Task
      /\ seg[s].task = t
  BY <1>0, <1>1, SegmentTask DEF IsLatest, SegmentsOf
<1>4. \A r \in Segment : Active(r)' <=> Active(r)
  BY <1>1 DEF Active
<1>5. \A u \in Task : /\ ActiveOf(u)' = ActiveOf(u)
                      /\ \A n : IsLatestAttempt(u, n)' <=> IsLatestAttempt(u, n)
  BY <1>1 DEF ActiveOf, ActiveSegments, IsLatestAttempt
<1>6. \A r \in Segment : seg[r].task = t => question[r].st # "resume_queued"
  BY DEF AnswerInv, AnswerCarried
<1>7. \A r \in Segment : Active(r) => r # s
  <2>1. ActiveOf(t) = {}
    BY DEF AnswerQuestion
  <2> QED
    BY <1>3, <2>1 DEF ActiveOf, ActiveSegments, Active
<1>8. AskedIsStarted'
  BY <1>1, <1>2, <1>4 DEF AnswerInv, AskedIsStarted
<1>9. QuestionIsOpen'
  BY <1>1, <1>2, <1>4, <1>7 DEF AnswerInv, QuestionIsOpen
<1>10. OneAnswerWaits'
  BY <1>1, <1>2, <1>3, <1>6 DEF AnswerInv, OneAnswerWaits
<1>11. AnswerOfLatest'
  <2> SUFFICES ASSUME NEW r \in Segment, question'[r].st = "resume_queued",
                      status'[seg[r].task] = "resume_queued"
               PROVE  IsLatestAttempt(seg[r].task, seg[r].no)
    BY <1>1, <1>3, <1>5 DEF AnswerOfLatest
  <2>1. CASE r = s
    BY <1>1, <1>3, <2>1, NewestIsLatest
  <2>2. CASE r # s
    <3>1. question[r].st = "resume_queued" /\ seg[r].task # t
      BY <1>2, <1>6, <2>2
    <3>2. status[seg[r].task] = "resume_queued"
      BY <1>3, <3>1 DEF Follows
    <3> QED
      BY <3>1, <3>2 DEF AnswerInv, AnswerOfLatest
  <2> QED
    BY <2>1, <2>2
<1>12. AnswerCarried'
  BY <1>1, <1>2, <1>3, <1>5 DEF AnswerInv, AnswerCarried, StatusHolds
<1> QED
  BY <1>8, <1>9, <1>10, <1>11, <1>12 DEF AnswerInv

\* A claim takes the answer that waits for it, and there is no second one.
LEMMA AnswersClaimed ==
    ASSUME SlotInv, RowInv, AnswerInv, NEW t \in Task, NEW n \in AttemptNo,
           NEW q \in {0} \cup Segment, Claims(t, n, q)
    PROVE  AnswerInv'
<1>x. PICK x \in Segment : x = nextSeg
  BY DEF Claims
<1>0. \A s \in Segment : seg[s].task \in Task /\ seg[s].ask \in {0} \cup Segment
  BY DEF SlotInv, TypeOK, SegmentRow
<1>1. /\ ~ Used(x) /\ Active(x)'
      /\ \A s \in Segment : s # x => seg'[s] = seg[s]
      /\ seg'[x].task = t /\ seg'[x].no = n /\ seg'[x].ask = q
      /\ seg'[x].outcome = "none"
  BY <1>x DEF Claims, Used, Active, Occupying, Segment
<1>2. /\ \A s \in Segment : s = q => question'[s].st = "resume_started"
      /\ \A s \in Segment : s # q => question'[s] = question[s]
  BY DEF Claims
<1>3. /\ \A u \in Task : u # t => /\ status'[u] = status[u]
                                  /\ AttemptsOf(u)' = AttemptsOf(u)
      /\ status[t] \in {"ready", "resume_queued"} /\ status'[t] = "running"
  BY DEF Claims, AttemptsOf
<1>4. \A s \in Segment : question[s].st # "none" => s # x /\ seg'[s] = seg[s]
  BY <1>1 DEF RowInv, QuestionHasOutcome
<1>5. q # 0 => /\ q \in Segment /\ question[q].st = "resume_queued"
               /\ seg[q].task = t /\ seg[q].no = n
  BY DEF Claims, ClaimedQuestion, QuestionsIn, SegmentsOf
<1>6. \A r \in Segment : r # q /\ question[r].st = "resume_queued" => seg[r].task # t
  <2> SUFFICES ASSUME NEW r \in Segment, r # q, question[r].st = "resume_queued",
                      seg[r].task = t
               PROVE  FALSE
    OBVIOUS
  <2>1. status[t] = "resume_queued"
    BY <1>3 DEF AnswerInv, AnswerCarried
  <2>2. IsLatestAttempt(t, seg[r].no) /\ IsLatestAttempt(t, n)
    BY <2>1 DEF AnswerInv, AnswerOfLatest, Claims, ClaimAttempt
  <2>3. seg[r].no = n
    BY <2>2 DEF IsLatestAttempt, AttemptsOf, AttemptNo
  <2>4. r \in QuestionsIn(t, n, "resume_queued")
    BY <2>3, AskedRow DEF QuestionsIn
  <2>5. q # 0
    <3>1. \/ QuestionsIn(t, n, "resume_queued") = {} /\ q = 0
          \/ q \in QuestionsIn(t, n, "resume_queued")
      BY <2>1 DEF Claims, ClaimedQuestion
    <3>2. \A p \in QuestionsIn(t, n, "resume_queued") : p \in Segment
      BY DEF QuestionsIn, SegmentsOf
    <3> QED
      BY <2>4, <3>1, <3>2 DEF Segment
  <2> QED
    BY <1>5, <2>5 DEF AnswerInv, OneAnswerWaits
<1>7. \A s \in Segment : s # x => (Active(s)' <=> Active(s))
  BY <1>1 DEF Active
<1>8. \A s \in Segment : Active(s) => s # x
  BY <1>1 DEF Active, Used, Occupying
<1>9. AskedIsStarted'
  <2> SUFFICES ASSUME NEW s \in Segment, Active(s)', seg'[s].ask # 0
               PROVE  /\ question'[seg'[s].ask].st = "resume_started"
                      /\ seg'[seg'[s].ask].task = seg'[s].task
                      /\ seg'[seg'[s].ask].no = seg'[s].no
    BY DEF AskedIsStarted
  <2>1. CASE s = x
    BY <1>1, <1>2, <1>4, <1>5, <2>1
  <2>2. CASE s # x
    <3>1. Active(s) /\ seg'[s] = seg[s]
      BY <1>1, <1>7, <2>2
    <3>2. /\ question[seg[s].ask].st = "resume_started"
          /\ seg[seg[s].ask].task = seg[s].task
          /\ seg[seg[s].ask].no = seg[s].no
          /\ seg[s].ask \in Segment
      BY <1>0, <3>1 DEF AnswerInv, AskedIsStarted
    <3>3. question'[seg[s].ask].st = "resume_started" /\ seg'[seg[s].ask] = seg[seg[s].ask]
      BY <1>2, <1>4, <3>2
    <3> QED
      BY <3>1, <3>2, <3>3
  <2> QED
    BY <2>1, <2>2
<1>10. QuestionIsOpen'
  <2> SUFFICES ASSUME NEW s \in Segment, Active(s)', seg'[s].outcome = "question"
               PROVE  question'[s].st = "open"
    BY DEF QuestionIsOpen
  <2>1. s # x
    BY <1>1
  <2>2. question[s].st = "open"
    BY <1>1, <1>7, <2>1 DEF AnswerInv, QuestionIsOpen
  <2>3. s # q
    BY <1>5, <2>2 DEF Segment
  <2> QED
    BY <1>2, <2>2, <2>3
<1>11. OneAnswerWaits'
  BY <1>2, <1>4 DEF AnswerInv, OneAnswerWaits
<1>12. AnswerOfLatest'
  <2> SUFFICES ASSUME NEW r \in Segment, question'[r].st = "resume_queued",
                      status'[seg'[r].task] = "resume_queued"
               PROVE  IsLatestAttempt(seg[r].task, seg[r].no)'
    BY DEF AnswerOfLatest
  <2>1. r # q /\ question[r].st = "resume_queued" /\ seg'[r] = seg[r]
    BY <1>2, <1>4
  <2>2. seg[r].task # t /\ seg[r].task \in Task
    BY <1>0, <1>6, <2>1
  <2>3. IsLatestAttempt(seg[r].task, seg[r].no)
    BY <1>3, <2>1, <2>2 DEF AnswerInv, AnswerOfLatest
  <2> QED
    BY <1>3, <2>1, <2>2, <2>3 DEF IsLatestAttempt, AttemptsOf
<1>13. AnswerCarried'
  <2> SUFFICES ASSUME NEW r \in Segment
               PROVE  /\ question'[r].st = "resume_queued" =>
                             status'[seg'[r].task] \in {"resume_queued", "cancelled"}
                      /\ question'[r].st = "resume_started" =>
                             \E s \in ActiveOf(seg[r].task)' : seg'[s].ask = r
    BY DEF AnswerCarried
  <2>1. ASSUME question'[r].st = "resume_queued"
        PROVE  status'[seg'[r].task] \in {"resume_queued", "cancelled"}
    <3>1. r # q /\ question[r].st = "resume_queued" /\ seg'[r] = seg[r]
      BY <1>2, <1>4, <2>1
    <3> QED
      BY <1>0, <1>3, <1>6, <3>1 DEF AnswerInv, AnswerCarried
  <2>2. ASSUME question'[r].st = "resume_started"
        PROVE  \E s \in ActiveOf(seg[r].task)' : seg'[s].ask = r
    <3>1. CASE r = q
      <4>1. seg'[r].task = t
        BY <1>4, <1>5, <3>1 DEF Segment
      <4>2. x \in ActiveOf(t)'
        BY <1>1 DEF ActiveOf, ActiveSegments, Active
      <4> QED
        BY <1>1, <3>1, <4>1, <4>2
    <3>2. CASE r # q
      <4>1. question[r].st = "resume_started" /\ seg'[r] = seg[r]
        BY <1>2, <1>4, <2>2, <3>2
      <4>2. PICK s \in ActiveOf(seg[r].task) : seg[s].ask = r
        BY <4>1 DEF AnswerInv, AnswerCarried
      <4>3. s \in Segment /\ Active(s) /\ seg[s].task = seg[r].task
        BY DEF ActiveOf, ActiveSegments, Active
      <4>4. seg'[s] = seg[s]
        BY <1>1, <1>8, <4>3
      <4>5. s \in ActiveOf(seg[r].task)'
        BY <4>1, <4>3, <4>4 DEF ActiveOf, ActiveSegments, Active
      <4> QED
        BY <4>2, <4>4, <4>5
    <3> QED
      BY <3>1, <3>2
  <2> QED
    BY <2>1, <2>2
<1> QED
  BY <1>9, <1>10, <1>11, <1>12, <1>13 DEF AnswerInv

\* The exit of the segment an answer was given to resolves the question; the
\* answers of other tasks stay where they are.
LEMMA AnswersExit ==
    ASSUME SlotInv, RowInv, AnswerInv, NEW s \in Segment, Ends(s),
           \A v \in Task : v # seg[s].task => Follows(v) /\ StatusHolds(v),
           status[seg[s].task] \in Live,
           status'[seg[s].task] # "resume_queued",
           \A u \in Task : AttemptsOf(u)' = AttemptsOf(u)
    PROVE  AnswerInv'
<1> DEFINE started == QuestionsIn(seg[s].task, seg[s].no, "resume_started")
<1>0. \A r \in Segment : seg[r].task \in Task /\ seg[r].ask \in {0} \cup Segment
  BY DEF SlotInv, TypeOK, SegmentRow
<1>1. /\ \A r \in Segment : /\ seg'[r].task = seg[r].task /\ seg'[r].no = seg[r].no
                            /\ seg'[r].ask = seg[r].ask
                            /\ seg'[r].outcome = seg[r].outcome
                            /\ Active(r)' <=> Active(r) /\ r # s
      /\ Active(s)
  BY DEF Ends, Active, Occupying
<1>2. /\ \A r \in Segment : r \notin started => question'[r] = question[r]
      /\ \A r \in started : /\ question[r].st = "resume_started"
                            /\ question'[r].st = "resolved"
                            /\ seg[r].task = seg[s].task /\ seg[r].no = seg[s].no
  BY DEF Ends, QuestionsIn, SegmentsOf
<1>3. \A r \in Segment : Active(r) /\ seg[r].task = seg[s].task => r = s
  BY <1>0, <1>1 DEF SlotInv, SlotOwnership, ActiveOf, ActiveSegments, Active
<1>4. \A u \in Task : u # seg[s].task =>
          /\ status[u] \in {"resume_queued", "cancelled"} =>
                 status'[u] \in {"resume_queued", "cancelled"}
          /\ status'[u] = "resume_queued" => status[u] = "resume_queued"
  BY DEF Follows, StatusHolds
<1>5. \A r \in Segment :
          question'[r].st \in {"open", "resume_queued", "resume_started"} =>
              r \notin started /\ question'[r] = question[r]
  BY <1>2
<1>6. \A r \in Segment : question[r].st = "resume_started" /\ r \notin started =>
          seg[r].task # seg[s].task \/ seg[r].no # seg[s].no
  BY AskedRow DEF QuestionsIn
<1> HIDE DEF started
<1>7. AskedIsStarted'
  <2> SUFFICES ASSUME NEW r \in Segment, Active(r)', seg'[r].ask # 0
               PROVE  /\ question'[seg'[r].ask].st = "resume_started"
                      /\ seg'[seg'[r].ask].task = seg'[r].task
                      /\ seg'[seg'[r].ask].no = seg'[r].no
    BY DEF AskedIsStarted
  <2>1. Active(r) /\ r # s /\ seg[r].ask \in Segment /\ seg[r].task # seg[s].task
    BY <1>0, <1>1, <1>3
  <2>2. /\ question[seg[r].ask].st = "resume_started"
        /\ seg[seg[r].ask].task = seg[r].task
        /\ seg[seg[r].ask].no = seg[r].no
    BY <1>1, <2>1 DEF AnswerInv, AskedIsStarted
  <2>3. question'[seg[r].ask] = question[seg[r].ask]
    BY <1>2, <2>1, <2>2
  <2> QED
    BY <1>1, <2>1, <2>2, <2>3
<1>8. QuestionIsOpen'
  BY <1>1, <1>2 DEF AnswerInv, QuestionIsOpen
<1>9. OneAnswerWaits'
  BY <1>1, <1>5 DEF AnswerInv, OneAnswerWaits
<1>10. AnswerOfLatest'
  <2> SUFFICES ASSUME NEW r \in Segment, question'[r].st = "resume_queued",
                      status'[seg'[r].task] = "resume_queued"
               PROVE  IsLatestAttempt(seg[r].task, seg[r].no)'
    BY DEF AnswerOfLatest
  <2>1. question[r].st = "resume_queued" /\ status[seg[r].task] = "resume_queued"
    BY <1>0, <1>1, <1>4, <1>5
  <2>2. IsLatestAttempt(seg[r].task, seg[r].no)
    BY <2>1 DEF AnswerInv, AnswerOfLatest
  <2> QED
    BY <1>0, <1>1, <2>2 DEF IsLatestAttempt, AttemptsOf
<1>11. AnswerCarried'
  <2> SUFFICES ASSUME NEW r \in Segment
               PROVE  /\ question'[r].st = "resume_queued" =>
                             status'[seg'[r].task] \in {"resume_queued", "cancelled"}
                      /\ question'[r].st = "resume_started" =>
                             \E a \in ActiveOf(seg[r].task)' : seg'[a].ask = r
    BY DEF AnswerCarried
  <2>1. ASSUME question'[r].st = "resume_queued"
        PROVE  status'[seg'[r].task] \in {"resume_queued", "cancelled"}
    <3>1. status[seg[r].task] \in {"resume_queued", "cancelled"}
      BY <1>5, <2>1 DEF AnswerInv, AnswerCarried
    <3>2. seg[r].task # seg[s].task
      BY <3>1 DEF Live
    <3> QED
      BY <1>0, <1>1, <1>4, <3>1, <3>2
  <2>2. ASSUME question'[r].st = "resume_started"
        PROVE  \E a \in ActiveOf(seg[r].task)' : seg'[a].ask = r
    <3>1. question[r].st = "resume_started" /\ r \notin started
      BY <1>5, <2>2
    <3>2. PICK a \in ActiveOf(seg[r].task) : seg[a].ask = r
      BY <3>1 DEF AnswerInv, AnswerCarried
    <3>3. a \in Segment /\ Active(a) /\ seg[a].task = seg[r].task
      BY DEF ActiveOf, ActiveSegments, Active
    <3>4. a # s
      <4>1. r # 0
        BY DEF Segment
      <4>2. seg[a].task = seg[r].task /\ seg[a].no = seg[r].no
        BY <3>2, <3>3, <4>1 DEF AnswerInv, AskedIsStarted
      <4> QED
        BY <1>6, <3>1, <4>2
    <3>5. a \in ActiveOf(seg[r].task)'
      BY <1>1, <3>3, <3>4 DEF ActiveOf, ActiveSegments, Active
    <3> QED
      BY <1>1, <3>2, <3>3, <3>5
  <2> QED
    BY <2>1, <2>2
<1> QED
  BY <1>7, <1>8, <1>9, <1>10, <1>11 DEF AnswerInv

-----------------------------------------------------------------------------
(* Decisions and retries *)

Deciding == {"waiting_question", "result_ready", "failed", "interrupted"}

\* What a step leaves alone of a task that waits for a decision.
TaskRests(t) ==
    /\ \A s \in Segment : (seg'[s].st # "none" /\ seg'[s].task = t) <=>
                          (seg[s].st # "none" /\ seg[s].task = t)
    /\ \A s \in SegmentsOf(t) :
           /\ seg'[s].no = seg[s].no
           /\ review'[s] = review[s]
           /\ question[s].st = "open" => question'[s].st = "open"
    /\ \A n \in AttemptNo : attempt'[t][n] = attempt[t][n]
    /\ events \subseteq events'
    /\ \A e \in retried' : e \in retried \/ seg[e[1]].task # t

\* A task whose status stays can still be decided.
LEMMA DecidableKept ==
    ASSUME NEW t \in Task, Decidable(t), status'[t] = status[t],
           status[t] \in Deciding => TaskRests(t)
    PROVE  Decidable(t)'
<1>1. CASE status[t] \notin Deciding
  BY <1>1 DEF Decidable, Deciding
<1>2. CASE status[t] \in Deciding
  <2>0. TaskRests(t)
    BY <1>2
  <2>1. SegmentsOf(t)' = SegmentsOf(t)
    BY <2>0 DEF TaskRests, SegmentsOf
  <2>2. /\ AttemptsOf(t)' = AttemptsOf(t)
        /\ \A n \in AttemptNo : attempt'[t][n] = attempt[t][n]
    BY <2>0 DEF TaskRests, AttemptsOf
  <2>3. \A s : /\ IsLatest(s, t) => s \in SegmentsOf(t)
               /\ IsLatest(s, t)' <=> IsLatest(s, t)
    BY <2>1 DEF IsLatest
  <2>4. \A n : /\ IsLatestAttempt(t, n) => n \in AttemptNo
               /\ IsLatestAttempt(t, n)' <=> IsLatestAttempt(t, n)
    BY <2>2 DEF IsLatestAttempt, AttemptsOf
  <2>5. CASE status[t] = "waiting_question"
    <3>1. PICK s \in Segment : IsLatest(s, t) /\ question[s].st = "open"
      BY <2>5 DEF Decidable
    <3>2. IsLatest(s, t)' /\ question'[s].st = "open"
      BY <2>0, <2>3, <3>1 DEF TaskRests
    <3> QED
      BY <2>5, <3>2 DEF Decidable
  <2>6. CASE status[t] = "result_ready"
    <3>1. PICK s \in Segment : /\ IsLatest(s, t) /\ <<s, "result">> \in events
                               /\ review[s] = "none"
      BY <2>6 DEF Decidable
    <3>2. IsLatest(s, t)' /\ <<s, "result">> \in events' /\ review'[s] = "none"
      BY <2>0, <2>3, <3>1 DEF TaskRests
    <3> QED
      BY <2>6, <3>2 DEF Decidable
  <2>7. CASE status[t] = "failed"
    <3>1. PICK e \in events \ retried :
              /\ e[1] \in SegmentsOf(t)
              /\ e[2] = "result" => review[e[1]] = "reject"
              /\ attempt[t][seg[e[1]].no] = "failed"
              /\ IsLatestAttempt(t, seg[e[1]].no)
      BY <2>7 DEF Decidable
    <3>2. seg'[e[1]].no = seg[e[1]].no /\ seg[e[1]].task = t /\ review'[e[1]] = review[e[1]]
      BY <2>0, <3>1 DEF TaskRests, SegmentsOf
    <3>3. e \in events' \ retried'
      BY <2>0, <3>1, <3>2 DEF TaskRests
    <3>4. seg[e[1]].no \in AttemptNo
      BY <2>4, <3>1
    <3>5. IsLatestAttempt(t, seg[e[1]].no)'
      BY <2>2, <3>1, <3>2 DEF IsLatestAttempt
    <3>6. attempt'[t][seg'[e[1]].no] = "failed"
      BY <2>2, <3>1, <3>2, <3>4
    <3>7. e[1] \in SegmentsOf(t)'
      BY <2>1, <3>1
    <3> QED
      BY <2>7, <3>1, <3>2, <3>3, <3>5, <3>6, <3>7 DEF Decidable
  <2>8. CASE status[t] = "interrupted"
    <3>1. PICK n \in AttemptNo : IsLatestAttempt(t, n) /\ attempt[t][n] = "interrupted"
      BY <2>8 DEF Decidable
    <3> QED
      BY <2>2, <2>4, <2>8, <3>1 DEF Decidable
  <2> QED
    BY <1>2, <2>5, <2>6, <2>7, <2>8 DEF Deciding
<1> QED
  BY <1>1, <1>2

\* A task that does not wait for a decision needs nothing to base one on.
LEMMA NothingToDecide ==
    ASSUME NEW t, status'[t] \notin Deciding
    PROVE  Decidable(t)'
BY DEF Decidable, Deciding

\* Another task, moved at most by the fate of the one a step is about.
LEMMA FollowerDecidable ==
    ASSUME NEW t \in Task, Decidable(t), Follows(t), status[t] \in Deciding => TaskRests(t)
    PROVE  Decidable(t)'
BY DecidableKept, NothingToDecide DEF Follows, Deciding

\* The past of a retried attempt stays past.
LEMMA PastKept ==
    ASSUME SlotInv, RowInv, RetriedIsPast,
           \A s \in Segment : Used(s) => seg'[s].task = seg[s].task /\ seg'[s].no = seg[s].no,
           \A t \in Task : AttemptsOf(t)' = AttemptsOf(t),
           \A t \in Task :
               status[t] \in {"ready", "cancelled", "blocked_dependency"} =>
                   status'[t] \in {"ready", "cancelled", "blocked_dependency"}
    PROVE  \A e \in retried :
               \/ ~ IsLatestAttempt(seg[e[1]].task, seg[e[1]].no)'
               \/ status'[seg'[e[1]].task] \in {"ready", "cancelled", "blocked_dependency"}
<1> SUFFICES ASSUME NEW e \in retried,
                    status'[seg'[e[1]].task] \notin
                        {"ready", "cancelled", "blocked_dependency"}
             PROVE  ~ IsLatestAttempt(seg[e[1]].task, seg[e[1]].no)'
  OBVIOUS
<1>1. e \in events /\ e[1] \in Segment /\ Used(e[1])
  BY DEF SlotInv, TypeOK, RowInv, EventHasRow
<1>2. PICK t \in Task, n \in AttemptNo :
          /\ t = seg[e[1]].task /\ n = seg[e[1]].no
          /\ t = seg'[e[1]].task /\ n = seg'[e[1]].no
  BY <1>1, SegmentTask DEF SlotInv
<1>3. ~ IsLatestAttempt(t, n)
  BY <1>1, <1>2 DEF RetriedIsPast
<1>4. ~ IsLatestAttempt(t, n)'
  BY <1>3 DEF IsLatestAttempt
<1> QED
  BY <1>2, <1>4 DEF IsLatestAttempt

\* A step that retries nothing keeps the retries apart.
LEMMA RetriesKept ==
    ASSUME SlotInv, RowInv, RetryOncePerAttempt, retried' = retried,
           \A s \in Segment : Used(s) => seg'[s].task = seg[s].task /\ seg'[s].no = seg[s].no
    PROVE  RetryOncePerAttempt'
<1>1. \A e \in retried : e[1] \in Segment /\ Used(e[1])
  BY DEF SlotInv, TypeOK, RowInv, EventHasRow
<1> QED
  BY <1>1 DEF RetryOncePerAttempt

\* Steps of hosts, events, reports and stops leave every decision open.
LEMMA DecisionsStir ==
    ASSUME SlotInv, RowInv, DecisionInv, Stirs,
           \A t \in Task : AttemptsOf(t)' = AttemptsOf(t)
    PROVE  DecisionInv'
<1>1. \A s \in Segment : RowStirs(s) /\ RowStands(s)
  BY DEF Stirs, RowStirs
<1>2. \A t \in Task : status[t] \in {"ready", "cancelled", "blocked_dependency"} =>
          status'[t] = status[t]
  BY DEF Stirs, TaskStirs, Live
<1>3. RetriedIsPast'
  <2>1. retried' = retried
    BY DEF Stirs
  <2>2. \A s \in Segment : Used(s) => seg'[s].task = seg[s].task /\ seg'[s].no = seg[s].no
    BY <1>1 DEF RowStands
  <2> QED
    BY <1>2, <2>1, <2>2, PastKept DEF DecisionInv, RetriedIsPast
<1>4. RetryOncePerAttempt'
  BY <1>1, RetriesKept DEF DecisionInv, Stirs, RowStands
<1>5. ASSUME NEW t \in Task
      PROVE  Decidable(t)'
  <2>1. CASE status[t] \in Live /\ status'[t] \in Live
    BY <2>1, NothingToDecide DEF Live, Deciding
  <2>2. CASE status'[t] = status[t] /\ status[t] \notin Live
    <3>1. \A s \in Segment : question[s].st = "open" => question'[s].st = "open"
      BY <1>1 DEF RowStirs, QuestionStirs
    <3>2. TaskRests(t)
      BY <1>1, <2>2, <3>1 DEF TaskRests, RowStands, Stirs, AttemptStirs, SegmentsOf
    <3> QED
      BY <2>2, <3>2, DecidableKept DEF DecisionInv
  <2> QED
    BY <2>1, <2>2 DEF Stirs, TaskStirs
<1> QED
  BY <1>3, <1>4, <1>5 DEF DecisionInv

\* A claim starts a later attempt than any retried one.
LEMMA DecisionsClaimed ==
    ASSUME SlotInv, RowInv, NumbersCounted, DecisionInv, NEW t \in Task,
           NEW n \in AttemptNo, NEW q \in {0} \cup Segment, Claims(t, n, q)
    PROVE  DecisionInv'
<1>x. PICK x \in Segment : x = nextSeg
  BY DEF Claims
<1>0. TypeOK /\ \A s \in Segment : seg[s].task \in Task /\ seg[s].no \in AttemptNo
  BY SegmentTask DEF SlotInv
<1>1. /\ ~ Used(x) /\ seg'[x].task = t
      /\ \A s \in Segment : s # x => seg'[s] = seg[s]
  BY <1>x DEF Claims, Used, Segment
<1>2. \A s \in Segment : Used(s) => seg'[s] = seg[s]
  BY <1>1
<1>3. /\ \A u \in Task : u # t => status'[u] = status[u] /\ AttemptsOf(u)' = AttemptsOf(u)
      /\ status[t] \in {"ready", "resume_queued"} /\ status'[t] = "running"
      /\ retried' = retried
  BY DEF Claims, AttemptsOf
<1>4. RetriedIsPast'
  <2> SUFFICES ASSUME NEW e \in retried,
                      IsLatestAttempt(seg[e[1]].task, seg[e[1]].no)'
               PROVE  status'[seg'[e[1]].task] \in {"ready", "cancelled", "blocked_dependency"}
    BY <1>3 DEF RetriedIsPast
  <2>1. e \in events /\ e[1] \in Segment /\ Used(e[1]) /\ seg'[e[1]] = seg[e[1]]
    BY <1>0, <1>2 DEF TypeOK, RowInv, EventHasRow
  <2>2. PICK u \in Task, m \in AttemptNo :
            u = seg[e[1]].task /\ m = seg[e[1]].no /\ m \in AttemptsOf(u)
    BY <1>0, <2>1 DEF RowInv, RowHasAttempt, AttemptsOf
  <2>3. IsLatestAttempt(u, m)'
    BY <2>1, <2>2 DEF IsLatestAttempt
  <2>4. \/ ~ IsLatestAttempt(u, m)
        \/ status[u] \in {"ready", "cancelled", "blocked_dependency"}
    BY <2>2 DEF DecisionInv, RetriedIsPast
  <2>5. CASE u = t
    <3>1. \A k \in AttemptsOf(t) : k <= n
      BY <1>0, ClaimIsLatest DEF Claims
    <3>2. n <= m
      <4>1. n \in AttemptsOf(t)'
        BY DEF Claims, AttemptsOf
      <4> QED
        BY <2>3, <2>5, <4>1 DEF IsLatestAttempt
    <3>3. m = n
      BY <2>2, <2>5, <3>1, <3>2 DEF AttemptNo
    <3>4. CASE status[t] = "resume_queued"
      BY <2>4, <2>5, <3>3, <3>4 DEF Claims, ClaimAttempt
    <3>5. CASE status[t] # "resume_queued"
      <4>1. PICK c \in Nat : c = Cardinality(GroupAttempts(GroupOf[t]))
        BY AttemptsCounted
      <4>2. n = c + 1
        BY <3>5, <4>1 DEF Claims, ClaimAttempt
      <4>3. m <= c
        BY <2>2, <2>5, <4>1 DEF NumbersCounted
      <4> QED
        BY <3>3, <4>2, <4>3 DEF AttemptNo
    <3> QED
      BY <3>4, <3>5
  <2>6. CASE u # t
    <3>1. IsLatestAttempt(u, m)
      BY <1>3, <2>3, <2>6 DEF IsLatestAttempt
    <3> QED
      BY <1>3, <2>1, <2>2, <2>4, <2>6, <3>1
  <2> QED
    BY <2>5, <2>6
<1>5. RetryOncePerAttempt'
  BY <1>2, <1>3, RetriesKept DEF DecisionInv
<1>6. ASSUME NEW u \in Task
      PROVE  Decidable(u)'
  <2>1. CASE u = t
    BY <1>3, <2>1, NothingToDecide DEF Deciding
  <2>2. CASE u # t
    <3>1. \A s \in Segment : question[s].st = "open" => question'[s].st = "open"
      BY DEF Claims, ClaimedQuestion, QuestionsIn, Segment
    <3>2. \A k \in AttemptNo : attempt'[u][k] = attempt[u][k]
      BY <2>2 DEF Claims
    <3>3. \A s \in Segment : (seg'[s].st # "none" /\ seg'[s].task = u) <=>
                             (seg[s].st # "none" /\ seg[s].task = u)
      BY <1>1, <2>2 DEF Used
    <3>4. \A s \in SegmentsOf(u) : s \in Segment /\ seg'[s] = seg[s]
      BY <1>2 DEF SegmentsOf, Used
    <3>5. TaskRests(u)
      BY <3>1, <3>2, <3>3, <3>4 DEF TaskRests, Claims
    <3> QED
      BY <1>3, <2>2, <3>5, DecidableKept DEF DecisionInv
  <2> QED
    BY <2>1, <2>2
<1> QED
  BY <1>4, <1>5, <1>6 DEF DecisionInv

\* How an exit leaves the attempt.
LEMMA ExitAttempts ==
    ASSUME NEW s
    PROVE  /\ seg[s].outcome = "failed" => ExitAttemptStatus(s) = "failed"
           /\ seg[s].outcome \notin {"result", "failed"} =>
                  ExitAttemptStatus(s) = "interrupted"
<1>1. CASE seg[s].outcome = "failed"
  <2>1. ExitAttemptStatus(s) = "failed"
    BY <1>1 DEF ExitAttemptStatus
  <2> QED
    BY <1>1, <2>1
<1>2. CASE seg[s].outcome \notin {"result", "failed"}
  <2>1. ExitAttemptStatus(s) = "interrupted"
    BY <1>2 DEF ExitAttemptStatus
  <2> QED
    BY <1>2, <2>1
<1>3. CASE seg[s].outcome = "result"
  BY <1>3
<1> QED
  BY <1>1, <1>2, <1>3

\* The rows of a task after a step that creates none and moves none.
LEMMA RowsStand ==
    ASSUME NEW t, \A s \in Segment : RowStands(s)
    PROVE  /\ SegmentsOf(t)' = SegmentsOf(t)
           /\ \A s : IsLatest(s, t)' <=> IsLatest(s, t)
<1>1. SegmentsOf(t)' = SegmentsOf(t)
  BY DEF RowStands, SegmentsOf
<1> QED
  BY <1>1 DEF IsLatest

\* After an exit the owner of its task has what a decision needs.
LEMMA DecisionsExit ==
    ASSUME SlotInv, RowInv, AnswerInv, DecisionInv, NEW s \in Segment, NEW m, Ends(s),
           \A v \in Task : v # seg[s].task => Follows(v) /\ StatusHolds(v),
           status[seg[s].task] \in Live,
           status'[seg[s].task] = ExitTaskStatus(s, m),
           \A u \in Task : AttemptsOf(u)' = AttemptsOf(u)
    PROVE  DecisionInv'
<1> DEFINE after == ExitTaskStatus(s, m)
<1>a. PICK a \in Task, n \in AttemptNo : a = seg[s].task /\ n = seg[s].no
  BY SegmentTask DEF SlotInv
<1>0. TypeOK
  BY DEF SlotInv
<1>1. /\ Active(s) /\ Used(s)
      /\ seg'[s].task = a /\ seg'[s].no = n
      /\ \A r \in Segment : RowStands(r)
      /\ retried' = retried /\ events' = events /\ review' = review
      /\ attempt'[a][n] = ExitAttemptStatus(s)
  BY <1>a DEF Ends, RowStands, Active, Used, Occupying
<1>2. /\ status[a] \in Live /\ status'[a] = after
      /\ \A v \in Task : v # a => Follows(v) /\ StatusHolds(v)
  BY <1>a
<1>3. IsLatest(s, a) /\ IsLatestAttempt(a, n)
  <2>1. IsLatest(s, a)
    BY <1>1, <1>a DEF IsLatest, SegmentsOf, Used, RowInv, ActiveIsNewest
  <2> QED
    BY <1>a, <2>1, NewestIsLatest
<1>4. IsLatest(s, a)' /\ IsLatestAttempt(a, n)' /\ s \in SegmentsOf(a)'
  <2>1. IsLatest(s, a)'
    BY <1>1, <1>3, RowsStand
  <2>2. IsLatestAttempt(a, n)'
    BY <1>3 DEF IsLatestAttempt
  <2> QED
    BY <2>1, <2>2 DEF IsLatest
<1> HIDE DEF after
<1>5. Decidable(a)'
  <2>1. CASE after = "waiting_question"
    <3>1. question[s].st = "open"
      BY <1>1, <2>1, ExitStatuses DEF AnswerInv, QuestionIsOpen, after
    <3>2. question'[s].st = "open"
      BY <3>1 DEF Ends, QuestionsIn
    <3> QED
      BY <1>2, <1>4, <2>1, <3>2 DEF Decidable
  <2>2. CASE after = "result_ready"
    <3>1. <<s, "result">> \in events
      BY <2>2, ExitStatuses DEF RowInv, OutcomeRecorded, after
    <3>2. review[s] = "none"
      BY <1>1 DEF RowInv, ReviewHasExit, Active, Occupying
    <3> QED
      BY <1>1, <1>2, <1>4, <2>2, <3>1, <3>2 DEF Decidable
  <2>3. CASE after = "failed"
    <3> DEFINE e == <<s, "failed">>
    <3>1. seg[s].outcome = "failed" /\ e \in events
      BY <2>3, ExitStatuses DEF RowInv, OutcomeRecorded, after
    <3>2. e \notin retried
      BY <1>2, <1>3, <1>a DEF DecisionInv, RetriedIsPast, Live
    <3>3. attempt'[a][n] = "failed"
      BY <1>1, <3>1, ExitAttempts
    <3>4. e[1] = s /\ e[2] = "failed" /\ e \in events' \ retried'
      BY <1>1, <3>1, <3>2
    <3> HIDE DEF e
    <3>5. attempt'[a][seg'[e[1]].no] = "failed" /\ e[1] \in SegmentsOf(a)'
      BY <1>1, <1>4, <3>3, <3>4
    <3>6. IsLatestAttempt(a, seg[e[1]].no)'
      BY <1>1, <1>4, <3>4 DEF IsLatestAttempt
    <3> QED
      BY <1>2, <2>3, <3>4, <3>5, <3>6 DEF Decidable
  <2>4. CASE after = "interrupted"
    <3>1. seg[s].outcome \notin {"result", "failed"}
      BY <2>4, ExitStatuses DEF after
    <3>2. attempt'[a][n] = "interrupted"
      BY <1>1, <3>1, ExitAttempts
    <3> QED
      BY <1>2, <1>4, <2>4, <3>2 DEF Decidable
  <2>5. CASE after = "completed"
    BY <1>2, <2>5 DEF Decidable
  <2> QED
    BY <2>1, <2>2, <2>3, <2>4, <2>5, ExitStatuses DEF after
<1>6. ASSUME NEW v \in Task, v # a
      PROVE  Decidable(v)'
  <2>1. \A k \in AttemptNo : attempt'[v][k] = attempt[v][k]
    BY <1>6, <1>a DEF Ends
  <2>2. \A r \in Segment : question[r].st = "open" => question'[r].st = "open"
    BY DEF Ends, QuestionsIn
  <2>3. TaskRests(v)
    BY <1>1, <2>1, <2>2 DEF TaskRests, RowStands, SegmentsOf
  <2> QED
    BY <1>2, <1>6, <2>3, FollowerDecidable DEF DecisionInv
<1>7. \A r \in Segment : Used(r) => seg'[r].task = seg[r].task /\ seg'[r].no = seg[r].no
  BY <1>1 DEF RowStands
<1>8. RetriedIsPast'
  <2>1. \A t \in Task :
            status[t] \in {"ready", "cancelled", "blocked_dependency"} =>
                status'[t] \in {"ready", "cancelled", "blocked_dependency"}
    BY <1>2 DEF StatusHolds, Live
  <2> QED
    BY <1>1, <1>7, <2>1, PastKept DEF DecisionInv, RetriedIsPast
<1>9. RetryOncePerAttempt'
  BY <1>1, <1>7, RetriesKept DEF DecisionInv
<1> QED
  BY <1>5, <1>6, <1>8, <1>9 DEF DecisionInv

\* After a decision the next one has what it needs, and a retry uses up its
\* attempt.
LEMMA DecisionsDecided ==
    ASSUME SlotInv, RowInv, DecisionInv, NEW t \in Task,
           \/ QueueResume(t)
           \/ \E s \in Segment : AnswerQuestion(t, s)
           \/ \E s \in Segment : AcceptResult(t, s)
           \/ \E s \in Segment : RejectResult(t, s)
           \/ \E e \in events, b \in BOOLEAN : QueueRetry(t, e, b)
           \/ CancelTask(t),
           \A u \in Task : AttemptsOf(u)' = AttemptsOf(u)
    PROVE  DecisionInv'
<1> USE DEF workVars, decisionVars
<1>0. TypeOK
  BY DEF SlotInv
<1>1. /\ seg' = seg /\ events' = events
      /\ \A s \in Segment : RowStands(s)
  BY DEF QueueResume, AnswerQuestion, AcceptResult, RejectResult, QueueRetry, CancelTask,
     RowStands
<1>2. \A v \in Task : v # t => Follows(v) /\ StatusHolds(v)
  BY DecisionMoves
<1>3. \A u \in Task :
          status[u] \in {"ready", "cancelled", "blocked_dependency"} =>
              status'[u] \in {"ready", "cancelled", "blocked_dependency"}
  BY <1>2, DecisionMoves DEF StatusHolds
<1>4. \A e \in retried :
          \/ ~ IsLatestAttempt(seg[e[1]].task, seg[e[1]].no)'
          \/ status'[seg'[e[1]].task] \in {"ready", "cancelled", "blocked_dependency"}
  BY <1>1, <1>3, PastKept DEF DecisionInv
<1>5. CASE \E e \in events, b \in BOOLEAN : QueueRetry(t, e, b)
  <2>1. PICK e \in events, b \in BOOLEAN : QueueRetry(t, e, b)
    BY <1>5
  <2>2. /\ retried' = retried \cup {e} /\ review' = review
        /\ question' = question /\ attempt' = attempt
        /\ RetryAllowed(t, e)
    BY <2>1 DEF QueueRetry
  <2>3. status[t] = "failed" /\ status'[t] = "ready"
    BY <1>5, DecisionMoves
  <2>4. seg[e[1]].task = t /\ e \notin retried /\ IsLatestAttempt(t, seg[e[1]].no)
    BY <2>2 DEF RetryAllowed, SegmentsOf
  <2>5. RetriedIsPast'
    BY <1>1, <1>4, <2>2, <2>3, <2>4 DEF RetriedIsPast
  <2>6. \A f \in retried : seg[f[1]].task = t => seg[f[1]].no # seg[e[1]].no
    BY <2>3, <2>4 DEF DecisionInv, RetriedIsPast
  <2>7. RetryOncePerAttempt'
    BY <1>1, <2>2, <2>4, <2>6 DEF DecisionInv, RetryOncePerAttempt
  <2>8. ASSUME NEW v \in Task
        PROVE  Decidable(v)'
    <3>1. CASE v = t
      BY <2>3, <3>1, NothingToDecide DEF Deciding
    <3>2. CASE v # t
      <4>1. TaskRests(v)
        BY <1>1, <2>2, <2>4, <3>2 DEF TaskRests
      <4> QED
        BY <1>2, <3>2, <4>1, FollowerDecidable DEF DecisionInv
    <3> QED
      BY <3>1, <3>2
  <2> QED
    BY <2>5, <2>7, <2>8 DEF DecisionInv
<1>6. CASE ~ \E e \in events, b \in BOOLEAN : QueueRetry(t, e, b)
  <2>1. retried' = retried
    BY <1>6 DEF QueueResume, AnswerQuestion, AcceptResult, RejectResult, CancelTask
  <2>2. RetriedIsPast' /\ RetryOncePerAttempt'
    BY <1>1, <1>4, <2>1, RetriesKept DEF DecisionInv, RetriedIsPast
  <2>3. ASSUME NEW v \in Task, v # t
        PROVE  Decidable(v)'
    <3>1. ASSUME NEW r \in SegmentsOf(v)
          PROVE  /\ review'[r] = review[r]
                 /\ question[r].st = "open" => question'[r].st = "open"
      <4>1. r \in Segment /\ seg[r].task # t
        BY <2>3, <3>1 DEF SegmentsOf
      <4>2. ASSUME NEW s \in Segment, IsLatest(s, t)
            PROVE  r # s
        BY <4>1, <4>2 DEF IsLatest, SegmentsOf
      <4>3. ASSUME NEW s \in Segment, AnswerQuestion(t, s)
            PROVE  question'[r] = question[r] /\ review' = review
        BY <1>0, <4>1, <4>2, <4>3 DEF AnswerQuestion, TypeOK
      <4>4. ASSUME NEW s \in Segment, AcceptResult(t, s) \/ RejectResult(t, s)
            PROVE  question' = question /\ review'[r] = review[r]
        BY <1>0, <4>1, <4>2, <4>4 DEF AcceptResult, RejectResult, ReviewAllowed, TypeOK
      <4>5. ASSUME QueueResume(t) \/ CancelTask(t)
            PROVE  question' = question /\ review' = review
        BY <4>5 DEF QueueResume, CancelTask
      <4> QED
        BY <1>6, <4>3, <4>4, <4>5
    <3>2. \A k \in AttemptNo : attempt'[v][k] = attempt[v][k]
      BY <1>0, <1>6, <2>3 DEF QueueResume, AnswerQuestion, AcceptResult, RejectResult,
         CancelTask, TypeOK
    <3>3. TaskRests(v)
      BY <1>1, <2>1, <3>1, <3>2 DEF TaskRests
    <3> QED
      BY <1>2, <2>3, <3>3, FollowerDecidable DEF DecisionInv
  <2>4. Decidable(t)'
    <3>1. ASSUME NEW s \in Segment, RejectResult(t, s)
          PROVE  Decidable(t)'
      <4>0. status[t] = "result_ready" /\ status'[t] = "failed"
        BY <3>1, DecisionMoves
      <4>1. /\ <<s, "result">> \in events /\ IsLatest(s, t)
            /\ review' = [review EXCEPT ![s] = "reject"]
            /\ attempt' = [attempt EXCEPT ![t][seg[s].no] = "failed"]
        BY <3>1 DEF RejectResult, ReviewAllowed
      <4>2. PICK n \in AttemptNo : n = seg[s].no
        BY <1>0, SegmentTask
      <4>3. /\ review'[s] = "reject" /\ attempt'[t][n] = "failed"
            /\ s \in SegmentsOf(t) /\ seg[s].task = t
        BY <1>0, <4>1, <4>2 DEF TypeOK, IsLatest, SegmentsOf
      <4>4. IsLatestAttempt(t, n)
        BY <4>1, <4>2, NewestIsLatest
      <4>5. IsLatestAttempt(t, n)'
        BY <4>4 DEF IsLatestAttempt
      <4> DEFINE e == <<s, "result">>
      <4>6. e \notin retried
        BY <4>0, <4>2, <4>3, <4>4 DEF DecisionInv, RetriedIsPast
      <4>7. e[1] = s /\ e[2] = "result" /\ e \in events' \ retried'
        BY <1>1, <2>1, <4>1, <4>6
      <4> HIDE DEF e
      <4>8. /\ attempt'[t][seg'[e[1]].no] = "failed" /\ e[1] \in SegmentsOf(t)'
            /\ review'[e[1]] = "reject"
        <5>1. SegmentsOf(t)' = SegmentsOf(t)
          BY <1>1, RowsStand
        <5> QED
          BY <1>1, <4>2, <4>3, <4>7, <5>1
      <4>9. IsLatestAttempt(t, seg[e[1]].no)'
        BY <1>1, <4>2, <4>5, <4>7 DEF IsLatestAttempt
      <4> QED
        BY <4>0, <4>7, <4>8, <4>9 DEF Decidable
    <3>2. ASSUME \/ QueueResume(t)
                 \/ \E s \in Segment : AnswerQuestion(t, s)
                 \/ \E s \in Segment : AcceptResult(t, s)
                 \/ CancelTask(t)
          PROVE  Decidable(t)'
      <4>1. status'[t] \in {"resume_queued", "completed", "cancelled"}
        BY <3>2, DecisionMoves
      <4> QED
        BY <4>1, NothingToDecide DEF Deciding
    <3> QED
      BY <1>6, <3>1, <3>2
  <2> QED
    BY <2>2, <2>3, <2>4 DEF DecisionInv
<1> QED
  BY <1>5, <1>6

-----------------------------------------------------------------------------
(* The invariant holds *)

\* Submitting a plan changes no task, row or decision of another plan.
LEMMA SubmitMoves ==
    ASSUME SlotInv, NEW l \in Launch, SubmitPlan(l)
    PROVE  /\ UNCHANGED <<seg, question, attempt, events, review, retried>>
           /\ \A t \in Task :
                  /\ AttemptsOf(t)' = AttemptsOf(t)
                  /\ \/ status'[t] = status[t]
                     \/ status[t] = "absent" /\ status'[t] \in {"ready", "queued"}
                  /\ StatusHolds(t)
<1>1. UNCHANGED <<seg, question, attempt, events, review, retried>>
  BY DEF SubmitPlan, workVars, decisionVars
<1>2. \A t \in Task : AttemptsOf(t)' = AttemptsOf(t)
  BY <1>1 DEF AttemptsOf
<1>3. \A t \in Task :
          \/ status'[t] = status[t]
          \/ status[t] = "absent" /\ status'[t] \in {"ready", "queued"}
  BY DEF SubmitPlan, SlotInv, AbsentUntilSubmitted
<1>4. \A t \in Task : StatusHolds(t)
  BY <1>3 DEF StatusHolds
<1> QED
  BY <1>1, <1>2, <1>3, <1>4

\* A submitted plan touches no answer and no decision.
LEMMA LedgerSubmitted ==
    ASSUME SlotInv, RowInv, AnswerInv, DecisionInv, NEW l \in Launch, SubmitPlan(l)
    PROVE  AnswerInv' /\ DecisionInv'
<1>1. /\ UNCHANGED <<seg, question, attempt, events, review, retried>>
      /\ \A t \in Task :
             /\ AttemptsOf(t)' = AttemptsOf(t)
             /\ \/ status'[t] = status[t]
                \/ status[t] = "absent" /\ status'[t] \in {"ready", "queued"}
             /\ StatusHolds(t)
  BY SubmitMoves
<1>2. AnswerInv'
  BY <1>1, AnswersDecided
<1>3. RetriedIsPast'
  <2>1. \A e \in retried :
            \/ ~ IsLatestAttempt(seg[e[1]].task, seg[e[1]].no)'
            \/ status'[seg'[e[1]].task] \in {"ready", "cancelled", "blocked_dependency"}
    BY <1>1, PastKept DEF DecisionInv, StatusHolds
  <2> QED
    BY <1>1, <2>1 DEF RetriedIsPast
<1>4. RetryOncePerAttempt'
  BY <1>1, RetriesKept DEF DecisionInv
<1>5. ASSUME NEW t \in Task
      PROVE  Decidable(t)'
  <2>1. TaskRests(t)
    BY <1>1 DEF TaskRests
  <2>2. CASE status'[t] = status[t]
    BY <2>1, <2>2, DecidableKept DEF DecisionInv
  <2>3. CASE status'[t] \in {"ready", "queued"}
    BY <2>3, NothingToDecide DEF Deciding
  <2> QED
    BY <1>1, <2>2, <2>3
<1> QED
  BY <1>2, <1>3, <1>4, <1>5 DEF DecisionInv

\* A decision of the owner leaves every answer where it belongs.
LEMMA AnswersDecision ==
    ASSUME SlotInv, RowInv, AnswerInv, NEW t \in Task,
           \/ QueueResume(t)
           \/ \E s \in Segment : AnswerQuestion(t, s)
           \/ \E s \in Segment : AcceptResult(t, s)
           \/ \E s \in Segment : RejectResult(t, s)
           \/ \E e \in events, b \in BOOLEAN : QueueRetry(t, e, b)
           \/ CancelTask(t),
           \A u \in Task : AttemptsOf(u)' = AttemptsOf(u)
    PROVE  AnswerInv'
<1>1. \A v \in Task : v # t => Follows(v) /\ StatusHolds(v)
  BY DecisionMoves
<1>2. CASE \E s \in Segment : AnswerQuestion(t, s)
  <2>1. status[t] = "waiting_question" /\ status'[t] = "resume_queued"
    BY <1>2, DecisionMoves
  <2>2. StatusHolds(t)
    BY <2>1 DEF StatusHolds
  <2> QED
    BY <1>1, <1>2, <2>1, <2>2, AnswersAnswered
<1>3. ASSUME UNCHANGED <<seg, question>>,
             \/ status[t] = "interrupted" /\ status'[t] = "resume_queued"
             \/ status[t] \in {"result_ready", "failed"} /\ status'[t] # "resume_queued"
             \/ /\ status[t] \in {"queued", "ready", "resume_queued"}
                /\ status'[t] = "cancelled"
      PROVE  AnswerInv'
  <2>1. /\ StatusHolds(t)
        /\ status'[t] = "resume_queued" => status[t] \in {"resume_queued", "interrupted"}
    BY <1>3 DEF StatusHolds
  <2>2. \A v \in Task : v # t =>
            (status'[v] = "resume_queued" => status[v] \in {"resume_queued", "interrupted"})
    BY <1>1 DEF Follows
  <2> QED
    BY <1>1, <1>3, <2>1, <2>2, AnswersDecided
<1>4. CASE QueueResume(t)
  BY <1>3, <1>4, DecisionMoves DEF QueueResume, workVars
<1>5. CASE \E s \in Segment : AcceptResult(t, s)
  <2>1. status[t] = "result_ready" /\ status'[t] = "completed"
    BY <1>5, DecisionMoves
  <2> QED
    BY <1>3, <1>5, <2>1 DEF AcceptResult, workVars
<1>6. CASE \E s \in Segment : RejectResult(t, s)
  <2>1. status[t] = "result_ready" /\ status'[t] = "failed"
    BY <1>6, DecisionMoves
  <2> QED
    BY <1>3, <1>6, <2>1 DEF RejectResult
<1>7. CASE \E e \in events, b \in BOOLEAN : QueueRetry(t, e, b)
  <2>1. status[t] = "failed" /\ status'[t] = "ready"
    BY <1>7, DecisionMoves
  <2> QED
    BY <1>3, <1>7, <2>1 DEF QueueRetry, workVars
<1>8. CASE CancelTask(t)
  BY <1>3, <1>8, DecisionMoves DEF CancelTask, workVars
<1> QED
  BY <1>2, <1>4, <1>5, <1>6, <1>7, <1>8

\* Before the first plan there is nothing to get wrong.
LEMMA LedgerInit == Init => LedgerInv
<1> SUFFICES ASSUME Init PROVE LedgerInv
  OBVIOUS
<1>1. SlotInv
  BY SlotInit
<1>2. /\ \A s \in Segment : /\ seg[s].st = "none" /\ seg[s].outcome = "none"
                            /\ seg[s].reason = "none"
                            /\ question[s].st = "none" /\ review[s] = "none"
      /\ \A t \in Task : status[t] = "absent" /\ fallback[t] = 0
      /\ \A t \in Task, n \in AttemptNo : attempt[t][n] = "none"
      /\ events = {} /\ retried = {} /\ retiring = {}
      /\ \A l \in Launch : launch[l] = "none" /\ conn[l] = "none" /\ host[l] = "none"
  BY DEF Init, NoSegment, NoQuestion
<1>3. \A s \in Segment : ~ Used(s) /\ ~ Active(s)
  BY <1>2 DEF Used, Active, Occupying
<1>4. PayloadHeld
  <2>1. \A t \in Task : 0 < Len(Keys[t])
    BY KeysAssumption
  <2> QED
    BY <1>2, <1>3, <2>1 DEF PayloadHeld
<1>5. RowInv
  BY <1>2, <1>3, <1>4
     DEF RowInv, RowHasAttempt, AttemptHasRow, NumbersGrow, ActiveIsNewest, RequestDecides,
         QuestionHasOutcome, OutcomeRecorded, EventHasRow, ReviewHasExit
<1>6. \A t \in Task : AttemptsOf(t) = {}
  BY <1>2 DEF AttemptsOf
<1>7. NumbersCounted /\ GroupAttemptCeiling
  <2>1. \A t \in Task : GroupAttempts(GroupOf[t]) = {}
    BY <1>2 DEF GroupAttempts
  <2>2. Cardinality({}) = 0
    BY FS_EmptySet
  <2>3. \A t \in Task : 0 <= MaxAttempts[t]
    BY PlanAssumption DEF AttemptNo
  <2> QED
    BY <1>6, <2>1, <2>2, <2>3 DEF NumbersCounted, GroupAttemptCeiling
<1>8. DependInv
  BY <1>2, <1>6, TaskAssumption
     DEF DependInv, Started, PresentOnceSubmitted, SubmittedFirst, DependencySafety,
         QueuedWaits, BlockingPropagates
<1>9. AnswerInv
  BY <1>2, <1>3
     DEF AnswerInv, AskedIsStarted, QuestionIsOpen, OneAnswerWaits, AnswerOfLatest,
         AnswerCarried
<1>10. DecisionInv
  BY <1>2 DEF DecisionInv, RetriedIsPast, RetryOncePerAttempt, Decidable
<1> QED
  BY <1>1, <1>5, <1>7, <1>8, <1>9, <1>10 DEF LedgerInv

\* Steps of hosts and restarts, events, reports and stops.
LEMMA LedgerStirs ==
    ASSUME LedgerInv, SlotInv', SubmittedFirst', Stirs
    PROVE  LedgerInv'
<1>1. SlotInv /\ RowInv /\ DependInv /\ AnswerInv /\ DecisionInv
  BY DEF LedgerInv
<1>2. Keeps
  BY StirsKeeps
<1>3. RowInv'
  BY <1>1, <1>2, RowsKept DEF SlotInv
<1>4. /\ NumbersCounted' /\ GroupAttemptCeiling'
      /\ \A t \in Task : AttemptsOf(t)' = AttemptsOf(t)
  BY <1>2, CountKept DEF LedgerInv, Keeps
<1>5. DependInv'
  BY <1>1, <1>4, DependStirs
<1>6. AnswerInv'
  BY <1>1, <1>4, AnswersStir
<1>7. DecisionInv'
  BY <1>1, <1>4, DecisionsStir
<1> QED
  BY <1>3, <1>4, <1>5, <1>6, <1>7 DEF LedgerInv

\* A claim.
LEMMA LedgerClaims ==
    ASSUME LedgerInv, SlotInv', SubmittedFirst', NEW l \in Launch, NEW t \in Task,
           ClaimReady(l, t)
    PROVE  LedgerInv'
<1>1. SlotInv /\ RowInv /\ DependInv /\ AnswerInv /\ DecisionInv
  BY DEF LedgerInv
<1>2. PICK n \in AttemptNo, q \in {0} \cup Segment : Claims(t, n, q)
  BY <1>1, ClaimShape
<1>3. RowInv'
  BY <1>1, <1>2, RowsClaimed DEF SlotInv, LedgerInv
<1>4. NumbersCounted' /\ GroupAttemptCeiling'
  BY <1>1, <1>2, CountClaimed DEF SlotInv, LedgerInv
<1>5. DependInv'
  BY <1>1, <1>2, DependClaimed
<1>6. AnswerInv'
  BY <1>1, <1>2, AnswersClaimed
<1>7. DecisionInv'
  BY <1>1, <1>2, DecisionsClaimed DEF LedgerInv
<1> QED
  BY <1>3, <1>4, <1>5, <1>6, <1>7 DEF LedgerInv

\* An exit.
LEMMA LedgerExit ==
    ASSUME LedgerInv, SlotInv', SubmittedFirst', NEW s \in Segment,
           NEW u \in ActiveReport, NEW m \in BOOLEAN, applyExit(s, u, m)
    PROVE  LedgerInv'
<1>1. SlotInv /\ RowInv /\ DependInv /\ AnswerInv /\ DecisionInv
  BY DEF LedgerInv
<1>2. Ends(s)
  BY <1>1, ExitShape
<1>3. Keeps
  BY <1>1, <1>2, ExitKeeps
<1>4. RowInv'
  BY <1>1, <1>3, RowsKept DEF SlotInv
<1>5. /\ NumbersCounted' /\ GroupAttemptCeiling'
      /\ \A t \in Task : AttemptsOf(t)' = AttemptsOf(t)
  BY <1>3, CountKept DEF LedgerInv, Keeps
<1>6. DependInv'
  BY <1>1, <1>5, DependExit
<1>7. /\ status[seg[s].task] \in Live
      /\ status'[seg[s].task] = ExitTaskStatus(s, m)
      /\ \A v \in Task : v # seg[s].task => Follows(v) /\ StatusHolds(v)
  BY <1>1, ExitFollows
<1>8. AnswerInv'
  <2>1. status'[seg[s].task] # "resume_queued"
    BY <1>7, ExitStatuses
  <2> QED
    BY <1>1, <1>2, <1>5, <1>7, <2>1, AnswersExit
<1>9. DecisionInv'
  BY <1>1, <1>2, <1>5, <1>7, DecisionsExit
<1> QED
  BY <1>4, <1>5, <1>6, <1>8, <1>9 DEF LedgerInv

\* A submitted plan.
LEMMA LedgerPlan ==
    ASSUME LedgerInv, SlotInv', SubmittedFirst', NEW l \in Launch, SubmitPlan(l)
    PROVE  LedgerInv'
<1>1. SlotInv /\ RowInv /\ DependInv /\ AnswerInv /\ DecisionInv
  BY DEF LedgerInv
<1>2. Keeps
  BY <1>1, DecisionKeeps, TaskAssumption
<1>3. RowInv'
  BY <1>1, <1>2, RowsKept DEF SlotInv
<1>4. NumbersCounted' /\ GroupAttemptCeiling'
  BY <1>2, CountKept DEF LedgerInv, Keeps
<1>5. DependInv'
  BY <1>1, DependSubmitted
<1>6. AnswerInv' /\ DecisionInv'
  BY <1>1, LedgerSubmitted
<1> QED
  BY <1>3, <1>4, <1>5, <1>6 DEF LedgerInv

\* A decision of the owner.
LEMMA LedgerDecision ==
    ASSUME LedgerInv, SlotInv', SubmittedFirst', NEW t \in Task,
           \/ QueueResume(t)
           \/ \E s \in Segment : AnswerQuestion(t, s)
           \/ \E s \in Segment : AcceptResult(t, s)
           \/ \E s \in Segment : RejectResult(t, s)
           \/ \E e \in events, b \in BOOLEAN : QueueRetry(t, e, b)
           \/ CancelTask(t)
    PROVE  LedgerInv'
<1>1. SlotInv /\ RowInv /\ DependInv /\ AnswerInv /\ DecisionInv
  BY DEF LedgerInv
<1>2. Keeps
  BY <1>1, DecisionKeeps
<1>3. RowInv'
  BY <1>1, <1>2, RowsKept DEF SlotInv
<1>4. /\ NumbersCounted' /\ GroupAttemptCeiling'
      /\ \A u \in Task : AttemptsOf(u)' = AttemptsOf(u)
  BY <1>2, CountKept DEF LedgerInv, Keeps
<1>5. DependInv'
  BY <1>1, <1>4, DependDecision
<1>6. AnswerInv'
  BY <1>1, <1>4, AnswersDecision
<1>7. DecisionInv'
  BY <1>1, <1>4, DecisionsDecided
<1> QED
  BY <1>3, <1>4, <1>5, <1>6, <1>7 DEF LedgerInv

\* The steps that stir, whoever takes them.
LEMMA NextStirs ==
    ASSUME LedgerInv, [Next]_vars
    PROVE  \/ Stirs
           \/ \E l \in Launch : SubmitPlan(l)
           \/ \E l \in Launch, t \in Task : ClaimReady(l, t)
           \/ \E s \in Segment, u \in ActiveReport, m \in BOOLEAN : applyExit(s, u, m)
           \/ \E t \in Task :
                  \/ QueueResume(t)
                  \/ \E s \in Segment : AnswerQuestion(t, s)
                  \/ \E s \in Segment : AcceptResult(t, s)
                  \/ \E s \in Segment : RejectResult(t, s)
                  \/ \E e \in events, b \in BOOLEAN : QueueRetry(t, e, b)
                  \/ CancelTask(t)
<1>0. SlotInv /\ TypeOK /\ RowHasAttempt /\ SubmittedFirst
  BY DEF LedgerInv, SlotInv, RowInv, DependInv
<1>1. CASE \/ \E l \in Launch, p \in Proc : RegisterHost(l, p)
           \/ \E l \in Launch : AuthorizeHostRebind(l) \/ BeginHostReconcile(l)
           \/ \E l \in Launch : FinishHostReconcile(l) \/ MarkHostOffline(l)
           \/ \E l \in Launch : RetireHost(l)
           \/ RetirableHosts
           \/ BeginCoordinatorEpoch
           \/ UNCHANGED vars
  BY <1>0, <1>1, HostsStir
<1>2. CASE \E s \in Segment :
               \/ EventProgress(s)
               \/ EventSession(s)
               \/ EventQuestion(s)
               \/ \E k \in {"result", "stopped", "failed"} : EventOutcome(s, k)
               \/ EventUnknown(s)
               \/ RegisterReportCapability(s)
               \/ \E v \in ReportRev : ReportQuestion(s, v)
               \/ ReportFailure(s)
  BY <1>0, <1>2, EventsStir
<1>3. CASE (\E t \in Task : StopTask(t)) \/ MarkStoppingUnknown
  BY <1>0, <1>3, StopsStir
<1> QED
  BY <1>1, <1>2, <1>3 DEF Next

\* Every step keeps the invariant.
LEMMA LedgerStep == LedgerInv /\ [Next]_vars => LedgerInv'
<1> SUFFICES ASSUME LedgerInv, [Next]_vars PROVE LedgerInv'
  OBVIOUS
<1>1. SlotInv'
  BY SlotStep DEF LedgerInv
<1>2. SubmittedFirst'
  BY SubmittedKept DEF LedgerInv, SlotInv, DependInv
<1> QED
  BY <1>1, <1>2, NextStirs, LedgerStirs, LedgerPlan, LedgerClaims, LedgerExit, LedgerDecision

\* The invariant of the ledger, of every reachable state.
LEMMA Invariant == Spec => []LedgerInv
BY LedgerInit, LedgerStep, PTL DEF Spec

-----------------------------------------------------------------------------
(* What the ledger promises *)

\* For every plan and every interleaving of requests, events, stops, retries
\* and restarts: a task is attempted only on completed dependencies, and a
\* completed task is never reopened under its dependents (claim and
\* releaseReadyTx).
THEOREM DependenciesComplete == Spec => []DependencySafety
<1>1. LedgerInv => DependencySafety
  BY DEF LedgerInv, DependInv
<1> QED
  BY <1>1, Invariant, PTL

\* No release is lost: a task is queued only while one of its dependencies
\* has not completed (releaseReadyTx runs inside the transaction that
\* completes the last one).
THEOREM NoLostRelease == Spec => []QueuedWaits
<1>1. LedgerInv => QueuedWaits
  BY DEF LedgerInv, DependInv
<1> QED
  BY <1>1, Invariant, PTL

\* A cancelled or blocked task blocks everything downstream, whatever the
\* depth of the plan (the loop of blockFailedDependencies).
THEOREM BlockingReachesAll == Spec => []BlockingPropagates
<1>1. LedgerInv => BlockingPropagates
  BY DEF LedgerInv, DependInv
<1> QED
  BY <1>1, Invariant, PTL

\* The tasks of a budget group, in one plan or in several, share their
\* attempts: no number is used twice and their count never passes the
\* largest max_attempts among them (the attempt count of ClaimReady).
THEOREM AttemptsAreBounded == Spec => []GroupAttemptCeiling
<1>1. LedgerInv => GroupAttemptCeiling
  BY DEF LedgerInv
<1> QED
  BY <1>1, Invariant, PTL

\* An attempt leads to one retry at most, whichever of its failure events the
\* decisions name (QueueRetry).
THEOREM RetriedOnce == Spec => []RetryOncePerAttempt
<1>1. LedgerInv => RetryOncePerAttempt
  BY DEF LedgerInv, DecisionInv
<1> QED
  BY <1>1, Invariant, PTL

\* An answer waits with its task, then is with the one segment launched for
\* it, and is never left behind (AnswerQuestion, ClaimReady, applyExit).
THEOREM AnswerNotLost == Spec => []AnswerCarried
<1>1. LedgerInv => AnswerCarried
  BY DEF LedgerInv, AnswerInv
<1> QED
  BY <1>1, Invariant, PTL

\* The payload and the question that are read for a grant sent again are
\* those of the claim.
LEMMA ResentIsClaimed == LedgerInv => ResendIdentity
<1> SUFFICES ASSUME LedgerInv, NEW s \in Segment, seg[s].st = "launch_requested"
             PROVE  ResentPayload(s) = seg[s].pay /\ ResentQuestion(s, seg[s].ask)
  BY DEF ResendIdentity
<1>0. SlotInv /\ TypeOK /\ RowInv /\ AnswerInv
  BY DEF LedgerInv, SlotInv
<1>1. Active(s) /\ Used(s)
  BY DEF Active, Used, Occupying
<1>2. seg[s].pay = fallback[seg[s].task]
  BY <1>0, <1>1 DEF RowInv, PayloadHeld
<1> DEFINE started == QuestionsIn(seg[s].task, seg[s].no, "resume_started")
<1>3. \A r \in started : r \in Segment /\ seg[r].task = seg[s].task
                         /\ question[r].st = "resume_started"
  BY DEF QuestionsIn, SegmentsOf
<1>4. \A r \in started : seg[s].ask = r
  <2> SUFFICES ASSUME NEW r \in started PROVE seg[s].ask = r
    OBVIOUS
  <2>1. PICK a \in ActiveOf(seg[r].task) : seg[a].ask = r
    BY <1>0, <1>3 DEF AnswerInv, AnswerCarried
  <2>2. s \in ActiveOf(seg[s].task) /\ seg[s].task \in Task
    BY <1>0, <1>1, SegmentTask DEF ActiveOf, ActiveSegments, Active
  <2>3. a = s
    BY <1>0, <1>3, <2>1, <2>2 DEF SlotInv, SlotOwnership
  <2> QED
    BY <2>1, <2>3
<1>5. seg[s].ask = 0 => started = {}
  BY <1>3, <1>4 DEF Segment
<1>6. seg[s].ask # 0 => seg[s].ask \in started
  <2> SUFFICES ASSUME seg[s].ask # 0 PROVE seg[s].ask \in started
    OBVIOUS
  <2>1. seg[s] \in SegmentRow
    BY <1>0 DEF TypeOK
  <2>2. PICK q \in Segment : q = seg[s].ask
    BY <2>1 DEF SegmentRow
  <2>3. /\ question[q].st = "resume_started"
        /\ seg[q].task = seg[s].task /\ seg[q].no = seg[s].no
    BY <1>0, <1>1, <2>2 DEF AnswerInv, AskedIsStarted
  <2>4. Used(q)
    BY <1>0, <2>3, AskedRow
  <2> QED
    BY <2>2, <2>3, <2>4 DEF QuestionsIn, SegmentsOf, Used
<1>7. \A r \in started : question[r].rev <= question[seg[s].ask].rev
  <2> SUFFICES ASSUME NEW r \in started PROVE question[r].rev <= question[r].rev
    BY <1>4
  <2>1. question[r] \in QuestionRow
    BY <1>0, <1>3 DEF TypeOK
  <2>2. question[r].rev \in Nat
    BY <2>1 DEF QuestionRow
  <2> QED
    BY <2>2
<1>8. ResentQuestion(s, seg[s].ask)
  BY <1>5, <1>6, <1>7 DEF ResentQuestion
<1> QED
  BY <1>2, <1>8 DEF ResentPayload

\* A grant sent again after a crash or a reconnection is the one the claim
\* made, whatever happened to payloads and questions of other tasks meanwhile
\* (PendingLaunches).
THEOREM ResendIsIdentical == Spec => []ResendIdentity
BY ResentIsClaimed, Invariant, PTL

\* What Decidable promises is what the decisions ask for.
LEMMA OwnerIsNotStuck == LedgerInv => OwnerCanDecide
<1> SUFFICES ASSUME LedgerInv, NEW t \in Task
             PROVE  /\ status[t] = "waiting_question" =>
                           \E s \in Segment : IsLatest(s, t) /\ question[s].st = "open"
                    /\ status[t] = "result_ready" => \E s \in Segment : ReviewAllowed(t, s)
                    /\ /\ status[t] = "failed"
                       /\ Cardinality(GroupAttempts(GroupOf[t])) < AttemptLimit(t)
                       => \E e \in events : RetryAllowed(t, e)
                    /\ status[t] = "interrupted" =>
                           \E n \in AttemptNo :
                               IsLatestAttempt(t, n) /\ attempt[t][n] = "interrupted"
  BY DEF OwnerCanDecide
<1>1. SlotInv /\ Decidable(t)
  BY DEF LedgerInv, DecisionInv
<1>2. status[t] = "result_ready" => \E s \in Segment : ReviewAllowed(t, s)
  BY <1>1 DEF Decidable, ReviewAllowed
<1>3. ASSUME status[t] = "failed",
             Cardinality(GroupAttempts(GroupOf[t])) < AttemptLimit(t)
      PROVE  \E e \in events : RetryAllowed(t, e)
  <2>1. ActiveOf(t) = {}
    BY <1>1, <1>3, LiveIsActive DEF Live
  <2>2. PICK e \in events \ retried :
            /\ e[1] \in SegmentsOf(t)
            /\ e[2] = "result" => review[e[1]] = "reject"
            /\ attempt[t][seg[e[1]].no] = "failed"
            /\ IsLatestAttempt(t, seg[e[1]].no)
    BY <1>1, <1>3 DEF Decidable
  <2>3. RetryAllowed(t, e)
    BY <1>3, <2>1, <2>2 DEF RetryAllowed
  <2> QED
    BY <2>2, <2>3
<1> QED
  BY <1>1, <1>2, <1>3 DEF Decidable

\* A task that waits for its owner can be decided: no late event, restart or
\* earlier decision leaves it with nothing to base the decision on
\* (QueueResume, AnswerQuestion, AcceptResult, RejectResult, QueueRetry).
THEOREM OwnerAlwaysCanDecide == Spec => []OwnerCanDecide
BY OwnerIsNotStuck, Invariant, PTL

\* Finished tasks keep their status in every step.
LEMMA StatusesStay ==
    ASSUME LedgerInv, [Next]_vars, NEW t \in Task,
           status[t] \in {"completed", "cancelled", "blocked_dependency"}
    PROVE  status'[t] = status[t]
<1>0. SlotInv
  BY DEF LedgerInv
<1>1. CASE Stirs
  BY <1>1 DEF Stirs, TaskStirs, Live
<1>2. CASE \E l \in Launch : SubmitPlan(l)
  BY <1>0, <1>2, SubmitMoves DEF StatusHolds
<1>3. ASSUME NEW l \in Launch, NEW u \in Task, ClaimReady(l, u)
      PROVE  status'[t] = status[t]
  <2>1. \E n \in AttemptNo, q \in {0} \cup Segment : Claims(u, n, q)
    BY <1>0, <1>3, ClaimShape
  <2>2. u # t
    BY <2>1 DEF Claims
  <2> QED
    BY <2>1, <2>2 DEF Claims
<1>4. ASSUME NEW s \in Segment, NEW u \in ActiveReport, NEW m \in BOOLEAN,
             applyExit(s, u, m)
      PROVE  status'[t] = status[t]
  BY <1>0, <1>4, ExitFollows DEF StatusHolds, Live
<1>5. ASSUME NEW v \in Task,
             \/ QueueResume(v)
             \/ \E s \in Segment : AnswerQuestion(v, s)
             \/ \E s \in Segment : AcceptResult(v, s)
             \/ \E s \in Segment : RejectResult(v, s)
             \/ \E e \in events, b \in BOOLEAN : QueueRetry(v, e, b)
             \/ CancelTask(v)
      PROVE  status'[t] = status[t]
  <2>1. v # t
    BY <1>0, <1>5, DecisionMoves
  <2>2. StatusHolds(t)
    BY <1>0, <1>5, <2>1, DecisionMoves
  <2> QED
    BY <2>2 DEF StatusHolds
<1> QED
  BY <1>1, <1>2, <1>3, <1>4, <1>5, NextStirs

\* A step that is not a claim and not an exit leaves exited and unexited rows
\* as they are.
LEMMA OtherRowsRest ==
    ASSUME LedgerInv,
           \/ \E l \in Launch : SubmitPlan(l)
           \/ \E t \in Task :
                  \/ QueueResume(t)
                  \/ \E s \in Segment : AnswerQuestion(t, s)
                  \/ \E s \in Segment : AcceptResult(t, s)
                  \/ \E s \in Segment : RejectResult(t, s)
                  \/ \E e \in events, b \in BOOLEAN : QueueRetry(t, e, b)
                  \/ CancelTask(t)
    PROVE  seg' = seg
BY DEF SubmitPlan, QueueResume, AnswerQuestion, AcceptResult, RejectResult, QueueRetry,
       CancelTask, workVars

\* An exited segment keeps its outcome and its settled budget in every step.
LEMMA ExitedStays ==
    ASSUME LedgerInv, [Next]_vars, NEW s \in Segment, seg[s].st = "exited"
    PROVE  /\ seg'[s].st = "exited"
           /\ seg'[s].outcome = seg[s].outcome
           /\ seg'[s].charge = seg[s].charge
<1>0. SlotInv /\ ~ Active(s) /\ Used(s)
  BY DEF LedgerInv, Active, Used, Occupying
<1>1. CASE Stirs
  <2>1. RowStirs(s)
    BY <1>1 DEF Stirs
  <2> QED
    BY <1>0, <2>1 DEF RowStirs, OutcomeMoves
<1>2. CASE seg' = seg
  BY <1>2
<1>3. ASSUME NEW l \in Launch, NEW u \in Task, ClaimReady(l, u)
      PROVE  seg'[s] = seg[s]
  <2>1. PICK n \in AttemptNo, q \in {0} \cup Segment : Claims(u, n, q)
    BY <1>0, <1>3, ClaimShape
  <2>2. s # nextSeg
    BY <1>0, <2>1 DEF Claims, Segment
  <2> QED
    BY <2>1, <2>2 DEF Claims
<1>4. ASSUME NEW r \in Segment, NEW u \in ActiveReport, NEW m \in BOOLEAN,
             applyExit(r, u, m)
      PROVE  seg'[s] = seg[s]
  BY <1>0, <1>4, ExitShape DEF Ends
<1> QED
  BY <1>1, <1>2, <1>3, <1>4, NextStirs, OtherRowsRest

\* Finished work stays finished, whatever arrives late: no event, request or
\* restart moves a completed, cancelled or blocked task, and none touches what
\* an exited segment has settled (applyEvent, applyExit, RequestStop).
THEOREM FinishedForGood == Spec => FinishedStays
<1>1. LedgerInv /\ [Next]_vars =>
        [ /\ \A t \in Task :
                status[t] \in {"completed", "cancelled", "blocked_dependency"} =>
                    status'[t] = status[t]
          /\ \A s \in Segment : seg[s].st = "exited" =>
                /\ seg'[s].st = "exited"
                /\ seg'[s].outcome = seg[s].outcome
                /\ seg'[s].charge = seg[s].charge ]_vars
  BY StatusesStay, ExitedStays
<1> QED
  BY <1>1, Invariant, PTL DEF Spec, FinishedStays

\* A segment whose stop was requested exits with its task interrupted.
LEMMA RequestedEndsInterrupted ==
    ASSUME LedgerInv, [Next]_vars, NEW s \in Segment, seg[s].reason = "request",
           seg[s].st # "exited", seg'[s].st = "exited"
    PROVE  status'[seg[s].task] = "interrupted"
<1>0. SlotInv
  BY DEF LedgerInv
<1>1. seg[s].outcome = "stopped"
  BY DEF LedgerInv, RowInv, RequestDecides
<1>2. CASE Stirs
  BY <1>2 DEF Stirs, RowStirs
<1>3. CASE seg' = seg
  BY <1>3
<1>4. ASSUME NEW l \in Launch, NEW u \in Task, ClaimReady(l, u)
      PROVE  FALSE
  <2>1. PICK n \in AttemptNo, q \in {0} \cup Segment : Claims(u, n, q)
    BY <1>0, <1>4, ClaimShape
  <2> QED
    BY <2>1 DEF Claims
<1>5. ASSUME NEW r \in Segment, NEW u \in ActiveReport, NEW m \in BOOLEAN,
             applyExit(r, u, m)
      PROVE  status'[seg[s].task] = "interrupted"
  <2>1. r = s
    BY <1>0, <1>5, ExitShape DEF Ends
  <2>2. ExitTaskStatus(s, m) = "interrupted"
    BY <1>1, ExitStatuses
  <2> QED
    BY <1>0, <1>5, <2>1, <2>2, ExitFollows
<1> QED
  BY <1>2, <1>3, <1>4, <1>5, NextStirs, OtherRowsRest

\* A requested stop wins over a result, a failure or a question that arrives
\* between the request and the exit (RequestStop and applyExit).
THEOREM RequestedStopWins == Spec => StopRequestWins
<1>1. LedgerInv /\ [Next]_vars =>
        [ \A s \in Segment :
            /\ seg[s].reason = "request"
            /\ seg[s].st # "exited"
            /\ seg'[s].st = "exited"
            => status'[seg[s].task] = "interrupted" ]_vars
  BY RequestedEndsInterrupted
<1> QED
  BY <1>1, Invariant, PTL DEF Spec, StopRequestWins

-----------------------------------------------------------------------------
(* Concurrency limits *)

\* A claim looks at the limits with the rows it finds, and adds its own.
LEMMA ClaimWithinLimits ==
    ASSUME LedgerInv, TypeOK', NEW l \in Launch, NEW t \in Task, ClaimReady(l, t),
           NEW s \in Segment, seg[s].st = "none", seg'[s].st # "none"
    PROVE  /\ Cardinality(ActiveSegments') <= limits.global
           /\ \A r \in Keys[seg'[s].task][seg'[s].pay + 1] :
                  Cardinality({a \in ActiveSegments' :
                      r \in Keys[seg'[a].task][seg'[a].pay + 1]}) <= CapOf(r)
<1>0. SlotInv /\ TypeOK /\ RowInv
  BY DEF LedgerInv, SlotInv
<1>1. PICK n \in AttemptNo, q \in {0} \cup Segment : Claims(t, n, q)
  BY <1>0, ClaimShape
<1>2. Cardinality(ActiveSegments) < limits.global /\ Fits(t)
  BY DEF ClaimReady, selectReady, Candidates
<1>3. s = nextSeg
  BY <1>1 DEF Claims
<1>4. /\ seg'[s].st = "launch_requested" /\ seg'[s].task = t /\ seg'[s].pay = fallback[t]
      /\ \A a \in Segment : a # s => seg'[a] = seg[a]
  BY <1>1, <1>3 DEF Claims
<1>5. s \notin ActiveSegments /\ ActiveSegments' = ActiveSegments \cup {s}
  BY <1>4 DEF ActiveSegments, Occupying
<1>6. ActiveSegments \subseteq Segment /\ IsFiniteSet(ActiveSegments)
  <2>1. IsFiniteSet(Segment)
    BY BoundAssumption, FS_Interval DEF Segment
  <2>2. ActiveSegments \subseteq Segment
    BY DEF ActiveSegments
  <2> QED
    BY <2>1, <2>2, FS_Subset
<1>7. limits.global \in Nat /\ limits.cap \in [Resource -> 0..32]
  <2>1. limits \in [global : 1..32, cap : [Resource -> 0..32]]
    BY <1>0, LimitAssumption DEF TypeOK
  <2> QED
    BY <2>1
<1>8. Cardinality(ActiveSegments') <= limits.global
  <2>1. Cardinality(ActiveSegments') = Cardinality(ActiveSegments) + 1
    BY <1>5, <1>6, FS_AddElement
  <2>2. Cardinality(ActiveSegments) \in Nat
    BY <1>6, FS_CardinalityType
  <2> QED
    BY <1>2, <1>7, <2>1, <2>2
<1>9. ASSUME NEW r \in Keys[t][fallback[t] + 1]
      PROVE  Cardinality({a \in ActiveSegments' :
                 r \in Keys[seg'[a].task][seg'[a].pay + 1]}) <= CapOf(r)
  <2>1. \A a \in ActiveSegments : seg[a].pay = fallback[seg[a].task]
    BY <1>0, <1>6 DEF RowInv, PayloadHeld, ActiveSegments, Active
  <2>2. InUse(r) = {a \in ActiveSegments : r \in Keys[seg[a].task][seg[a].pay + 1]}
    BY <2>1 DEF InUse
  <2>3. \A a \in ActiveSegments : seg'[a] = seg[a]
    BY <1>4, <1>5, <1>6
  <2>4. {a \in ActiveSegments' : r \in Keys[seg'[a].task][seg'[a].pay + 1]}
            = InUse(r) \cup {s}
    BY <1>4, <1>5, <2>2, <2>3
  <2>5. IsFiniteSet(InUse(r)) /\ s \notin InUse(r)
    BY <1>5, <1>6, FS_Subset DEF InUse
  <2>6. Cardinality(InUse(r) \cup {s}) = Cardinality(InUse(r)) + 1
    BY <2>5, FS_AddElement
  <2>7. Cardinality(InUse(r)) \in Nat
    BY <2>5, FS_CardinalityType
  <2>8. r \in Resource
    <3>1. fallback[t] \in Nat /\ fallback[t] < Len(Keys[t])
      BY <1>0 DEF TypeOK, RowInv, PayloadHeld
    <3>2. Keys[t] \in Seq(SUBSET Resource)
      BY KeysAssumption
    <3>3. Keys[t][fallback[t] + 1] \in SUBSET Resource
      BY <3>1, <3>2
    <3> QED
      BY <3>3
  <2>9. CapOf(r) \in Int
    <3>1. limits.cap[r] \in Int
      BY <1>7, <2>8
    <3> QED
      BY <1>7, <3>1 DEF CapOf
  <2>10. Cardinality(InUse(r)) < CapOf(r)
    BY <1>2 DEF Fits
  <2>11. Cardinality(InUse(r)) + 1 <= CapOf(r)
    BY <2>7, <2>9, <2>10
  <2> QED
    BY <2>4, <2>6, <2>11
<1> QED
  BY <1>4, <1>8, <1>9

\* A row is only created by a claim.
LEMMA OnlyClaimsLaunch ==
    ASSUME LedgerInv, [Next]_vars, NEW s \in Segment, seg[s].st = "none",
           seg'[s].st # "none"
    PROVE  \E l \in Launch, t \in Task : ClaimReady(l, t)
<1>0. SlotInv
  BY DEF LedgerInv
<1>1. ~ Stirs
  <2>1. Stirs => RowStands(s)
    BY DEF Stirs, RowStirs
  <2> QED
    BY <2>1 DEF RowStands
<1>2. ASSUME NEW r \in Segment, NEW u \in ActiveReport, NEW m \in BOOLEAN,
             applyExit(r, u, m)
      PROVE  FALSE
  <2>1. Ends(r)
    BY <1>0, <1>2, ExitShape
  <2>2. r # s
    BY <2>1 DEF Ends, Active, Occupying
  <2> QED
    BY <2>1, <2>2 DEF Ends
<1>3. seg' # seg
  OBVIOUS
<1> QED
  BY <1>1, <1>2, <1>3, NextStirs, OtherRowsRest

\* A launch never exceeds the limits loaded last, for every configuration,
\* assignment of resources and interleaving with restarts and retries that
\* change them (selectReady and the global count of ClaimReady).
THEOREM LaunchesWithinLimits == Spec => LaunchWithinLimits
<1>1. LedgerInv /\ [Next]_vars =>
        [ \A s \in Segment : seg[s].st = "none" /\ seg'[s].st # "none" =>
            /\ Cardinality(ActiveSegments') <= limits.global
            /\ \A r \in Keys[seg'[s].task][seg'[s].pay + 1] :
                   Cardinality({a \in ActiveSegments' :
                       r \in Keys[seg'[a].task][seg'[a].pay + 1]}) <= CapOf(r) ]_vars
  <2> SUFFICES ASSUME LedgerInv, [Next]_vars, NEW s \in Segment, seg[s].st = "none",
                      seg'[s].st # "none"
               PROVE  /\ Cardinality(ActiveSegments') <= limits.global
                      /\ \A r \in Keys[seg'[s].task][seg'[s].pay + 1] :
                             Cardinality({a \in ActiveSegments' :
                                 r \in Keys[seg'[a].task][seg'[a].pay + 1]}) <= CapOf(r)
    OBVIOUS
  <2>1. PICK l \in Launch, t \in Task : ClaimReady(l, t)
    BY OnlyClaimsLaunch
  <2>2. TypeOK'
    BY TypeStep DEF LedgerInv, SlotInv
  <2> QED
    BY <2>1, <2>2, ClaimWithinLimits
<1> QED
  BY <1>1, Invariant, PTL DEF Spec, LaunchWithinLimits

-----------------------------------------------------------------------------
(* Sums over finite sets *)

LEMMA NatMinimum ==
    ASSUME NEW S \in SUBSET Nat, S # {}
    PROVE  \E x \in S : \A y \in S : x <= y
<1> DEFINE less == {p \in Nat \X Nat : p[1] < p[2]}
<1>1. IsWellFoundedOn(less, Nat)
  BY NatLessThanWellFounded DEF OpToRel
<1>2. PICK x \in S : \A y \in S : ~ (<<y, x>> \in less)
  <2> HIDE DEF less
  <2> QED
    BY <1>1, WFMin
<1>3. \A y \in S : ~ (y < x)
  BY <1>2
<1> QED
  BY <1>3

\* The element the sum takes next.
Any(s) == CHOOSE x \in s : TRUE

\* T adds up a over the subsets of S.
Tally(T, a, S) ==
    /\ T \in [SUBSET S -> Nat]
    /\ \A s \in SUBSET S : T[s] = IF s = {} THEN 0 ELSE a[Any(s)] + T[s \ {Any(s)}]

\* A nonempty finite set without one of its elements is smaller.
LEMMA Smaller ==
    ASSUME NEW S, IsFiniteSet(S), NEW s \in SUBSET S, NEW x \in s
    PROVE  /\ s \ {x} \in SUBSET S
           /\ Cardinality(s) \in Nat /\ Cardinality(s \ {x}) \in Nat
           /\ Cardinality(s \ {x}) < Cardinality(s)
<1>1. IsFiniteSet(s)
  BY FS_Subset
<1>2. Cardinality(s) \in Nat /\ IsFiniteSet(s \ {x})
  BY <1>1, FS_CardinalityType, FS_RemoveElement
<1>3. Cardinality(s \ {x}) = Cardinality(s) - 1 /\ Cardinality(s \ {x}) \in Nat
  BY <1>1, <1>2, FS_RemoveElement, FS_CardinalityType
<1> QED
  BY <1>2, <1>3

\* Among the subsets with some property there is a smallest one.
LEMMA SmallestSubset ==
    ASSUME NEW S, IsFiniteSet(S), NEW B \in SUBSET (SUBSET S), B # {}
    PROVE  \E s \in B : \A x \in s : s \ {x} \notin B
<1> DEFINE C == {Cardinality(s) : s \in B}
<1>1. \A s \in B : Cardinality(s) \in Nat
  BY FS_Subset, FS_CardinalityType
<1>2. C \in SUBSET Nat /\ C # {}
  BY <1>1
<1>3. PICK n \in C : \A m \in C : n <= m
  <2> HIDE DEF C
  <2> QED
    BY <1>2, NatMinimum
<1>4. PICK s \in B : Cardinality(s) = n
  BY <1>3
<1>5. \A x \in s : s \ {x} \notin B
  <2> SUFFICES ASSUME NEW x \in s, s \ {x} \in B PROVE FALSE
    OBVIOUS
  <2>1. Cardinality(s \ {x}) < Cardinality(s) /\ Cardinality(s \ {x}) \in Nat /\ Cardinality(s) \in Nat
    BY Smaller
  <2>2. Cardinality(s \ {x}) \in C
    OBVIOUS
  <2>3. n <= Cardinality(s \ {x})
    BY <1>3, <2>2
  <2> HIDE DEF C
  <2> QED
    BY <1>4, <2>1, <2>3
<1> QED
  BY <1>5

\* Every function on a finite set adds up.
LEMMA TallyExists ==
    ASSUME NEW S, IsFiniteSet(S), NEW a \in [S -> Nat]
    PROVE  \E T : Tally(T, a, S)
<1> DEFINE stage(n) == {s \in SUBSET S : Cardinality(s) <= n}
           next(T, s) == IF s = {} THEN 0 ELSE a[Any(s)] + T[s \ {Any(s)}]
           partial(T, n) == /\ T \in [stage(n) -> Nat]
                            /\ \A s \in stage(n) : T[s] = next(T, s)
           B == {n \in Nat : \A T : ~ partial(T, n)}
<1>0. \A s \in SUBSET S : Cardinality(s) \in Nat /\ (Cardinality(s) = 0 => s = {})
  BY FS_Subset, FS_CardinalityType, FS_EmptySet
<1>1. \A s \in SUBSET S : s # {} => Any(s) \in s
  BY DEF Any
<1>2. \A s \in SUBSET S : s # {} => /\ s \ {Any(s)} \in SUBSET S
                                    /\ Cardinality(s \ {Any(s)}) < Cardinality(s)
                                    /\ Cardinality(s \ {Any(s)}) \in Nat
  BY <1>1, Smaller
<1>3. B = {}
  <2> SUFFICES ASSUME B # {} PROVE FALSE
    OBVIOUS
  <2>1. PICK n \in B : \A m \in B : n <= m
    <3>1. B \in SUBSET Nat
      OBVIOUS
    <3> HIDE DEF B
    <3> QED
      BY <3>1, NatMinimum
  <2>2. CASE n = 0
    <3> DEFINE T == [s \in stage(0) |-> 0]
    <3>1. \A s \in stage(0) : s = {}
      BY <1>0
    <3>2. partial(T, 0)
      BY <3>1
    <3> QED
      BY <2>2, <3>2
  <2>3. CASE n # 0
    <3>1. n \in Nat /\ n - 1 \in Nat /\ ~ (n <= n - 1)
      BY <2>1, <2>3
    <3>2. n - 1 \notin B
      BY <2>1, <3>1
    <3>3. PICK T : partial(T, n - 1)
      BY <3>1, <3>2
    <3> DEFINE U == [s \in stage(n) |-> next(T, s)]
    <3>4. \A s \in stage(n) : s # {} => s \ {Any(s)} \in stage(n - 1) /\ s \ {Any(s)} \in stage(n)
      BY <1>0, <1>2, <3>1
    <3>5. \A s \in stage(n) : s # {} => a[Any(s)] \in Nat
      BY <1>1
    <3>6. \A s \in stage(n) : next(T, s) \in Nat
      BY <3>3, <3>4, <3>5
    <3>7. U \in [stage(n) -> Nat]
      BY <3>6
    <3>8. \A s \in stage(n - 1) : s \in stage(n) /\ T[s] = next(T, s)
      BY <1>0, <3>1, <3>3
    <3>9. \A s \in stage(n - 1) : U[s] = T[s]
      BY <3>8
    <3>10. \A s \in stage(n) : U[s] = next(U, s)
      <4> SUFFICES ASSUME NEW s \in stage(n) PROVE next(T, s) = next(U, s)
        OBVIOUS
      <4> HIDE DEF U
      <4> QED
        BY <3>4, <3>9
    <3>11. partial(U, n)
      BY <3>7, <3>10
    <3> QED
      BY <2>1, <3>11
  <2> QED
    BY <2>2, <2>3
<1>4. PICK n \in Nat : n = Cardinality(S)
  BY FS_CardinalityType
<1>5. stage(n) = SUBSET S
  BY <1>4, FS_Subset
<1>6. PICK T : partial(T, n)
  BY <1>3
<1>7. Tally(T, a, S)
  BY <1>5, <1>6 DEF Tally
<1> QED
  BY <1>7

\* The order does not matter: any element can be taken first.
LEMMA TallyAdds ==
    ASSUME NEW S, IsFiniteSet(S), NEW a \in [S -> Nat], NEW T, Tally(T, a, S),
           NEW s \in SUBSET S, NEW x \in s
    PROVE  T[s] = a[x] + T[s \ {x}]
<1> DEFINE B == {r \in SUBSET S : \E y \in r : T[r] # a[y] + T[r \ {y}]}
<1>1. B = {}
  <2> SUFFICES ASSUME B # {} PROVE FALSE
    OBVIOUS
  <2>1. PICK r \in B : \A y \in r : r \ {y} \notin B
    <3>1. B \in SUBSET (SUBSET S)
      OBVIOUS
    <3> HIDE DEF B
    <3> QED
      BY <3>1, SmallestSubset
  <2>2. r \in SUBSET S
    OBVIOUS
  <2>3. PICK y \in r : T[r] # a[y] + T[r \ {y}]
    OBVIOUS
  <2>4. PICK c \in r : c = Any(r)
    BY <2>3 DEF Any
  <2>5. T[r] = a[c] + T[r \ {c}]
    BY <2>2, <2>3, <2>4 DEF Tally
  <2>6. c # y
    BY <2>3, <2>5
  <2>7. T[r \ {c}] = a[y] + T[(r \ {c}) \ {y}]
    BY <2>1, <2>2, <2>3, <2>4, <2>6
  <2>8. T[r \ {y}] = a[c] + T[(r \ {y}) \ {c}]
    BY <2>1, <2>2, <2>3, <2>4, <2>6
  <2>9. (r \ {c}) \ {y} = (r \ {y}) \ {c}
    OBVIOUS
  <2>10. PICK k \in Nat : k = T[(r \ {y}) \ {c}]
    BY <2>2 DEF Tally
  <2>11. a[c] \in Nat /\ a[y] \in Nat
    BY <2>2, <2>3, <2>4
  <2> HIDE DEF B
  <2> QED
    BY <2>3, <2>5, <2>7, <2>8, <2>9, <2>10, <2>11
<1> QED
  BY <1>1

\* Two functions that differ at most at x.
LEMMA TallyChanges ==
    ASSUME NEW S, IsFiniteSet(S), NEW a \in [S -> Nat], NEW b \in [S -> Nat], NEW x,
           \A y \in S \ {x} : a[y] = b[y],
           NEW T, Tally(T, a, S), NEW U, Tally(U, b, S), NEW s \in SUBSET S
    PROVE  IF x \in s THEN U[s] + a[x] = T[s] + b[x] ELSE U[s] = T[s]
<1>1. \A r \in SUBSET S : x \notin r => U[r] = T[r]
  <2> DEFINE B == {r \in SUBSET S : x \notin r /\ U[r] # T[r]}
  <2> SUFFICES ASSUME B # {} PROVE FALSE
    OBVIOUS
  <2>1. PICK r \in B : \A y \in r : r \ {y} \notin B
    <3>1. B \in SUBSET (SUBSET S)
      OBVIOUS
    <3> HIDE DEF B
    <3> QED
      BY <3>1, SmallestSubset
  <2>2. r \in SUBSET S /\ x \notin r /\ U[r] # T[r]
    OBVIOUS
  <2>3. r # {}
    BY <2>2 DEF Tally
  <2>4. PICK c \in r : c = Any(r)
    BY <2>3 DEF Any
  <2>5. T[r] = a[c] + T[r \ {c}] /\ U[r] = b[c] + U[r \ {c}]
    BY <2>2, <2>3, <2>4 DEF Tally
  <2>6. U[r \ {c}] = T[r \ {c}] /\ a[c] = b[c]
    BY <2>1, <2>2, <2>4
  <2> QED
    BY <2>2, <2>5, <2>6
<1>2. CASE x \notin s
  BY <1>1, <1>2
<1>3. CASE x \in s
  <2>1. T[s] = a[x] + T[s \ {x}] /\ U[s] = b[x] + U[s \ {x}]
    BY <1>3, TallyAdds
  <2>2. U[s \ {x}] = T[s \ {x}]
    BY <1>1
  <2>3. a[x] \in Nat /\ b[x] \in Nat /\ T[s \ {x}] \in Nat
    BY <1>3 DEF Tally
  <2> QED
    BY <1>3, <2>1, <2>2, <2>3
<1> QED
  BY <1>2, <1>3

-----------------------------------------------------------------------------
(* The budget of a group *)

\* What every row has used or reserves.
Charges == [s \in Segment |-> seg[s].charge]

\* The rows of group g.
RowsOf(g) == {s \in Segment : seg[s].st # "none" /\ GroupOf[seg[s].task] = g}

\* What the rows of a group have been charged is their sum, in any order.
ChargesAddUp ==
    \A T : Tally(T, Charges, Segment) => \A g \in Group : Charged(g) = T[RowsOf(g)]

\* The segments a run can create are finitely many.
LEMMA SegmentsFinite == IsFiniteSet(Segment)
BY BoundAssumption, FS_Interval DEF Segment

\* The fold that SUM stands for takes the rows one by one.
LEMMA ChargedIsTally ==
    ASSUME NEW R \in SUBSET Segment, NEW T, Tally(T, Charges, Segment)
    PROVE  MapThenSumSet(LAMBDA s : seg[s].charge, R) = T[R]
<1> DEFINE next(f, s) == IF s = {} THEN 0 ELSE seg[Any(s)].charge + f[s \ {Any(s)}]
           iter == CHOOSE f : f = [s \in SUBSET R |-> next(f, s)]
           part == [s \in SUBSET R |-> T[s]]
<1>1. MapThenSumSet(LAMBDA s : seg[s].charge, R) = iter[R]
  BY DEF MapThenSumSet, MapThenFoldSet, Any
<1>2. \A s \in SUBSET R : s # {} => Any(s) \in s
  BY DEF Any
<1>3. \A s \in SUBSET R : part[s] = next(part, s)
  BY <1>2 DEF Tally, Charges
<1>4. part = [s \in SUBSET R |-> next(part, s)]
  BY <1>3
<1>5. iter = [s \in SUBSET R |-> next(iter, s)]
  <2> HIDE DEF part, next
  <2> QED
    BY <1>4
<1>6. iter[R] = part[R]
  <2> DEFINE B == {s \in SUBSET R : iter[s] # part[s]}
  <2>1. B = {}
    <3> SUFFICES ASSUME B # {} PROVE FALSE
      OBVIOUS
    <3>1. IsFiniteSet(R)
      BY SegmentsFinite, FS_Subset
    <3>2. PICK s \in B : \A x \in s : s \ {x} \notin B
      <4>1. B \in SUBSET (SUBSET R)
        OBVIOUS
      <4> HIDE DEF B
      <4> QED
        BY <3>1, <4>1, SmallestSubset
    <3>3. iter[s] = next(iter, s) /\ part[s] = next(part, s)
      <4> HIDE DEF iter, part, next
      <4> QED
        BY <1>3, <1>5
    <3>4. s # {} => iter[s \ {Any(s)}] = part[s \ {Any(s)}]
      <4> HIDE DEF iter, part, next
      <4> QED
        BY <1>2, <3>2
    <3> HIDE DEF iter, part
    <3> QED
      BY <3>3, <3>4
  <2> HIDE DEF iter, part
  <2> QED
    BY <2>1
<1>7. part[R] = T[R]
  OBVIOUS
<1> HIDE DEF iter, part
<1> QED
  BY <1>1, <1>6, <1>7

\* Every state's charges add up, so those of the next one do too.
LEMMA ChargesSummed == ChargesAddUp
<1> SUFFICES ASSUME NEW T, Tally(T, Charges, Segment), NEW g \in Group
             PROVE  Charged(g) = T[RowsOf(g)]
  BY DEF ChargesAddUp
<1>1. RowsOf(g) \in SUBSET Segment
  BY DEF RowsOf
<1>2. Charged(g) = MapThenSumSet(LAMBDA s : seg[s].charge, RowsOf(g))
  BY DEF Charged, RowsOf
<1> QED
  BY <1>1, <1>2, ChargedIsTally

\* A row is charged a natural number.
ChargesCounted == Charges \in [Segment -> Nat]

\* The type of a row says so.
LEMMA ChargesType == TypeOK => ChargesCounted
<1> SUFFICES ASSUME TypeOK, NEW s \in Segment PROVE seg[s].charge \in Nat
  BY DEF Charges, ChargesCounted
<1>1. seg[s] \in SegmentRow
  BY DEF TypeOK
<1> QED
  BY <1>1 DEF SegmentRow

\* A step that charges one row at most: a group that keeps its rows is charged
\* no more when the row is not, and a group that gains the row is charged with it.
LEMMA ChargedMoves ==
    ASSUME TypeOK, TypeOK', NEW x,
           \A s \in Segment \ {x} : seg'[s].charge = seg[s].charge,
           NEW g \in Group
    PROVE  /\ Charged(g) \in Nat /\ Charged(g)' \in Nat
           /\ /\ RowsOf(g)' = RowsOf(g)
              /\ x \in RowsOf(g) => seg'[x].charge <= seg[x].charge
              => Charged(g)' <= Charged(g)
           /\ /\ x \in Segment /\ x \notin RowsOf(g)
              /\ RowsOf(g)' = RowsOf(g) \cup {x}
              => Charged(g)' = Charged(g) + seg'[x].charge
<1>1. Charges \in [Segment -> Nat] /\ Charges' \in [Segment -> Nat]
  <2>1. ChargesCounted'
    BY ChargesType, PTL
  <2> QED
    BY <2>1, ChargesType DEF ChargesCounted
<1>2. PICK T : Tally(T, Charges, Segment)
  BY <1>1, TallyExists, SegmentsFinite
<1>3. PICK U : Tally(U, Charges', Segment)
  BY <1>1, TallyExists, SegmentsFinite
<1>4. Charged(g) = T[RowsOf(g)]
  BY <1>2, ChargesSummed DEF ChargesAddUp
<1>5. Charged(g)' = U[RowsOf(g)']
  <2>1. ChargesAddUp'
    BY ChargesSummed, PTL
  <2> QED
    BY <1>3, <2>1 DEF ChargesAddUp
<1>6. RowsOf(g) \in SUBSET Segment /\ RowsOf(g)' \in SUBSET Segment
  BY DEF RowsOf
<1>7. /\ T \in [SUBSET Segment -> Nat] /\ U \in [SUBSET Segment -> Nat]
  BY <1>2, <1>3 DEF Tally
<1>8. \A y \in Segment : Charges[y] = seg[y].charge /\ Charges'[y] = seg'[y].charge
  BY DEF Charges
<1>9. \A y \in Segment \ {x} : Charges[y] = Charges'[y]
  BY <1>8
<1>10. \A r \in SUBSET Segment :
           IF x \in r THEN U[r] + Charges[x] = T[r] + Charges'[x] ELSE U[r] = T[r]
  BY <1>1, <1>2, <1>3, <1>9, TallyChanges, SegmentsFinite
<1>11. Charged(g) \in Nat /\ Charged(g)' \in Nat
  BY <1>4, <1>5, <1>6, <1>7
<1>12. ASSUME RowsOf(g)' = RowsOf(g), x \in RowsOf(g) => seg'[x].charge <= seg[x].charge
       PROVE  Charged(g)' <= Charged(g)
  <2>1. CASE x \in RowsOf(g)
    <3>1. U[RowsOf(g)] + Charges[x] = T[RowsOf(g)] + Charges'[x]
      BY <1>6, <1>10, <2>1
    <3>2. /\ Charges[x] \in Nat /\ Charges'[x] \in Nat
          /\ Charges'[x] <= Charges[x]
      BY <1>1, <1>6, <1>8, <1>12, <2>1
    <3> QED
      BY <1>4, <1>5, <1>11, <1>12, <3>1, <3>2
  <2>2. CASE x \notin RowsOf(g)
    BY <1>4, <1>5, <1>6, <1>10, <1>11, <1>12, <2>2
  <2> QED
    BY <2>1, <2>2
<1>13. ASSUME x \in Segment, x \notin RowsOf(g), RowsOf(g)' = RowsOf(g) \cup {x}
       PROVE  Charged(g)' = Charged(g) + seg'[x].charge
  <2>1. U[RowsOf(g)'] = Charges'[x] + U[RowsOf(g)' \ {x}]
    BY <1>1, <1>3, <1>6, <1>13, TallyAdds, SegmentsFinite
  <2>2. RowsOf(g)' \ {x} = RowsOf(g)
    BY <1>13
  <2>3. U[RowsOf(g)] = T[RowsOf(g)]
    BY <1>6, <1>10, <1>13
  <2>4. Charges'[x] = seg'[x].charge /\ Charges'[x] \in Nat
    BY <1>1, <1>8, <1>13
  <2>5. U[RowsOf(g)'] = seg'[x].charge + T[RowsOf(g)]
    BY <2>1, <2>2, <2>3, <2>4
  <2>6. T[RowsOf(g)] \in Nat /\ seg'[x].charge \in Nat
    BY <1>6, <1>7, <2>4
  <2> QED
    BY <1>4, <1>5, <2>5, <2>6
<1> QED
  BY <1>11, <1>12, <1>13

\* A claim reserves at most what the group has left.
LEMMA BudgetClaimed ==
    ASSUME LedgerInv, GroupBudgetKept, TypeOK', NEW l \in Launch, NEW t \in Task,
           ClaimReady(l, t)
    PROVE  GroupBudgetKept'
<1>0. SlotInv /\ TypeOK
  BY DEF LedgerInv, SlotInv
<1>1. PICK n \in AttemptNo, q \in {0} \cup Segment : Claims(t, n, q)
  BY <1>0, ClaimShape
<1>2. Grant(t) \in 1..MaxActive[t] /\ seg'[nextSeg].charge = Grant(t)
  <2>1. PICK a \in AttemptNo, b \in {0} \cup Segment :
            seg' = [seg EXCEPT ![nextSeg] = LaunchedSegment(t, a, b)]
    BY DEF ClaimReady
  <2>2. nextSeg \in Segment
    BY <1>1 DEF Claims
  <2>3. seg'[nextSeg] = LaunchedSegment(t, a, b)
    BY <1>0, <2>1, <2>2 DEF TypeOK
  <2> QED
    BY <2>3 DEF ClaimReady, LaunchedSegment
<1>3. /\ nextSeg \in Segment /\ ~ Used(nextSeg)
      /\ seg'[nextSeg].task = t /\ seg'[nextSeg].st = "launch_requested"
      /\ \A s \in Segment \ {nextSeg} : seg'[s] = seg[s]
  BY <1>1 DEF Claims, Segment
<1> SUFFICES ASSUME NEW g \in Group PROVE Charged(g)' <= GroupBudget
  BY DEF GroupBudgetKept
<1>4. Charged(g) <= GroupBudget /\ GroupBudget \in Nat
  BY BudgetAssumption DEF GroupBudgetKept
<1>5. nextSeg \notin RowsOf(g)
  BY <1>3 DEF RowsOf, Used
<1>6. /\ Charged(g) \in Nat /\ Charged(g)' \in Nat
      /\ /\ RowsOf(g)' = RowsOf(g)
         /\ nextSeg \in RowsOf(g) => seg'[nextSeg].charge <= seg[nextSeg].charge
         => Charged(g)' <= Charged(g)
      /\ /\ nextSeg \in Segment /\ nextSeg \notin RowsOf(g)
         /\ RowsOf(g)' = RowsOf(g) \cup {nextSeg}
         => Charged(g)' = Charged(g) + seg'[nextSeg].charge
  <2>1. \A s \in Segment \ {nextSeg} : seg'[s].charge = seg[s].charge
    BY <1>3
  <2> QED
    BY <1>0, <2>1, ChargedMoves
<1>7. CASE GroupOf[t] = g
  <2>1. RowsOf(g)' = RowsOf(g) \cup {nextSeg}
    BY <1>3, <1>7 DEF RowsOf
  <2>2. Grant(t) <= GroupBudget - Charged(g)
    <3>1. MaxActive[t] \in Int /\ Charged(g) \in Int
      BY <1>6, BudgetAssumption
    <3> QED
      BY <1>4, <1>7, <3>1 DEF Grant
  <2>3. Charged(g)' = Charged(g) + Grant(t)
    BY <1>2, <1>3, <1>5, <1>6, <2>1
  <2>4. Grant(t) \in Int
    BY <1>2
  <2> QED
    BY <1>4, <1>6, <2>2, <2>3, <2>4
<1>8. CASE GroupOf[t] # g
  <2>1. RowsOf(g)' = RowsOf(g)
    BY <1>3, <1>5, <1>8 DEF RowsOf
  <2> QED
    BY <1>4, <1>5, <1>6, <2>1
<1> QED
  BY <1>7, <1>8

\* An exit settles at most what was granted.
LEMMA BudgetSettled ==
    ASSUME LedgerInv, GroupBudgetKept, TypeOK', NEW s \in Segment, NEW u \in ActiveReport,
           NEW m \in BOOLEAN, applyExit(s, u, m)
    PROVE  GroupBudgetKept'
<1>0. SlotInv /\ TypeOK /\ seg[s] \in SegmentRow
  BY DEF LedgerInv, SlotInv, TypeOK
<1>1. Ends(s)
  BY <1>0, ExitShape
<1>2. seg'[s].charge <= seg[s].charge
  <2> DEFINE w == [seg[s] EXCEPT
               !.st = "exited",
               !.charge = Settled(@, u),
               !.stop = IF @ = "none" THEN @ ELSE "completed"]
  <2>1. seg' = [seg EXCEPT ![s] = w]
    BY DEF applyExit
  <2>2. w.charge = Settled(seg[s].charge, u)
    BY <1>0 DEF SegmentRow
  <2>3. seg[s].charge \in Nat /\ u \in Int
    BY <1>0, BudgetAssumption DEF SegmentRow
  <2>4. Settled(seg[s].charge, u) <= seg[s].charge
    BY <2>3 DEF Settled
  <2> HIDE DEF w
  <2>5. seg'[s] = w
    BY <1>0, <2>1 DEF TypeOK
  <2> QED
    BY <2>2, <2>4, <2>5
<1> SUFFICES ASSUME NEW g \in Group PROVE Charged(g)' <= GroupBudget
  BY DEF GroupBudgetKept
<1>3. RowsOf(g)' = RowsOf(g)
  BY <1>1 DEF Ends, RowsOf, Active, Occupying
<1>4. \A r \in Segment \ {s} : seg'[r].charge = seg[r].charge
  BY <1>1 DEF Ends
<1>5. Charged(g) \in Nat /\ Charged(g)' \in Nat /\ Charged(g)' <= Charged(g)
  BY <1>0, <1>2, <1>3, <1>4, ChargedMoves
<1>6. Charged(g) <= GroupBudget /\ GroupBudget \in Nat
  BY BudgetAssumption DEF GroupBudgetKept
<1> QED
  BY <1>5, <1>6

\* A step that charges nothing keeps every group's budget.
LEMMA BudgetRests ==
    ASSUME LedgerInv, GroupBudgetKept, TypeOK', Stirs \/ seg' = seg
    PROVE  GroupBudgetKept'
<1>0. TypeOK
  BY DEF LedgerInv, SlotInv
<1>1. \A r \in Segment : /\ seg'[r].charge = seg[r].charge
                         /\ seg'[r].task = seg[r].task
                         /\ seg'[r].st = "none" <=> seg[r].st = "none"
  BY DEF Stirs, RowStirs, RowStands
<1> SUFFICES ASSUME NEW g \in Group PROVE Charged(g)' <= GroupBudget
  BY DEF GroupBudgetKept
<1>2. RowsOf(g)' = RowsOf(g)
  BY <1>1 DEF RowsOf
<1>3. Charged(g) \in Nat /\ Charged(g)' \in Nat /\ Charged(g)' <= Charged(g)
  <2>1. 0 \notin RowsOf(g)
    BY BoundAssumption DEF RowsOf, Segment
  <2>2. \A s \in Segment \ {0} : seg'[s].charge = seg[s].charge
    BY <1>1
  <2>3. /\ Charged(g) \in Nat /\ Charged(g)' \in Nat
        /\ /\ RowsOf(g)' = RowsOf(g)
           /\ 0 \in RowsOf(g) => seg'[0].charge <= seg[0].charge
           => Charged(g)' <= Charged(g)
    BY <1>0, <2>2, ChargedMoves
  <2> QED
    BY <1>2, <2>1, <2>3
<1>4. Charged(g) <= GroupBudget /\ GroupBudget \in Nat
  BY BudgetAssumption DEF GroupBudgetKept
<1> QED
  BY <1>3, <1>4

\* Nothing is charged before the first claim.
LEMMA BudgetInit == Init => GroupBudgetKept
<1> SUFFICES ASSUME Init, NEW g \in Group PROVE Charged(g) <= GroupBudget
  BY DEF GroupBudgetKept
<1>1. Charges \in [Segment -> Nat]
  BY TypeInit, ChargesType DEF ChargesCounted
<1>2. PICK T : Tally(T, Charges, Segment)
  BY <1>1, TallyExists, SegmentsFinite
<1>3. RowsOf(g) = {}
  <2>1. \A s \in Segment : seg[s].st = "none"
    BY DEF Init, NoSegment
  <2> QED
    BY <2>1 DEF RowsOf
<1>4. Charged(g) = 0
  BY <1>2, <1>3, ChargesSummed DEF ChargesAddUp, Tally
<1> QED
  BY <1>4, BudgetAssumption

\* The tasks of a budget group, of whatever plans, never use or reserve more
\* than the group's budget, whatever their hosts report: a claim grants at most
\* the rest, an exit settles at most the grant (claim and applyExit).
THEOREM BudgetIsKept == Spec => []GroupBudgetKept
<1>1. LedgerInv /\ GroupBudgetKept /\ [Next]_vars => GroupBudgetKept'
  <2> SUFFICES ASSUME LedgerInv, GroupBudgetKept, [Next]_vars PROVE GroupBudgetKept'
    OBVIOUS
  <2>1. TypeOK'
    BY TypeStep DEF LedgerInv, SlotInv
  <2> QED
    BY <2>1, NextStirs, OtherRowsRest, BudgetRests, BudgetClaimed, BudgetSettled
<1> QED
  BY <1>1, BudgetInit, Invariant, PTL DEF Spec

=============================================================================
