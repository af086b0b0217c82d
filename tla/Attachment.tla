------------------------------ MODULE Attachment ------------------------------
(***************************************************************************)
(* Attachment evidence of the controlled native case, of                   *)
(* tasks/g0-tui-proxy/scripts/proxy_native_runtime.py.  The relay reports  *)
(* connections, bytes and ends of stream to _CaptureBridge; the Observer   *)
(* (proxy_observer.py) turns the bytes of one connection epoch into rows;  *)
(* an inferer (AttachmentInferer for a started thread,                     *)
(* ResumeAttachmentInferer for a resumed one) decides from the rows alone  *)
(* which thread the frontend is attached to; run_case drives the terminal  *)
(* and judges the case at the end.                                         *)
(*                                                                         *)
(* One message is one row, and a row is applied in the callback that       *)
(* brings it.  The row numbers (local_seq, one counter for all epochs)     *)
(* appear as inf.sync: the next row of the epoch is the one expected.      *)
(* "boot" stands for the opaque bootstrap methods, "note" for the allowed  *)
(* server notifications, "other" for everything else the observer does not *)
(* know.  What frames and headers can do to the observer is a gap here.    *)
(***************************************************************************)
EXTENDS Naturals, FiniteSets, TLC

CONSTANTS
    Thread,     \* thread ids the backend hands out
    NoThread,
    Expected,   \* the thread a resume case names (expected_resume_thread_id)
    Id,         \* request ids of the frontend
    Epochs,     \* number of connections (bound)
    Oddities    \* how many irregular messages or failures happen (bound)

ASSUME AttachmentAssumption ==
    /\ NoThread \notin Thread /\ Expected \in Thread
    /\ IsFiniteSet(Id) /\ Epochs \in Nat \ {0} /\ Oddities \in Nat

Leg      == {"client", "server"}
Required == {"initialize", "thread/start", "skills/list"}
Known    == Required \cup {"thread/resume", "thread/unsubscribe"}
Unknown  == {"boot", "turn/start"}
Epoch    == 1 .. Epochs

VARIABLES
    mode,      \* which inferer NativeRuntime was built with
    conn,      \* the observer's connection of each epoch
    opened,    \* connections so far: the relay's epoch counter
    inf,       \* the inferer
    complete,  \* _CaptureBridge.trace_complete
    full,      \* the trace has reached max_trace_events
    turns,     \* model_turns is not zero
    ended,     \* epoch_invalid: the first reason kept for each epoch
    case,      \* locals of run_case
    odd,       \* irregular events so far
    turned,    \* history: a turn/start left the frontend
    proof      \* history: what happened on the wire in the latest epoch

bridgeVars == <<complete, full, turns, ended>>
vars == <<mode, conn, opened, inf, bridgeVars, case, odd, turned, proof>>

NoMethod == "none"

Fresh == [epoch |-> 0, sync |-> FALSE, bad |-> "no", up |-> {}, req |-> {}, res |-> {},
          thread |-> NoThread, cand |-> NoThread, boot |-> {},
          clearing |-> FALSE, cleared |-> FALSE, unsubbed |-> FALSE,
          old |-> NoThread, new |-> NoThread, started |-> FALSE,
          unsub |-> {}, unsubDone |-> {}, fresh |-> "no",
          pend |-> {}, inited |-> FALSE, asked |-> FALSE, skills |-> {}, barrier |-> FALSE]

NoProof == [initialized |-> FALSE, answered |-> {}, started |-> {}, unsubs |-> 0, resumed |-> FALSE,
            listed |-> FALSE, wrong |-> FALSE]

Closed(how) == [state |-> how, valid |-> FALSE, up |-> {}, eof |-> {},
           pending |-> [i \in Id |-> NoMethod]]

Candidate == IF inf.bad = "no" THEN inf.cand ELSE NoThread

TypeOK ==
    /\ mode \in {"start", "resume"}
    /\ conn \in [Epoch -> [state : {"unused", "refused", "open", "closed"},
                           valid : BOOLEAN, up : SUBSET Leg, eof : SUBSET Leg,
                           pending : [Id -> Known \cup Unknown \cup {NoMethod}]]]
    /\ opened \in 0 .. Epochs
    /\ DOMAIN inf = DOMAIN Fresh
    /\ inf.epoch \in 0 .. Epochs /\ inf.bad \in {"no", "clear", "yes"}
    /\ inf.res \subseteq Required /\ inf.cand \in Thread \cup {NoThread}
    /\ inf.boot \cup inf.pend \cup inf.unsub \cup inf.unsubDone \subseteq Id
    /\ complete \in BOOLEAN /\ full \in BOOLEAN /\ turns \in BOOLEAN
    /\ ended \in [Epoch -> {"no", "eof", "close", "disconnect", "gap"}]
    /\ case.phase \in {"initial", "status", "clear", "status2", "disconnect",
                       "quit", "closing", "done"}
    /\ case.status \in {"unknown", "observed"}
    /\ odd \in 0 .. Oddities /\ turned \in BOOLEAN

Init ==
    /\ mode \in {"start", "resume"}
    /\ conn = [e \in Epoch |-> Closed("unused")]
    /\ opened = 0
    /\ inf = Fresh
    /\ complete = TRUE /\ full = FALSE /\ turns = FALSE
    /\ ended = [e \in Epoch |-> "no"]
    /\ case = [phase |-> "initial", term |-> "none", ok |-> TRUE, first |-> NoThread,
               second |-> NoThread, last |-> 0, status |-> "unknown"]
    /\ odd = 0 /\ turned = FALSE
    /\ proof = NoProof

Odd == odd < Oddities /\ odd' = odd + 1
Irregular(what) == IF what THEN Odd ELSE UNCHANGED odd

------------------------------------------------------------------------------
(* AttachmentInferer *)

\* Mutant: the candidate goes, but the next row may bring it back.
DropCandidate(i) == [i EXCEPT !.clearing = FALSE, !.cand = NoThread]

\* _invalidate of either inferer.
Invalidate(i) == [i EXCEPT !.bad = "yes", !.clearing = FALSE, !.cand = NoThread]

\* _start_epoch: nothing of an older epoch survives.
StartEpoch(i, e) == [Fresh EXCEPT !.epoch = e, !.sync = TRUE]

\* _start_epoch of a resume: a second epoch is not the attachment it proves.
ResumeStartEpoch(i, e) ==
    IF i.epoch # 0 /\ i.bad = "no" THEN Invalidate(i) ELSE StartEpoch(i, e)

\* clear: the thread and its evidence go, and a barrier must be passed.
Clear(i) ==
    IF mode = "resume" THEN Invalidate(i)
    ELSE [i EXCEPT !.cand = NoThread, !.bad = "clear", !.clearing = TRUE,
                   !.cleared = TRUE, !.unsubbed = FALSE, !.old = i.thread,
                   !.new = NoThread, !.started = FALSE, !.unsub = {},
                   !.unsubDone = {}, !.fresh = "no", !.req = @ \cap {"initialize"},
                   !.res = @ \cap {"initialize"}, !.thread = NoThread]

\* Mutant: one unsubscription is enough.
FinishClearEarly(i) ==
    IF i.clearing /\ i.new # NoThread /\ i.started /\ i.unsubDone # {}
      THEN [i EXCEPT !.bad = "no", !.clearing = FALSE, !.fresh = "needed",
                     !.req = @ \ {"skills/list"}, !.res = @ \ {"skills/list"}]
      ELSE i

\* _maybe_finish_clear: a new thread answered and announced, and two
\* unsubscriptions of the old one answered.
FinishClear(i) ==
    IF i.clearing /\ i.new # NoThread /\ i.started /\ Cardinality(i.unsubDone) >= 2
      THEN [i EXCEPT !.bad = "no", !.clearing = FALSE, !.fresh = "needed",
                     !.req = @ \ {"skills/list"}, !.res = @ \ {"skills/list"}]
      ELSE i

\* _maybe_candidate.
MaybeCandidate(i) ==
    IF /\ i.bad # "yes" /\ i.thread # NoThread /\ i.boot = {} /\ ~i.clearing
       /\ i.fresh # "no" => i.fresh = "asked" /\ "skills/list" \in i.res
       /\ i.cleared => i.unsubbed
       /\ i.up = Leg /\ Required \subseteq i.req \cap i.res
      THEN [i EXCEPT !.cand = i.thread]
      ELSE i

\* A request of the frontend the observer knows; t is its threadId.
StartRequest(i, id, m, t) ==
    LET unsubscribes == i.clearing /\ m = "thread/unsubscribe"
        j == IF unsubscribes
               THEN [i EXCEPT !.unsubbed = TRUE, !.unsub = @ \cup {id}] ELSE i
        k == IF m \in Required THEN [j EXCEPT !.req = @ \cup {m}] ELSE j
    IN  IF unsubscribes /\ (t # i.old \/ id \in i.unsub) THEN Invalidate(i)
        ELSE MaybeCandidate(IF m = "skills/list" /\ k.fresh = "needed"
                              THEN [k EXCEPT !.fresh = "asked"] ELSE k)

\* A successful answer; t is the id of its thread, if it has one.
StartAnswer(i, id, m, t) ==
    LET j == IF m = "thread/unsubscribe" /\ id \in i.unsub
               THEN FinishClear([i EXCEPT !.unsub = @ \ {id},
                                          !.unsubDone = @ \cup {id}])
             ELSE IF m \in Required THEN [i EXCEPT !.res = @ \cup {m}] ELSE i
        k == [j EXCEPT !.thread = t]
    IN  IF m # "thread/start" \/ t = NoThread THEN MaybeCandidate(j)
        ELSE IF ~i.clearing THEN MaybeCandidate(k)
        ELSE IF i.old = NoThread \/ i.new \notin {NoThread, t} THEN Invalidate(k)
        ELSE MaybeCandidate(FinishClear([k EXCEPT !.new = t]))

\* thread/started.
StartStarted(i, t) ==
    IF ~i.clearing THEN MaybeCandidate(i)
    ELSE IF i.new = NoThread \/ t # i.new THEN Invalidate(i)
    ELSE MaybeCandidate(FinishClear([i EXCEPT !.started = TRUE]))

\* An opaque bootstrap request suspends the candidate until it is answered.
StartBoot(i, id) == [i EXCEPT !.cand = NoThread, !.boot = @ \cup {id}]

------------------------------------------------------------------------------
(* ResumeAttachmentInferer *)

ResumeCandidate(i) ==
    IF /\ i.bad = "no" /\ i.boot = {} /\ i.pend = {} /\ i.up = Leg
       /\ "initialize" \in i.res /\ i.inited /\ i.thread # NoThread /\ i.barrier
      THEN [i EXCEPT !.cand = i.thread]
      ELSE i

\* Mutant: a skills/list asked before the thread is resumed counts as well.
ResumeRequestEarly(i, id, m, t) ==
    IF \/ m \in {"thread/start", "thread/unsubscribe"}
       \/ m = "thread/resume" /\ (t # Expected \/ i.thread # NoThread \/ i.asked)
      THEN Invalidate(i)
      ELSE ResumeCandidate(
             [i EXCEPT !.pend = @ \cup {id}, !.asked = @ \/ m = "thread/resume",
                       !.skills = IF m = "skills/list" THEN @ \cup {id} ELSE @])

\* _accept_request: one resume of the expected thread and no other start.
ResumeRequest(i, id, m, t) ==
    IF \/ m \in {"thread/start", "thread/unsubscribe"}
       \/ m = "thread/resume" /\ (t # Expected \/ i.thread # NoThread \/ i.asked)
      THEN Invalidate(i)
      ELSE ResumeCandidate(
             [i EXCEPT !.pend = @ \cup {id}, !.asked = @ \/ m = "thread/resume",
                       !.skills = IF m = "skills/list" /\ i.thread # NoThread
                                    THEN @ \cup {id} ELSE @])

\* _accept_response: the barrier is a skills/list asked after the resume.
ResumeAnswer(i, id, m, ok, t) ==
    LET j == [i EXCEPT !.pend = @ \ {id}, !.skills = @ \ {id}] IN
        IF id \notin i.pend \/ ~ok \/ (m = "thread/resume" /\ t # Expected)
          THEN Invalidate([i EXCEPT !.pend = @ \ {id}])
        ELSE ResumeCandidate(
            CASE m = "initialize"    -> [j EXCEPT !.res = @ \cup {m}]
              [] m = "thread/resume" -> [j EXCEPT !.thread = t]
              [] OTHER               -> [j EXCEPT !.barrier = @ \/ id \in i.skills])

ResumeInitialized(i) ==
    IF "initialize" \in i.res THEN ResumeCandidate([i EXCEPT !.inited = TRUE])
    ELSE Invalidate(i)

------------------------------------------------------------------------------
(* accept, and the bridge in front of it *)

\* What a row of the expected epoch and number does to the inferer.
Apply(i, row) ==
    LET Known_(a, b) == IF mode = "start" THEN a ELSE b IN
    CASE row.kind = "upgrade" ->
           LET j == [i EXCEPT !.up = @ \cup {row.leg}] IN
               Known_(MaybeCandidate(j), ResumeCandidate(j))
      [] row.kind = "request" /\ row.method \in Known ->
           Known_(StartRequest(i, row.id, row.method, row.thread),
                  ResumeRequest(i, row.id, row.method, row.thread))
      [] row.kind = "request" /\ row.method = "boot" ->
           Known_(StartBoot(i, row.id), [i EXCEPT !.boot = @ \cup {row.id}])
      [] row.kind = "answer" /\ row.method \in Known ->
           Known_(IF row.ok THEN StartAnswer(i, row.id, row.method, row.thread) ELSE i,
                  ResumeAnswer(i, row.id, row.method, row.ok, row.thread))
      [] row.kind = "answer" /\ row.method = "boot" ->
           LET j == [i EXCEPT !.boot = @ \ {row.id}] IN
               IF row.id \notin i.boot THEN Invalidate(i)
               ELSE Known_(MaybeCandidate(j), ResumeCandidate(j))
      [] row.kind = "initialized" -> Known_(MaybeCandidate(i), ResumeInitialized(i))
      [] row.kind = "started" ->
           Known_(StartStarted(i, row.thread),
                  IF row.thread # Expected THEN Invalidate(i) ELSE ResumeCandidate(i))
      [] row.kind = "note"    -> Known_(i, ResumeCandidate(i))
      [] row.kind = "control" -> Known_(MaybeCandidate(i), Invalidate(i))
      [] OTHER                -> Invalidate(i)

\* accept: a row of another epoch, or out of order, only invalidates, and its
\* number is never expected again.
Accept(i, row) ==
    IF row.epoch # i.epoch THEN [Invalidate(i) EXCEPT !.sync = FALSE]
    ELSE IF ~i.sync THEN Invalidate(i)
    ELSE Apply(i, row)

Row(kind, e) == [kind |-> kind, epoch |-> e, leg |-> "client", method |-> NoMethod,
                 id |-> NoThread, ok |-> FALSE, thread |-> NoThread]

\* _mark_epoch_invalid keeps the first reason.
EndEpoch(e, reason) == [ended EXCEPT ![e] = IF @ = "no" THEN reason ELSE @]

\* Mutant: a row the trace cannot hold is dropped without a mark.
AcceptRowUnmarked(row) ==
    IF full
      THEN UNCHANGED <<inf, complete, turns, ended>>
      ELSE /\ inf' = Accept(inf, row)
           /\ complete' = (complete /\ row.kind # "gap")
           /\ turns' = (turns \/ (row.kind = "request" /\ row.method = "turn/start"))
           /\ ended' = IF row.kind = "gap" /\ row.epoch # 0
                         THEN EndEpoch(row.epoch, "gap") ELSE ended

\* _accept_rows: a row the full trace cannot hold is not applied.
AcceptRow(row) ==
    IF full
      THEN /\ inf' = [Invalidate(inf) EXCEPT !.sync = FALSE]
           /\ complete' = FALSE
           /\ UNCHANGED <<turns, ended>>
      ELSE /\ inf' = Accept(inf, row)
           /\ complete' = (complete /\ row.kind # "gap")
           /\ turns' = (turns \/ (row.kind = "request" /\ row.method = "turn/start"))
           /\ ended' = IF row.kind = "gap" /\ row.epoch # 0
                         THEN EndEpoch(row.epoch, "gap") ELSE ended

\* The rows of observer.close: a gap when a message was cut short, then the
\* closing row; any reason to end the epoch is already kept.
CloseRows(e, cut) ==
    IF full
      THEN inf' = [Invalidate(inf) EXCEPT !.sync = FALSE] /\ complete' = FALSE
      ELSE /\ inf' = Accept(inf, Row("close", e))
           /\ complete' = (complete /\ ~cut)

------------------------------------------------------------------------------
(* The wire *)

\* The relay carries on until the verdict; what it carries in a case whose
\* verdict can only be "unknown" is left out (no inferer looks at the case).
Running == case.phase # "done" /\ case.ok

Live(e, leg) ==
    /\ Running
    /\ conn[e].state = "open" /\ conn[e].valid /\ leg \notin conn[e].eof

\* _peer_matches: the relay's peer is the terminal, or the backend, of this run.
PeerMatches == BOOLEAN

\* on_connect: a peer that is not the expected process is never observed.  A
\* connection that overlaps an older one does so while that one is quiet: any row
\* of the older epoch has the same effect from then on.
Connect ==
    /\ Running /\ opened < Epochs
    /\ opened' = opened + 1
    /\ \E match \in PeerMatches :
       \/ /\ match
          /\ conn' = [conn EXCEPT ![opened'].state = "open", ![opened'].valid = TRUE]
          /\ inf' = IF full THEN Invalidate(inf)
                    ELSE IF mode = "resume" THEN ResumeStartEpoch(inf, opened')
                    ELSE StartEpoch(inf, opened')
          /\ complete' = (complete /\ ~full)
          /\ proof' = NoProof
          /\ Irregular(\E e \in Epoch : conn[e].state = "open")
          /\ \A e \in Epoch, i \in Id : conn[e].pending[i] = NoMethod
       \/ /\ ~match /\ Odd
          /\ conn' = [conn EXCEPT ![opened'].state = "refused"]
          /\ inf' = Invalidate(inf)
          /\ UNCHANGED <<complete, proof>>
    /\ UNCHANGED <<mode, full, turns, ended, case, turned>>

\* feed on a connection the observer does not have.
Stray(e) ==
    /\ Running /\ conn[e].state = "refused"
    /\ AcceptRow(Row("gap", 0))
    /\ turned' \in {turned, TRUE}
    /\ UNCHANGED <<mode, conn, opened, full, case, odd, proof>>

\* A handshake: the backend's must follow the frontend's.
Upgrade(e, leg) ==
    /\ Live(e, leg) /\ leg \notin conn[e].up
    /\ leg = "server" => "client" \in conn[e].up
    /\ conn' = [conn EXCEPT ![e].up = @ \cup {leg}]
    /\ AcceptRow([Row("upgrade", e) EXCEPT !.leg = leg])
    /\ UNCHANGED <<mode, opened, full, case, odd, turned, proof>>

\* How a frontend normally behaves: it uses its latest connection, initializes it
\* first, has one request of a method under way, starts one thread, and after
\* /clear unsubscribes twice from the old one and starts another.  Once
\* run_case has read the second thread, the last it reads, only turns matter (bound).
Orderly(e, m, t) ==
    /\ e = opened
    /\ m # "turn/start" => case.phase \in {"initial", "status", "clear"}
    /\ m = "initialize" <=> ~proof.initialized
    /\ m # "thread/unsubscribe" => \A i \in Id : conn[e].pending[i] # m
    /\ m = "turn/start" => full
    /\ m = "boot" => proof.answered = {} /\ ~proof.resumed
    /\ m = "thread/resume" => mode = "resume" /\ t = Expected
    /\ m = "thread/start" => mode = "start" /\ proof.answered = {}
    /\ m = "thread/unsubscribe" =>
         mode = "start" /\ t = case.first /\ case.phase = "clear" /\ proof.unsubs < 2

\* What it sends by mistake: a turn, another thread than the one it has, or in a
\* resume case the start of a thread.
Mistaken(m, t) ==
    \/ m = "turn/start"
    \/ m = "thread/start"       /\ (mode = "resume" \/ proof.answered # {})
    \/ m = "thread/resume"      /\ mode = "resume" /\ t # Expected
    \/ m = "thread/unsubscribe" /\ case.phase = "clear" /\ t # case.first

\* _process_request: the id must be free.
Request(e, id, m, t) ==
    /\ Live(e, "client") /\ conn[e].up = Leg
    /\ conn[e].pending[id] = NoMethod
    /\ \/ Orderly(e, m, t) /\ UNCHANGED odd
       \/ ~Orderly(e, m, t) /\ Mistaken(m, t) /\ Odd
    /\ conn' = [conn EXCEPT ![e].pending[id] = m]
    /\ AcceptRow([Row("request", e) EXCEPT !.method = m, !.id = id, !.thread = t])
    /\ turned' = (turned \/ m = "turn/start")
    /\ proof' = IF e = opened /\ mode = "resume" /\ m \in {"thread/start", "thread/unsubscribe", "turn/start"}
                  THEN [proof EXCEPT !.wrong = TRUE] ELSE proof
    /\ UNCHANGED <<mode, opened, full, case>>

\* _process_response: the answer takes its method from the pending request.
Answer(e, id, ok, t) ==
    LET m == conn[e].pending[id] IN
        /\ Live(e, "server") /\ conn[e].up = Leg
        /\ m # NoMethod
        /\ t # NoThread => m \in {"thread/start", "thread/resume"}
        /\ Irregular(~ok \/ e # opened 
                     \/ (m \in {"thread/start", "thread/resume"} /\ t \in {NoThread, case.first}))
        /\ conn' = [conn EXCEPT ![e].pending[id] = NoMethod]
        /\ AcceptRow([Row("answer", e) EXCEPT !.leg = "server", !.method = m,
                        !.id = id, !.ok = ok, !.thread = t])
        /\ proof' = IF e # opened THEN proof ELSE [proof EXCEPT
             !.initialized = @ \/ m = "initialize",
             !.answered = IF ok /\ m = "thread/start" THEN @ \cup {t} ELSE @,
             !.unsubs   = IF ok /\ m = "thread/unsubscribe" /\ @ < 2 THEN @ + 1 ELSE @,
             !.resumed  = @ \/ (ok /\ m = "thread/resume" /\ t = Expected),
             !.listed   = @ \/ (ok /\ m = "skills/list" /\ proof.resumed),
             !.wrong    = @ \/ (~ok /\ m # "boot")]
        /\ UNCHANGED <<mode, opened, full, case, turned>>

\* Messages without an id the observer remembers.
Notify(e, kind, t) ==
    LET leg == IF kind = "initialized" THEN "client" ELSE "server" IN
        /\ Live(e, leg) /\ conn[e].up = Leg
        /\ Irregular(\/ kind = "other" \/ (kind = "control" /\ mode = "resume") \/ (e # opened /\ kind # "note")
                     \/ kind = "started" /\ t \notin proof.answered \cup {Expected})
        /\ AcceptRow([Row(kind, e) EXCEPT !.leg = leg, !.thread = t])
        /\ proof' = IF e # opened THEN proof ELSE [proof EXCEPT
             !.started = IF kind = "started" THEN @ \cup {t} ELSE @,
             !.wrong   = @ \/ kind = "other"
                         \/ (mode = "resume" /\ kind = "started" /\ t # Expected)]
        /\ UNCHANGED <<mode, conn, opened, full, case, turned>>

\* Bytes the observer refuses: it forgets the connection's requests and reports
\* nothing of it any more, whatever the relay still carries.
Gap(e) ==
    /\ Live(e, "client") \/ Live(e, "server")
    /\ Odd
    /\ conn' = [conn EXCEPT ![e].valid = FALSE, ![e].pending = [i \in Id |-> NoMethod]]
    /\ AcceptRow(Row("gap", e))
    /\ proof' = IF e = opened THEN [proof EXCEPT !.wrong = TRUE] ELSE proof
    /\ UNCHANGED <<mode, opened, full, case, turned>>

Unobserved(e) ==
    /\ Running /\ conn[e].state = "open" /\ ~conn[e].valid
    /\ "client" \notin conn[e].eof /\ ~turned
    /\ turned' = TRUE
    /\ UNCHANGED <<mode, conn, opened, inf, bridgeVars, case, odd, proof>>

\* The trace fills up: the next row is lost.
TraceFull ==
    /\ Running /\ ~full
    /\ Odd
    /\ full' = TRUE
    /\ UNCHANGED <<mode, conn, opened, inf, complete, turns, ended, case, turned, proof>>

\* on_lifecycle eof: the first leg invalidates, the second closes the observer.
Eof(e, leg) ==
    /\ Running /\ conn[e].state = "open" /\ leg \notin conn[e].eof
    /\ ended' = EndEpoch(e, "eof")
    /\ LET both == conn[e].eof \cup {leg} = Leg IN
         /\ conn' = IF both THEN [conn EXCEPT ![e] = Closed("closed")]
                    ELSE [conn EXCEPT ![e].eof = @ \cup {leg}]
         /\ \/ /\ both
               /\ \E cut \in {FALSE, conn[e].valid} : CloseRows(e, cut) /\ Irregular(cut)
            \/ /\ ~both
               /\ inf' = Invalidate(inf) /\ complete' = (complete /\ ~full)
               /\ Irregular(case.phase \notin {"disconnect", "quit", "closing"})
    /\ UNCHANGED <<mode, opened, full, turns, case, turned, proof>>

\* on_lifecycle disconnect, when both pumps have ended: after two ends of stream
\* it finds the observer closed; a pump that lost its socket reports no end.
Disconnected(e) ==
    /\ Running /\ conn[e].state = "open"
    /\ ended' = EndEpoch(e, "disconnect")
    /\ conn' = [conn EXCEPT ![e] = Closed("closed")]
    /\ \E cut \in {FALSE, conn[e].valid} : CloseRows(e, cut)
    /\ Odd
    /\ UNCHANGED <<mode, opened, full, turns, case, turned, proof>>

------------------------------------------------------------------------------
(* run_case *)

CaseStep(c) ==
    /\ case' = c
    /\ UNCHANGED <<mode, conn, opened, bridgeVars, turned>>

\* The terminal's screen after /status: one session id that is the candidate's,
\* or anything else.
StatusMatches == BOOLEAN

\* The case ends the connection it read last, if the relay still has it.
CanDisconnect(e) == conn[e].state \in {"open", "refused"}

\* The initial wait ends, with a candidate or with its window.
ReadInitial ==
    /\ case.phase = "initial"
    /\ Irregular(Candidate = NoThread)
    /\ CaseStep([case EXCEPT !.first = Candidate, !.ok = Candidate # NoThread,
                             !.phase = IF Candidate = NoThread THEN "closing" ELSE "status"])
    /\ UNCHANGED <<inf, proof>>

\* The status read from the screen, then inferer.clear and the /clear command.
StatusAndClear ==
    /\ case.phase = "status"
    /\ \E match \in StatusMatches :
         Irregular(~match) /\ CaseStep([case EXCEPT !.ok = @ /\ match, !.phase = "clear"])
    /\ inf' = Clear(inf)
    /\ proof' = [proof EXCEPT !.answered = {}, !.started = {}, !.unsubs = 0]

ReadCleared ==
    /\ case.phase = "clear"
    /\ Irregular(Candidate = NoThread)
    /\ CaseStep([case EXCEPT !.second = Candidate, !.phase = "status2",
                   !.ok = @ /\ Candidate \notin {NoThread, case.first}])
    /\ UNCHANGED <<inf, proof>>

\* The second status; then the latest connection is disconnected, or the gate
\* of a normal quit is passed.
Terminate ==
    /\ case.phase = "status2"
    /\ \E match \in StatusMatches, live \in BOOLEAN :
         LET ok == case.ok /\ match /\ live IN
         /\ Irregular(~match \/ ~live)
         /\ \/ /\ live => CanDisconnect(opened)
               /\ CaseStep([case EXCEPT !.last = opened, !.term = "forced_disconnect",
                                        !.ok = ok, !.phase = "disconnect"])
            \/ LET pass == ok /\ ended[opened] = "no" IN
               CaseStep([case EXCEPT !.last = opened, !.term = "normal_quit", !.ok = pass,
                                     !.phase = IF pass THEN "quit" ELSE "closing"])
    /\ UNCHANGED <<inf, proof>>

AfterDisconnect ==
    /\ case.phase = "disconnect"
    /\ CaseStep([case EXCEPT !.ok = @ /\ ended[case.last] # "no", !.phase = "quit"])
    /\ UNCHANGED <<inf, odd, proof>>

\* /quit and the terminal's exit status.
Quit ==
    /\ case.phase = "quit"
    /\ \E zero \in BOOLEAN :
         Irregular(~zero) /\ CaseStep([case EXCEPT !.phase = "closing",
            !.ok = @ /\ zero /\ ended[case.last] \in
                     IF case.term = "normal_quit" THEN {"eof", "close"}
                     ELSE {"eof", "close", "disconnect", "gap"}])
    /\ UNCHANGED <<inf, proof>>

\* runtime.close and the verdict.
Judge ==
    /\ case.phase = "closing"
    /\ \E clean \in BOOLEAN :
         Irregular(~clean) /\ CaseStep([case EXCEPT !.phase = "done",
            !.status = IF case.ok /\ clean /\ complete /\ ~turns /\ opened = case.last
                         THEN "observed" ELSE "unknown"])
    /\ UNCHANGED <<inf, proof>>

RunCase ==
    \/ ReadInitial \/ StatusAndClear \/ ReadCleared \/ Terminate
    \/ AfterDisconnect \/ Quit \/ Judge

\* The thread a request names, if it names one.
Names(m) == IF m \in {"thread/resume", "thread/unsubscribe"} THEN Thread ELSE {NoThread}

Wire(e) ==
    \/ \E leg \in Leg : Upgrade(e, leg) \/ Eof(e, leg)
    \/ \E id \in Id, m \in Known \cup Unknown : \E t \in Names(m) : Request(e, id, m, t)
    \/ \E id \in Id : \/ Answer(e, id, FALSE, NoThread)
                      \/ \E t \in Thread \cup {NoThread} : Answer(e, id, TRUE, t)
    \/ \E kind \in {"initialized", "note", "control", "other"} : Notify(e, kind, NoThread)
    \/ \E t \in Thread : Notify(e, "started", t)
    \/ Gap(e) \/ Unobserved(e) \/ Stray(e) \/ Disconnected(e)

\* Request ids are interchangeable.
Symmetry == Permutations(Id)

Next == Connect \/ TraceFull \/ RunCase \/ (Running /\ \E e \in 1 .. opened : Wire(e))

Spec == Init /\ [][Next]_vars

------------------------------------------------------------------------------
(* Properties *)

\* A candidate stands on an unbroken epoch: the connection it was inferred on
\* is the latest one observed, open in both directions, and the observer never
\* lost track of it, whatever other connections did in between.
CandidateUnbroken ==
    Candidate # NoThread =>
        /\ conn[inf.epoch].state = "open" /\ conn[inf.epoch].valid
        /\ conn[inf.epoch].eof = {}
        /\ \A e \in Epoch : e > inf.epoch => conn[e].state \in {"unused", "refused"}

\* After clear a candidate is a thread whose start was answered since, and the
\* frontend left the old thread: two unsubscriptions were answered and some
\* new thread announced, also since.
ClearBarrier ==
    mode = "start" /\ inf.cleared /\ Candidate # NoThread =>
        /\ Candidate \in proof.answered
        /\ proof.unsubs = 2 /\ proof.started # {}

\* A resume candidate rests on the answers of its own epoch: the expected
\* thread was resumed, skills were listed after that, and nothing failed.
ResumeProved ==
    mode = "resume" /\ Candidate # NoThread =>
        Candidate = Expected /\ proof.resumed /\ proof.listed /\ ~proof.wrong

\* The verdict "observed" is only given when no turn ever left the frontend, on
\* any connection, whether or not the observer could still read it.
ObservedMeansNoTurn == case.status = "observed" => ~turned
=============================================================================
