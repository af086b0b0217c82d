---------------------------- MODULE AttachmentProofs ----------------------------
(***************************************************************************)
(* Proofs about Attachment, for every set of threads and request ids and   *)
(* any number of connections and irregularities: a candidate stands on an  *)
(* unbroken connection, a candidate after /clear has passed the barrier, a *)
(* resumed candidate is the expected thread, and a case judged "observed"  *)
(* sent no turn.                                                           *)
(*                                                                         *)
(* The delicate part is that clear() makes a broken inferer usable again:  *)
(* _invalid goes back to "clear" whatever broke it.  What keeps the        *)
(* candidate honest is that finishing the barrier takes a request and an   *)
(* answer, so a connection that lost either direction never gets there     *)
(* (Tracked below).                                                        *)
(***************************************************************************)
EXTENDS Attachment, FiniteSetTheorems, TLAPS

MaybeThread == Thread \cup {NoThread}

\* The fields of an inferer; it clears exactly while it is invalid for that reason.
InfShape(i) ==
    /\ DOMAIN i = DOMAIN Fresh
    /\ i.epoch \in 0 .. Epochs /\ i.bad \in {"no", "clear", "yes"}
    /\ i.clearing <=> i.bad = "clear"
    /\ i.sync \in BOOLEAN /\ i.cleared \in BOOLEAN /\ i.unsubbed \in BOOLEAN
    /\ i.started \in BOOLEAN /\ i.inited \in BOOLEAN /\ i.asked \in BOOLEAN
    /\ i.barrier \in BOOLEAN /\ i.clearing \in BOOLEAN
    /\ i.up \subseteq Leg /\ i.req \subseteq Required /\ i.res \subseteq Required
    /\ i.thread \in MaybeThread /\ i.cand \in MaybeThread
    /\ i.old \in MaybeThread /\ i.new \in MaybeThread
    /\ i.boot \subseteq Id /\ i.unsub \subseteq Id /\ i.unsubDone \subseteq Id
    /\ i.pend \subseteq Id /\ i.skills \subseteq Id
    /\ i.fresh \in {"no", "needed", "asked"}

RowShape(row) ==
    /\ row.leg \in Leg /\ row.thread \in MaybeThread /\ row.ok \in BOOLEAN
    /\ row.kind \in {"request", "answer"} =>
         row.id \in Id /\ row.method \in Known \cup Unknown
    /\ row.kind \in {"upgrade", "request", "answer", "initialized", "started",
                     "note", "control", "other", "gap", "close"}

ProofShape(p) ==
    /\ DOMAIN p = DOMAIN NoProof
    /\ p.initialized \in BOOLEAN /\ p.resumed \in BOOLEAN /\ p.listed \in BOOLEAN
    /\ p.wrong \in BOOLEAN /\ p.unsubs \in 0 .. 2
    /\ p.answered \subseteq MaybeThread /\ p.started \subseteq MaybeThread

CaseShape(c) ==
    /\ DOMAIN c = {"phase", "term", "ok", "first", "second", "last", "status"}
    /\ c.phase \in {"initial", "status", "clear", "status2", "disconnect",
                    "quit", "closing", "done"}
    /\ c.status \in {"unknown", "observed"}

\* The connection is open in both directions, read by the observer, and the latest
\* one it observes.
Unbroken(e) ==
    /\ conn[e].state = "open" /\ conn[e].valid /\ conn[e].eof = {}
    /\ \A f \in Epoch : f > e => conn[f].state \in {"unused", "refused"}

\* No answer to an unsubscription can reach an inferer of epoch e any more.
Mute(e, unsub) ==
    \/ full \/ conn[e].state # "open" \/ ~conn[e].valid
    \/ "server" \in conn[e].eof
    \/ "client" \in conn[e].eof /\ unsub = {}

\* An inferer that is not invalid follows an unbroken connection, or waits for a
\* barrier it cannot pass.
Tracked ==
    inf.epoch # 0 /\ inf.bad # "yes" =>
        \/ Unbroken(inf.epoch)
        \/ inf.bad = "clear" /\ inf.unsubDone = {} /\ Mute(inf.epoch, inf.unsub)

\* Before the first connection nothing is inferred.
Idle == inf.epoch = 0 => ~inf.sync /\ inf.cand = NoThread

\* Connections the relay has not opened are unused; an inferer a later observed
\* connection has overtaken is blind (the trace is full) or beyond repair.
Overtaken ==
    /\ inf.epoch <= opened
    /\ \A e \in Epoch : e > opened => conn[e] = Closed("unused")
    /\ mode = "start" /\ inf.epoch # 0 =>
         \A e \in Epoch : e > inf.epoch /\ conn[e].state \notin {"unused", "refused"} => full

\* What an inferer after /clear knows was answered and announced since; "here"
\* says that its connection is the latest of all.
Barrier(i, p, here) ==
    i.cleared /\ i.bad # "yes" =>
        /\ i.fresh = "no" <=> i.clearing
        /\ i.cand # NoThread => i.fresh = "asked"
        /\ ~here => i.fresh # "asked"
        /\ here =>
             /\ {i.new, i.thread, i.cand} \subseteq p.answered \cup {NoThread}
             /\ i.started => p.started # {}
             /\ p.unsubs = 0 => i.unsubDone = {}
             /\ p.unsubs = 1 => \A x, y \in i.unsubDone : x = y
             /\ ~i.clearing => p.unsubs = 2 /\ p.started # {}

\* What a resuming inferer that is not invalid knows of its connection.
Resuming(i, p) ==
    i.bad = "no" =>
        /\ i.thread \in {NoThread, Expected}
        /\ i.thread # NoThread \/ i.skills # {} => p.resumed
        /\ i.barrier => p.listed
        /\ i.cand # NoThread => i.cand = i.thread /\ i.barrier
        /\ ~p.wrong

ResumeTracked ==
    mode = "resume" =>
        /\ inf.bad # "clear" /\ Resuming(inf, proof)
        /\ inf.bad = "no" => inf.epoch = opened
        /\ inf.bad = "no" /\ inf.epoch # 0 =>
             \A i \in inf.skills : conn[inf.epoch].pending[i] = "skills/list"

\* A turn left its mark: it was counted, or the trace is known to be incomplete.
TurnsMarked ==
    /\ turned => turns \/ ~complete
    /\ \A e \in Epoch : conn[e].state = "open" /\ ~conn[e].valid => ~complete
    /\ case.status = "observed" => case.phase = "done" /\ complete /\ ~turns

------------------------------------------------------------------------------
(* The operators of the inferers *)

\* What a row does to an inferer of a start case, kind by kind.
LEMMA ApplyStart ==
    ASSUME NEW i, NEW row, mode = "start"
    PROVE  /\ row.kind = "upgrade" =>
                Apply(i, row) = MaybeCandidate([i EXCEPT !.up = @ \cup {row.leg}])
           /\ row.kind = "request" =>
                Apply(i, row) = IF row.method \in Known
                                  THEN StartRequest(i, row.id, row.method, row.thread)
                                ELSE IF row.method = "boot" THEN StartBoot(i, row.id)
                                ELSE Invalidate(i)
           /\ row.kind = "answer" =>
                Apply(i, row) = IF row.method \in Known
                                  THEN IF row.ok THEN StartAnswer(i, row.id, row.method, row.thread) ELSE i
                                ELSE IF row.method = "boot" /\ row.id \in i.boot
                                  THEN MaybeCandidate([i EXCEPT !.boot = @ \ {row.id}])
                                ELSE Invalidate(i)
           /\ row.kind = "started" => Apply(i, row) = StartStarted(i, row.thread)
           /\ row.kind = "note" => Apply(i, row) = i
           /\ row.kind \in {"initialized", "control"} => Apply(i, row) = MaybeCandidate(i)
           /\ row.kind \in {"other", "gap", "close"} => Apply(i, row) = Invalidate(i)
<1>1. "boot" \notin Known
  BY DEF Known, Required
<1>2. CASE row.kind = "upgrade"
  BY <1>1, <1>2 DEF Apply
<1>3. CASE row.kind = "request"
  BY <1>1, <1>3 DEF Apply
<1>4. CASE row.kind = "answer"
  BY <1>1, <1>4 DEF Apply
<1>5. CASE row.kind = "started"
  BY <1>1, <1>5 DEF Apply
<1>6. CASE row.kind = "note"
  BY <1>1, <1>6 DEF Apply
<1>7. CASE row.kind \in {"initialized", "control"}
  BY <1>1, <1>7 DEF Apply
<1>8. CASE row.kind \in {"other", "gap", "close"}
  BY <1>1, <1>8 DEF Apply
<1> QED
  BY <1>2, <1>3, <1>4, <1>5, <1>6, <1>7, <1>8

\* What a row does to an inferer of a resume case, kind by kind.
LEMMA ApplyResume ==
    ASSUME NEW i, NEW row, mode # "start"
    PROVE  /\ row.kind = "upgrade" =>
                Apply(i, row) = ResumeCandidate([i EXCEPT !.up = @ \cup {row.leg}])
           /\ row.kind = "request" =>
                Apply(i, row) = IF row.method \in Known
                                  THEN ResumeRequest(i, row.id, row.method, row.thread)
                                ELSE IF row.method = "boot"
                                  THEN [i EXCEPT !.boot = @ \cup {row.id}]
                                ELSE Invalidate(i)
           /\ row.kind = "answer" =>
                Apply(i, row) = IF row.method \in Known
                                  THEN ResumeAnswer(i, row.id, row.method, row.ok, row.thread)
                                ELSE IF row.method = "boot" /\ row.id \in i.boot
                                  THEN ResumeCandidate([i EXCEPT !.boot = @ \ {row.id}])
                                ELSE Invalidate(i)
           /\ row.kind = "started" =>
                Apply(i, row) = IF row.thread # Expected THEN Invalidate(i) ELSE ResumeCandidate(i)
           /\ row.kind = "note" => Apply(i, row) = ResumeCandidate(i)
           /\ row.kind = "initialized" => Apply(i, row) = ResumeInitialized(i)
           /\ row.kind \in {"control", "other", "gap", "close"} => Apply(i, row) = Invalidate(i)
<1>1. "boot" \notin Known
  BY DEF Known, Required
<1>2. CASE row.kind = "upgrade"
  BY <1>1, <1>2 DEF Apply
<1>3. CASE row.kind = "request"
  BY <1>1, <1>3 DEF Apply
<1>4. CASE row.kind = "answer"
  BY <1>1, <1>4 DEF Apply
<1>5. CASE row.kind = "started"
  BY <1>1, <1>5 DEF Apply
<1>6. CASE row.kind = "note"
  BY <1>1, <1>6 DEF Apply
<1>7. CASE row.kind = "initialized"
  BY <1>1, <1>7 DEF Apply
<1>8. CASE row.kind \in {"control", "other", "gap", "close"}
  BY <1>1, <1>8 DEF Apply
<1> QED
  BY <1>2, <1>3, <1>4, <1>5, <1>6, <1>7, <1>8

\* An invalidated inferer keeps its shape and its epoch.
LEMMA InvalidateShape ==
    ASSUME NEW i, InfShape(i)
    PROVE  /\ InfShape(Invalidate(i)) /\ Invalidate(i).bad = "yes"
           /\ Invalidate(i).epoch = i.epoch /\ Invalidate(i).cand = NoThread
           /\ Invalidate(i).sync = i.sync
  BY DEF InfShape, Invalidate, Fresh, MaybeThread

\* The inferer and the trace out of step: nothing is believed any more.
LEMMA OutOfStepShape ==
    ASSUME NEW i, InfShape(i)
    PROVE  /\ InfShape([Invalidate(i) EXCEPT !.sync = FALSE])
           /\ [Invalidate(i) EXCEPT !.sync = FALSE].bad = "yes"
           /\ [Invalidate(i) EXCEPT !.sync = FALSE].epoch = i.epoch
           /\ [Invalidate(i) EXCEPT !.sync = FALSE].cand = NoThread
           /\ [Invalidate(i) EXCEPT !.sync = FALSE].sync = FALSE
  BY DEF InfShape, Invalidate, Fresh, MaybeThread

\* A new epoch begins with nothing heard.
LEMMA FreshShape == ASSUME NEW i, NEW e \in Epoch
    PROVE  /\ InfShape(Fresh) /\ InfShape(StartEpoch(i, e))
           /\ StartEpoch(i, e).epoch = e /\ StartEpoch(i, e).bad = "no"
           /\ StartEpoch(i, e).cleared = FALSE /\ StartEpoch(i, e).thread = NoThread
           /\ StartEpoch(i, e).cand = NoThread /\ StartEpoch(i, e).skills = {}
           /\ StartEpoch(i, e).barrier = FALSE
<1>1. InfShape(Fresh)
  BY AttachmentAssumption DEF InfShape, Fresh, MaybeThread
<1>2. DOMAIN StartEpoch(i, e) = DOMAIN Fresh
  BY DEF StartEpoch, Fresh
<1> QED
  BY <1>1, <1>2 DEF InfShape, StartEpoch, Fresh, Epoch

\* Two unsubscriptions are two different requests.
LEMMA TwoApart ==
    ASSUME NEW S \in SUBSET Id, Cardinality(S) >= 2
    PROVE  S # {} /\ ~ \A x, y \in S : x = y
<1>1. IsFiniteSet(S)
  BY AttachmentAssumption, FS_Subset
<1>2. S # {}
  BY FS_EmptySet
<1>3. ASSUME \A x, y \in S : x = y
      PROVE  FALSE
  <2>1. PICK x \in S : TRUE
    BY <1>2
  <2>2. S = {x}
    BY <2>1, <1>3
  <2>3. Cardinality(S) = 1
    BY <2>2, FS_Singleton
  <2>q. QED
    BY <2>3
<1> QED
  BY <1>2, <1>3

\* _maybe_candidate changes the candidate only, and only when nothing is pending.
LEMMA MaybeCandidateCases ==
    ASSUME NEW i, InfShape(i)
    PROVE  \/ MaybeCandidate(i) = i
           \/ /\ MaybeCandidate(i) = [i EXCEPT !.cand = i.thread]
              /\ i.bad # "yes" /\ ~i.clearing /\ (i.fresh # "no" => i.fresh = "asked")
  BY DEF MaybeCandidate

\* Passing the barrier took a new thread, its announcement and two answers.
LEMMA FinishClearCases ==
    ASSUME NEW i, InfShape(i)
    PROVE  \/ FinishClear(i) = i
           \/ /\ FinishClear(i) =
                    [i EXCEPT !.bad = "no", !.clearing = FALSE, !.fresh = "needed",
                              !.req = @ \ {"skills/list"}, !.res = @ \ {"skills/list"}]
              /\ i.clearing /\ i.new # NoThread /\ i.started
              /\ i.unsubDone # {} /\ ~ \A x, y \in i.unsubDone : x = y
<1>1. i.unsubDone \in SUBSET Id
  BY DEF InfShape
<1>2. CASE i.clearing /\ i.new # NoThread /\ i.started /\ Cardinality(i.unsubDone) >= 2
  BY <1>1, <1>2, TwoApart DEF FinishClear
<1>3. CASE ~(i.clearing /\ i.new # NoThread /\ i.started /\ Cardinality(i.unsubDone) >= 2)
  BY <1>3 DEF FinishClear
<1> QED
  BY <1>2, <1>3

\* What one row may change of the state the barrier depends on.
Effect(i, j, row) ==
    /\ InfShape(j) /\ j.epoch = i.epoch
    /\ j.bad = "yes" \/ j.bad = i.bad \/ (i.bad = "clear" /\ j.bad = "no" /\ j.unsubDone # {})
    /\ j.unsub \subseteq i.unsub \/ row.kind = "request"
    /\ j.unsubDone = i.unsubDone \/ (row.kind = "answer" /\ i.unsub # {})

\* Naming a candidate changes nothing else that a row may change.
LEMMA MaybeCandidateEffect ==
    ASSUME NEW i, InfShape(i), NEW row, NEW k, Effect(k, i, row)
    PROVE  Effect(k, MaybeCandidate(i), row)
  BY MaybeCandidateCases DEF Effect, InfShape, Fresh

\* Nor does the end of a clearing.
LEMMA FinishClearEffect ==
    ASSUME NEW i, InfShape(i), NEW row, NEW k, Effect(k, i, row)
    PROVE  Effect(k, FinishClear(i), row)
<1>1. CASE FinishClear(i) = i
  BY <1>1
<1>2. CASE /\ FinishClear(i) =
                  [i EXCEPT !.bad = "no", !.clearing = FALSE, !.fresh = "needed",
                            !.req = @ \ {"skills/list"}, !.res = @ \ {"skills/list"}]
           /\ i.clearing /\ i.unsubDone # {}
  <2>1. InfShape(FinishClear(i))
    BY <1>2 DEF InfShape, Fresh
  <2> QED
    BY <1>2, <2>1 DEF Effect, InfShape, Fresh
<1> QED
  BY <1>1, <1>2, FinishClearCases

\* Invalidating is within what any row may do.
LEMMA InvalidateEffect ==
    ASSUME NEW i, InfShape(i), NEW row, NEW k, Effect(k, i, row)
    PROVE  Effect(k, Invalidate(i), row)
  BY InvalidateShape DEF Effect, Invalidate, InfShape, Fresh

\* How the wire's history grows with a row.
Witnessed(p, q, row, here) ==
    /\ p.answered \subseteq q.answered /\ p.started \subseteq q.started
    /\ p.unsubs <= q.unsubs
    /\ row.kind = "request" /\ row.method = "skills/list" => here
    /\ here /\ row.kind = "answer" /\ row.ok =>
         /\ row.method = "thread/start" => row.thread \in q.answered
         /\ row.method = "thread/unsubscribe" => q.unsubs = 2 \/ q.unsubs = p.unsubs + 1
    /\ here /\ row.kind = "started" => q.started # {}

\* A step of the inferer inside a row, with the barrier it keeps.
Sound(k, i, row, q, here) == Effect(k, i, row) /\ Barrier(i, q, here)

\* A candidate named after the barrier is backed by it.
LEMMA MaybeCandidateSound ==
    ASSUME NEW i, NEW row, NEW k, NEW q, NEW here, Sound(k, i, row, q, here)
    PROVE  Sound(k, MaybeCandidate(i), row, q, here)
<1>1. InfShape(i) /\ Effect(k, i, row) /\ Barrier(i, q, here)
  BY DEF Sound, Effect
<1>2. Effect(k, MaybeCandidate(i), row)
  BY <1>1, MaybeCandidateEffect
<1>3. Barrier(MaybeCandidate(i), q, here)
  BY <1>1, MaybeCandidateCases DEF Barrier, InfShape, Fresh
<1> QED
  BY <1>2, <1>3 DEF Sound

\* The end of a clearing keeps what the barrier promises.
LEMMA FinishClearSound ==
    ASSUME NEW i, NEW row, NEW k, NEW q, NEW here, ProofShape(q), Sound(k, i, row, q, here)
    PROVE  Sound(k, FinishClear(i), row, q, here)
<1>1. InfShape(i) /\ Effect(k, i, row) /\ Barrier(i, q, here)
  BY DEF Sound, Effect
<1>2. Effect(k, FinishClear(i), row)
  BY <1>1, FinishClearEffect
<1>3. q.unsubs \in 0 .. 2
  BY DEF ProofShape
<1>4. Barrier(FinishClear(i), q, here)
  <2>1. CASE FinishClear(i) = i
    BY <2>1, <1>1
  <2>2. CASE /\ FinishClear(i) =
                    [i EXCEPT !.bad = "no", !.clearing = FALSE, !.fresh = "needed",
                              !.req = @ \ {"skills/list"}, !.res = @ \ {"skills/list"}]
             /\ i.clearing /\ i.new # NoThread /\ i.started
             /\ i.unsubDone # {} /\ ~ \A x, y \in i.unsubDone : x = y
    <3>1. /\ FinishClear(i).fresh = "needed" /\ FinishClear(i).cand = i.cand
          /\ FinishClear(i).new = i.new /\ FinishClear(i).thread = i.thread
          /\ FinishClear(i).started = i.started /\ FinishClear(i).unsubDone = i.unsubDone
          /\ FinishClear(i).cleared = i.cleared /\ FinishClear(i).clearing = FALSE
      BY <2>2, <1>1, ZenonT(60) DEF InfShape, Fresh
    <3>2. i.bad # "yes"
      BY <2>2, <1>1 DEF InfShape
    <3>3. i.cleared /\ here => q.unsubs = 2 /\ q.started # {}
      BY <2>2, <3>2, <1>1, <1>3 DEF Barrier
    <3> QED
      BY <2>2, <3>1, <3>2, <3>3, <1>1 DEF Barrier
  <2> QED
    BY <2>1, <2>2, <1>1, FinishClearCases
<1> QED
  BY <1>2, <1>4 DEF Sound

\* An invalidated inferer promises nothing.
LEMMA InvalidateSound ==
    ASSUME NEW i, NEW row, NEW k, NEW q, NEW here, Effect(k, i, row)
    PROVE  Sound(k, Invalidate(i), row, q, here)
<1>1. InfShape(i)
  BY DEF Effect
<1>2. Effect(k, Invalidate(i), row) /\ Invalidate(i).bad = "yes"
  BY <1>1, InvalidateEffect, InvalidateShape
<1> QED
  BY <1>2 DEF Sound, Barrier

\* Nothing happens to the inferer: the history may only grow.
LEMMA StandStill ==
    ASSUME NEW i, InfShape(i), NEW row, NEW p, NEW q, ProofShape(p), ProofShape(q),
           NEW here, Barrier(i, p, here), Witnessed(p, q, row, here)
    PROVE  Sound(i, i, row, q, here)
  BY DEF Sound, Effect, Barrier, Witnessed, ProofShape, InfShape

\* A request of a start case.
LEMMA StartRequestSound ==
    ASSUME NEW i, InfShape(i), NEW row, RowShape(row), row.kind = "request",
           NEW p, NEW q, ProofShape(p), ProofShape(q), NEW here,
           Barrier(i, p, here), Witnessed(p, q, row, here), row.method \in Known
    PROVE  Sound(i, StartRequest(i, row.id, row.method, row.thread), row, q, here)
<1> DEFINE m == row.method
           unsubscribes == i.clearing /\ m = "thread/unsubscribe"
           j == IF unsubscribes
                  THEN [i EXCEPT !.unsubbed = TRUE, !.unsub = @ \cup {row.id}] ELSE i
           k == IF m \in Required THEN [j EXCEPT !.req = @ \cup {m}] ELSE j
           l == IF m = "skills/list" /\ k.fresh = "needed"
                  THEN [k EXCEPT !.fresh = "asked"] ELSE k
<1>1. Sound(i, i, row, q, here)
  BY StandStill
<1>2. Sound(i, j, row, q, here)
  <2>1. row.id \in Id
    BY DEF RowShape
  <2>2. CASE unsubscribes
    <3>1. j = [i EXCEPT !.unsubbed = TRUE, !.unsub = i.unsub \cup {row.id}]
      BY <2>2
    <3> HIDE DEF j
    <3>2. Effect(i, j, row)
      BY <2>1, <3>1 DEF Effect, InfShape, Fresh
    <3>3. Barrier(j, q, here)
      BY <1>1, <3>1 DEF Sound, Barrier, InfShape, Fresh
    <3> QED
      BY <3>2, <3>3 DEF Sound
  <2>3. CASE ~unsubscribes
    BY <1>1, <2>3
  <2> QED
    BY <2>2, <2>3
<1>3. Sound(i, k, row, q, here)
  <2> HIDE DEF j
  <2> QED
    BY <1>2 DEF Sound, Effect, Barrier, InfShape, Fresh
<1>4. Sound(i, l, row, q, here)
  <2> HIDE DEF k
  <2>1. m = "skills/list" => here
    BY DEF Witnessed
  <2> QED
    BY <1>3, <2>1 DEF Sound, Effect, Barrier, InfShape, Fresh
<1>5. Sound(i, MaybeCandidate(l), row, q, here)
  <2> HIDE DEF l
  <2> QED
    BY <1>4, MaybeCandidateSound
<1>6. Sound(i, Invalidate(i), row, q, here)
  BY <1>1, InvalidateSound DEF Sound
<1> QED
  BY <1>5, <1>6 DEF StartRequest

\* A successful answer in a start case.
LEMMA StartAnswerSound ==
    ASSUME NEW i, InfShape(i), NEW row, RowShape(row), row.kind = "answer", row.ok,
           NEW p, NEW q, ProofShape(p), ProofShape(q), NEW here,
           Barrier(i, p, here), Witnessed(p, q, row, here), row.method \in Known
    PROVE  Sound(i, StartAnswer(i, row.id, row.method, row.thread), row, q, here)
<1> DEFINE m == row.method
           t == row.thread
           d == [i EXCEPT !.unsub = @ \ {row.id}, !.unsubDone = @ \cup {row.id}]
           r == [i EXCEPT !.res = @ \cup {m}]
           j == IF m = "thread/unsubscribe" /\ row.id \in i.unsub THEN FinishClear(d)
                ELSE IF m \in Required THEN r ELSE i
           k == [j EXCEPT !.thread = t]
           n == [k EXCEPT !.new = t]
<1>1. Sound(i, i, row, q, here)
  BY StandStill
<1>2. ASSUME m = "thread/unsubscribe", row.id \in i.unsub
      PROVE  Sound(i, d, row, q, here)
  <2>1. Effect(i, d, row)
    BY <1>2 DEF Effect, InfShape, Fresh
  <2>2. Barrier(d, q, here)
    BY <1>2, <1>1 DEF Sound, Barrier, InfShape, Fresh, Witnessed, ProofShape
  <2> QED
    BY <2>1, <2>2 DEF Sound
<1>3. ASSUME m \in Required
      PROVE  Sound(i, r, row, q, here)
  BY <1>3, <1>1 DEF Sound, Effect, Barrier, InfShape, Fresh
<1>4. Sound(i, j, row, q, here)
  <2> HIDE DEF d, r
  <2> QED
    BY <1>1, <1>2, <1>3, FinishClearSound
<1>5. m = "thread/start" => j = r /\ j.clearing = i.clearing
  BY DEF InfShape, Fresh, Required
<1>6. ASSUME m = "thread/start", t # NoThread
      PROVE  Sound(i, k, row, q, here) /\ Sound(i, n, row, q, here)
  <2>1. here => t \in q.answered
    BY <1>6 DEF Witnessed
  <2>2. t \in MaybeThread
    BY DEF RowShape
  <2> HIDE DEF j
  <2>3. Sound(i, k, row, q, here)
    BY <1>4, <2>1, <2>2 DEF Sound, Effect, Barrier, InfShape, Fresh
  <2> HIDE DEF k
  <2>4. Sound(i, n, row, q, here)
    BY <2>3, <2>1, <2>2 DEF Sound, Effect, Barrier, InfShape, Fresh
  <2> QED
    BY <2>3, <2>4
<1>7. Sound(i, MaybeCandidate(j), row, q, here)
  <2> HIDE DEF j
  <2> QED
    BY <1>4, MaybeCandidateSound
<1>8. ASSUME m = "thread/start", t # NoThread
      PROVE  /\ Sound(i, MaybeCandidate(k), row, q, here)
             /\ Sound(i, Invalidate(k), row, q, here)
             /\ Sound(i, MaybeCandidate(FinishClear(n)), row, q, here)
  <2> HIDE DEF j, k, n
  <2>1. Sound(i, k, row, q, here) /\ Sound(i, n, row, q, here)
    BY <1>6, <1>8
  <2>2. Sound(i, FinishClear(n), row, q, here)
    BY <2>1, FinishClearSound
  <2> QED
    BY <2>1, <2>2, MaybeCandidateSound, InvalidateSound DEF Sound
<1> HIDE DEF Sound
<1> QED
  BY <1>7, <1>8 DEF StartAnswer

\* thread/started in a start case.
LEMMA StartStartedSound ==
    ASSUME NEW i, InfShape(i), NEW row, RowShape(row), row.kind = "started",
           NEW p, NEW q, ProofShape(p), ProofShape(q), NEW here,
           Barrier(i, p, here), Witnessed(p, q, row, here)
    PROVE  Sound(i, StartStarted(i, row.thread), row, q, here)
<1> DEFINE j == [i EXCEPT !.started = TRUE]
<1>1. Sound(i, i, row, q, here)
  BY StandStill
<1>2. here => q.started # {}
  BY DEF Witnessed
<1>3. Sound(i, j, row, q, here)
  BY <1>1, <1>2 DEF Sound, Effect, Barrier, InfShape, Fresh
<1>4. Sound(i, MaybeCandidate(FinishClear(j)), row, q, here)
  <2> HIDE DEF j
  <2> QED
    BY <1>3, FinishClearSound, MaybeCandidateSound
<1>5. Sound(i, MaybeCandidate(i), row, q, here)
  BY <1>1, MaybeCandidateSound
<1>6. Sound(i, Invalidate(i), row, q, here)
  BY <1>1, InvalidateSound DEF Sound
<1> QED
  BY <1>4, <1>5, <1>6 DEF StartStarted

\* Every row of a start case keeps what the barrier stands for.
LEMMA StartRowSound ==
    ASSUME mode = "start", NEW i, InfShape(i), NEW row, RowShape(row),
           NEW p, NEW q, ProofShape(p), ProofShape(q), NEW here,
           Barrier(i, p, here), Witnessed(p, q, row, here)
    PROVE  Sound(i, Apply(i, row), row, q, here)
<1>1. Sound(i, i, row, q, here)
  BY StandStill
<1>2. Sound(i, Invalidate(i), row, q, here)
  BY <1>1, InvalidateSound DEF Sound
<1>3. Sound(i, MaybeCandidate(i), row, q, here)
  BY <1>1, MaybeCandidateSound
<1>4. CASE row.kind = "upgrade"
  <2> DEFINE j == [i EXCEPT !.up = @ \cup {row.leg}]
  <2>1. Sound(i, j, row, q, here)
    BY <1>1 DEF Sound, Effect, Barrier, InfShape, Fresh, RowShape
  <2>2. Apply(i, row) = MaybeCandidate(j)
    BY <1>4, ApplyStart
  <2> HIDE DEF j
  <2> QED
    BY <2>1, <2>2, MaybeCandidateSound
<1>5. CASE row.kind = "request"
  <2>1. Sound(i, StartBoot(i, row.id), row, q, here)
    BY <1>1, <1>5 DEF StartBoot, Sound, Effect, Barrier, InfShape, Fresh, RowShape, MaybeThread
  <2>2. Apply(i, row) = IF row.method \in Known
                          THEN StartRequest(i, row.id, row.method, row.thread)
                        ELSE IF row.method = "boot" THEN StartBoot(i, row.id)
                        ELSE Invalidate(i)
    BY <1>5, ApplyStart
  <2> QED
    BY <1>2, <1>5, <2>1, <2>2, StartRequestSound
<1>6. CASE row.kind = "answer"
  <2> DEFINE j == [i EXCEPT !.boot = @ \ {row.id}]
  <2>1. Sound(i, j, row, q, here)
    BY <1>1 DEF Sound, Effect, Barrier, InfShape, Fresh
  <2>2. Apply(i, row) = IF row.method \in Known
                          THEN IF row.ok THEN StartAnswer(i, row.id, row.method, row.thread) ELSE i
                        ELSE IF row.method = "boot" /\ row.id \in i.boot
                          THEN MaybeCandidate(j)
                        ELSE Invalidate(i)
    BY <1>6, ApplyStart, Zenon
  <2> HIDE DEF j
  <2>3. Sound(i, MaybeCandidate(j), row, q, here)
    BY <2>1, MaybeCandidateSound
  <2> QED
    BY <1>1, <1>2, <1>6, <2>2, <2>3, StartAnswerSound
<1>7. CASE row.kind = "started"
  <2>1. Apply(i, row) = StartStarted(i, row.thread)
    BY <1>7, ApplyStart, Zenon
  <2> QED
    BY <1>7, <2>1, StartStartedSound
<1>8. CASE row.kind \in {"note", "initialized", "control", "other", "gap", "close"}
  <2>1. Apply(i, row) \in {i, MaybeCandidate(i), Invalidate(i)}
    BY <1>8, ApplyStart, Zenon
  <2> QED
    BY <1>1, <1>2, <1>3, <2>1
<1>9. \/ row.kind = "upgrade" \/ row.kind = "request" \/ row.kind = "answer"
      \/ row.kind = "started"
      \/ row.kind \in {"note", "initialized", "control", "other", "gap", "close"}
  BY DEF RowShape
<1> QED
  BY <1>4, <1>5, <1>6, <1>7, <1>8, <1>9

\* Rows of a resume case that no candidate survives.
Wrong(row) ==
    \/ row.kind = "request" /\ row.method \in {"thread/start", "thread/unsubscribe", "turn/start"}
    \/ row.kind = "answer" /\ ~row.ok /\ row.method # "boot"
    \/ row.kind = "started" /\ row.thread # Expected
    \/ row.kind \in {"gap", "other"}

\* How the history of the latest connection grows with a row of a resume case.
Observed(p, q, row) ==
    /\ p.resumed => q.resumed
    /\ p.listed => q.listed
    /\ row.kind = "answer" /\ row.ok =>
         /\ row.method = "thread/resume" /\ row.thread = Expected => q.resumed
         /\ row.method = "skills/list" /\ p.resumed => q.listed
    /\ q.wrong => p.wrong \/ Wrong(row)

\* A step of a resuming inferer inside a row: what it keeps, and which
\* skills/list requests it waits for.
Resumes(k, i, row, q) ==
    /\ Effect(k, i, row) /\ i.bad # "clear" /\ Resuming(i, q)
    /\ \A id \in i.skills :
         \/ id \in k.skills /\ ~(row.kind = "answer" /\ row.method = "skills/list" /\ row.id = id)
         \/ row.kind = "request" /\ row.method = "skills/list" /\ row.id = id
         \/ i.bad = "yes"

\* A resumed candidate is named only for the thread that was resumed.
LEMMA ResumeCandidateResumes ==
    ASSUME NEW i, NEW row, NEW k, NEW q, Resumes(k, i, row, q)
    PROVE  Resumes(k, ResumeCandidate(i), row, q)
<1>1. \/ ResumeCandidate(i) = i
      \/ /\ ResumeCandidate(i) = [i EXCEPT !.cand = i.thread]
         /\ i.bad = "no" /\ i.thread # NoThread /\ i.barrier
  BY DEF ResumeCandidate
<1>2. CASE ResumeCandidate(i) = i
  BY <1>2
<1>3. CASE /\ ResumeCandidate(i) = [i EXCEPT !.cand = i.thread]
           /\ i.bad = "no" /\ i.thread # NoThread /\ i.barrier
  <2> DEFINE j == ResumeCandidate(i)
  <2>1. Effect(k, j, row) /\ j.bad = i.bad /\ j.thread = i.thread /\ j.cand = i.thread
        /\ j.skills = i.skills /\ j.barrier = i.barrier
    BY <1>3, ZenonT(60) DEF Resumes, Effect, InfShape, Fresh
  <2> HIDE DEF j
  <2>2. Resumes(k, j, row, q)
    BY <1>3, <2>1 DEF Resumes, Resuming
  <2> QED
    BY <2>2 DEF j
<1> QED
  BY <1>1, <1>2, <1>3

\* An invalidated inferer resumes nothing.
LEMMA InvalidateResumes ==
    ASSUME NEW i, NEW row, NEW k, NEW q, Effect(k, i, row)
    PROVE  Resumes(k, Invalidate(i), row, q)
<1>1. InfShape(i)
  BY DEF Effect
<1>2. Effect(k, Invalidate(i), row) /\ Invalidate(i).bad = "yes"
  BY <1>1, InvalidateEffect, InvalidateShape
<1> QED
  BY <1>2 DEF Resumes, Resuming

\* A row that does not answer a skills/list leaves the inferer as it is, unless
\* it is a wrong one.
LEMMA ResumeStill ==
    ASSUME NEW i, InfShape(i), i.bad # "clear", NEW row, NEW p, NEW q,
           Resuming(i, p), Observed(p, q, row), ~Wrong(row),
           ~(row.kind = "answer" /\ row.method = "skills/list")
    PROVE  Resumes(i, i, row, q)
  BY DEF Resumes, Effect, InfShape, Resuming, Observed

\* A request of a resume case.
LEMMA ResumeRequestResumes ==
    ASSUME NEW i, InfShape(i), i.bad # "clear", NEW row, RowShape(row), row.kind = "request",
           NEW p, NEW q, Resuming(i, p), Observed(p, q, row), row.method \in Known
    PROVE  Resumes(i, ResumeRequest(i, row.id, row.method, row.thread), row, q)
<1> DEFINE m == row.method
           j == [i EXCEPT !.pend = @ \cup {row.id}, !.asked = @ \/ m = "thread/resume",
                          !.skills = IF m = "skills/list" /\ i.thread # NoThread
                                       THEN @ \cup {row.id} ELSE @]
<1>1. Resumes(i, Invalidate(i), row, q)
  <2>1. Effect(i, i, row)
    BY DEF Effect
  <2> QED
    BY <2>1, InvalidateResumes
<1>2. CASE m \in {"thread/start", "thread/unsubscribe"}
  BY <1>1, <1>2 DEF ResumeRequest
<1>3. CASE m \notin {"thread/start", "thread/unsubscribe"}
  <2>1. ~Wrong(row)
    BY <1>3 DEF Wrong, Known, Required
  <2>2. Resumes(i, i, row, q)
    BY <2>1, ResumeStill
  <2>3. j.asked \in BOOLEAN
    BY DEF InfShape, Fresh
  <2>4. InfShape(j)
    BY <2>3 DEF InfShape, Fresh, RowShape
  <2>5. Resumes(i, j, row, q)
    BY <2>2, <2>4 DEF Resumes, Effect, InfShape, Fresh, Resuming
  <2>6. Resumes(i, ResumeCandidate(j), row, q)
    <3> HIDE DEF j
    <3> QED
      BY <2>5, ResumeCandidateResumes
  <2> QED
    BY <1>1, <1>3, <2>6 DEF ResumeRequest
<1> QED
  BY <1>2, <1>3

\* An answer in a resume case; a skills/list the inferer waits for was asked
\* after the thread was resumed.
LEMMA ResumeAnswerResumes ==
    ASSUME NEW i, InfShape(i), i.bad # "clear", NEW row, RowShape(row), row.kind = "answer",
           NEW p, NEW q, Resuming(i, p), Observed(p, q, row), row.method \in Known,
           row.id \in i.skills /\ i.bad = "no" => row.method = "skills/list"
    PROVE  Resumes(i, ResumeAnswer(i, row.id, row.method, row.ok, row.thread), row, q)
<1> DEFINE m == row.method
           t == row.thread
           a == ResumeAnswer(i, row.id, m, row.ok, t)
           d == [i EXCEPT !.pend = @ \ {row.id}]
           j == [i EXCEPT !.pend = @ \ {row.id}, !.skills = @ \ {row.id}]
           j1 == [j EXCEPT !.res = @ \cup {m}]
           j2 == [j EXCEPT !.thread = t]
           j3 == [j EXCEPT !.barrier = @ \/ row.id \in i.skills]
<1>1. Resumes(i, Invalidate(d), row, q)
  <2>1. Effect(i, d, row)
    BY DEF Effect, InfShape, Fresh
  <2> HIDE DEF d
  <2> QED
    BY <2>1, InvalidateResumes
<1>2. CASE row.id \notin i.pend \/ ~row.ok \/ (m = "thread/resume" /\ t # Expected)
  <2>1. a = Invalidate(d)
    BY <1>2 DEF ResumeAnswer
  <2> QED
    BY <1>1, <2>1
<1>3. CASE row.id \in i.pend /\ row.ok /\ (m = "thread/resume" => t = Expected)
  <2>1. ~Wrong(row)
    BY <1>3 DEF Wrong
  <2>2. Effect(i, j, row) /\ j.bad = i.bad /\ j.thread = i.thread /\ j.cand = i.cand
        /\ j.barrier = i.barrier /\ j.skills = i.skills \ {row.id} /\ j.res = i.res
    BY DEF Effect, InfShape, Fresh
  <2>3. Resumes(i, j, row, q)
    <3> HIDE DEF j
    <3> QED
      BY <2>1, <2>2 DEF Resumes, Resuming, Observed
  <2>4. Resumes(i, j1, row, q) \/ m # "initialize"
    <3> HIDE DEF j
    <3> QED
      BY <2>3 DEF Resumes, Effect, InfShape, Fresh, Resuming, Required
  <2>5. ASSUME m = "thread/resume"
        PROVE  Resumes(i, j2, row, q)
    <3>1. t = Expected /\ q.resumed /\ Expected \in MaybeThread /\ Expected # NoThread
      BY <1>3, <2>5, AttachmentAssumption DEF Observed, MaybeThread
    <3>2. i.bad = "no" => i.cand = NoThread \/ i.cand = Expected
      BY <2>2, AttachmentAssumption DEF Resuming
    <3> HIDE DEF j
    <3> QED
      BY <2>3, <3>1, <3>2 DEF Resumes, Effect, InfShape, Fresh, Resuming
  <2>6. ASSUME m \notin {"initialize", "thread/resume"}
        PROVE  Resumes(i, j3, row, q)
    <3>1. i.bad = "no" /\ row.id \in i.skills => q.listed
      BY <1>3 DEF Observed, Resuming
    <3>2. j3.barrier \in BOOLEAN /\ (j3.barrier <=> i.barrier \/ row.id \in i.skills)
      BY <2>2 DEF Effect, InfShape, Fresh
    <3>3. Effect(i, j3, row) /\ j3.bad = i.bad /\ j3.thread = i.thread /\ j3.cand = i.cand
          /\ j3.skills = i.skills \ {row.id}
      <4> HIDE DEF j
      <4> QED
        BY <2>2, <3>2 DEF Effect, InfShape, Fresh
    <3> HIDE DEF j3, j
    <3> QED
      BY <2>2, <2>3, <3>1, <3>2, <3>3 DEF Resumes, Resuming
  <2>7. CASE m = "initialize"
    <3>1. a = ResumeCandidate(j1)
      BY <1>3, <2>7 DEF ResumeAnswer
    <3> HIDE DEF j1, a
    <3> QED
      BY <2>4, <2>7, <3>1, ResumeCandidateResumes DEF a
  <2>8. CASE m = "thread/resume"
    <3>1. a = ResumeCandidate(j2)
      BY <1>3, <2>8 DEF ResumeAnswer
    <3> HIDE DEF j2
    <3> QED
      BY <2>5, <2>8, <3>1, ResumeCandidateResumes
  <2>9. CASE m \notin {"initialize", "thread/resume"}
    <3>1. a = ResumeCandidate(j3)
      BY <1>3, <2>9 DEF ResumeAnswer
    <3> HIDE DEF j3
    <3> QED
      BY <2>6, <2>9, <3>1, ResumeCandidateResumes
  <2> QED
    BY <2>7, <2>8, <2>9
<1> QED
  BY <1>2, <1>3 DEF RowShape

\* Every row of a resume case keeps what its candidate stands for.
LEMMA ResumeRowResumes ==
    ASSUME mode # "start", NEW i, InfShape(i), i.bad # "clear", NEW row, RowShape(row),
           NEW p, NEW q, Resuming(i, p), Observed(p, q, row),
           row.kind = "answer" /\ row.id \in i.skills /\ i.bad = "no" => row.method = "skills/list"
    PROVE  Resumes(i, Apply(i, row), row, q)
<1>1. Resumes(i, Invalidate(i), row, q)
  <2>1. Effect(i, i, row)
    BY DEF Effect
  <2> QED
    BY <2>1, InvalidateResumes
<1>2. CASE row.kind = "upgrade"
  <2> DEFINE j == [i EXCEPT !.up = @ \cup {row.leg}]
  <2>1. Resumes(i, i, row, q)
    BY <1>2, ResumeStill DEF Wrong
  <2>2. Resumes(i, j, row, q)
    BY <2>1 DEF Resumes, Effect, InfShape, Fresh, Resuming, RowShape
  <2>3. Apply(i, row) = ResumeCandidate(j)
    BY <1>2, ApplyResume
  <2> HIDE DEF j
  <2> QED
    BY <2>2, <2>3, ResumeCandidateResumes
<1>3. CASE row.kind = "request"
  <2> DEFINE j == [i EXCEPT !.boot = @ \cup {row.id}]
  <2>1. Apply(i, row) = IF row.method \in Known
                          THEN ResumeRequest(i, row.id, row.method, row.thread)
                        ELSE IF row.method = "boot" THEN j ELSE Invalidate(i)
    BY <1>3, ApplyResume, Zenon
  <2>2. ASSUME row.method = "boot"
        PROVE  Resumes(i, j, row, q)
    <3>1. Resumes(i, i, row, q)
      BY <1>3, <2>2, ResumeStill DEF Wrong
    <3> QED
      BY <1>3, <3>1 DEF Resumes, Effect, InfShape, Fresh, Resuming, RowShape
  <2> HIDE DEF j
  <2> QED
    BY <1>1, <1>3, <2>1, <2>2, ResumeRequestResumes
<1>4. CASE row.kind = "answer"
  <2> DEFINE j == [i EXCEPT !.boot = @ \ {row.id}]
  <2>1. Apply(i, row) = IF row.method \in Known
                          THEN ResumeAnswer(i, row.id, row.method, row.ok, row.thread)
                        ELSE IF row.method = "boot" /\ row.id \in i.boot
                          THEN ResumeCandidate(j)
                        ELSE Invalidate(i)
    BY <1>4, ApplyResume, Zenon
  <2>2. ASSUME row.method = "boot"
        PROVE  Resumes(i, ResumeCandidate(j), row, q)
    <3>1. Resumes(i, i, row, q)
      BY <1>4, <2>2, ResumeStill DEF Wrong
    <3>2. Resumes(i, j, row, q)
      BY <3>1 DEF Resumes, Effect, InfShape, Fresh, Resuming
    <3> HIDE DEF j
    <3> QED
      BY <3>2, ResumeCandidateResumes
  <2>3. row.method \in Known =>
          Resumes(i, ResumeAnswer(i, row.id, row.method, row.ok, row.thread), row, q)
    BY <1>4, ResumeAnswerResumes
  <2> HIDE DEF j
  <2> QED
    BY <1>1, <2>1, <2>2, <2>3
<1>5. CASE row.kind = "started"
  <2>1. Apply(i, row) = IF row.thread # Expected THEN Invalidate(i) ELSE ResumeCandidate(i)
    BY <1>5, ApplyResume, Zenon
  <2>2. row.thread = Expected => Resumes(i, i, row, q)
    BY <1>5, ResumeStill DEF Wrong
  <2> QED
    BY <1>1, <2>1, <2>2, ResumeCandidateResumes
<1>6. CASE row.kind \in {"note", "initialized"}
  <2> DEFINE j == [i EXCEPT !.inited = TRUE]
  <2>1. Resumes(i, i, row, q)
    BY <1>6, ResumeStill DEF Wrong
  <2>2. Resumes(i, j, row, q)
    BY <2>1 DEF Resumes, Effect, InfShape, Fresh, Resuming
  <2>3. Apply(i, row) \in {ResumeCandidate(i), ResumeCandidate(j), Invalidate(i)}
    BY <1>6, ApplyResume, Zenon DEF ResumeInitialized
  <2> HIDE DEF j
  <2> QED
    BY <1>1, <2>1, <2>2, <2>3, ResumeCandidateResumes
<1>7. CASE row.kind \in {"control", "other", "gap", "close"}
  BY <1>1, <1>7, ApplyResume
<1>8. \/ row.kind = "upgrade" \/ row.kind = "request" \/ row.kind = "answer"
      \/ row.kind = "started" \/ row.kind \in {"note", "initialized"}
      \/ row.kind \in {"control", "other", "gap", "close"}
  BY DEF RowShape
<1> QED
  BY <1>2, <1>3, <1>4, <1>5, <1>6, <1>7, <1>8

\* The rows that always invalidate do so in both modes.
LEMMA GapInvalidates ==
    ASSUME NEW i, InfShape(i), NEW row, row.kind \in {"gap", "close"}
    PROVE  /\ InfShape(Accept(i, row)) /\ Accept(i, row).bad = "yes"
           /\ Accept(i, row).epoch = i.epoch /\ Accept(i, row).cand = NoThread
           /\ Accept(i, row).sync => i.sync
<1>1. Apply(i, row) = Invalidate(i)
  BY ApplyStart, ApplyResume
<1> QED
  BY <1>1, InvalidateShape, OutOfStepShape DEF Accept

------------------------------------------------------------------------------
(* The inferer and its connection *)

\* The inferer after a row, or an event, it does not follow.
Lost(j) ==
    /\ InfShape(j) /\ j.bad = "yes" /\ j.epoch = inf.epoch
    /\ j.cand = NoThread /\ (j.sync => inf.sync)

\* A row is applied only when it is the expected one and the trace has room.
LEMMA AcceptCases ==
    ASSUME NEW row, AcceptRow(row), InfShape(inf)
    PROVE  \/ Lost(inf')
           \/ ~full /\ row.epoch = inf.epoch /\ inf.sync /\ inf' = Apply(inf, row)
<1>1. CASE full
  BY <1>1, OutOfStepShape DEF AcceptRow, Lost
<1>2. CASE ~full
  <2>1. inf' = Accept(inf, row)
    BY <1>2 DEF AcceptRow
  <2> QED
    BY <1>2, <2>1, OutOfStepShape, InvalidateShape DEF Accept, Lost
<1> QED
  BY <1>1, <1>2

\* A gap or the end of a connection leaves the inferer without a candidate.
LEMMA GapLost ==
    ASSUME NEW row, AcceptRow(row), InfShape(inf), row.kind \in {"gap", "close"}
    PROVE  Lost(inf')
<1>1. CASE full
  BY <1>1, OutOfStepShape DEF AcceptRow, Lost
<1>2. CASE ~full
  BY <1>2, GapInvalidates DEF AcceptRow, Lost
<1> QED
  BY <1>1, <1>2

\* Everything the invariant says of the inferer.
InfInv ==
    /\ InfShape(inf) /\ Tracked /\ Idle /\ Overtaken
    /\ mode = "start" => Barrier(inf, proof, inf.epoch = opened)
    /\ ResumeTracked

\* No connection appears: each was observed before, or is not observed now.
NoneAppears ==
    \A e \in Epoch : /\ conn'[e].state \in {"unused", "refused"}
                         \/ conn[e].state \notin {"unused", "refused"}
                     /\ e > opened' => conn'[e] = Closed("unused")

\* An inferer that is lost asks for nothing.
LEMMA LostKeeps ==
    ASSUME InfInv, Lost(inf'), UNCHANGED <<mode, full>>, opened \in 0 .. Epochs,
           opened' \in {opened, opened + 1}, NoneAppears
    PROVE  InfInv'
<1>1. inf'.bad = "yes" /\ inf'.epoch = inf.epoch /\ inf'.cand = NoThread /\ InfShape(inf')
      /\ (inf'.sync => inf.sync) /\ inf.epoch \in 0 .. Epochs
  BY DEF Lost, InfInv, InfShape
<1>2. Tracked' /\ Idle'
  BY <1>1 DEF Tracked, Idle, InfInv
<1>3. Overtaken'
  BY <1>1 DEF Overtaken, NoneAppears, InfInv
<1>4. Barrier(inf', proof', inf'.epoch = opened') /\ ResumeTracked'
  BY <1>1 DEF Barrier, ResumeTracked, Resuming
<1> QED
  BY <1>1, <1>2, <1>3, <1>4 DEF InfInv

\* The connections are as open as they were.
SameLegs ==
    \A e \in Epoch : /\ conn'[e].state = conn[e].state
                     /\ conn'[e].valid = conn[e].valid /\ conn'[e].eof = conn[e].eof
                     /\ e > opened => conn'[e] = conn[e]

\* A row that is applied came over a connection that still had its leg.
LEMMA EffectTracked ==
    ASSUME InfInv, NEW e \in Epoch, NEW row, row.epoch = e, e = inf.epoch, ~full,
           conn[e].state = "open", conn[e].valid, SameLegs, UNCHANGED <<mode, opened, full>>,
           row.kind = "request" => "client" \notin conn[e].eof,
           row.kind = "answer"  => "server" \notin conn[e].eof,
           Effect(inf, inf', row)
    PROVE  InfShape(inf') /\ Tracked' /\ Idle' /\ Overtaken'
<1>1. InfShape(inf') /\ inf'.epoch = e /\ e # 0
  BY DEF Effect, Epoch
<1>2. Idle'
  BY <1>1 DEF Idle
<1>3. Overtaken'
  BY <1>1 DEF InfInv, Overtaken, SameLegs
<1>4. Unbroken(e) => Unbroken(inf.epoch)'
  BY <1>1 DEF Unbroken, SameLegs
<1>5. ASSUME inf'.bad # "yes", ~Unbroken(e)
      PROVE  inf'.bad = "clear" /\ inf'.unsubDone = {} /\ Mute(inf.epoch, inf.unsub)'
  <2>1. inf.bad = "clear" /\ inf.unsubDone = {} /\ Mute(e, inf.unsub)
    BY <1>5, <1>1 DEF InfInv, Tracked, Effect
  <2>2. \/ "server" \in conn[e].eof
        \/ "client" \in conn[e].eof /\ inf.unsub = {}
    BY <2>1 DEF Mute
  <2>3. inf'.unsubDone = {}
    BY <2>1, <2>2 DEF Effect
  <2>4. "server" \in conn[e].eof \/ ("client" \in conn[e].eof /\ inf'.unsub = {})
    BY <2>2 DEF Effect
  <2> QED
    BY <1>1, <1>5, <2>1, <2>3, <2>4 DEF Effect, Mute, SameLegs
<1> QED
  BY <1>1, <1>2, <1>3, <1>4, <1>5 DEF Tracked

\* A message of connection e that its observer reads.
Carries(e, row) ==
    /\ RowShape(row) /\ row.epoch = e /\ AcceptRow(row)
    /\ conn[e].state = "open" /\ conn[e].valid /\ SameLegs
    /\ row.kind = "request" => "client" \notin conn[e].eof
    /\ row.kind = "answer"  => /\ "server" \notin conn[e].eof
                               /\ row.method = conn[e].pending[row.id]
    /\ \A id \in Id :
         \/ row.kind = "request" /\ row.method = "skills/list" /\ row.id = id
         \/ conn[e].pending[id] = "skills/list" /\ ~(row.kind = "answer" /\ row.id = id)
         => conn'[e].pending[id] = "skills/list"

\* A message keeps what the invariant says of the inferer.
LEMMA RowKeeps ==
    ASSUME InfInv, mode \in {"start", "resume"}, opened \in 0 .. Epochs,
           UNCHANGED <<mode, opened, full>>, ProofShape(proof), ProofShape(proof'),
           NEW e \in 1 .. opened, NEW row, Carries(e, row),
           mode = "start" /\ e = inf.epoch => Witnessed(proof, proof', row, inf.epoch = opened),
           mode = "resume" /\ e = opened => Observed(proof, proof', row)
    PROVE  InfInv'
<1>1. e \in Epoch /\ InfShape(inf) /\ RowShape(row) /\ AcceptRow(row) /\ SameLegs
  <2>1. e \in Epoch
    BY AttachmentAssumption DEF Epoch
  <2> QED
    BY <2>1 DEF InfInv, Carries
<1>2. CASE Lost(inf')
  <2>1. NoneAppears
    BY <1>1 DEF NoneAppears, SameLegs, InfInv, Overtaken
  <2> QED
    BY <1>2, <2>1, LostKeeps
<1>3. CASE ~full /\ row.epoch = inf.epoch /\ inf.sync /\ inf' = Apply(inf, row)
  <2>1. e = inf.epoch /\ row.epoch = e /\ conn[e].state = "open" /\ conn[e].valid
        /\ (row.kind = "request" => "client" \notin conn[e].eof)
        /\ (row.kind = "answer"  => "server" \notin conn[e].eof)
    BY <1>3 DEF Carries
  <2>2. CASE mode = "start"
    <3>1. Sound(inf, inf', row, proof', inf.epoch = opened)
      BY <1>1, <1>3, <2>1, <2>2, StartRowSound DEF InfInv
    <3>2. InfShape(inf') /\ Tracked' /\ Idle' /\ Overtaken'
      BY <1>1, <1>3, <2>1, <3>1, EffectTracked DEF Sound
    <3>3. Barrier(inf', proof', inf'.epoch = opened')
      BY <3>1 DEF Sound, Effect
    <3> QED
      BY <2>2, <3>2, <3>3 DEF InfInv, ResumeTracked
  <2>3. CASE mode = "resume"
    <3>1. inf.bad # "clear" /\ Resuming(inf, proof) /\ (inf.bad = "no" => inf.epoch = opened)
      BY <2>3 DEF InfInv, ResumeTracked
    <3>2. row.kind = "answer" /\ row.id \in inf.skills /\ inf.bad = "no" =>
            row.method = "skills/list"
      BY <2>1, <2>3, <1>1 DEF InfInv, ResumeTracked, Carries, Epoch
    <3>3. CASE inf.bad = "no"
      <4>1. Resumes(inf, inf', row, proof')
        BY <1>1, <1>3, <2>1, <2>3, <3>1, <3>2, <3>3, ResumeRowResumes
      <4>2. InfShape(inf') /\ Tracked' /\ Idle' /\ Overtaken'
        BY <1>1, <1>3, <2>1, <4>1, EffectTracked DEF Resumes
      <4>3. inf'.epoch = inf.epoch /\ inf'.bad # "clear" /\ Resuming(inf', proof')
        BY <4>1 DEF Resumes, Effect
      <4>4. ASSUME inf'.bad = "no", NEW id \in inf'.skills
            PROVE  conn'[e].pending[id] = "skills/list"
        <5>1. id \in Id
          BY <4>2, <4>4 DEF InfShape
        <5>2. \/ row.kind = "request" /\ row.method = "skills/list" /\ row.id = id
              \/ id \in inf.skills /\ ~(row.kind = "answer" /\ row.id = id)
          BY <4>1, <4>4, <3>2, <3>3 DEF Resumes
        <5>3. id \in inf.skills => conn[e].pending[id] = "skills/list"
          BY <2>1, <2>3, <3>3, <1>1 DEF InfInv, ResumeTracked, Epoch
        <5> QED
          BY <5>1, <5>2, <5>3 DEF Carries
      <4>5. ResumeTracked'
        BY <2>1, <2>3, <3>1, <3>3, <4>3, <4>4 DEF ResumeTracked
      <4> QED
        BY <2>3, <4>2, <4>5 DEF InfInv
    <3>4. CASE inf.bad = "yes"
      <4> DEFINE q == [resumed |-> TRUE, listed |-> TRUE, wrong |-> FALSE]
      <4>1. Resuming(inf, q) /\ Observed(q, q, row)
        BY <3>4 DEF Resuming, Observed
      <4>2. Resumes(inf, inf', row, q)
        <5> HIDE DEF q
        <5> QED
          BY <1>1, <1>3, <2>3, <3>1, <3>2, <4>1, ResumeRowResumes
      <4>3. InfShape(inf') /\ Tracked' /\ Idle' /\ Overtaken'
        BY <1>1, <1>3, <2>1, <4>2, EffectTracked DEF Resumes
      <4>4. inf'.bad = "yes"
        BY <3>4, <4>2 DEF Resumes, Effect
      <4> QED
        BY <2>3, <4>3, <4>4 DEF InfInv, ResumeTracked, Resuming
    <3> QED
      BY <1>1, <3>1, <3>3, <3>4 DEF InfShape
  <2> QED
    BY <2>2, <2>3
<1> QED
  BY <1>1, <1>2, <1>3, AcceptCases

------------------------------------------------------------------------------
(* The actions *)

\* The types of everything but the inferer.
Frame ==
    /\ mode \in {"start", "resume"} /\ opened \in 0 .. Epochs /\ odd \in 0 .. Oddities
    /\ conn \in [Epoch -> [state : {"unused", "refused", "open", "closed"},
                           valid : BOOLEAN, up : SUBSET Leg, eof : SUBSET Leg,
                           pending : [Id -> Known \cup Unknown \cup {NoMethod}]]]
    /\ complete \in BOOLEAN /\ full \in BOOLEAN /\ turns \in BOOLEAN /\ turned \in BOOLEAN
    /\ ended \in [Epoch -> {"no", "eof", "close", "disconnect", "gap"}]
    /\ ProofShape(proof) /\ CaseShape(case)

\* The inductive invariant: types, the inferer and its connection, the turns.
AttachmentInv == Frame /\ InfInv /\ TurnsMarked

\* Oddities are counted up to their bound.
LEMMA OddTyped ==
    ASSUME odd \in 0 .. Oddities, Odd
    PROVE  odd' \in 0 .. Oddities
  BY AttachmentAssumption DEF Odd

\* What is irregular is counted as an oddity.
LEMMA IrregularTyped ==
    ASSUME odd \in 0 .. Oddities, NEW what, Irregular(what)
    PROVE  odd' \in 0 .. Oddities
  BY OddTyped DEF Irregular

\* What a row does to the capture bridge.
LEMMA BridgeTyped ==
    ASSUME Frame, NEW row, AcceptRow(row), row.epoch \in 0 .. Epochs
    PROVE  /\ complete' \in BOOLEAN /\ turns' \in BOOLEAN
           /\ ended' \in [Epoch -> {"no", "eof", "close", "disconnect", "gap"}]
           /\ complete' => complete
           /\ turns => turns'
           /\ row.kind = "gap" => ~complete'
           /\ row.kind = "request" /\ row.method = "turn/start" => turns' \/ ~complete'
           /\ row.kind # "request" => turns' = turns
<1>1. CASE full
  BY <1>1 DEF AcceptRow, Frame
<1>2. CASE ~full
  <2>1. ended' \in [Epoch -> {"no", "eof", "close", "disconnect", "gap"}]
    BY <1>2 DEF AcceptRow, Frame, EndEpoch, Epoch
  <2>2. complete' = (complete /\ row.kind # "gap")
        /\ turns' = (turns \/ (row.kind = "request" /\ row.method = "turn/start"))
    BY <1>2 DEF AcceptRow
  <2> QED
    BY <2>1, <2>2 DEF Frame
<1> QED
  BY <1>1, <1>2

\* The first message of a connection.
LEMMA UpgradeKeeps ==
    ASSUME AttachmentInv, NEW e \in 1 .. opened, NEW leg \in Leg, Running, Upgrade(e, leg)
    PROVE  AttachmentInv'
<1> DEFINE row == [Row("upgrade", e) EXCEPT !.leg = leg]
<1>1. e \in Epoch /\ e \in 0 .. Epochs
  BY AttachmentAssumption DEF AttachmentInv, Frame, Epoch
<1>2. /\ row.kind = "upgrade" /\ row.epoch = e /\ RowShape(row)
  BY DEF Row, RowShape, MaybeThread, Leg
<1>3. conn' = [conn EXCEPT ![e].up = @ \cup {leg}] /\ AcceptRow(row)
      /\ conn[e].state = "open" /\ conn[e].valid
      /\ UNCHANGED <<mode, opened, full, case, odd, turned, proof>>
  BY DEF Upgrade, Live
<1> HIDE DEF row
<1>4. SameLegs /\ (\A id \in Id : conn'[e].pending[id] = conn[e].pending[id])
  BY <1>1, <1>3 DEF SameLegs, AttachmentInv, Frame
<1>5. Carries(e, row)
  BY <1>2, <1>3, <1>4 DEF Carries
<1>6. Witnessed(proof, proof', row, inf.epoch = opened) /\ Observed(proof, proof', row)
  BY <1>2, <1>3 DEF Witnessed, Observed, AttachmentInv, Frame, ProofShape
<1>7. InfInv'
  BY <1>3, <1>5, <1>6, RowKeeps DEF AttachmentInv, Frame
<1>8. Frame'
  <2>1. complete' \in BOOLEAN /\ turns' \in BOOLEAN
        /\ ended' \in [Epoch -> {"no", "eof", "close", "disconnect", "gap"}]
    BY <1>1, <1>2, <1>3, BridgeTyped DEF AttachmentInv
  <2>2. conn' \in [Epoch -> [state : {"unused", "refused", "open", "closed"},
                           valid : BOOLEAN, up : SUBSET Leg, eof : SUBSET Leg,
                           pending : [Id -> Known \cup Unknown \cup {NoMethod}]]]
    BY <1>1, <1>3, ZenonT(60) DEF AttachmentInv, Frame
  <2> QED
    BY <1>3, <2>1, <2>2 DEF AttachmentInv, Frame
<1>9. TurnsMarked'
  BY <1>1, <1>2, <1>3, <1>4, BridgeTyped DEF AttachmentInv, TurnsMarked, SameLegs, Running
<1> QED
  BY <1>7, <1>8, <1>9 DEF AttachmentInv

\* A request of the frontend.
LEMMA RequestKeeps ==
    ASSUME AttachmentInv, NEW e \in 1 .. opened, NEW id \in Id, NEW m \in Known \cup Unknown,
           NEW t \in Names(m), Running, Request(e, id, m, t)
    PROVE  AttachmentInv'
<1> DEFINE row == [Row("request", e) EXCEPT !.method = m, !.id = id, !.thread = t]
<1>1. e \in Epoch /\ e \in 0 .. Epochs
  BY AttachmentAssumption DEF AttachmentInv, Frame, Epoch
<1>2. t \in MaybeThread
  BY DEF Names, MaybeThread
<1>3. /\ row.kind = "request" /\ row.epoch = e /\ row.method = m /\ row.id = id
      /\ row.thread = t /\ RowShape(row)
  BY <1>2 DEF Row, RowShape, Leg
<1>4. /\ conn' = [conn EXCEPT ![e].pending[id] = m] /\ AcceptRow(row)
      /\ conn[e].state = "open" /\ conn[e].valid /\ "client" \notin conn[e].eof
      /\ conn[e].pending[id] = NoMethod
      /\ turned' = (turned \/ m = "turn/start")
      /\ UNCHANGED <<mode, opened, full, case>>
  BY DEF Request, Live
<1>5. proof' = IF e = opened /\ mode = "resume" /\ m \in {"thread/start", "thread/unsubscribe", "turn/start"}
                 THEN [proof EXCEPT !.wrong = TRUE] ELSE proof
  BY DEF Request
<1>6. odd' \in 0 .. Oddities
  BY OddTyped DEF Request, AttachmentInv, Frame
<1>7. m = "skills/list" => e = opened
  BY DEF Request, Orderly, Mistaken
<1> HIDE DEF row
<1>8. /\ SameLegs /\ conn'[e].pending[id] = m
      /\ \A x \in Id : x # id => conn'[e].pending[x] = conn[e].pending[x]
  BY <1>1, <1>4 DEF SameLegs, AttachmentInv, Frame
<1>9. Carries(e, row)
  BY <1>3, <1>4, <1>8 DEF Carries, NoMethod
<1>10. /\ ProofShape(proof')
       /\ proof'.started = proof.started /\ proof'.answered = proof.answered
       /\ proof'.unsubs = proof.unsubs /\ proof'.resumed = proof.resumed
       /\ proof'.listed = proof.listed
       /\ proof'.wrong => proof.wrong \/ m \in {"thread/start", "thread/unsubscribe", "turn/start"}
  BY <1>5 DEF AttachmentInv, Frame, ProofShape, NoProof
<1>11. e = inf.epoch => Witnessed(proof, proof', row, inf.epoch = opened)
  BY <1>3, <1>7, <1>10 DEF Witnessed, AttachmentInv, Frame, ProofShape
<1>12. Observed(proof, proof', row)
  BY <1>3, <1>10 DEF Observed, Wrong
<1>13. InfInv'
  BY <1>4, <1>9, <1>10, <1>11, <1>12, RowKeeps DEF AttachmentInv, Frame
<1>14. /\ complete' \in BOOLEAN /\ turns' \in BOOLEAN
       /\ ended' \in [Epoch -> {"no", "eof", "close", "disconnect", "gap"}]
       /\ complete' => complete
       /\ turns => turns'
       /\ m = "turn/start" => turns' \/ ~complete'
  BY <1>1, <1>3, <1>4, BridgeTyped DEF AttachmentInv
<1>15. Frame'
  <2>1. conn' \in [Epoch -> [state : {"unused", "refused", "open", "closed"},
                           valid : BOOLEAN, up : SUBSET Leg, eof : SUBSET Leg,
                           pending : [Id -> Known \cup Unknown \cup {NoMethod}]]]
    <3> DEFINE M == Known \cup Unknown \cup {NoMethod}
    <3>1. m \in M /\ conn \in [Epoch -> [state : {"unused", "refused", "open", "closed"},
                           valid : BOOLEAN, up : SUBSET Leg, eof : SUBSET Leg,
                           pending : [Id -> M]]]
      BY DEF AttachmentInv, Frame
    <3> HIDE DEF M
    <3>2. conn' \in [Epoch -> [state : {"unused", "refused", "open", "closed"},
                           valid : BOOLEAN, up : SUBSET Leg, eof : SUBSET Leg,
                           pending : [Id -> M]]]
      BY <1>1, <1>4, <3>1, ZenonT(60)
    <3> QED
      BY <3>2 DEF M
  <2>2. turned' \in BOOLEAN
    BY <1>4 DEF AttachmentInv, Frame
  <2> QED
    BY <1>4, <1>6, <1>10, <1>14, <2>1, <2>2 DEF AttachmentInv, Frame
<1>16. TurnsMarked'
  BY <1>1, <1>4, <1>8, <1>14 DEF AttachmentInv, TurnsMarked, SameLegs, Running
<1> QED
  BY <1>13, <1>15, <1>16 DEF AttachmentInv

\* An answer of the backend.
LEMMA AnswerKeeps ==
    ASSUME AttachmentInv, NEW e \in 1 .. opened, NEW id \in Id, NEW ok \in BOOLEAN,
           NEW t \in Thread \cup {NoThread}, Running, Answer(e, id, ok, t)
    PROVE  AttachmentInv'
<1> DEFINE m == conn[e].pending[id]
           row == [Row("answer", e) EXCEPT !.leg = "server", !.method = m,
                        !.id = id, !.ok = ok, !.thread = t]
<1>1. e \in Epoch /\ e \in 0 .. Epochs
  BY AttachmentAssumption DEF AttachmentInv, Frame, Epoch
<1>2. m \in Known \cup Unknown
  BY <1>1 DEF Answer, AttachmentInv, Frame
<1>3. /\ row.kind = "answer" /\ row.epoch = e /\ row.method = m /\ row.id = id
      /\ row.thread = t /\ row.ok = ok /\ RowShape(row)
  BY <1>2 DEF Row, RowShape, Leg, MaybeThread
<1>4. /\ conn' = [conn EXCEPT ![e].pending[id] = NoMethod] /\ AcceptRow(row)
      /\ conn[e].state = "open" /\ conn[e].valid /\ "server" \notin conn[e].eof
      /\ UNCHANGED <<mode, opened, full, case, turned>>
  BY DEF Answer, Live
<1>5. proof' = IF e # opened THEN proof ELSE [proof EXCEPT
             !.initialized = @ \/ m = "initialize",
             !.answered = IF ok /\ m = "thread/start" THEN @ \cup {t} ELSE @,
             !.unsubs   = IF ok /\ m = "thread/unsubscribe" /\ @ < 2 THEN @ + 1 ELSE @,
             !.resumed  = @ \/ (ok /\ m = "thread/resume" /\ t = Expected),
             !.listed   = @ \/ (ok /\ m = "skills/list" /\ proof.resumed),
             !.wrong    = @ \/ (~ok /\ m # "boot")]
  BY DEF Answer
<1>6. odd' \in 0 .. Oddities
  BY IrregularTyped DEF Answer, AttachmentInv, Frame
<1> HIDE DEF row
<1>8. /\ SameLegs
      /\ \A x \in Id : x # id => conn'[e].pending[x] = conn[e].pending[x]
  BY <1>1, <1>4 DEF SameLegs, AttachmentInv, Frame
<1>9. Carries(e, row)
  BY <1>3, <1>4, <1>8 DEF Carries
<1>14. /\ complete' \in BOOLEAN /\ turns' \in BOOLEAN
       /\ ended' \in [Epoch -> {"no", "eof", "close", "disconnect", "gap"}]
       /\ complete' => complete
       /\ turns => turns'
       /\ turns' = turns
  BY <1>1, <1>3, <1>4, BridgeTyped DEF AttachmentInv
<1> HIDE DEF m
<1>10. ASSUME e # opened
       PROVE  ProofShape(proof') /\ InfInv'
  <2>1. proof' = proof
    BY <1>5, <1>10
  <2>2. e = inf.epoch => Witnessed(proof, proof', row, inf.epoch = opened)
    BY <1>3, <1>10, <2>1 DEF Witnessed, AttachmentInv, Frame, ProofShape
  <2> QED
    BY <1>4, <1>9, <1>10, <2>1, <2>2, RowKeeps DEF AttachmentInv, Frame
<1>11. ASSUME e = opened
       PROVE  ProofShape(proof') /\ InfInv'
  <2>1. /\ DOMAIN proof' = DOMAIN NoProof
        /\ proof'.started = proof.started
        /\ proof'.answered = IF ok /\ m = "thread/start" THEN proof.answered \cup {t} ELSE proof.answered
        /\ proof'.unsubs = IF ok /\ m = "thread/unsubscribe" /\ proof.unsubs < 2
                             THEN proof.unsubs + 1 ELSE proof.unsubs
    BY <1>5, <1>11 DEF AttachmentInv, Frame, ProofShape, NoProof
  <2>2. /\ proof'.initialized \in BOOLEAN
        /\ proof'.resumed \in BOOLEAN
        /\ proof'.resumed <=> proof.resumed \/ (ok /\ m = "thread/resume" /\ t = Expected)
    BY <1>5, <1>11 DEF AttachmentInv, Frame, ProofShape, NoProof
  <2>3. /\ proof'.listed \in BOOLEAN /\ proof'.wrong \in BOOLEAN
        /\ proof'.listed <=> proof.listed \/ (ok /\ m = "skills/list" /\ proof.resumed)
        /\ proof'.wrong <=> proof.wrong \/ (~ok /\ m # "boot")
    BY <1>5, <1>11 DEF AttachmentInv, Frame, ProofShape, NoProof
  <2>4. ProofShape(proof')
    BY <2>1, <2>2, <2>3 DEF AttachmentInv, Frame, ProofShape, MaybeThread
  <2>5. Witnessed(proof, proof', row, inf.epoch = opened)
    BY <1>3, <2>1 DEF Witnessed, AttachmentInv, Frame, ProofShape
  <2>6. Observed(proof, proof', row)
    BY <1>3, <2>2, <2>3 DEF Observed, Wrong
  <2> QED
    BY <1>4, <1>9, <2>4, <2>5, <2>6, RowKeeps DEF AttachmentInv, Frame
<1>12. ProofShape(proof') /\ InfInv'
  BY <1>10, <1>11
<1>15. Frame'
  <2>1. conn' \in [Epoch -> [state : {"unused", "refused", "open", "closed"},
                           valid : BOOLEAN, up : SUBSET Leg, eof : SUBSET Leg,
                           pending : [Id -> Known \cup Unknown \cup {NoMethod}]]]
    BY <1>1, <1>4, ZenonT(60) DEF AttachmentInv, Frame
  <2> QED
    BY <1>4, <1>6, <1>12, <1>14, <2>1 DEF AttachmentInv, Frame
<1>16. TurnsMarked'
  BY <1>1, <1>4, <1>8, <1>14 DEF AttachmentInv, TurnsMarked, SameLegs, Running
<1> QED
  BY <1>12, <1>15, <1>16 DEF AttachmentInv

\* A message without an id.
LEMMA NotifyKeeps ==
    ASSUME AttachmentInv, NEW e \in 1 .. opened, NEW t \in Thread \cup {NoThread},
           NEW kind \in {"initialized", "note", "control", "other", "started"},
           Running, Notify(e, kind, t)
    PROVE  AttachmentInv'
<1> DEFINE leg == IF kind = "initialized" THEN "client" ELSE "server"
           row == [Row(kind, e) EXCEPT !.leg = leg, !.thread = t]
<1>1. e \in Epoch /\ e \in 0 .. Epochs
  BY AttachmentAssumption DEF AttachmentInv, Frame, Epoch
<1>3. /\ row.kind = kind /\ row.epoch = e /\ row.thread = t /\ RowShape(row)
  BY DEF Row, RowShape, Leg, MaybeThread
<1>4. /\ AcceptRow(row)
      /\ conn[e].state = "open" /\ conn[e].valid
      /\ UNCHANGED <<mode, conn, opened, full, case, turned>>
  BY DEF Notify, Live
<1>5. proof' = IF e # opened THEN proof ELSE [proof EXCEPT
             !.started = IF kind = "started" THEN @ \cup {t} ELSE @,
             !.wrong   = @ \/ kind = "other"
                         \/ (mode = "resume" /\ kind = "started" /\ t # Expected)]
  BY DEF Notify
<1>6. odd' \in 0 .. Oddities
  BY IrregularTyped DEF Notify, AttachmentInv, Frame
<1> HIDE DEF row, leg
<1>8. SameLegs /\ (\A id \in Id : conn'[e].pending[id] = conn[e].pending[id])
  BY <1>4 DEF SameLegs
<1>9. Carries(e, row)
  BY <1>3, <1>4, <1>8 DEF Carries
<1>14. /\ complete' \in BOOLEAN /\ turns' \in BOOLEAN
       /\ ended' \in [Epoch -> {"no", "eof", "close", "disconnect", "gap"}]
       /\ complete' => complete
       /\ turns => turns'
       /\ turns' = turns
  BY <1>1, <1>3, <1>4, BridgeTyped DEF AttachmentInv
<1>10. ASSUME e # opened
       PROVE  ProofShape(proof') /\ InfInv'
  <2>1. proof' = proof
    BY <1>5, <1>10
  <2>2. e = inf.epoch => Witnessed(proof, proof', row, inf.epoch = opened)
    BY <1>3, <1>10, <2>1 DEF Witnessed, AttachmentInv, Frame, ProofShape
  <2> QED
    BY <1>4, <1>9, <1>10, <2>1, <2>2, RowKeeps DEF AttachmentInv, Frame
<1>11. ASSUME e = opened
       PROVE  ProofShape(proof') /\ InfInv'
  <2>1. /\ DOMAIN proof' = DOMAIN NoProof
        /\ proof'.initialized = proof.initialized /\ proof'.answered = proof.answered
        /\ proof'.unsubs = proof.unsubs /\ proof'.resumed = proof.resumed
        /\ proof'.listed = proof.listed
        /\ proof'.started = IF kind = "started" THEN proof.started \cup {t} ELSE proof.started
    BY <1>5, <1>11 DEF AttachmentInv, Frame, ProofShape, NoProof
  <2>3. /\ proof'.wrong \in BOOLEAN
        /\ proof'.wrong => proof.wrong \/ kind = "other" \/ (kind = "started" /\ t # Expected)
    BY <1>5, <1>11 DEF AttachmentInv, Frame, ProofShape, NoProof
  <2>4. ProofShape(proof')
    BY <2>1, <2>3 DEF AttachmentInv, Frame, ProofShape, MaybeThread
  <2>5. Witnessed(proof, proof', row, inf.epoch = opened)
    <3>1. proof.started \subseteq proof'.started /\ (kind = "started" => proof'.started # {})
      BY <2>1
    <3>2. proof.unsubs <= proof'.unsubs /\ proof.answered \subseteq proof'.answered
      BY <2>1 DEF AttachmentInv, Frame, ProofShape
    <3>3. row.kind # "request" /\ row.kind # "answer"
      BY <1>3
    <3> QED
      BY <1>3, <3>1, <3>2, <3>3 DEF Witnessed
  <2>6. Observed(proof, proof', row)
    BY <1>3, <2>1, <2>3 DEF Observed, Wrong
  <2> QED
    BY <1>4, <1>9, <2>4, <2>5, <2>6, RowKeeps DEF AttachmentInv, Frame
<1>12. ProofShape(proof') /\ InfInv'
  BY <1>10, <1>11
<1>15. Frame'
  BY <1>4, <1>6, <1>12, <1>14 DEF AttachmentInv, Frame
<1>16. TurnsMarked'
  BY <1>4, <1>14 DEF AttachmentInv, TurnsMarked, Running
<1> QED
  BY <1>12, <1>15, <1>16 DEF AttachmentInv

\* Bytes the observer refuses end what it knows of the connection.
LEMMA GapKeeps ==
    ASSUME AttachmentInv, NEW e \in 1 .. opened, Running, Gap(e)
    PROVE  AttachmentInv'
<1> DEFINE row == Row("gap", e)
<1>1. e \in Epoch /\ e \in 0 .. Epochs
  BY AttachmentAssumption DEF AttachmentInv, Frame, Epoch
<1>2. row.kind = "gap" /\ row.epoch = e
  BY DEF Row
<1>3. /\ AcceptRow(row)
      /\ conn' = [conn EXCEPT ![e].valid = FALSE, ![e].pending = [i \in Id |-> NoMethod]]
      /\ proof' = IF e = opened THEN [proof EXCEPT !.wrong = TRUE] ELSE proof
      /\ UNCHANGED <<mode, opened, full, case, turned>>
      /\ conn[e].state = "open"
  BY DEF Gap, Live
<1>4. odd' \in 0 .. Oddities
  BY OddTyped DEF Gap, AttachmentInv, Frame
<1> HIDE DEF row
<1>5. NoneAppears
  BY <1>1, <1>3 DEF NoneAppears, AttachmentInv, Frame, InfInv, Overtaken
<1>6. InfInv'
  BY <1>2, <1>3, <1>5, GapLost, LostKeeps DEF AttachmentInv, Frame, InfInv
<1>7. /\ ~complete' /\ complete' \in BOOLEAN /\ turns' \in BOOLEAN
      /\ ended' \in [Epoch -> {"no", "eof", "close", "disconnect", "gap"}]
  BY <1>1, <1>2, <1>3, BridgeTyped DEF AttachmentInv
<1>8. ProofShape(proof')
  BY <1>3 DEF AttachmentInv, Frame, ProofShape, NoProof
<1>9. conn' \in [Epoch -> [state : {"unused", "refused", "open", "closed"},
                           valid : BOOLEAN, up : SUBSET Leg, eof : SUBSET Leg,
                           pending : [Id -> Known \cup Unknown \cup {NoMethod}]]]
  <2> DEFINE M == Known \cup Unknown \cup {NoMethod}
             none == [i \in Id |-> NoMethod]
  <2>1. conn \in [Epoch -> [state : {"unused", "refused", "open", "closed"},
                           valid : BOOLEAN, up : SUBSET Leg, eof : SUBSET Leg,
                           pending : [Id -> M]]]
    BY DEF AttachmentInv, Frame
  <2>2. none \in [Id -> M] /\ conn' = [conn EXCEPT ![e].valid = FALSE, ![e].pending = none]
    BY <1>3
  <2> HIDE DEF M, none
  <2>3. conn' \in [Epoch -> [state : {"unused", "refused", "open", "closed"},
                           valid : BOOLEAN, up : SUBSET Leg, eof : SUBSET Leg,
                           pending : [Id -> M]]]
    BY <1>1, <2>1, <2>2, ZenonT(60)
  <2> QED
    BY <2>3 DEF M
<1>10. Frame'
  BY <1>3, <1>4, <1>7, <1>8, <1>9 DEF AttachmentInv, Frame
<1>11. TurnsMarked'
  BY <1>3, <1>7 DEF AttachmentInv, TurnsMarked, Running
<1> QED
  BY <1>6, <1>10, <1>11 DEF AttachmentInv

\* Bytes on a connection the observer never had.
LEMMA StrayKeeps ==
    ASSUME AttachmentInv, NEW e \in 1 .. opened, Stray(e)
    PROVE  AttachmentInv'
<1> DEFINE row == Row("gap", 0)
<1>1. row.kind = "gap" /\ row.epoch = 0 /\ 0 \in 0 .. Epochs
  BY AttachmentAssumption DEF Row
<1>2. /\ AcceptRow(row) /\ Running /\ turned' \in {turned, TRUE}
      /\ UNCHANGED <<mode, conn, opened, full, case, odd, proof>>
  BY DEF Stray
<1> HIDE DEF row
<1>3. NoneAppears
  BY <1>2 DEF NoneAppears, AttachmentInv, InfInv, Overtaken
<1>4. InfInv'
  BY <1>1, <1>2, <1>3, GapLost, LostKeeps DEF AttachmentInv, Frame, InfInv
<1>5. /\ ~complete' /\ complete' \in BOOLEAN /\ turns' \in BOOLEAN
      /\ ended' \in [Epoch -> {"no", "eof", "close", "disconnect", "gap"}]
  BY <1>1, <1>2, BridgeTyped DEF AttachmentInv
<1>6. Frame'
  BY <1>2, <1>5 DEF AttachmentInv, Frame
<1>7. TurnsMarked'
  BY <1>2, <1>5 DEF AttachmentInv, TurnsMarked, Running
<1> QED
  BY <1>4, <1>6, <1>7 DEF AttachmentInv

\* What an empty entry of the observer looks like.
LEMMA ClosedTyped ==
    ASSUME NEW how \in {"unused", "refused", "open", "closed"}
    PROVE  /\ Closed(how) \in [state : {"unused", "refused", "open", "closed"},
                           valid : BOOLEAN, up : SUBSET Leg, eof : SUBSET Leg,
                           pending : [Id -> Known \cup Unknown \cup {NoMethod}]]
           /\ Closed(how).state = how /\ Closed(how).valid = FALSE
           /\ Closed(how).pending = [i \in Id |-> NoMethod]
  BY DEF Closed

\* The rows of observer.close lose the inferer.
LEMMA CloseLost ==
    ASSUME NEW e \in Epoch, NEW cut \in BOOLEAN, CloseRows(e, cut), InfShape(inf),
           complete \in BOOLEAN
    PROVE  Lost(inf') /\ complete' \in BOOLEAN /\ (complete' => complete)
<1>1. CASE full
  BY <1>1, OutOfStepShape DEF CloseRows, Lost
<1>2. CASE ~full
  <2>1. Row("close", e).kind = "close"
    BY DEF Row
  <2>2. inf' = Accept(inf, Row("close", e)) /\ complete' = (complete /\ ~cut)
    BY <1>2 DEF CloseRows
  <2>3. Lost(inf')
    BY <2>1, <2>2, GapInvalidates DEF Lost
  <2> QED
    BY <2>2, <2>3
<1> QED
  BY <1>1, <1>2

\* A connection that ends takes its inferer with it.
LEMMA EndKeeps ==
    ASSUME AttachmentInv, NEW e \in 1 .. opened, conn[e].state = "open", Running,
           UNCHANGED <<mode, opened, full, turns, case, turned, proof>>,
           NEW c, conn' = [conn EXCEPT ![e] = c], odd' \in 0 .. Oddities,
           c \in [state : {"unused", "refused", "open", "closed"},
                           valid : BOOLEAN, up : SUBSET Leg, eof : SUBSET Leg,
                           pending : [Id -> Known \cup Unknown \cup {NoMethod}]],
           c.state \in {"open", "closed"}, c.state = "open" => c.valid = conn[e].valid,
           NEW reason \in {"eof", "disconnect"}, ended' = EndEpoch(e, reason),
           Lost(inf'), complete' \in BOOLEAN, complete' => complete
    PROVE  AttachmentInv'
<1>1. e \in Epoch
  BY AttachmentAssumption DEF AttachmentInv, Frame, Epoch
<1>2. conn'[e] = c /\ \A f \in Epoch : f # e => conn'[f] = conn[f]
  BY <1>1 DEF AttachmentInv, Frame
<1>3. NoneAppears
  BY <1>1, <1>2 DEF NoneAppears, AttachmentInv, Frame, InfInv, Overtaken
<1>4. InfInv'
  BY <1>3, LostKeeps DEF AttachmentInv, Frame
<1>5. conn' \in [Epoch -> [state : {"unused", "refused", "open", "closed"},
                           valid : BOOLEAN, up : SUBSET Leg, eof : SUBSET Leg,
                           pending : [Id -> Known \cup Unknown \cup {NoMethod}]]]
  BY <1>1 DEF AttachmentInv, Frame
<1>6. ended' \in [Epoch -> {"no", "eof", "close", "disconnect", "gap"}]
  BY <1>1 DEF EndEpoch, AttachmentInv, Frame
<1>7. Frame'
  BY <1>5, <1>6 DEF AttachmentInv, Frame
<1>8. TurnsMarked'
  BY <1>1, <1>2 DEF AttachmentInv, TurnsMarked, Running
<1> QED
  BY <1>4, <1>7, <1>8 DEF AttachmentInv

\* The end of one stream.
LEMMA EofKeeps ==
    ASSUME AttachmentInv, NEW e \in 1 .. opened, NEW leg \in Leg, Eof(e, leg)
    PROVE  AttachmentInv'
<1>1. e \in Epoch
  BY AttachmentAssumption DEF AttachmentInv, Frame, Epoch
<1>2. /\ Running /\ conn[e].state = "open" /\ ended' = EndEpoch(e, "eof")
      /\ UNCHANGED <<mode, opened, full, turns, case, turned, proof>>
  BY DEF Eof
<1>3. /\ conn[e].valid \in BOOLEAN /\ InfShape(inf) /\ complete \in BOOLEAN
      /\ odd \in 0 .. Oddities
  BY <1>1 DEF AttachmentInv, Frame, InfInv
<1>4. CASE conn[e].eof \cup {leg} = Leg
  <2>1. PICK cut \in {FALSE, conn[e].valid} : CloseRows(e, cut) /\ Irregular(cut)
    BY <1>4 DEF Eof
  <2>2. cut \in BOOLEAN
    BY <1>3
  <2>3. odd' \in 0 .. Oddities
    BY <1>3, <2>1, IrregularTyped
  <2>4. Lost(inf') /\ complete' \in BOOLEAN /\ (complete' => complete)
    BY <1>1, <1>3, <2>1, <2>2, CloseLost
  <2>5. conn' = [conn EXCEPT ![e] = Closed("closed")]
    BY <1>4 DEF Eof
  <2> QED
    BY <1>2, <2>3, <2>4, <2>5, ClosedTyped, EndKeeps
<1>5. CASE conn[e].eof \cup {leg} # Leg
  <2> DEFINE c == [conn[e] EXCEPT !.eof = @ \cup {leg}]
  <2>1. inf' = Invalidate(inf) /\ complete' = (complete /\ ~full)
        /\ Irregular(case.phase \notin {"disconnect", "quit", "closing"})
    BY <1>5 DEF Eof
  <2>5. conn' = [conn EXCEPT ![e] = c]
    BY <1>1, <1>5 DEF Eof, AttachmentInv, Frame
  <2>2. odd' \in 0 .. Oddities
    BY <1>3, <2>1, IrregularTyped
  <2>3. Lost(inf') /\ complete' \in BOOLEAN /\ (complete' => complete)
    BY <1>3, <2>1, InvalidateShape DEF Lost
  <2>4. c \in [state : {"unused", "refused", "open", "closed"},
                           valid : BOOLEAN, up : SUBSET Leg, eof : SUBSET Leg,
                           pending : [Id -> Known \cup Unknown \cup {NoMethod}]]
        /\ c.state = "open" /\ c.valid = conn[e].valid
    BY <1>1, <1>2 DEF AttachmentInv, Frame
  <2> HIDE DEF c
  <2> QED
    BY <1>2, <2>1, <2>2, <2>3, <2>4, <2>5, EndKeeps
<1> QED
  BY <1>4, <1>5

\* A connection reset by its peer.
LEMMA DisconnectedKeeps ==
    ASSUME AttachmentInv, NEW e \in 1 .. opened, Disconnected(e)
    PROVE  AttachmentInv'
<1>1. e \in Epoch
  BY AttachmentAssumption DEF AttachmentInv, Frame, Epoch
<1>2. /\ Running /\ conn[e].state = "open" /\ ended' = EndEpoch(e, "disconnect")
      /\ UNCHANGED <<mode, opened, full, turns, case, turned, proof>>
      /\ conn' = [conn EXCEPT ![e] = Closed("closed")] /\ Odd
  BY DEF Disconnected
<1>3. /\ conn[e].valid \in BOOLEAN /\ InfShape(inf) /\ complete \in BOOLEAN
      /\ odd \in 0 .. Oddities
  BY <1>1 DEF AttachmentInv, Frame, InfInv
<1>4. PICK cut \in {FALSE, conn[e].valid} : CloseRows(e, cut)
  BY DEF Disconnected
<1>5. Lost(inf') /\ complete' \in BOOLEAN /\ (complete' => complete)
  BY <1>1, <1>3, <1>4, CloseLost
<1> QED
  BY <1>2, <1>3, <1>5, OddTyped, ClosedTyped, EndKeeps

\* A turn nobody reads leaves on a connection whose gap is already marked.
LEMMA UnobservedKeeps ==
    ASSUME AttachmentInv, NEW e \in 1 .. opened, Unobserved(e)
    PROVE  AttachmentInv'
<1>1. e \in Epoch
  BY AttachmentAssumption DEF AttachmentInv, Frame, Epoch
<1>2. /\ Running /\ conn[e].state = "open" /\ ~conn[e].valid /\ turned' = TRUE
      /\ UNCHANGED <<mode, conn, opened, inf, complete, full, turns, ended, case, odd, proof>>
  BY DEF Unobserved, bridgeVars
<1>3. InfInv'
  BY <1>2 DEF AttachmentInv, InfInv, Tracked, Unbroken, Mute, Idle, Overtaken, ResumeTracked
<1>4. Frame' /\ TurnsMarked'
  BY <1>1, <1>2 DEF AttachmentInv, Frame, TurnsMarked
<1> QED
  BY <1>3, <1>4 DEF AttachmentInv

\* A full trace makes the inferer blind, never credulous.
LEMMA TraceFullKeeps ==
    ASSUME AttachmentInv, TraceFull
    PROVE  AttachmentInv'
<1>1. /\ full' = TRUE /\ Odd
      /\ UNCHANGED <<mode, conn, opened, inf, complete, turns, ended, case, turned, proof>>
  BY DEF TraceFull
<1>2. Tracked' /\ Idle' /\ Overtaken' /\ ResumeTracked'
  BY <1>1 DEF AttachmentInv, InfInv, Tracked, Unbroken, Mute, Idle, Overtaken, ResumeTracked
<1>3. InfInv'
  BY <1>1, <1>2 DEF AttachmentInv, InfInv
<1>4. Frame' /\ TurnsMarked'
  BY <1>1, OddTyped DEF AttachmentInv, Frame, TurnsMarked
<1> QED
  BY <1>3, <1>4 DEF AttachmentInv

\* A new connection starts an epoch, or loses the one there was.
LEMMA ConnectKeeps ==
    ASSUME AttachmentInv, Connect
    PROVE  AttachmentInv'
<1>1. /\ Running /\ opened < Epochs /\ opened' = opened + 1
      /\ UNCHANGED <<mode, full, turns, ended, case, turned>>
  BY DEF Connect
<1>2. /\ opened' \in Epoch /\ opened' \in 0 .. Epochs /\ opened' > opened
      /\ conn[opened'] = Closed("unused") /\ InfShape(inf) /\ inf.epoch \in 0 .. opened
  BY <1>1, AttachmentAssumption DEF AttachmentInv, Frame, Epoch, InfInv, Overtaken, InfShape
<1>3. ProofShape(NoProof)
  BY DEF ProofShape, NoProof
<1>4. CASE /\ conn' = [conn EXCEPT ![opened'].state = "refused"]
           /\ inf' = Invalidate(inf) /\ Odd /\ UNCHANGED <<complete, proof>>
  <2>1. /\ conn'[opened'].state = "refused"
        /\ \A e \in Epoch : e # opened' => conn'[e] = conn[e]
    BY <1>2, <1>4 DEF AttachmentInv, Frame
  <2>2. NoneAppears
    BY <1>1, <1>2, <2>1 DEF NoneAppears, AttachmentInv, Frame, InfInv, Overtaken, Epoch
  <2>3. Lost(inf')
    BY <1>2, <1>4, InvalidateShape DEF Lost
  <2>4. InfInv'
    BY <1>1, <2>2, <2>3, LostKeeps DEF AttachmentInv, Frame
  <2>5. Frame'
    <3>1. PICK n \in Epoch : n = opened'
      BY <1>2
    <3>2. conn' = [conn EXCEPT ![n].state = "refused"]
      BY <1>4, <3>1
    <3>3. conn' \in [Epoch -> [state : {"unused", "refused", "open", "closed"},
                           valid : BOOLEAN, up : SUBSET Leg, eof : SUBSET Leg,
                           pending : [Id -> Known \cup Unknown \cup {NoMethod}]]]
      BY <3>2, ZenonT(60) DEF AttachmentInv, Frame
    <3> QED
      BY <1>1, <1>2, <1>4, <3>3, OddTyped DEF AttachmentInv, Frame
  <2>6. TurnsMarked'
    BY <1>1, <1>4, <2>1 DEF AttachmentInv, TurnsMarked
  <2> QED
    BY <2>4, <2>5, <2>6 DEF AttachmentInv
<1>5. CASE /\ conn' = [conn EXCEPT ![opened'].state = "open", ![opened'].valid = TRUE]
           /\ inf' = IF full THEN Invalidate(inf)
                    ELSE IF mode = "resume" THEN ResumeStartEpoch(inf, opened')
                    ELSE StartEpoch(inf, opened')
           /\ complete' = (complete /\ ~full) /\ proof' = NoProof
           /\ Irregular(\E e \in Epoch : conn[e].state = "open")
  <2>1. /\ conn'[opened'].state = "open" /\ conn'[opened'].valid /\ conn'[opened'].eof = {}
        /\ \A e \in Epoch : e # opened' => conn'[e] = conn[e]
    BY <1>2, <1>5 DEF AttachmentInv, Frame, Closed
  <2>2. \A e \in Epoch : e > opened' => conn'[e] = Closed("unused")
    BY <1>1, <1>2, <2>1 DEF AttachmentInv, Frame, InfInv, Overtaken, Epoch
  <2>3. complete' \in BOOLEAN /\ (complete' => complete) /\ odd' \in 0 .. Oddities
    BY <1>5, IrregularTyped DEF AttachmentInv, Frame
  <2>4. ASSUME inf' = Invalidate(inf), full \/ mode = "resume"
        PROVE  InfInv'
    <3>1. /\ InfShape(inf') /\ inf'.bad = "yes" /\ inf'.epoch = inf.epoch
          /\ inf'.cand = NoThread /\ inf'.sync = inf.sync
      BY <1>2, <2>4, InvalidateShape
    <3>2. Tracked' /\ Idle'
      BY <3>1 DEF AttachmentInv, InfInv, Tracked, Idle
    <3>3. Overtaken'
      BY <1>1, <1>2, <2>2, <2>4, <3>1 DEF Overtaken, AttachmentInv, Frame
    <3>4. Barrier(inf', proof', inf'.epoch = opened') /\ ResumeTracked'
      BY <3>1 DEF Barrier, ResumeTracked, Resuming
    <3> QED
      BY <3>1, <3>2, <3>3, <3>4 DEF InfInv
  <2>5. ASSUME inf' = StartEpoch(inf, opened')
        PROVE  InfInv'
    <3>1. /\ InfShape(inf') /\ inf'.bad = "no" /\ inf'.epoch = opened' /\ inf'.cleared = FALSE
          /\ inf'.thread = NoThread /\ inf'.cand = NoThread /\ inf'.skills = {}
          /\ inf'.barrier = FALSE
      BY <1>2, <2>5, FreshShape
    <3>2. Unbroken(inf.epoch)'
      BY <2>1, <2>2, <3>1, ClosedTyped DEF Unbroken
    <3>3. Tracked' /\ Idle'
      BY <1>2, <3>1, <3>2 DEF Tracked, Idle, Epoch
    <3>4. Overtaken'
      BY <1>2, <2>2, <3>1, <3>2 DEF Overtaken, Unbroken, Epoch
    <3>5. Barrier(inf', proof', inf'.epoch = opened')
      BY <3>1 DEF Barrier
    <3>6. ResumeTracked'
      BY <1>5, <3>1 DEF ResumeTracked, Resuming, NoProof
    <3> QED
      BY <3>1, <3>3, <3>4, <3>5, <3>6 DEF InfInv
  <2>6. InfInv'
    <3>1. \/ inf' = Invalidate(inf) /\ (full \/ mode = "resume")
          \/ inf' = StartEpoch(inf, opened')
      BY <1>5 DEF ResumeStartEpoch
    <3> QED
      BY <2>4, <2>5, <3>1
  <2>7. Frame'
    <3>1. conn' \in [Epoch -> [state : {"unused", "refused", "open", "closed"},
                           valid : BOOLEAN, up : SUBSET Leg, eof : SUBSET Leg,
                           pending : [Id -> Known \cup Unknown \cup {NoMethod}]]]
      <4>1. PICK n \in Epoch : n = opened'
        BY <1>2
      <4>2. conn' = [conn EXCEPT ![n].state = "open", ![n].valid = TRUE]
        BY <1>5, <4>1
      <4> DEFINE R == [state : {"unused", "refused", "open", "closed"},
                           valid : BOOLEAN, up : SUBSET Leg, eof : SUBSET Leg,
                           pending : [Id -> Known \cup Unknown \cup {NoMethod}]]
                 c == [conn[n] EXCEPT !.state = "open", !.valid = TRUE]
      <4>3. conn \in [Epoch -> R] /\ conn[n] \in R
        BY DEF AttachmentInv, Frame
      <4>4. conn' = [conn EXCEPT ![n] = c]
        BY <4>2, <4>3
      <4>5. c \in R
        BY <4>3
      <4> HIDE DEF c, R
      <4>6. conn' \in [Epoch -> R]
        BY <4>1, <4>3, <4>4, <4>5
      <4> QED
        BY <4>6 DEF R
    <3> QED
      BY <1>1, <1>2, <1>3, <1>5, <2>3, <3>1 DEF AttachmentInv, Frame
  <2>8. TurnsMarked'
    BY <1>1, <2>1, <2>3 DEF AttachmentInv, TurnsMarked, Running
  <2> QED
    BY <2>6, <2>7, <2>8 DEF AttachmentInv
<1> QED
  BY <1>4, <1>5 DEF Connect

\* A step of run_case that leaves the inferer alone.
LEMMA CaseOnly ==
    ASSUME AttachmentInv, NEW c, CaseStep(c), UNCHANGED <<inf, proof>>,
           odd' \in 0 .. Oddities, CaseShape(c),
           c.status = "observed" => c.phase = "done" /\ complete /\ ~turns
    PROVE  AttachmentInv'
<1>1. case' = c /\ UNCHANGED <<mode, conn, opened, inf, proof, complete, full, turns, ended, turned>>
  BY DEF CaseStep, bridgeVars
<1>2. InfInv'
  BY <1>1 DEF AttachmentInv, InfInv, Tracked, Unbroken, Mute, Idle, Overtaken, ResumeTracked
<1>3. Frame' /\ TurnsMarked'
  BY <1>1 DEF AttachmentInv, Frame, TurnsMarked
<1> QED
  BY <1>2, <1>3 DEF AttachmentInv

\* clear() starts the barrier from nothing, also when the connection is broken.
LEMMA ClearKeeps ==
    ASSUME AttachmentInv, StatusAndClear
    PROVE  AttachmentInv'
<1>1. PICK match \in StatusMatches :
         Irregular(~match) /\ CaseStep([case EXCEPT !.ok = @ /\ match, !.phase = "clear"])
  BY DEF StatusAndClear
<1>2. /\ case' = [case EXCEPT !.ok = @ /\ match, !.phase = "clear"]
      /\ UNCHANGED <<mode, conn, opened, complete, full, turns, ended, turned>>
      /\ inf' = Clear(inf) /\ case.phase = "status"
      /\ proof' = [proof EXCEPT !.answered = {}, !.started = {}, !.unsubs = 0]
  BY <1>1 DEF StatusAndClear, CaseStep, bridgeVars
<1>3. odd' \in 0 .. Oddities
  BY <1>1, IrregularTyped DEF AttachmentInv, Frame
<1>4. /\ ProofShape(proof') /\ proof'.resumed = proof.resumed /\ proof'.listed = proof.listed
      /\ proof'.wrong = proof.wrong
  BY <1>2 DEF AttachmentInv, Frame, ProofShape, NoProof
<1>5. DOMAIN case' = DOMAIN case /\ case'.phase = "clear" /\ case'.status = case.status
  BY <1>2 DEF AttachmentInv, Frame, CaseShape
<1>6. Frame'
  BY <1>2, <1>3, <1>4, <1>5 DEF AttachmentInv, Frame, CaseShape
<1>7. TurnsMarked'
  BY <1>2, <1>5 DEF AttachmentInv, TurnsMarked
<1>8. InfShape(inf) /\ mode \in {"start", "resume"}
  BY DEF AttachmentInv, InfInv, Frame
<1>9. CASE mode = "resume"
  <2>1. Lost(inf')
    BY <1>2, <1>8, <1>9, InvalidateShape DEF Clear, Lost
  <2>2. NoneAppears
    BY <1>2 DEF NoneAppears, AttachmentInv, InfInv, Overtaken
  <2>3. InfInv'
    BY <1>2, <2>1, <2>2, LostKeeps DEF AttachmentInv, Frame
  <2> QED
    BY <1>6, <1>7, <2>3 DEF AttachmentInv
<1>10. CASE mode = "start"
  <2>1. inf' = [inf EXCEPT !.cand = NoThread, !.bad = "clear", !.clearing = TRUE,
                   !.cleared = TRUE, !.unsubbed = FALSE, !.old = inf.thread,
                   !.new = NoThread, !.started = FALSE, !.unsub = {},
                   !.unsubDone = {}, !.fresh = "no", !.req = @ \cap {"initialize"},
                   !.res = @ \cap {"initialize"}, !.thread = NoThread]
    BY <1>2, <1>10 DEF Clear
  <2>2. /\ InfShape(inf') /\ inf'.epoch = inf.epoch /\ inf'.sync = inf.sync
        /\ inf'.cand = NoThread /\ inf'.bad = "clear" /\ inf'.clearing = TRUE
        /\ inf'.new = NoThread /\ inf'.thread = NoThread /\ inf'.started = FALSE
        /\ inf'.unsub = {} /\ inf'.unsubDone = {} /\ inf'.fresh = "no"
    BY <1>8, <2>1 DEF InfShape, Fresh, MaybeThread
  <2>3. Idle' /\ Overtaken'
    BY <1>2, <2>2 DEF Idle, Overtaken, AttachmentInv, InfInv
  <2>4. Barrier(inf', proof', inf'.epoch = opened')
    BY <2>2 DEF Barrier
  <2>5. Tracked'
    <3>1. CASE inf.epoch # 0 /\ ~Unbroken(inf.epoch)
      <4>1. inf.epoch \in Epoch
        BY <1>8, <3>1, AttachmentAssumption DEF InfShape, Epoch
      <4>2. /\ conn[inf.epoch].eof \subseteq Leg
            /\ \/ full \/ conn[inf.epoch].state # "open" \/ ~conn[inf.epoch].valid
               \/ conn[inf.epoch].eof # {}
        BY <1>10, <3>1, <4>1 DEF AttachmentInv, Frame, InfInv, Overtaken, Unbroken
      <4>3. Mute(inf.epoch, {})
        BY <4>2 DEF Mute, Leg
      <4>4. Mute(inf.epoch, inf.unsub)'
        BY <1>2, <2>2, <4>3 DEF Mute
      <4> QED
        BY <2>2, <4>4 DEF Tracked
    <3>2. CASE inf.epoch = 0 \/ Unbroken(inf.epoch)
      BY <1>2, <2>2, <3>2 DEF Tracked, Unbroken
    <3> QED
      BY <3>1, <3>2
  <2>6. InfInv'
    BY <1>2, <1>10, <2>2, <2>3, <2>4, <2>5 DEF InfInv, ResumeTracked
  <2> QED
    BY <1>6, <1>7, <2>6 DEF AttachmentInv
<1> QED
  BY <1>8, <1>9, <1>10

\* The verdict is "observed" only with a complete trace and no turn in it.
LEMMA RunCaseKeeps ==
    ASSUME AttachmentInv, RunCase
    PROVE  AttachmentInv'
<1>1. odd \in 0 .. Oddities /\ CaseShape(case)
      /\ (case.status = "observed" => case.phase = "done" /\ complete /\ ~turns)
  BY DEF AttachmentInv, Frame, TurnsMarked
<1>2. CASE ReadInitial
  BY <1>1, <1>2, IrregularTyped, CaseOnly DEF ReadInitial, CaseShape
<1>3. CASE StatusAndClear
  BY <1>3, ClearKeeps
<1>4. CASE ReadCleared
  BY <1>1, <1>4, IrregularTyped, CaseOnly DEF ReadCleared, CaseShape
<1>5. CASE Terminate
  BY <1>1, <1>5, IrregularTyped, CaseOnly DEF Terminate, CaseShape
<1>6. CASE AfterDisconnect
  BY <1>1, <1>6, CaseOnly DEF AfterDisconnect, CaseShape
<1>7. CASE Quit
  BY <1>1, <1>7, IrregularTyped, CaseOnly DEF Quit, CaseShape
<1>8. CASE Judge
  BY <1>1, <1>8, IrregularTyped, CaseOnly DEF Judge, CaseShape
<1> QED
  BY <1>2, <1>3, <1>4, <1>5, <1>6, <1>7, <1>8 DEF RunCase

------------------------------------------------------------------------------
(* The invariant and the theorems *)

\* No connection, no row and no turn at the start.
LEMMA InvInit ==
    ASSUME Init
    PROVE  AttachmentInv
<1>1. InfShape(Fresh) /\ InfShape(inf)
  BY AttachmentAssumption DEF Init, InfShape, Fresh, MaybeThread
<1>2. conn \in [Epoch -> [state : {"unused", "refused", "open", "closed"},
                           valid : BOOLEAN, up : SUBSET Leg, eof : SUBSET Leg,
                           pending : [Id -> Known \cup Unknown \cup {NoMethod}]]]
  BY ClosedTyped DEF Init
<1>3. Frame
  <2>1. ProofShape(proof) /\ CaseShape(case)
    BY DEF Init, ProofShape, NoProof, CaseShape
  <2>2. ended \in [Epoch -> {"no", "eof", "close", "disconnect", "gap"}]
    BY DEF Init
  <2>3. 0 \in 0 .. Epochs /\ 0 \in 0 .. Oddities
    BY AttachmentAssumption
  <2> QED
    BY <1>2, <2>1, <2>2, <2>3 DEF Init, Frame
<1>4. \A e \in Epoch : conn[e] = Closed("unused")
  BY DEF Init
<1>5. Tracked /\ Idle /\ Overtaken
  BY <1>4, AttachmentAssumption, ClosedTyped DEF Init, Fresh, Tracked, Idle, Overtaken
<1>6. Barrier(inf, proof, inf.epoch = opened) /\ ResumeTracked
  BY DEF Init, Fresh, NoProof, Barrier, ResumeTracked, Resuming
<1>7. TurnsMarked
  BY <1>4, ClosedTyped DEF Init, TurnsMarked
<1> QED
  BY <1>1, <1>3, <1>5, <1>6, <1>7 DEF AttachmentInv, InfInv

\* What happens on one connection keeps the invariant.
LEMMA WireKeeps ==
    ASSUME AttachmentInv, NEW e \in 1 .. opened, Running, Wire(e)
    PROVE  AttachmentInv'
<1>1. CASE \E leg \in Leg : Upgrade(e, leg) \/ Eof(e, leg)
  BY <1>1, UpgradeKeeps, EofKeeps
<1>2. CASE \E id \in Id, m \in Known \cup Unknown : \E t \in Names(m) : Request(e, id, m, t)
  BY <1>2, RequestKeeps
<1>3. CASE \E id \in Id : \/ Answer(e, id, FALSE, NoThread)
                          \/ \E t \in Thread \cup {NoThread} : Answer(e, id, TRUE, t)
  BY <1>3, AnswerKeeps
<1>4. CASE \E kind \in {"initialized", "note", "control", "other"} : Notify(e, kind, NoThread)
  BY <1>4, NotifyKeeps
<1>5. CASE \E t \in Thread : Notify(e, "started", t)
  BY <1>5, NotifyKeeps
<1>6. CASE Gap(e) \/ Unobserved(e) \/ Stray(e) \/ Disconnected(e)
  BY <1>6, GapKeeps, UnobservedKeeps, StrayKeeps, DisconnectedKeeps
<1> QED
  BY <1>1, <1>2, <1>3, <1>4, <1>5, <1>6 DEF Wire

\* Every step keeps the invariant.
LEMMA InvNext ==
    ASSUME AttachmentInv, [Next]_vars
    PROVE  AttachmentInv'
<1>1. CASE Connect
  BY <1>1, ConnectKeeps
<1>2. CASE TraceFull
  BY <1>2, TraceFullKeeps
<1>3. CASE RunCase
  BY <1>3, RunCaseKeeps
<1>4. CASE Running /\ \E e \in 1 .. opened : Wire(e)
  BY <1>4, WireKeeps
<1>5. CASE UNCHANGED vars
  BY <1>5 DEF vars, bridgeVars, AttachmentInv, Frame, InfInv, Tracked, Unbroken, Mute, Idle,
        Overtaken, ResumeTracked, TurnsMarked
<1> QED
  BY <1>1, <1>2, <1>3, <1>4, <1>5 DEF Next

\* The invariant holds in every reachable state.
LEMMA Invariant == Spec => []AttachmentInv
  BY InvInit, InvNext, PTL DEF Spec

\* Every variable keeps its type in every reachable state.
THEOREM TypeCorrect == Spec => []TypeOK
<1>1. AttachmentInv => TypeOK
  BY DEF AttachmentInv, Frame, InfInv, InfShape, CaseShape, MaybeThread, TypeOK
<1> QED
  BY <1>1, Invariant, PTL

\* A candidate is inferred on the latest observed connection only, while that is
\* open in both directions and read without a gap, also after a clear() that made
\* a broken inferer usable again.
THEOREM CandidateStandsUnbroken == Spec => []CandidateUnbroken
<1>1. AttachmentInv => CandidateUnbroken
  <2> SUFFICES ASSUME AttachmentInv, Candidate # NoThread
               PROVE  /\ conn[inf.epoch].state = "open" /\ conn[inf.epoch].valid
                      /\ conn[inf.epoch].eof = {}
                      /\ \A e \in Epoch : e > inf.epoch => conn[e].state \in {"unused", "refused"}
    BY DEF CandidateUnbroken
  <2>1. inf.bad = "no" /\ inf.cand # NoThread
    BY DEF Candidate
  <2>2. Unbroken(inf.epoch)
    BY <2>1 DEF AttachmentInv, InfInv, Tracked, Idle
  <2> QED
    BY <2>2 DEF Unbroken
<1> QED
  BY <1>1, Invariant, PTL

\* After clear() a candidate has passed the barrier: its start was answered, two
\* unsubscriptions were answered and a thread announced, all since the clear.
THEOREM ClearedCandidatePassed == Spec => []ClearBarrier
<1>1. AttachmentInv => ClearBarrier
  BY DEF AttachmentInv, Frame, InfInv, Barrier, InfShape, ClearBarrier, Candidate
<1> QED
  BY <1>1, Invariant, PTL

\* A resumed candidate is the expected thread, resumed and followed by a listing
\* of its skills on the same connection, and nothing there failed.
THEOREM ResumedCandidateProved == Spec => []ResumeProved
<1>1. AttachmentInv => ResumeProved
  BY DEF AttachmentInv, InfInv, ResumeTracked, Resuming, ResumeProved, Candidate
<1> QED
  BY <1>1, Invariant, PTL

\* A case judged "observed" sent no turn on any connection, read or unread.
THEOREM ObservedCaseSentNoTurn == Spec => []ObservedMeansNoTurn
<1>1. AttachmentInv => ObservedMeansNoTurn
  BY DEF AttachmentInv, TurnsMarked, ObservedMeansNoTurn
<1> QED
  BY <1>1, Invariant, PTL
=============================================================================
