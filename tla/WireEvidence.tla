---------------------------- MODULE WireEvidence ----------------------------
(***************************************************************************)
(* What the native service reads on the wire.  MetadataSink                *)
(* (runtime/native/activation_service.py) feeds every forwarded chunk to   *)
(* one Observer (proxy_observer.py) and publishes the ready receipt of an  *)
(* owner's lease when the rows of its connection epoch prove that the      *)
(* frontend initialized, got its thread and has run no turn; a helper's    *)
(* bytes pass two NativeWebSocketGates (owner_helper.py) first, which      *)
(* share the ids of the requests under way with nobody but each other.     *)
(*                                                                         *)
(* A chunk holds some whole messages and may end inside another one; the   *)
(* callbacks run one at a time, so one chunk is one action.  What frames,  *)
(* headers and JSON can do wrong is one kind of message, "bad".  The       *)
(* observer keeps every row it ever emitted: its queue is drained by       *)
(* nobody in the service.                                                  *)
(***************************************************************************)
EXTENDS Naturals, Sequences, SequencesExt, FiniteSets, FiniteSetsExt

CONSTANTS
    Owner,      \* connections of owner frontends
    Resuming,   \* those whose grant names the thread to resume
    Id, NoId,   \* request ids, and none (a notification)
    Thread, NoThread,
    Expected,   \* the thread a resuming lease expects
    MaxEvents,  \* Observer.max_events
    Irregularities  \* irregular messages and failures that happen (bound)

ASSUME WireAssumption ==
    /\ Resuming \subseteq Owner /\ Expected \in Thread /\ NoThread \notin Thread
    /\ \E i, j \in Id : i # j
    /\ Thread # {Expected}
    /\ NoId \notin Id /\ MaxEvents \in Nat \ {0, 1} /\ Irregularities \in Nat

Leg    == {"client", "server"}
Method == {"initialize", "thread/start", "thread/resume", "skills/list", "turn/start", "other"}
NoMethod == "none"

VARIABLES
    ev,      \* per owner connection: observer connection and protocol record
    rows,    \* length of the observer's queue, as far as its limit tells it
    past,    \* history: what the frontend and the backend really did
    helper,  \* the helper's OwnerHelperConnection: open, the ids it waits for,
             \* and the ids on the wire that it does not
    gate,    \* the two gates of the helper's connection
    toGate, fromBackend, toHelper,  \* messages on the helper's way, and per id
    owed,    \* the requests of it that the backend has yet to answer
    odd      \* irregular events so far

helperVars == <<helper, gate, toGate, owed, fromBackend, toHelper>>
vars == <<ev, rows, past, helperVars, odd>>

NoConnection ==
    [state |-> "unused", valid |-> FALSE, over |-> FALSE, ok |-> FALSE, up |-> {},
     tail |-> {}, pending |-> [i \in Id |-> NoMethod], init |-> "no", inited |-> FALSE,
     asked |-> {}, thread |-> NoThread, announced |-> FALSE, resumed |-> FALSE,
     skills |-> {}, barrier |-> FALSE, turns |-> FALSE, published |-> FALSE]

NoPast == [home |-> FALSE, threads |-> {}, announced |-> {}, resumed |-> FALSE,
           listed |-> FALSE, turn |-> FALSE]

TypeOK ==
    /\ \A o \in Owner :
         /\ DOMAIN ev[o] = DOMAIN NoConnection
         /\ ev[o].state \in {"unused", "open", "closed"}
         /\ ev[o].pending \in [Id -> Method \cup {NoMethod}]
         /\ ev[o].init \in {"no", "asked", "home", "wrong"}
         /\ ev[o].thread \in Thread \cup {NoThread}
         /\ ev[o].asked \cup ev[o].skills \subseteq Id
    /\ rows \in 0 .. MaxEvents - 1
    /\ helper.waiting \subseteq Id /\ gate.pending \subseteq Id
    /\ gate.state \in {"none", "open", "closed"}
    /\ odd \in 0 .. Irregularities

Init ==
    /\ ev = [o \in Owner |-> NoConnection]
    /\ rows = 0
    /\ past = [o \in Owner |-> NoPast]
    /\ helper = [open |-> FALSE, waiting |-> {}, stray |-> {}]
    /\ gate = [state |-> "none", pending |-> {}]
    /\ toGate = <<>> /\ fromBackend = <<>> /\ toHelper = <<>>
    /\ owed = [i \in Id |-> 0]
    /\ odd = 0

Odd == odd < Irregularities /\ odd' = odd + 1
Irregular(what) == IF what THEN Odd ELSE UNCHANGED odd

------------------------------------------------------------------------------
(* Observer *)

\* What a message says: "thread" is the thread it names, and for the answer of
\* initialize and the request of thread/start NoThread is the lease's own home
\* or directory, anything else a wrong one.
Message(leg, kind, m, id, ok, t) ==
    [leg |-> leg, kind |-> kind, method |-> m, id |-> id, ok |-> ok, thread |-> t]

\* _safe_request_params: a request is what its method and few parameters say.
Asks(m, id, t) == Message("client", "request", m, id, FALSE, t)

\* _thread_metadata, _valid_error: an answer is its id, success and thread.
Answers(m, id, ok, t) == Message("server", "answer", m, id, ok, t)

\* _invalidate of a connection: it is read no further.
Forget(c) == [c EXCEPT !.valid = FALSE, !.tail = {}, !.pending = [i \in Id |-> NoMethod]]

\* The protocol record stops being one a ready receipt may rest on.
Refute(c) == [c EXCEPT !.ok = FALSE]

\* _process_request and the client rows of _protocol_event.
RequestRow(c, resuming, x) ==
    CASE x.method = "initialize" ->
           [c EXCEPT !.ok = @ /\ c.init = "no", !.init = IF @ = "no" THEN "asked" ELSE @]
      [] x.method = "thread/start" ->
           [c EXCEPT !.ok = @ /\ ~resuming /\ c.inited /\ c.thread = NoThread
                               /\ x.thread = NoThread,
                     !.asked = {x.id}]
      [] x.method = "thread/resume" ->
           [c EXCEPT !.ok = @ /\ resuming /\ c.inited /\ c.asked = {} /\ x.thread = Expected,
                     !.asked = {x.id}]
      [] x.method = "skills/list" /\ c.resumed -> [c EXCEPT !.skills = @ \cup {x.id}]
      [] x.method = "turn/start" -> [c EXCEPT !.turns = TRUE]
      [] OTHER -> c

\* The response rows of _protocol_event.
ResponseRow(c, resuming, m, x) ==
    CASE m = "thread/start" /\ x.ok ->
           IF x.id \in c.asked /\ x.thread # NoThread /\ c.thread = NoThread
             THEN [c EXCEPT !.thread = x.thread] ELSE Refute(c)
      [] m = "thread/resume" ->
           IF x.ok /\ x.id \in c.asked /\ ~c.resumed /\ resuming /\ x.thread = Expected
             THEN [c EXCEPT !.thread = x.thread, !.resumed = TRUE] ELSE Refute(c)
      [] m = "skills/list" /\ x.id \in c.skills ->
           IF x.ok THEN [c EXCEPT !.skills = @ \ {x.id}, !.barrier = TRUE]
           ELSE Refute([c EXCEPT !.skills = @ \ {x.id}])
      [] OTHER -> c

\* The rows of messages without an id.
NoticeRow(c, x) ==
    CASE x.kind = "initialized" ->
           [c EXCEPT !.ok = @ /\ ~c.inited /\ c.init = "home", !.inited = TRUE]
      [] x.kind = "started" ->
           IF c.thread # NoThread /\ c.thread = x.thread /\ ~c.announced
             THEN [c EXCEPT !.announced = TRUE] ELSE Refute(c)
      [] OTHER -> c

\* _ActivationObserver: the initialize answer names the lease's own home.
HomeRow(c, x) ==
    [c EXCEPT !.init = IF x.thread = NoThread THEN "home" ELSE "wrong",
              !.ok = @ /\ x.thread = NoThread]

\* _emit: s is a connection and the queue's length, c the connection once the
\* row is heard; a full queue costs the connection that meets it its validity,
\* and the row with every later one is lost.
Emit(s, c) ==
    IF s.c.over THEN s
    ELSE IF s.n >= MaxEvents - 1 THEN [s EXCEPT !.c = Refute([Forget(@) EXCEPT !.over = TRUE])]
    ELSE [c |-> c, n |-> s.n + 1]

\* _gap: reported once, because the connection is invalid from then on.
GapRow(s) == Emit([s EXCEPT !.c = Forget(s.c)], Refute(Forget(s.c)))

\* A whole message: _parse_frames, _process_text, _process_rpc.
Parse(s, resuming, x) ==
    LET c == s.c
        m == c.pending[x.id]
        taken == [c EXCEPT !.pending[x.id] = x.method]
        freed == [c EXCEPT !.pending[x.id] = NoMethod]
    IN
    IF ~c.valid THEN s ELSE
    CASE x.kind = "bad" -> GapRow(s)
      [] x.kind = "upgrade" -> Emit(s, [c EXCEPT !.up = @ \cup {x.leg}])
      [] x.kind = "request" ->
           IF m # NoMethod THEN GapRow(s)
           ELSE Emit([s EXCEPT !.c = taken], RequestRow(taken, resuming, x))
      [] x.kind = "answer" ->
           IF m = NoMethod THEN Emit(s, Refute(c))
           ELSE LET e == Emit([s EXCEPT !.c = freed], ResponseRow(freed, resuming, m, x)) IN
                IF m = "initialize" /\ x.ok /\ e.c.valid
                  THEN Emit(e, HomeRow(e.c, x)) ELSE e
      [] OTHER -> Emit(s, NoticeRow(c, x))

\* Mutant: the counted turns are not looked at.
ReadyDespiteTurns(c) ==
    /\ c.ok /\ c.state = "open" /\ ~c.published /\ c.up = Leg /\ c.inited
    /\ c.init = "home" /\ c.thread # NoThread /\ (c.announced \/ c.barrier)

\* _ready, and complete_boundary.
Ready(c) ==
    /\ c.ok /\ c.state = "open" /\ ~c.published /\ c.up = Leg /\ c.inited
    /\ c.init = "home" /\ c.thread # NoThread /\ (c.announced \/ c.barrier) /\ ~c.turns
Boundary(c) == c.valid /\ c.state = "open" /\ c.up = Leg /\ c.tail = {}

------------------------------------------------------------------------------
(* MetadataSink *)

\* on_connect.
Connect(o) ==
    /\ ev[o].state = "unused"
    /\ LET c == [NoConnection EXCEPT !.state = "open", !.valid = TRUE, !.ok = TRUE]
           e == Emit([c |-> c, n |-> rows], c)
       IN  ev' = [ev EXCEPT ![o] = e.c] /\ rows' = e.n
    /\ UNCHANGED <<past, helperVars, odd>>

\* on_data: the whole chunk is parsed before anything is published.
Data(o, leg, messages, cut) ==
    LET whole == FoldLeft(LAMBDA s, x : Parse(s, o \in Resuming, x),
                          [c |-> [ev[o] EXCEPT !.tail = @ \ {leg}], n |-> rows], messages)
        c == IF cut /\ whole.c.valid THEN [whole.c EXCEPT !.tail = @ \cup {leg}] ELSE whole.c
    IN  /\ ev[o].state = "open"
        /\ ev' = [ev EXCEPT ![o] = [c EXCEPT !.published = @ \/ (Ready(c) /\ Boundary(c))]]
        /\ rows' = whole.n

\* on_lifecycle, Observer.close: the first end of either stream closes both.
Ends(o) ==
    /\ ev[o].state = "open"
    /\ LET c == ev[o]
           s == [c |-> c, n |-> rows]
           g == IF c.valid /\ (c.tail # {} \/ c.up \notin {{}, Leg}) THEN GapRow(s) ELSE s
           closed == [g EXCEPT !.c.state = "closed", !.c.valid = FALSE]
           e == Emit(closed, closed.c)
       IN  ev' = [ev EXCEPT ![o] = e.c] /\ rows' = e.n
    /\ UNCHANGED <<past, helperVars, odd>>

\* Rows of no connection or of one without a lease.
Observed(n) == rows' = IF rows + n < MaxEvents THEN rows + n ELSE MaxEvents - 1

\* feed of what the other stream still brings: a gap row of no connection.
LateData(o) ==
    /\ ev[o].state = "closed" /\ Observed(1)
    /\ UNCHANGED <<ev, past, helperVars, odd>>

\* on_gap.
CaptureGap(o) ==
    /\ ev[o].state = "open" /\ Odd
    /\ ev' = [ev EXCEPT ![o] = Refute(@)]
    /\ UNCHANGED <<rows, past, helperVars>>

------------------------------------------------------------------------------
(* What the two ends of an owner's connection send *)

\* The next message of an orderly session, by what happened so far.
Orderly(o) ==
    LET c == ev[o]
        p == past[o]
        Ask(m, t) == {Asks(m, i, t) :
                        i \in {j \in Id : c.pending[j] = NoMethod}}
        Reply(t) == {Answers(c.pending[i], i, TRUE, t) :
                        i \in {j \in Id : c.pending[j] # NoMethod}}
        Say(leg, kind, t) == {Message(leg, kind, NoMethod, CHOOSE i \in Id : TRUE, FALSE, t)}
    IN  CASE "client" \notin c.up -> Say("client", "upgrade", NoThread)
          [] "server" \notin c.up -> Say("server", "upgrade", NoThread)
          [] \E i \in Id : c.pending[i] \in {"thread/start", "thread/resume"} ->
               Reply(IF o \in Resuming THEN Expected ELSE CHOOSE t \in Thread : t # Expected)
          [] \E i \in Id : c.pending[i] # NoMethod -> Reply(NoThread)
          [] c.init = "no" -> Ask("initialize", NoThread)
          [] ~c.inited -> Say("client", "initialized", NoThread)
          [] c.thread = NoThread ->
               IF o \in Resuming THEN Ask("thread/resume", Expected)
               ELSE Ask("thread/start", NoThread)
          [] o \in Resuming -> Ask("skills/list", NoThread)
          [] ~c.announced -> Say("server", "started", c.thread)
          [] OTHER -> Ask("other", NoThread) \cup Ask("turn/start", NoThread)

\* Anything else a peer may send.
Surprise ==
    {Message(leg, "bad", NoMethod, i, FALSE, NoThread) : leg \in Leg, i \in Id}
    \cup {Asks(m, i, t) :
            m \in Method, i \in Id, t \in {NoThread, Expected}}
    \cup {Answers(NoMethod, i, ok, t) :
            i \in Id, ok \in BOOLEAN, t \in Thread \cup {NoThread}}
    \cup {Message("server", "started", NoMethod, i, FALSE, t) : i \in Id, t \in Thread}
    \cup {Message("client", "initialized", NoMethod, i, FALSE, NoThread) : i \in Id}

\* What a message really did, whatever the observer made of it.
Happened(o, p, x) ==
    LET m == ev[o].pending[x.id]
        answers == x.kind = "answer" /\ x.ok
    IN  [p EXCEPT !.turn = @ \/ (x.kind = "request" /\ x.method = "turn/start"),
                  !.home = @ \/ (answers /\ m = "initialize" /\ x.thread = NoThread),
                  !.threads = IF answers /\ m = "thread/start" THEN @ \cup {x.thread} ELSE @,
                  !.resumed = @ \/ (answers /\ m = "thread/resume" /\ x.thread = Expected),
                  !.listed = @ \/ (answers /\ m = "skills/list" /\ p.resumed),
                  !.announced = IF x.kind = "started" THEN @ \cup {x.thread} ELSE @]

\* A chunk of one message, of one message and the start of the next, or of two
\* client messages of which the second starts a turn.
Chunk(o) ==
    \E x \in Orderly(o) \cup (IF odd < Irregularities THEN Surprise ELSE {}) :
      /\ ev[o].state = "open"
      /\ Irregular(x \notin Orderly(o))
      /\ \E cut, turn \in BOOLEAN :
           LET y == Asks("turn/start", CHOOSE i \in Id : i # x.id, NoThread)
               ms == IF turn THEN <<x, y>> ELSE <<x>>
           IN  /\ turn => x.leg = "client" /\ ~cut
               /\ Data(o, x.leg, ms, cut)
               /\ past' = [past EXCEPT ![o] =
                             IF turn THEN [Happened(o, @, x) EXCEPT !.turn = TRUE]
                             ELSE Happened(o, @, x)]
      /\ UNCHANGED helperVars

------------------------------------------------------------------------------
(* The helper's connection *)

\* The relay starts: the row of the connection and those of the two upgrades.
HelperConnect ==
    /\ gate.state = "none"
    /\ gate' = [gate EXCEPT !.state = "open"]
    /\ helper' = [helper EXCEPT !.open = TRUE]
    /\ Observed(3)
    /\ UNCHANGED <<ev, past, toGate, owed, fromBackend, toHelper, odd>>

\* A message is its id and whether the contract accepts it: one JSON object
\* without duplicate keys, of an allowed method, and for a turn the delivery
\* envelope of the helper's own lease.
HelperMessage(id, good) == [id |-> id, good |-> good]

\* NativeWebSocketGate._frame: the whole messages a chunk completes.
Complete(queue, n) == SubSeq(queue, 1, n)

\* send_rpc: an id under way is refused; if the write fails the id is forgotten,
\* although the frame may have been sent.
SendRpc(id) ==
    /\ helper.open /\ id \notin helper.waiting /\ Len(toGate) < 2
    /\ toGate' = Append(toGate, HelperMessage(id, TRUE))
    /\ \/ helper' = [helper EXCEPT !.waiting = @ \cup ({id} \ {NoId})] /\ UNCHANGED odd
       \/ helper' = [helper EXCEPT !.stray = @ \cup {id}] /\ Odd
    /\ UNCHANGED <<ev, rows, past, gate, owed, fromBackend, toHelper>>

\* A frame send_rpc would not have written.
RogueSend(id) ==
    /\ helper.open /\ Len(toGate) < 2 /\ Odd
    /\ \E good \in BOOLEAN : toGate' = Append(toGate, HelperMessage(id, good))
    /\ helper' = [helper EXCEPT !.stray = @ \cup {id}]
    /\ UNCHANGED <<ev, rows, past, gate, owed, fromBackend, toHelper>>

\* _complete_message: a message passes if it is valid and its id is (not) under way.
Accepts(message, pending, server) ==
    message.good /\ (message.id = NoId \/ (message.id \in pending) = server)

\* Mutant: the messages of one chunk are judged by the ids before it.
PassesAtOnce(queue, n, pending, server) ==
    \A i \in 1 .. n : Accepts(queue[i], pending, server)

\* _feed: the first n messages of a queue pass together, or none does.
Passes(queue, n, pending, server) ==
    \A i \in 1 .. n :
        LET before == {queue[j].id : j \in 1 .. i - 1}
        IN  Accepts(queue[i], IF server THEN pending \ before ELSE pending \cup before, server)

Ids(queue, n) == {x.id : x \in Range(Complete(queue, n))} \ {NoId}

\* feed: a rejected chunk ends the pump, and with it the connection.
GateCloses ==
    /\ gate' = [gate EXCEPT !.state = "closed"]
    /\ toGate' = <<>> /\ fromBackend' = <<>> /\ owed' = [i \in Id |-> 0]
    /\ Observed(1)
    /\ UNCHANGED toHelper

\* NativeWebSocketGate on the way to the backend: _pump forwards what passes.
ClientGate(n) ==
    /\ gate.state = "open" /\ n \in 1 .. Len(toGate)
    /\ IF Passes(toGate, n, gate.pending, FALSE)
         THEN /\ gate' = [gate EXCEPT !.pending = @ \cup Ids(toGate, n)]
              /\ owed' = [i \in Id |-> IF i \in Ids(toGate, n) THEN owed[i] + 1 ELSE owed[i]]
              /\ toGate' = SubSeq(toGate, n + 1, Len(toGate))
              /\ Observed(n)
              /\ UNCHANGED <<fromBackend, toHelper>>
         ELSE GateCloses
    /\ UNCHANGED <<ev, past, helper, odd>>

\* NativeWebSocketGate on the way to the helper: answers to requests under way.
ServerGate(n) ==
    /\ gate.state = "open" /\ n \in 1 .. Len(fromBackend) /\ Len(toHelper) < 2
    /\ IF Passes(fromBackend, n, gate.pending, TRUE)
         THEN /\ gate' = [gate EXCEPT !.pending = @ \ Ids(fromBackend, n)]
              /\ toHelper' = toHelper \o Complete(fromBackend, n)
              /\ fromBackend' = SubSeq(fromBackend, n + 1, Len(fromBackend))
              /\ Observed(n)
              /\ UNCHANGED <<toGate, owed>>
         ELSE GateCloses
    /\ UNCHANGED <<ev, past, helper, odd>>

\* The backend answers a request it has, or sends something nobody asked for
\* (an answer given twice is one).
BackendAnswers(id) ==
    /\ gate.state = "open" /\ owed[id] > 0 /\ Len(fromBackend) < 2
    /\ fromBackend' = Append(fromBackend, HelperMessage(id, TRUE))
    /\ owed' = [owed EXCEPT ![id] = @ - 1]
    /\ UNCHANGED <<ev, rows, past, helper, gate, toGate, toHelper, odd>>

BackendStray(id) ==
    /\ gate.state = "open" /\ Len(fromBackend) < 2 /\ Odd
    /\ \E good \in BOOLEAN : fromBackend' = Append(fromBackend, HelperMessage(id, good))
    /\ UNCHANGED <<ev, rows, past, helper, gate, toGate, owed, toHelper>>

\* read_rpc: an answer nobody waits for ends the helper.
ReadRpc ==
    /\ helper.open /\ toHelper # <<>>
    /\ toHelper' = Tail(toHelper)
    /\ LET id == Head(toHelper).id
       IN  helper' = IF id \in helper.waiting \cup {NoId}
                       THEN [helper EXCEPT !.waiting = @ \ {id}]
                       ELSE [helper EXCEPT !.open = FALSE]
    /\ UNCHANGED <<ev, rows, past, gate, toGate, owed, fromBackend, odd>>

------------------------------------------------------------------------------
OwnerStep(o) == Connect(o) \/ Chunk(o) \/ Ends(o) \/ LateData(o) \/ CaptureGap(o)

HelperStep ==
    \/ HelperConnect \/ ReadRpc
    \/ \E id \in Id \cup {NoId} : SendRpc(id) \/ RogueSend(id) \/ BackendStray(id)
    \/ \E n \in 1 .. 2 : ClientGate(n) \/ ServerGate(n)
    \/ \E id \in Id : BackendAnswers(id)

Next == HelperStep \/ \E o \in Owner : OwnerStep(o)

Spec == Init /\ [][Next]_vars

------------------------------------------------------------------------------
(* Properties *)

\* A ready receipt (_ready, complete_boundary) is earned: when it is published
\* the backend has answered initialize with the lease's home and no turn has
\* left the frontend, not even later in the chunk that completes the proof.  A
\* starting lease was given its thread and heard it announced; a resuming one
\* was given the thread it expects, and then its skills or the announcement.
ReadyEarned ==
    [][\A o \in Owner : ev'[o].published /\ ~ev[o].published =>
         /\ past'[o].home /\ ~past'[o].turn
         /\ IF o \in Resuming
              THEN /\ ev'[o].thread = Expected /\ past'[o].resumed
                   /\ past'[o].listed \/ Expected \in past'[o].announced
              ELSE ev'[o].thread \in past'[o].threads \cap past'[o].announced]_vars

\* The helper is only given answers that are valid and that it waits for, each
\* once, whatever the backend sends (server gate); the exception are ids it put
\* on the wire without waiting for them, by a failed write of send_rpc or not
\* through send_rpc at all.
NoCrossTalk ==
    \A i \in 1 .. Len(toHelper) :
        /\ toHelper[i].good
        /\ toHelper[i].id \in helper.stray \cup {NoId} \/
             /\ toHelper[i].id \in helper.waiting
             /\ \A j \in 1 .. Len(toHelper) : i # j => toHelper[i].id # toHelper[j].id
=============================================================================
