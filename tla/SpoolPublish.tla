---------------------------- MODULE SpoolPublish ----------------------------
(***************************************************************************)
(* How the events of one source host reach the ledger.  A host process     *)
(* (host/source.go RunSource) connects to the coordinator, replays the     *)
(* events left in its spools, then lets its workers append events while a  *)
(* publisher goroutine sends them one at a time and waits for a durable    *)
(* acknowledgement.  A spool is a directory of event files with its own    *)
(* acknowledged position (events/events.go); the host keeps one more       *)
(* cursor over all of them.  The coordinator (server.go handleHost,        *)
(* commitHostEvent) commits an event when its number follows the last one. *)
(*                                                                         *)
(* A process may be killed between any two steps and another one started   *)
(* on the same files; either side may close the connection; the            *)
(* coordinator may restart.  Events of a connection that is gone may still *)
(* be in the hands of its handler.                                         *)
(*                                                                         *)
(* An event is known by its number and its segment.  The directory listing *)
(* of spoolEntries is one step, and so are the transactions of a hello and *)
(* the ready answer; failing file operations are left out.                 *)
(***************************************************************************)
EXTENDS Integers, Sequences, FiniteSetsExt

CONSTANTS
    Proc,      \* host processes that use the spool root
    Segment,   \* segments of the host, numbered in the order of the
               \* directory listing
    EventsOf,  \* EventsOf[s]: events of s, the last one being its exit
    NoProc     \* no process

ASSUME ConstantsAssumption ==
    /\ IsFiniteSet(Proc)
    /\ Segment \subseteq Nat /\ IsFiniteSet(Segment)
    /\ EventsOf \in [Segment -> Nat]
    /\ NoProc \notin Proc

VARIABLES
    \* files under the spool root
    dirs,        \* segments whose spool directory exists
    live,        \* live[s]: numbers of the event files of s
    arch,        \* arch[s]: numbers of the archived event files of s
    acked,       \* acked[s]: acked_through of ack.json
    published,   \* .producer-published
    \* memory of a host process
    phase,       \* phase[p]: where RunSource is
    cancelled,   \* cancelled[p]: runCtx is done
    sequence,    \* sequence[p]: h.sequence, or -1 before it is loaded
    appending,   \* appending[p]: the segment whose event file was just linked
    eventReady,  \* eventReady[p]: the channel holds its one token
    publisher,   \* publisher[p]: the publisher goroutine
    pub,         \* pub[p]: the PublishAll call that holds publishMu
    \* connections
    conn,        \* conn[p]: the socket of p
    wire,        \* wire[p]: events sent on it and not yet handled
    answer,      \* answer[p]: answers sent on it and not yet read
    stale,       \* unhandled events of connections that are gone
    \* coordinator
    handler,     \* handler[p]: where handleHost is for the connection of p
    current,     \* the process of the session in s.hosts
    bound,       \* the process whose pid runtime_hosts holds
    row,         \* runtime_hosts.status
    claimed,     \* segments claimed for this host
    granted,     \* granted[p]: segments whose workers run in process p
    committed    \* runtime_events of this host

files == <<dirs, live, arch, acked, published>>
memory == <<phase, cancelled, sequence, appending, eventReady, publisher, pub>>
socket == <<conn, wire, answer, stale>>
server == <<handler, current, bound, row, claimed>>
vars == <<files, memory, socket, server, granted, committed>>

Event == [q : Nat, s : Segment]
Stage == {"idle", "read", "send", "wait", "ack", "link", "remove", "write"}
Caller == {"nobody", "replay", "loop", "final"}
\* todo: spools still to read or to acknowledge; pending: events read; sent:
\* the event whose answer is awaited; last: confirmed up to here; orig: the
\* cursor at the beginning.
NoCall == [pc |-> "idle", by |-> "nobody", todo |-> {}, pending |-> {},
           sent |-> {}, last |-> 0, orig |-> 0]

TypeOK ==
    /\ dirs \subseteq Segment
    /\ live \in [Segment -> SUBSET (Nat \ {0})]
    /\ arch \in [Segment -> SUBSET (Nat \ {0})]
    /\ acked \in [Segment -> Nat]
    /\ published \in Nat
    /\ phase \in [Proc -> {"down", "replay", "serving", "flush", "exiting"}]
    /\ cancelled \in [Proc -> BOOLEAN]
    /\ sequence \in [Proc -> Nat \cup {-1}]
    /\ appending \in [Proc -> SUBSET Segment]
    /\ eventReady \in [Proc -> BOOLEAN]
    /\ publisher \in [Proc -> {"off", "on", "failed"}]
    /\ pub \in [Proc -> [pc : Stage, by : Caller, todo : SUBSET Segment,
                         pending : SUBSET Event, sent : SUBSET Event,
                         last : Nat, orig : Nat]]
    /\ conn \in [Proc -> {"none", "up", "cut"}]
    /\ wire \in [Proc -> SUBSET Event]
    /\ answer \in [Proc -> SUBSET [e : Event, durable : BOOLEAN]]
    /\ stale \subseteq Event
    /\ handler \in [Proc -> {"none", "replay", "serving", "lost"}]
    /\ current \in Proc \cup {NoProc}
    /\ bound \in Proc \cup {NoProc}
    /\ row \in {"offline", "reconciling", "ready"}
    /\ claimed \subseteq Segment
    /\ granted \in [Proc -> SUBSET Segment]
    /\ committed \in Seq(Segment)

Init ==
    /\ dirs = {}
    /\ live = [s \in Segment |-> {}]
    /\ arch = [s \in Segment |-> {}]
    /\ acked = [s \in Segment |-> 0]
    /\ published = 0
    /\ phase = [p \in Proc |-> "down"]
    /\ cancelled = [p \in Proc |-> FALSE]
    /\ sequence = [p \in Proc |-> -1]
    /\ appending = [p \in Proc |-> {}]
    /\ eventReady = [p \in Proc |-> FALSE]
    /\ publisher = [p \in Proc |-> "off"]
    /\ pub = [p \in Proc |-> NoCall]
    /\ conn = [p \in Proc |-> "none"]
    /\ wire = [p \in Proc |-> {}]
    /\ answer = [p \in Proc |-> {}]
    /\ stale = {}
    /\ handler = [p \in Proc |-> "none"]
    /\ current = NoProc
    /\ bound = NoProc
    /\ row = "offline"
    /\ claimed = {}
    /\ granted = [p \in Proc |-> {}]
    /\ committed = << >>

(***************************************************************************)
(* Workers append events                                                   *)
(***************************************************************************)
Files(s) == live[s] \cup arch[s]

\* spool: the first use of a segment's spool creates its directory.
OpenSpool(p, s) ==
    /\ s \in granted[p] \ dirs
    /\ dirs' = dirs \cup {s}
    /\ UNCHANGED <<live, arch, acked, published, memory, socket, server,
                   granted, committed>>

\* loadEventSequenceLocked: the largest number on disk, on the first use.
LoadedSequence(p) ==
    IF sequence[p] # -1 THEN sequence[p]
    ELSE Max({published} \cup UNION {Files(s) : s \in dirs})

\* appendStructuredEvent up to the Link in Append, which makes the event
\* visible to readers.  sequenceMu is held until FinishAppend.
LinkEvent(p, s) ==
    LET q == LoadedSequence(p) + 1 IN
    /\ s \in granted[p] \cap dirs
    /\ appending[p] = {}
    /\ Cardinality(Files(s)) < EventsOf[s]
    /\ q \notin Files(s)
    /\ live' = [live EXCEPT ![s] = @ \cup {q}]
    /\ sequence' = [sequence EXCEPT ![p] = q - 1]
    /\ appending' = [appending EXCEPT ![p] = {s}]
    /\ UNCHANGED <<dirs, arch, acked, published, phase, cancelled, eventReady,
                   publisher, pub, socket, server, granted, committed>>

NotifiesWaiting(p) ==
    /\ appending[p] # {}
    /\ sequence' = [sequence EXCEPT ![p] = @ + 1]
    /\ eventReady' = [eventReady EXCEPT ![p] = @ \/ pub[p].pc = "idle"]
    /\ appending' = [appending EXCEPT ![p] = {}]
    /\ UNCHANGED <<files, phase, cancelled, publisher, pub, socket, server,
                   granted, committed>>

\* The rest of appendStructuredEvent: the number becomes the host's, and
\* notifyEventReady leaves a token unless one is there.
FinishAppend(p) ==
    /\ appending[p] # {}
    /\ sequence' = [sequence EXCEPT ![p] = @ + 1]
    /\ eventReady' = [eventReady EXCEPT ![p] = TRUE]
    /\ appending' = [appending EXCEPT ![p] = {}]
    /\ UNCHANGED <<files, phase, cancelled, publisher, pub, socket, server,
                   granted, committed>>

(***************************************************************************)
(* The host process                                                        *)
(***************************************************************************)
\* A process is gone, killed or at the end of RunSource.  Events it wrote to
\* the socket may still be read by the handler.
Ends(p) ==
    /\ phase' = [phase EXCEPT ![p] = "down"]
    /\ cancelled' = [cancelled EXCEPT ![p] = FALSE]
    /\ sequence' = [sequence EXCEPT ![p] = -1]
    /\ appending' = [appending EXCEPT ![p] = {}]
    /\ eventReady' = [eventReady EXCEPT ![p] = FALSE]
    /\ publisher' = [publisher EXCEPT ![p] = "off"]
    /\ pub' = [pub EXCEPT ![p] = NoCall]
    /\ conn' = [conn EXCEPT ![p] = "none"]
    /\ wire' = [wire EXCEPT ![p] = {}]
    /\ answer' = [answer EXCEPT ![p] = {}]
    /\ stale' = stale \cup wire[p]
    /\ handler' = [handler EXCEPT ![p] = IF @ = "none" THEN @ ELSE "lost"]
    /\ granted' = [granted EXCEPT ![p] = {}]

Crash(p) ==
    /\ phase[p] # "down"
    /\ Ends(p)
    /\ UNCHANGED <<files, current, bound, row, claimed, committed>>

\* SIGTERM or SIGINT ends the context of RunSource.
Terminate(p) ==
    /\ phase[p] \in {"replay", "serving", "flush"}
    /\ ~ cancelled[p]
    /\ cancelled' = [cancelled EXCEPT ![p] = TRUE]
    /\ UNCHANGED <<files, phase, sequence, appending, eventReady, publisher,
                   pub, socket, server, granted, committed>>

\* RunSource's loop returns and its deferred function begins.
Flush(p) ==
    /\ phase[p] = "serving"
    /\ phase' = [phase EXCEPT ![p] = "flush"]
    /\ UNCHANGED <<files, cancelled, sequence, appending, eventReady,
                   publisher, pub, socket, server, granted, committed>>

\* A failed worker, a lost origin process or a message of another kind.
Leave(p) == Flush(p)

\* A read error, a failed publisher or the end of the context.
Notice(p) ==
    /\ conn[p] = "cut" \/ publisher[p] = "failed" \/ cancelled[p]
    /\ Flush(p)

\* The publisher goroutine's select takes the end of the context.
StopPublisher(p) ==
    /\ publisher[p] = "on" /\ cancelled[p]
    /\ pub[p].by # "loop"
    /\ publisher' = [publisher EXCEPT ![p] = "off"]
    /\ UNCHANGED <<files, phase, cancelled, sequence, appending, eventReady,
                   pub, socket, server, granted, committed>>

\* The deferred function has waited for the publisher; RunSource returns.
Exit(p) ==
    /\ phase[p] = "exiting"
    /\ publisher[p] # "on"
    /\ Ends(p)
    /\ UNCHANGED <<files, current, bound, row, claimed, committed>>

(***************************************************************************)
(* PublishAll                                                              *)
(***************************************************************************)
\* PublishAll returns to its caller: RunSource before it serves, the
\* publisher goroutine, or the deferred function.  left: the answers that
\* remain to be read.
Returns(p, ok, left) ==
    \/ /\ pub[p].by = "replay" /\ ~ (ok /\ conn[p] = "up")
       /\ Ends(p)
    \/ /\ pub[p].by = "replay" /\ ok /\ conn[p] = "up"
       /\ phase' = [phase EXCEPT ![p] = "serving"]
       /\ publisher' = [publisher EXCEPT ![p] = "on"]
       /\ pub' = [pub EXCEPT ![p] = NoCall]
       /\ UNCHANGED <<cancelled, sequence, appending, eventReady, socket,
                      handler, granted>>
    \/ /\ pub[p].by = "loop"
       /\ publisher' = [publisher EXCEPT ![p] = IF ok THEN @ ELSE "failed"]
       /\ pub' = [pub EXCEPT ![p] = NoCall]
       /\ answer' = [answer EXCEPT ![p] = left]
       /\ UNCHANGED <<phase, cancelled, sequence, appending, eventReady,
                      conn, wire, stale, handler, granted>>
    \/ /\ pub[p].by = "final"
       /\ phase' = [phase EXCEPT ![p] = "exiting"]
       /\ cancelled' = [cancelled EXCEPT ![p] = TRUE]
       /\ pub' = [pub EXCEPT ![p] = NoCall]
       /\ answer' = [answer EXCEPT ![p] = left]
       /\ UNCHANGED <<sequence, appending, eventReady, publisher,
                      conn, wire, stale, handler, granted>>

\* A step inside PublishAll that leaves everything but its own state alone.
Inside(p, call) ==
    /\ pub' = [pub EXCEPT ![p] = call]
    /\ UNCHANGED <<phase, cancelled, sequence, appending, eventReady,
                   publisher, handler, granted>>

Coordinator == <<current, bound, row, claimed, committed>>

\* Who may take publishMu: the replay, a publisher that took the token, and
\* the deferred function.
Calls(p, by) ==
    \/ by = "replay" /\ phase[p] = "replay"
    \/ by = "loop" /\ publisher[p] = "on" /\ eventReady[p]
    \/ by = "final" /\ phase[p] = "flush"

\* PublishAll lists the spools and reads the host's cursor.
BeginPublish(p, by) ==
    /\ pub[p].pc = "idle"
    /\ Calls(p, by)
    /\ pub' = [pub EXCEPT ![p] =
                 [NoCall EXCEPT !.pc = IF dirs = {} THEN "send" ELSE "read",
                                !.by = by, !.todo = dirs,
                                !.last = published, !.orig = published]]
    /\ eventReady' = [eventReady EXCEPT ![p] = IF by = "loop" THEN FALSE ELSE @]
    /\ UNCHANGED <<files, phase, cancelled, sequence, appending, publisher,
                   socket, handler, granted, Coordinator>>

ReadCountsAsConfirmed(p) ==
    LET c == pub[p]
        s == Min(c.todo) IN
    /\ c.pc = "read"
    /\ Inside(p, [c EXCEPT
            !.pc = IF c.todo = {s} THEN "send" ELSE "read",
            !.todo = @ \ {s},
            !.pending = @ \cup {[q |-> q, s |-> s] : q \in {x \in live[s] : x > acked[s]}},
            !.last = Max({@} \cup live[s])])
    /\ UNCHANGED <<files, socket, Coordinator>>

\* AckedThrough and ReadAfter of the next spool; acknowledged events advance
\* the cursor of this call.
ReadSpool(p) ==
    LET c == pub[p]
        s == Min(c.todo) IN
    /\ c.pc = "read"
    /\ Inside(p, [c EXCEPT
            !.pc = IF c.todo = {s} THEN "send" ELSE "read",
            !.todo = @ \ {s},
            !.pending = @ \cup {[q |-> q, s |-> s] : q \in {x \in live[s] : x > acked[s]}},
            !.last = Max({@, acked[s]})])
    /\ UNCHANGED <<files, socket, Coordinator>>

Unsent(c) == {e \in c.pending : e.q > c.last}
Lowest(E) == {e \in E : \A f \in E : e.q <= f.q}

\* The next pending event is sent, unless a number is missing before it or
\* the socket is closed.
SendEvent(p) ==
    LET c == pub[p] IN
    /\ c.pc = "send"
    /\ \E e \in Lowest(Unsent(c)) :
         IF e.q = c.last + 1 /\ conn[p] = "up"
         THEN /\ Inside(p, [c EXCEPT !.pc = "wait", !.sent = {e}])
              /\ wire' = [wire EXCEPT ![p] = @ \cup {e}]
              /\ UNCHANGED <<conn, answer, stale>>
         ELSE Returns(p, FALSE, answer[p])
    /\ UNCHANGED <<files, Coordinator>>

\* The answer of the coordinator, routed by the event's identifier.
TakeAnswer(p) ==
    LET c == pub[p] IN
    /\ c.pc = "wait"
    /\ \E a \in answer[p] :
         /\ a.e \in c.sent
         /\ IF a.durable
            THEN /\ Inside(p, [c EXCEPT !.pc = "send", !.sent = {}, !.last = a.e.q])
                 /\ answer' = [answer EXCEPT ![p] = @ \ {a}]
                 /\ UNCHANGED <<conn, wire, stale>>
            ELSE Returns(p, FALSE, answer[p] \ {a})
    /\ UNCHANGED <<files, Coordinator>>

\* The context ends while the answer is awaited.
Abandon(p) ==
    /\ pub[p].pc = "wait"
    /\ cancelled[p]
    /\ Returns(p, FALSE, answer[p])
    /\ UNCHANGED <<files, Coordinator>>

\* All events read are confirmed: nothing to record, or the spools whose
\* position advances.
Confirmed(p) ==
    LET c == pub[p]
        advanced == {e.s : e \in {x \in c.pending : x.q <= c.last}} IN
    /\ c.pc = "send"
    /\ Unsent(c) = {}
    /\ IF c.last = c.orig
       THEN Returns(p, TRUE, answer[p])
       ELSE /\ Inside(p, [c EXCEPT !.pc = IF advanced = {} THEN "write" ELSE "ack",
                                   !.todo = advanced])
            /\ UNCHANGED socket
    /\ UNCHANGED <<files, Coordinator>>

\* AckThrough's target for spool s.
Target(c, s) == Max({e.q : e \in {x \in c.pending : x.s = s /\ x.q <= c.last}})

\* AckThrough replaces ack.json of one of the spools, in the order of a map,
\* and refuses to move it back.  sent marks the spool being archived.
AckThrough(p) ==
    LET c == pub[p] IN
    /\ c.pc = "ack"
    /\ \E s \in c.todo :
         IF Target(c, s) < acked[s]
         THEN Returns(p, FALSE, answer[p]) /\ UNCHANGED files
         ELSE /\ acked' = [acked EXCEPT ![s] = Target(c, s)]
              /\ Inside(p, [c EXCEPT !.pc = "link", !.sent = {[q |-> Target(c, s), s |-> s]}])
              /\ UNCHANGED <<dirs, live, arch, published, socket>>
    /\ UNCHANGED Coordinator

\* archiveThrough links the acknowledged files into the archive, one by one,
LinkArchive(p) ==
    LET c == pub[p] IN
    /\ c.pc = "link"
    /\ \E m \in c.sent :
         LET left == {q \in live[m.s] : q <= m.q} \ arch[m.s] IN
         IF left = {}
         THEN Inside(p, [c EXCEPT !.pc = "remove"]) /\ UNCHANGED files
         ELSE /\ arch' = [arch EXCEPT ![m.s] = @ \cup {Min(left)}]
              /\ Inside(p, c)
              /\ UNCHANGED <<dirs, live, acked, published>>
    /\ UNCHANGED <<socket, Coordinator>>

\* and removes them from the spool when all of them are linked.
RemoveArchived(p) ==
    LET c == pub[p] IN
    /\ c.pc = "remove"
    /\ \E m \in c.sent :
         LET left == {q \in live[m.s] : q <= m.q} IN
         IF left = {}
         THEN /\ Inside(p, [c EXCEPT !.pc = IF c.todo = {m.s} THEN "write" ELSE "ack",
                                     !.todo = @ \ {m.s}, !.sent = {}])
              /\ UNCHANGED files
         ELSE /\ live' = [live EXCEPT ![m.s] = @ \ {Min(left)}]
              /\ Inside(p, c)
              /\ UNCHANGED <<dirs, arch, acked, published>>
    /\ UNCHANGED <<socket, Coordinator>>

WritePublished(p) ==
    /\ pub[p].pc = "write"
    /\ published' = pub[p].last
    /\ Returns(p, TRUE, answer[p])
    /\ UNCHANGED <<dirs, live, arch, acked, Coordinator>>

PublishStep(p) ==
    \/ \E by \in Caller : BeginPublish(p, by)
    \/ ReadSpool(p) \/ SendEvent(p) \/ TakeAnswer(p) \/ Abandon(p)
    \/ Confirmed(p) \/ AckThrough(p) \/ LinkArchive(p) \/ RemoveArchived(p)
    \/ WritePublished(p)

(***************************************************************************)
(* The coordinator                                                         *)
(***************************************************************************)
CommittedOf(s) == {q \in DOMAIN committed : committed[q] = s}
\* Segments that occupy a slot: claimed, and their exit not committed.
Active == {s \in claimed : Cardinality(CommittedOf(s)) < EventsOf[s]}

\* A new process says hello.  With segments active it is refused while the
\* bound process lives (handleHost) and unless its row is offline
\* (AuthorizeHostRebind).  RegisterHost, BeginHostReconcile, the session in
\* s.hosts, the ready answer.
Register(p) ==
    /\ phase[p] = "down"
    /\ Active # {} => /\ bound # NoProc => phase[bound] = "down"
                      /\ row = "offline"
    /\ phase' = [phase EXCEPT ![p] = "replay"]
    /\ conn' = [conn EXCEPT ![p] = "up"]
    /\ handler' = [handler EXCEPT ![p] = "replay"]
    /\ current' = p
    /\ bound' = p
    /\ row' = "reconciling"
    /\ UNCHANGED <<files, cancelled, sequence, appending, eventReady, publisher,
                   pub, wire, answer, stale, claimed, granted, committed>>

\* The reconciled message arrives: FinishHostReconcile.
FinishReconcile(p) ==
    /\ handler[p] = "replay"
    /\ phase[p] \in {"serving", "flush", "exiting"}
    /\ handler' = [handler EXCEPT ![p] = "serving"]
    /\ row' = IF row = "reconciling" THEN "ready" ELSE row
    /\ UNCHANGED <<files, memory, socket, current, bound, claimed, granted,
                   committed>>

\* ClaimReady in a dispatch.
Claim(s) ==
    /\ row = "ready"
    /\ \E p \in Proc : handler[p] = "serving"
    /\ s \notin claimed
    /\ claimed' = claimed \cup {s}
    /\ UNCHANGED <<files, memory, socket, handler, current, bound, row, granted,
                   committed>>

\* A launch message of a segment that is still launch_requested (a new claim
\* or PendingLaunches) reaches the process, whose worker goroutine starts.
Launch(p, s) ==
    /\ handler[p] = "serving" /\ phase[p] = "serving"
    /\ s \in claimed \ granted[p]
    /\ CommittedOf(s) = {}
    /\ granted' = [granted EXCEPT ![p] = @ \cup {s}]
    /\ UNCHANGED <<files, memory, socket, server, committed>>

\* CommitHostEvent: a known event is confirmed again, the next one is added.
Known(e) == e.q <= Len(committed) /\ committed[e.q] = e.s
Follows(e) == e.q = Len(committed) + 1
AppendsRepeated(e) ==
    committed' = IF row # "offline" /\ (Known(e) \/ Follows(e))
                 THEN Append(committed, e.s) ELSE committed
CommitHostEvent(e) ==
    committed' = IF row # "offline" /\ Follows(e)
                 THEN Append(committed, e.s) ELSE committed
Durable(e) == row # "offline" /\ (Known(e) \/ Follows(e))

\* The handler commits an event and answers.
Commit(p, e) ==
    /\ handler[p] \in {"replay", "serving"}
    /\ e \in wire[p]
    /\ CommitHostEvent(e)
    /\ wire' = [wire EXCEPT ![p] = @ \ {e}]
    /\ answer' = [answer EXCEPT ![p] = @ \cup {[e |-> e, durable |-> Durable(e)]}]
    /\ UNCHANGED <<files, memory, conn, stale, server, granted>>

\* The store refuses an event (storage limit, an error of the database).
Refuse(p, e) ==
    /\ handler[p] \in {"replay", "serving"}
    /\ e \in wire[p]
    /\ wire' = [wire EXCEPT ![p] = @ \ {e}]
    /\ answer' = [answer EXCEPT ![p] = @ \cup {[e |-> e, durable |-> FALSE]}]
    /\ UNCHANGED <<files, memory, conn, stale, server, granted, committed>>

\* A handler whose connection is gone commits the event it holds, or drops
\* it; nobody reads its answer.
CommitStale(e) ==
    /\ e \in stale
    /\ CommitHostEvent(e)
    /\ stale' = stale \ {e}
    /\ UNCHANGED <<files, memory, conn, wire, answer, server, granted>>

DropStale(e) ==
    /\ e \in stale
    /\ stale' = stale \ {e}
    /\ UNCHANGED <<files, memory, conn, wire, answer, server, granted, committed>>

\* handleHost's deferred function; MarkHostOffline leaves a host that is
\* still reconciling as it is.
Cleanup(p) ==
    /\ handler' = [handler EXCEPT ![p] = "none"]
    /\ current' = IF current = p THEN NoProc ELSE current
    /\ row' = IF current = p /\ row = "ready" THEN "offline" ELSE row
    /\ UNCHANGED <<files, memory, bound, claimed, granted, committed>>

\* The handler ends on its own account, or another goroutine closes its
\* connection (retirement, Close).
EndSession(p) ==
    /\ handler[p] \in {"replay", "serving"}
    /\ conn' = [conn EXCEPT ![p] = "cut"]
    /\ wire' = [wire EXCEPT ![p] = {}]
    /\ stale' = stale \cup wire[p]
    /\ UNCHANGED answer
    /\ Cleanup(p)

\* The handler of a process that is gone reads the end of the stream.
LoseSession(p) ==
    /\ handler[p] = "lost"
    /\ UNCHANGED socket
    /\ Cleanup(p)

\* The coordinator dies and its successor puts the host offline
\* (BeginCoordinatorEpoch).
RestartCoordinator ==
    /\ conn' = [p \in Proc |-> IF conn[p] = "up" THEN "cut" ELSE conn[p]]
    /\ wire' = [p \in Proc |-> {}]
    /\ stale' = {}
    /\ handler' = [p \in Proc |-> "none"]
    /\ current' = NoProc
    /\ row' = "offline"
    /\ UNCHANGED <<files, memory, answer, bound, claimed, granted, committed>>

(***************************************************************************)
(* Specification                                                           *)
(***************************************************************************)
HostStep(p) ==
    PublishStep(p) \/ FinishAppend(p) \/ Notice(p) \/ StopPublisher(p) \/ Exit(p)

ServerStep(p) ==
    FinishReconcile(p) \/ LoseSession(p) \/ \E e \in wire[p] : Commit(p, e)

Next ==
    \/ \E p \in Proc :
         \/ HostStep(p) \/ ServerStep(p)
         \/ Register(p) \/ Crash(p) \/ Terminate(p) \/ Leave(p)
         \/ EndSession(p)
         \/ \E s \in Segment : OpenSpool(p, s) \/ LinkEvent(p, s) \/ Launch(p, s)
         \/ \E e \in wire[p] : Refuse(p, e)
    \/ \E s \in Segment : Claim(s)
    \/ \E e \in stale : CommitStale(e) \/ DropStale(e)
    \/ RestartCoordinator

\* A running process and the coordinator take their next step; nothing says
\* that workers, signals, crashes, refusals or restarts happen.
Fairness ==
    \A p \in Proc :
        /\ WF_vars(PublishStep(p))
        /\ WF_vars(FinishAppend(p))
        /\ WF_vars(Notice(p))
        /\ WF_vars(StopPublisher(p))
        /\ WF_vars(Exit(p))
        /\ WF_vars(ServerStep(p))

Spec == Init /\ [][Next]_vars /\ Fairness

(***************************************************************************)
(* Properties                                                              *)
(***************************************************************************)
\* The events of the host in the order of their numbers.
Produced ==
    LET all == UNION {Files(s) : s \in Segment} IN
    [q \in 1..Max({0} \cup all) |->
        IF q \in all THEN CHOOSE s \in Segment : q \in Files(s) ELSE 0]

Log == INSTANCE EventLog WITH produced <- Produced

\* Through crashes, reconnections, repeated and late messages, each event of
\* the spools is committed once and in order: PublishAll with CommitHostEvent
\* implements the event log.
ImplementsEventLog == Log!Spec

\* An event on disk is committed, or ahead of both cursors, so that the next
\* PublishAll sends it: AckThrough, archiveThrough and writePublished never
\* pass an event that the coordinator does not have.
NothingForgotten ==
    \A s \in Segment : \A q \in Files(s) :
        \/ q <= Len(committed) /\ committed[q] = s
        \/ q > published /\ q > acked[s] /\ q \in live[s]

AllPublished ==
    \A s \in Segment : \A q \in Files(s) : q <= acked[s] /\ q <= Len(committed)

\* While a process keeps serving, every event appended is committed and
\* acknowledged: the one-token channel eventReady loses no wake-up.
ServingDrains ==
    \A p \in Proc :
        <>[](phase[p] = "serving") => []<>AllPublished

=============================================================================
