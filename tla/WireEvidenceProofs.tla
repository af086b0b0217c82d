-------------------------- MODULE WireEvidenceProofs --------------------------
(***************************************************************************)
(* Proofs about WireEvidence, with any number of owner connections that    *)
(* share one observer: the shapes of its state, what the helper is given   *)
(* to read, and what a ready receipt rests on.                             *)
(***************************************************************************)
EXTENDS WireEvidence, TLAPS

-----------------------------------------------------------------------------
(* The shapes of the state *)

Connection ==
    [state : {"unused", "open", "closed"}, valid : BOOLEAN, over : BOOLEAN, ok : BOOLEAN,
     up : SUBSET Leg, tail : SUBSET Leg, pending : [Id -> Method \cup {NoMethod}],
     init : {"no", "asked", "home", "wrong"}, inited : BOOLEAN, asked : SUBSET Id,
     thread : Thread \cup {NoThread}, announced : BOOLEAN, resumed : BOOLEAN,
     skills : SUBSET Id, barrier : BOOLEAN, turns : BOOLEAN, published : BOOLEAN]

Past ==
    [home : BOOLEAN, threads : SUBSET (Thread \cup {NoThread}),
     announced : SUBSET (Thread \cup {NoThread}), resumed : BOOLEAN,
     listed : BOOLEAN, turn : BOOLEAN]

Kind == {"bad", "upgrade", "request", "answer", "initialized", "started"}

OwnerMessage ==
    [leg : Leg, kind : Kind, method : Method \cup {NoMethod}, id : Id, ok : BOOLEAN,
     thread : Thread \cup {NoThread}]

OwnerShapes ==
    /\ ev \in [Owner -> Connection]
    /\ past \in [Owner -> Past]
    /\ rows \in 0 .. MaxEvents - 1
    /\ odd \in 0 .. Irregularities

GateMessage == [id : Id \cup {NoId}, good : BOOLEAN]

HelperShapes ==
    /\ helper \in [open : BOOLEAN, waiting : SUBSET Id, stray : SUBSET (Id \cup {NoId})]
    /\ gate \in [state : {"none", "open", "closed"}, pending : SUBSET Id]
    /\ toGate \in Seq(GateMessage) /\ fromBackend \in Seq(GateMessage)
    /\ toHelper \in Seq(GateMessage)
    /\ owed \in [Id -> Nat]

Shapes == OwnerShapes /\ HelperShapes

-----------------------------------------------------------------------------
(* The inductive invariant of the helper's connection *)

Untracked == helper.stray \cup {NoId}

\* A request the helper waits for is in one place of its way: as a frame before
\* the client gate, ...
SentOnce ==
    \A i \in 1 .. Len(toGate) :
        \/ toGate[i].id \in Untracked
        \/ /\ toGate[i].id \in helper.waiting \ gate.pending
           /\ \A j \in 1 .. Len(toGate) : i # j => toGate[i].id # toGate[j].id
           /\ \A j \in 1 .. Len(toHelper) : toGate[i].id # toHelper[j].id

\* ... as an id the gates share, ...
PendingAwaited ==
    \A id \in gate.pending \ Untracked :
        /\ id \in helper.waiting
        /\ \A j \in 1 .. Len(toHelper) : id # toHelper[j].id

\* ... or as an answer the helper has yet to read.
WayInv == SentOnce /\ PendingAwaited /\ NoCrossTalk

-----------------------------------------------------------------------------
(* The inductive invariant of an owner's connection *)

\* What the protocol record of a connection says, as long as a receipt may rest
\* on it, happened: c is the record, p the history, r whether the lease resumes.
Grounded(c, p, r) ==
    /\ p.turn => c.turns
    /\ c.init = "home" => p.home
    /\ c.announced => c.thread # NoThread /\ c.thread \in p.announced
    /\ c.skills # {} => c.resumed
    /\ c.barrier => c.resumed /\ p.listed
    /\ c.resumed => r /\ c.thread = Expected /\ p.resumed
    /\ IF r THEN /\ c.thread # NoThread => c.resumed
                 /\ \A i \in Id : c.pending[i] # "thread/start"
            ELSE c.thread \in p.threads \cup {NoThread}

\* A connection is read on while it is valid, and one that is not is refuted.
Readable(c) ==
    /\ c.over => ~c.ok
    /\ c.ok /\ c.state = "open" => c.valid

Evidence(o) ==
    /\ ev[o].state = "unused" => ev[o] = NoConnection /\ past[o] = NoPast
    /\ Readable(ev[o])
    /\ ev[o].ok => Grounded(ev[o], past[o], o \in Resuming)

EvidenceInv == \A o \in Owner : Evidence(o)

-----------------------------------------------------------------------------
(* The helper's connection *)

\* The first messages of a queue, and the ids among them.
LEMMA FirstMessages ==
    ASSUME NEW queue \in Seq(GateMessage), NEW n \in 1 .. Len(queue)
    PROVE  /\ Complete(queue, n) \in Seq(GateMessage) /\ Len(Complete(queue, n)) = n
           /\ \A i \in 1 .. n : Complete(queue, n)[i] = queue[i]
           /\ Ids(queue, n) = {queue[i].id : i \in 1 .. n} \ {NoId}
           /\ Ids(queue, n) \subseteq Id
<1>1. /\ Complete(queue, n) \in Seq(GateMessage) /\ Len(Complete(queue, n)) = n
      /\ \A i \in 1 .. n : Complete(queue, n)[i] = queue[i]
  BY DEF Complete
<1>2. DOMAIN Complete(queue, n) = 1 .. n
  BY <1>1
<1>3. Range(Complete(queue, n)) = {queue[i] : i \in 1 .. n}
  BY <1>1, <1>2 DEF Range
<1>4. \A i \in 1 .. n : queue[i] \in GateMessage
  OBVIOUS
<1>5. \A i \in 1 .. n : queue[i].id \in Id \cup {NoId}
  BY <1>4 DEF GateMessage
<1>6. Ids(queue, n) = {queue[i].id : i \in 1 .. n} \ {NoId}
  BY <1>3 DEF Ids
<1> QED
  BY <1>1, <1>5, <1>6

\* The rest of a queue once its first messages have left it.
LEMMA RestOfQueue ==
    ASSUME NEW queue \in Seq(GateMessage), NEW n \in 1 .. Len(queue)
    PROVE  /\ SubSeq(queue, n + 1, Len(queue)) \in Seq(GateMessage)
           /\ Len(SubSeq(queue, n + 1, Len(queue))) = Len(queue) - n
           /\ \A i \in 1 .. Len(queue) - n :
                SubSeq(queue, n + 1, Len(queue))[i] = queue[n + i] /\ n + i \in 1 .. Len(queue)
OBVIOUS

\* A queue and a message more.
LEMMA OneMore ==
    ASSUME NEW queue \in Seq(GateMessage), NEW m \in GateMessage
    PROVE  /\ Append(queue, m) \in Seq(GateMessage)
           /\ Len(Append(queue, m)) = Len(queue) + 1
           /\ \A i \in 1 .. Len(queue) : Append(queue, m)[i] = queue[i]
           /\ Append(queue, m)[Len(queue) + 1] = m
OBVIOUS

\* A queue and others after it.
LEMMA Joined ==
    ASSUME NEW queue \in Seq(GateMessage), NEW more \in Seq(GateMessage), NEW n \in Nat,
           Len(more) = n
    PROVE  /\ queue \o more \in Seq(GateMessage)
           /\ Len(queue \o more) = Len(queue) + n /\ Len(queue) \in Nat
           /\ \A i \in 1 .. Len(queue) : (queue \o more)[i] = queue[i]
           /\ \A i \in 1 .. Len(queue) + n : i > Len(queue) =>
                (queue \o more)[i] = more[i - Len(queue)] /\ i - Len(queue) \in 1 .. n
OBVIOUS

\* What send_rpc and a stray frame put before the client gate: the invariant
\* holds if the new id is untracked, or now waited for and nowhere on its way.
LEMMA NewFrame ==
    ASSUME HelperShapes, WayInv, NEW m \in GateMessage,
           toGate' = Append(toGate, m), UNCHANGED <<gate, toHelper>>,
           Untracked \subseteq Untracked', helper.waiting \subseteq helper'.waiting,
           m.id \in Untracked' \/ (m.id \in helper'.waiting /\ m.id \notin helper.waiting)
    PROVE  WayInv'
<1>1. /\ Len(toGate') = Len(toGate) + 1 /\ Len(toGate) \in Nat
      /\ \A i \in 1 .. Len(toGate) : toGate'[i] = toGate[i]
      /\ toGate'[Len(toGate) + 1] = m
  BY OneMore DEF HelperShapes
<1>2. CASE m.id \in Untracked'
  <2>1. SentOnce'
    BY <1>1, <1>2 DEF WayInv, SentOnce
  <2> QED
    BY <2>1 DEF WayInv, PendingAwaited, NoCrossTalk, Untracked
<1>3. CASE m.id \notin Untracked' /\ m.id \in helper'.waiting /\ m.id \notin helper.waiting
  <2>1. m.id \notin gate.pending
    BY <1>3 DEF WayInv, PendingAwaited
  <2>2. \A i \in 1 .. Len(toGate) : toGate[i].id # m.id
    BY <1>3 DEF WayInv, SentOnce
  <2>3. \A i \in 1 .. Len(toHelper) : toHelper[i].id # m.id
    BY <1>3 DEF WayInv, NoCrossTalk, Untracked
  <2>4. SentOnce'
    BY <1>1, <1>3, <2>1, <2>2, <2>3 DEF WayInv, SentOnce
  <2> QED
    BY <2>4 DEF WayInv, PendingAwaited, NoCrossTalk, Untracked
<1> QED
  BY <1>2, <1>3

\* A request of send_rpc is awaited, or its id joins the strays, before it moves.
LEMMA SendRpcWay ==
    ASSUME WireAssumption, HelperShapes, WayInv, NEW id \in Id \cup {NoId}, SendRpc(id)
    PROVE  HelperShapes' /\ WayInv'
<1> DEFINE m == HelperMessage(id, TRUE)
<1>1. m \in GateMessage /\ m.id = id
  BY DEF HelperMessage, GateMessage
<1>2. toGate' = Append(toGate, m) /\ UNCHANGED <<gate, owed, fromBackend, toHelper>>
  BY DEF SendRpc
<1> HIDE DEF m
<1>3. toGate' \in Seq(GateMessage)
  BY <1>1, <1>2, OneMore DEF HelperShapes
<1>4. CASE helper' = [helper EXCEPT !.waiting = @ \cup ({id} \ {NoId})]
  <2>1. helper'.stray = helper.stray /\ helper'.waiting = helper.waiting \cup ({id} \ {NoId})
    BY <1>4 DEF HelperShapes
  <2>2. helper' \in [open : BOOLEAN, waiting : SUBSET Id, stray : SUBSET (Id \cup {NoId})]
    BY <1>4 DEF HelperShapes
  <2>3. HelperShapes'
    BY <1>2, <1>3, <2>2 DEF HelperShapes
  <2>4. m.id \in Untracked' \/ (m.id \in helper'.waiting /\ m.id \notin helper.waiting)
    BY <1>1, <2>1 DEF SendRpc, Untracked
  <2>5. Untracked \subseteq Untracked' /\ helper.waiting \subseteq helper'.waiting
    BY <2>1 DEF Untracked
  <2> QED
    BY <1>1, <1>2, <2>3, <2>4, <2>5, NewFrame
<1>5. CASE helper' = [helper EXCEPT !.stray = @ \cup {id}]
  <2>1. helper'.stray = helper.stray \cup {id} /\ helper'.waiting = helper.waiting
    BY <1>5 DEF HelperShapes
  <2>2. helper' \in [open : BOOLEAN, waiting : SUBSET Id, stray : SUBSET (Id \cup {NoId})]
    BY <1>5 DEF HelperShapes
  <2>3. HelperShapes'
    BY <1>2, <1>3, <2>2 DEF HelperShapes
  <2>4. m.id \in Untracked'
    BY <1>1, <2>1 DEF Untracked
  <2>5. Untracked \subseteq Untracked' /\ helper.waiting \subseteq helper'.waiting
    BY <2>1 DEF Untracked
  <2> QED
    BY <1>1, <1>2, <2>3, <2>4, <2>5, NewFrame
<1> QED
  BY <1>4, <1>5 DEF SendRpc

\* An id the helper writes by itself joins the strays at once.
LEMMA RogueSendWay ==
    ASSUME WireAssumption, HelperShapes, WayInv, NEW id \in Id \cup {NoId}, RogueSend(id)
    PROVE  HelperShapes' /\ WayInv'
<1>1. PICK good \in BOOLEAN : toGate' = Append(toGate, HelperMessage(id, good))
  BY DEF RogueSend
<1> DEFINE m == HelperMessage(id, good)
<1>2. m \in GateMessage /\ m.id = id
  BY DEF HelperMessage, GateMessage
<1>3. toGate' = Append(toGate, m) /\ UNCHANGED <<gate, owed, fromBackend, toHelper>>
  BY <1>1 DEF RogueSend
<1> HIDE DEF m
<1>4. toGate' \in Seq(GateMessage)
  BY <1>2, <1>3, OneMore DEF HelperShapes
<1>5. helper' = [helper EXCEPT !.stray = @ \cup {id}]
  BY DEF RogueSend
<1>6. helper'.stray = helper.stray \cup {id} /\ helper'.waiting = helper.waiting
  BY <1>5 DEF HelperShapes
<1>7. helper' \in [open : BOOLEAN, waiting : SUBSET Id, stray : SUBSET (Id \cup {NoId})]
  BY <1>5 DEF HelperShapes
<1>8. HelperShapes'
  BY <1>3, <1>4, <1>7 DEF HelperShapes
<1>9. m.id \in Untracked' /\ Untracked \subseteq Untracked'
      /\ helper.waiting \subseteq helper'.waiting
  BY <1>2, <1>6 DEF Untracked
<1> QED
  BY <1>2, <1>3, <1>8, <1>9, NewFrame

\* A rejected chunk empties the way, and leaves the ids the gates share.
LEMMA GateClosesWay ==
    ASSUME WireAssumption, HelperShapes, WayInv, GateCloses, UNCHANGED helper
    PROVE  HelperShapes' /\ WayInv'
<1>1. gate'.pending = gate.pending /\ toGate' = <<>> /\ toHelper' = toHelper
      /\ Untracked' = Untracked
  BY DEF GateCloses, HelperShapes, Untracked
<1>2. gate' \in [state : {"none", "open", "closed"}, pending : SUBSET Id]
  BY DEF GateCloses, HelperShapes
<1>3. toGate' \in Seq(GateMessage) /\ fromBackend' \in Seq(GateMessage)
  BY DEF GateCloses
<1>4. owed' \in [Id -> Nat]
  BY DEF GateCloses
<1>5. UNCHANGED <<helper, toHelper>>
  BY DEF GateCloses
<1>6. HelperShapes'
  BY <1>2, <1>3, <1>4, <1>5 DEF HelperShapes
<1>7. WayInv'
  BY <1>1 DEF WayInv, SentOnce, PendingAwaited, NoCrossTalk, Untracked
<1> QED
  BY <1>6, <1>7

\* The client gate moves requests from the helper's queue to the pending ids: an
\* awaited id changes place and is still in one.
LEMMA ClientGateWay ==
    ASSUME WireAssumption, HelperShapes, WayInv, NEW n \in 1 .. 2, ClientGate(n)
    PROVE  HelperShapes' /\ WayInv'
<1>1. UNCHANGED helper /\ n \in 1 .. Len(toGate)
  BY DEF ClientGate
<1>2. CASE ~Passes(toGate, n, gate.pending, FALSE)
  BY <1>1, <1>2, GateClosesWay DEF ClientGate
<1>3. CASE Passes(toGate, n, gate.pending, FALSE)
  <2> DEFINE gone == Ids(toGate, n)
  <2>1. /\ gate' = [gate EXCEPT !.pending = @ \cup gone]
        /\ owed' = [i \in Id |-> IF i \in gone THEN owed[i] + 1 ELSE owed[i]]
        /\ toGate' = SubSeq(toGate, n + 1, Len(toGate))
        /\ UNCHANGED <<fromBackend, toHelper>>
    BY <1>3 DEF ClientGate
  <2>2. gone = {toGate[i].id : i \in 1 .. n} \ {NoId} /\ gone \subseteq Id
    BY <1>1, FirstMessages DEF HelperShapes
  <2> HIDE DEF gone
  <2>3. toGate' \in Seq(GateMessage) /\ Len(toGate') = Len(toGate) - n
        /\ \A i \in 1 .. Len(toGate') : toGate'[i] = toGate[n + i] /\ n + i \in 1 .. Len(toGate)
    <3>1. toGate \in Seq(GateMessage) /\ n \in 1 .. Len(toGate)
      BY <1>1 DEF HelperShapes
    <3> QED
      BY <2>1, <3>1, RestOfQueue
  <2>4. gate'.pending = gate.pending \cup gone
        /\ gate' \in [state : {"none", "open", "closed"}, pending : SUBSET Id]
    BY <2>1, <2>2 DEF HelperShapes
  <2>5. owed' \in [Id -> Nat]
    BY <2>1 DEF HelperShapes
  <2>6. HelperShapes'
    BY <1>1, <2>1, <2>3, <2>4, <2>5 DEF HelperShapes
  <2>7. Untracked' = Untracked /\ helper'.waiting = helper.waiting
    BY <1>1 DEF Untracked
  <2>8. SentOnce'
    <3> SUFFICES ASSUME NEW i \in 1 .. Len(toGate'), toGate'[i].id \notin Untracked
                 PROVE  /\ toGate'[i].id \in helper.waiting \ gate'.pending
                        /\ \A j \in 1 .. Len(toGate') : i # j => toGate'[i].id # toGate'[j].id
                        /\ \A j \in 1 .. Len(toHelper) : toGate'[i].id # toHelper[j].id
      BY <2>1, <2>7 DEF SentOnce
    <3>1. toGate'[i] = toGate[n + i] /\ n + i \in 1 .. Len(toGate)
      BY <2>3
    <3>2. /\ toGate[n + i].id \in helper.waiting \ gate.pending
          /\ \A j \in 1 .. Len(toGate) : n + i # j => toGate[n + i].id # toGate[j].id
          /\ \A j \in 1 .. Len(toHelper) : toGate[n + i].id # toHelper[j].id
      BY <3>1 DEF WayInv, SentOnce
    <3>3. \A j \in 1 .. n : j \in 1 .. Len(toGate) /\ n + i # j
      BY <1>1
    <3>4. toGate'[i].id \notin gone
      BY <2>2, <3>1, <3>2, <3>3
    <3>5. \A j \in 1 .. Len(toGate') : i # j => toGate'[i].id # toGate'[j].id
      <4> SUFFICES ASSUME NEW j \in 1 .. Len(toGate'), i # j
                   PROVE  toGate'[i].id # toGate'[j].id
        OBVIOUS
      <4>1. toGate'[j] = toGate[n + j] /\ n + j \in 1 .. Len(toGate) /\ n + i # n + j
        BY <2>3
      <4> QED
        BY <3>1, <3>2, <4>1
    <3> QED
      BY <2>4, <3>1, <3>2, <3>4, <3>5
  <2>9. PendingAwaited'
    <3> SUFFICES ASSUME NEW id \in gate'.pending \ Untracked
                 PROVE  /\ id \in helper.waiting
                        /\ \A j \in 1 .. Len(toHelper) : id # toHelper[j].id
      BY <2>1, <2>7 DEF PendingAwaited
    <3>1. CASE id \in gate.pending
      BY <3>1 DEF WayInv, PendingAwaited
    <3>2. CASE id \in gone
      <4>1. PICK i \in 1 .. n : id = toGate[i].id
        BY <2>2, <3>2
      <4>2. i \in 1 .. Len(toGate)
        BY <1>1
      <4> QED
        BY <4>1, <4>2 DEF WayInv, SentOnce
    <3> QED
      BY <2>4, <3>1, <3>2
  <2>10. NoCrossTalk'
    BY <2>1, <2>7 DEF WayInv, NoCrossTalk, Untracked
  <2> QED
    BY <2>6, <2>8, <2>9, <2>10 DEF WayInv
<1> QED
  BY <1>2, <1>3

\* What passes the server gate is valid, and its ids are pending and distinct.
LEMMA PassedAnswers ==
    ASSUME HelperShapes, NEW n \in 1 .. Len(fromBackend),
           Passes(fromBackend, n, gate.pending, TRUE)
    PROVE  \A i \in 1 .. n :
             /\ fromBackend[i].good
             /\ fromBackend[i].id # NoId =>
                  /\ fromBackend[i].id \in gate.pending
                  /\ \A j \in 1 .. n : i # j => fromBackend[i].id # fromBackend[j].id
<1> DEFINE q == fromBackend
           before(i) == {q[j].id : j \in 1 .. i - 1}
<1>1. \A i \in 1 .. n : Accepts(q[i], gate.pending \ before(i), TRUE)
  BY DEF Passes
<1>2. \A i \in 1 .. n : q[i].good /\ (q[i].id = NoId \/ q[i].id \in gate.pending \ before(i))
  BY <1>1 DEF Accepts
<1>3. \A i \in 1 .. n : \A j \in 1 .. n : j < i => q[j].id \in before(i)
  OBVIOUS
<1> HIDE DEF before
<1>4. \A i \in 1 .. n : \A j \in 1 .. n : q[i].id # NoId /\ i # j => q[i].id # q[j].id
  <2> SUFFICES ASSUME NEW i \in 1 .. n, NEW j \in 1 .. n, q[i].id # NoId, i # j
               PROVE  q[i].id # q[j].id
    OBVIOUS
  <2>1. CASE j < i
    BY <1>2, <1>3, <2>1
  <2>2. CASE i < j
    BY <1>2, <1>3, <2>2
  <2> QED
    BY <2>1, <2>2
<1> QED
  BY <1>2, <1>4

\* The server gate passes an answer only against a pending id and takes the id
\* away, within a chunk too: no second answer to it is on the way.
LEMMA ServerGateWay ==
    ASSUME WireAssumption, HelperShapes, WayInv, NEW n \in 1 .. 2, ServerGate(n)
    PROVE  HelperShapes' /\ WayInv'
<1>1. UNCHANGED helper /\ n \in 1 .. Len(fromBackend)
  BY DEF ServerGate
<1>2. CASE ~Passes(fromBackend, n, gate.pending, TRUE)
  BY <1>1, <1>2, GateClosesWay DEF ServerGate
<1>3. CASE Passes(fromBackend, n, gate.pending, TRUE)
  <2> DEFINE gone == Ids(fromBackend, n)
             some == Complete(fromBackend, n)
             k == Len(toHelper)
  <2>1. /\ gate' = [gate EXCEPT !.pending = @ \ gone]
        /\ toHelper' = toHelper \o some
        /\ fromBackend' = SubSeq(fromBackend, n + 1, Len(fromBackend))
        /\ UNCHANGED <<toGate, owed>>
    BY <1>3 DEF ServerGate
  <2>2. gone = {fromBackend[i].id : i \in 1 .. n} \ {NoId} /\ gone \subseteq Id
        /\ some \in Seq(GateMessage) /\ Len(some) = n
        /\ \A i \in 1 .. n : some[i] = fromBackend[i]
    BY <1>1, FirstMessages DEF HelperShapes
  <2> HIDE DEF gone, some
  <2>3. /\ toHelper' \in Seq(GateMessage) /\ Len(toHelper') = k + n /\ k \in Nat
        /\ \A i \in 1 .. k : toHelper'[i] = toHelper[i]
        /\ \A i \in 1 .. k + n : i > k => toHelper'[i] = some[i - k] /\ i - k \in 1 .. n
    <3>1. toHelper \in Seq(GateMessage)
      BY DEF HelperShapes
    <3> QED
      BY <2>1, <2>2, <3>1, Joined
  <2> HIDE DEF k
  <2>4. fromBackend' \in Seq(GateMessage)
    BY <1>1, <2>1, RestOfQueue DEF HelperShapes
  <2>5. gate'.pending = gate.pending \ gone
        /\ gate' \in [state : {"none", "open", "closed"}, pending : SUBSET Id]
    BY <2>1, <2>2 DEF HelperShapes
  <2>6. HelperShapes'
    BY <1>1, <2>1, <2>3, <2>4, <2>5 DEF HelperShapes
  <2>7. Untracked' = Untracked /\ helper'.waiting = helper.waiting
    BY <1>1 DEF Untracked
  <2>8. \A i \in 1 .. n :
          /\ some[i].good
          /\ some[i].id \notin Untracked =>
               /\ some[i].id \in gate.pending \cap gone
               /\ \A j \in 1 .. n : i # j => some[i].id # some[j].id
    <3>1. \A i \in 1 .. n :
            /\ some[i].good
            /\ some[i].id # NoId =>
                 /\ some[i].id \in gate.pending
                 /\ \A j \in 1 .. n : i # j => some[i].id # some[j].id
      <4>1. \A i \in 1 .. n :
              /\ fromBackend[i].good
              /\ fromBackend[i].id # NoId =>
                   /\ fromBackend[i].id \in gate.pending
                   /\ \A j \in 1 .. n : i # j => fromBackend[i].id # fromBackend[j].id
        BY <1>1, <1>3, PassedAnswers
      <4>2. \A i \in 1 .. n : some[i] = fromBackend[i]
        BY <2>2
      <4> QED
        BY <4>1, <4>2
    <3>2. \A i \in 1 .. n : some[i].id \in gone \cup {NoId}
      BY <2>2
    <3> QED
      BY <3>1, <3>2 DEF Untracked
  <2>9. SentOnce'
    <3> SUFFICES ASSUME NEW i \in 1 .. Len(toGate), toGate[i].id \notin Untracked
                 PROVE  /\ toGate[i].id \in helper.waiting \ gate'.pending
                        /\ \A j \in 1 .. Len(toGate) : i # j => toGate[i].id # toGate[j].id
                        /\ \A j \in 1 .. Len(toHelper') : toGate[i].id # toHelper'[j].id
      BY <2>1, <2>7 DEF SentOnce
    <3>1. /\ toGate[i].id \in helper.waiting \ gate.pending
          /\ \A j \in 1 .. Len(toGate) : i # j => toGate[i].id # toGate[j].id
          /\ \A j \in 1 .. k : toGate[i].id # toHelper[j].id
      BY DEF WayInv, SentOnce, k
    <3>2. \A j \in 1 .. n : toGate[i].id # some[j].id
      BY <2>8, <3>1
    <3>3. \A j \in 1 .. k + n : toGate[i].id # toHelper'[j].id
      <4> SUFFICES ASSUME NEW j \in 1 .. k + n
                   PROVE  toGate[i].id # toHelper'[j].id
        OBVIOUS
      <4>1. CASE j \in 1 .. k
        BY <2>3, <3>1, <4>1
      <4>2. CASE j > k
        BY <2>3, <3>2, <4>2
      <4> QED
        BY <2>3, <4>1, <4>2
    <3> QED
      BY <2>3, <2>5, <3>1, <3>3
  <2>10. PendingAwaited'
    <3> SUFFICES ASSUME NEW id \in gate'.pending \ Untracked
                 PROVE  /\ id \in helper.waiting
                        /\ \A j \in 1 .. Len(toHelper') : id # toHelper'[j].id
      BY <2>7 DEF PendingAwaited
    <3>1. id \in gate.pending /\ id \notin gone
      BY <2>5
    <3>2. id \in helper.waiting /\ \A j \in 1 .. k : id # toHelper[j].id
      BY <3>1 DEF WayInv, PendingAwaited, k
    <3>3. \A j \in 1 .. n : id # some[j].id
      BY <2>8, <3>1
    <3>4. \A j \in 1 .. k + n : id # toHelper'[j].id
      <4> SUFFICES ASSUME NEW j \in 1 .. k + n
                   PROVE  id # toHelper'[j].id
        OBVIOUS
      <4>1. CASE j \in 1 .. k
        BY <2>3, <3>2, <4>1
      <4>2. CASE j > k
        BY <2>3, <3>3, <4>2
      <4> QED
        BY <2>3, <4>1, <4>2
    <3> QED
      BY <2>3, <3>2, <3>4
  <2>11. NoCrossTalk'
    <3> SUFFICES ASSUME NEW i \in 1 .. k + n
                 PROVE  /\ toHelper'[i].good
                        /\ toHelper'[i].id \in Untracked \/
                             /\ toHelper'[i].id \in helper.waiting
                             /\ \A j \in 1 .. k + n : i # j => toHelper'[i].id # toHelper'[j].id
      BY <2>3, <2>7 DEF NoCrossTalk, Untracked
    <3>1. \A j \in 1 .. k :
            /\ toHelper[j].good
            /\ toHelper[j].id \in Untracked \/
                 /\ toHelper[j].id \in helper.waiting \ (gate.pending \ Untracked)
                 /\ \A l \in 1 .. k : j # l => toHelper[j].id # toHelper[l].id
      BY DEF WayInv, PendingAwaited, NoCrossTalk, Untracked, k
    <3>2. \A j \in 1 .. n : some[j].id \in Untracked \/
                              /\ some[j].id \in helper.waiting
                              /\ \A l \in 1 .. k : some[j].id # toHelper[l].id
      BY <2>8 DEF WayInv, PendingAwaited, k
    <3>3. CASE i \in 1 .. k
      <4>1. toHelper'[i].good /\ (toHelper'[i].id \in Untracked \/ toHelper'[i].id \in helper.waiting)
        BY <2>3, <3>1, <3>3
      <4>2. ASSUME NEW j \in 1 .. k + n, i # j, toHelper'[i].id \notin Untracked
            PROVE  toHelper'[i].id # toHelper'[j].id
        <5>1. CASE j \in 1 .. k
          BY <2>3, <3>1, <3>3, <4>2, <5>1
        <5>2. CASE j > k
          BY <2>3, <3>2, <3>3, <4>2, <5>2
        <5> QED
          BY <2>3, <5>1, <5>2
      <4> QED
        BY <4>1, <4>2
    <3>4. CASE i > k
      <4>1. toHelper'[i] = some[i - k] /\ i - k \in 1 .. n
        BY <2>3, <3>4
      <4>2. toHelper'[i].good /\ (toHelper'[i].id \in Untracked \/ toHelper'[i].id \in helper.waiting)
        BY <2>8, <3>2, <4>1
      <4>3. ASSUME NEW j \in 1 .. k + n, i # j, toHelper'[i].id \notin Untracked
            PROVE  toHelper'[i].id # toHelper'[j].id
        <5>1. CASE j \in 1 .. k
          BY <2>3, <3>2, <4>1, <4>3, <5>1
        <5>2. CASE j > k
          <6>1. toHelper'[j] = some[j - k] /\ j - k \in 1 .. n /\ j - k # i - k
            BY <2>3, <3>4, <4>3, <5>2
          <6> QED
            BY <2>8, <4>1, <4>3, <6>1
        <5> QED
          BY <2>3, <5>1, <5>2
      <4> QED
        BY <4>2, <4>3
    <3> QED
      BY <2>3, <3>3, <3>4
  <2> QED
    BY <2>6, <2>9, <2>10, <2>11 DEF WayInv
<1> QED
  BY <1>2, <1>3

\* The relay starts with nothing on the way.
LEMMA HelperConnectWay ==
    ASSUME WireAssumption, HelperShapes, WayInv, HelperConnect
    PROVE  HelperShapes' /\ WayInv'
<1>1. helper' \in [open : BOOLEAN, waiting : SUBSET Id, stray : SUBSET (Id \cup {NoId})]
      /\ helper'.waiting = helper.waiting /\ helper'.stray = helper.stray
  BY DEF HelperConnect, HelperShapes
<1>2. gate' \in [state : {"none", "open", "closed"}, pending : SUBSET Id]
      /\ gate'.pending = gate.pending
  BY DEF HelperConnect, HelperShapes
<1>3. UNCHANGED <<toGate, owed, fromBackend, toHelper>>
  BY DEF HelperConnect
<1>4. HelperShapes'
  BY <1>1, <1>2, <1>3 DEF HelperShapes
<1>5. WayInv'
  BY <1>1, <1>2, <1>3 DEF WayInv, SentOnce, PendingAwaited, NoCrossTalk, Untracked
<1> QED
  BY <1>4, <1>5

\* What reaches the server gate says nothing yet about what passes it.
LEMMA BackendWay ==
    ASSUME WireAssumption, HelperShapes, WayInv,
           \/ \E id \in Id : BackendAnswers(id)
           \/ \E id \in Id \cup {NoId} : BackendStray(id)
    PROVE  HelperShapes' /\ WayInv'
<1>1. UNCHANGED <<helper, gate, toGate, toHelper>>
  BY DEF BackendAnswers, BackendStray
<1>2. \E id \in Id \cup {NoId}, good \in BOOLEAN :
        fromBackend' = Append(fromBackend, HelperMessage(id, good))
  BY DEF BackendAnswers, BackendStray
<1>3. \A id \in Id \cup {NoId}, good \in BOOLEAN : HelperMessage(id, good) \in GateMessage
  BY DEF HelperMessage, GateMessage
<1>4. fromBackend' \in Seq(GateMessage)
  BY <1>2, <1>3, OneMore DEF HelperShapes
<1>5. owed' \in [Id -> Nat]
  <2>1. CASE \E id \in Id : BackendAnswers(id)
    <3>1. PICK id \in Id : BackendAnswers(id)
      BY <2>1
    <3>2. owed' = [owed EXCEPT ![id] = @ - 1] /\ owed[id] > 0
      BY <3>1 DEF BackendAnswers
    <3>3. owed[id] - 1 \in Nat
      BY <3>2 DEF HelperShapes
    <3> QED
      BY <3>2, <3>3 DEF HelperShapes
  <2>2. CASE \E id \in Id \cup {NoId} : BackendStray(id)
    BY <2>2 DEF BackendStray, HelperShapes
  <2> QED
    BY <2>1, <2>2
<1>6. HelperShapes'
  BY <1>1, <1>4, <1>5 DEF HelperShapes
<1>7. WayInv'
  BY <1>1 DEF WayInv, SentOnce, PendingAwaited, NoCrossTalk, Untracked
<1> QED
  BY <1>6, <1>7

\* read_rpc takes the first answer: its id is awaited no longer and, being at one
\* place only, is nowhere else.
LEMMA ReadRpcWay ==
    ASSUME WireAssumption, HelperShapes, WayInv, ReadRpc
    PROVE  HelperShapes' /\ WayInv'
<1> DEFINE id == Head(toHelper).id
<1>1. /\ toHelper \in Seq(GateMessage) /\ toHelper # <<>> /\ toHelper' = Tail(toHelper)
      /\ UNCHANGED <<gate, toGate, owed, fromBackend>>
  BY DEF ReadRpc, HelperShapes
<1>2. /\ Len(toHelper) \in Nat \ {0} /\ id = toHelper[1].id
      /\ toHelper' \in Seq(GateMessage) /\ Len(toHelper') = Len(toHelper) - 1
      /\ \A i \in 1 .. Len(toHelper') : toHelper'[i] = toHelper[i + 1] /\ i + 1 \in 2 .. Len(toHelper)
  BY <1>1
<1>3. helper' = IF id \in helper.waiting \cup {NoId}
                  THEN [helper EXCEPT !.waiting = @ \ {id}]
                  ELSE [helper EXCEPT !.open = FALSE]
  BY DEF ReadRpc
<1> HIDE DEF id
<1>4. helper' \in [open : BOOLEAN, waiting : SUBSET Id, stray : SUBSET (Id \cup {NoId})]
  BY <1>3 DEF HelperShapes
<1>5. helper'.stray = helper.stray /\ helper'.waiting \in {helper.waiting, helper.waiting \ {id}}
  BY <1>3 DEF HelperShapes
<1>6. Untracked' = Untracked
  BY <1>5 DEF Untracked
<1>7. HelperShapes'
  BY <1>1, <1>2, <1>4 DEF HelperShapes
<1>8. id \notin Untracked => \A i \in 2 .. Len(toHelper) : toHelper[i].id # id
  BY <1>2 DEF WayInv, NoCrossTalk, Untracked
<1>9. SentOnce'
  <2> SUFFICES ASSUME NEW i \in 1 .. Len(toGate), toGate[i].id \notin Untracked
               PROVE  /\ toGate[i].id \in helper'.waiting \ gate.pending
                      /\ \A j \in 1 .. Len(toGate) : i # j => toGate[i].id # toGate[j].id
                      /\ \A j \in 1 .. Len(toHelper') : toGate[i].id # toHelper'[j].id
    BY <1>1, <1>6 DEF SentOnce
  <2>1. /\ toGate[i].id \in helper.waiting \ gate.pending
        /\ \A j \in 1 .. Len(toGate) : i # j => toGate[i].id # toGate[j].id
        /\ \A j \in 1 .. Len(toHelper) : toGate[i].id # toHelper[j].id
    BY DEF WayInv, SentOnce
  <2>2. toGate[i].id # id
    BY <1>2, <2>1
  <2> QED
    BY <1>2, <1>5, <2>1, <2>2, SMTT(30)
<1>10. PendingAwaited'
  <2> SUFFICES ASSUME NEW p \in gate.pending \ Untracked
               PROVE  p \in helper'.waiting /\ \A j \in 1 .. Len(toHelper') : p # toHelper'[j].id
    BY <1>1, <1>6 DEF PendingAwaited
  <2>1. p \in helper.waiting /\ \A j \in 1 .. Len(toHelper) : p # toHelper[j].id
    BY DEF WayInv, PendingAwaited
  <2>2. p # id
    BY <1>2, <2>1
  <2> QED
    BY <1>2, <1>5, <2>1, <2>2
<1>11. NoCrossTalk'
  <2> SUFFICES ASSUME NEW i \in 1 .. Len(toHelper')
               PROVE  /\ toHelper'[i].good
                      /\ toHelper'[i].id \in Untracked \/
                           /\ toHelper'[i].id \in helper'.waiting
                           /\ \A j \in 1 .. Len(toHelper') : i # j => toHelper'[i].id # toHelper'[j].id
    BY <1>6 DEF NoCrossTalk, Untracked
  <2>1. toHelper'[i] = toHelper[i + 1] /\ i + 1 \in 2 .. Len(toHelper)
    BY <1>2
  <2>2. /\ toHelper[i + 1].good
        /\ toHelper[i + 1].id \in Untracked \/
             /\ toHelper[i + 1].id \in helper.waiting
             /\ \A j \in 1 .. Len(toHelper) : i + 1 # j => toHelper[i + 1].id # toHelper[j].id
    BY <1>2, <2>1 DEF WayInv, NoCrossTalk, Untracked
  <2>3. toHelper[i + 1].id \notin Untracked => toHelper[i + 1].id # id
    BY <1>8, <2>1
  <2>4. ASSUME NEW j \in 1 .. Len(toHelper'), i # j, toHelper[i + 1].id \notin Untracked
        PROVE  toHelper'[i].id # toHelper'[j].id
    <3>1. toHelper'[j] = toHelper[j + 1] /\ j + 1 \in 1 .. Len(toHelper) /\ i + 1 # j + 1
      BY <1>2, <2>4
    <3> QED
      BY <2>1, <2>2, <2>4, <3>1
  <2> QED
    BY <1>5, <2>1, <2>2, <2>3, <2>4
<1> QED
  BY <1>7, <1>9, <1>10, <1>11 DEF WayInv

\* An owner's connection shares nothing with the helper's.
LEMMA OwnerStepWay ==
    ASSUME HelperShapes, WayInv, NEW o \in Owner, OwnerStep(o)
    PROVE  HelperShapes' /\ WayInv'
<1>1. UNCHANGED helperVars
  BY DEF OwnerStep, Connect, Chunk, Ends, LateData, CaptureGap
<1> QED
  BY <1>1 DEF helperVars, HelperShapes, WayInv, SentOnce, PendingAwaited, NoCrossTalk, Untracked

\* Nothing is on the way at first.
LEMMA WayInit == Init => HelperShapes /\ WayInv
BY DEF Init, HelperShapes, WayInv, SentOnce, PendingAwaited, NoCrossTalk, Untracked

\* Every step keeps the messages of the helper in order.
LEMMA WayStep ==
    ASSUME WireAssumption, HelperShapes, WayInv, [Next]_vars
    PROVE  HelperShapes' /\ WayInv'
<1>1. CASE HelperStep
  BY <1>1, HelperConnectWay, ReadRpcWay, SendRpcWay, RogueSendWay, ClientGateWay,
     ServerGateWay, BackendWay DEF HelperStep
<1>2. CASE \E o \in Owner : OwnerStep(o)
  BY <1>2, OwnerStepWay
<1>3. CASE UNCHANGED vars
  BY <1>3 DEF vars, helperVars, HelperShapes, WayInv, SentOnce, PendingAwaited, NoCrossTalk,
              Untracked
<1> QED
  BY <1>1, <1>2, <1>3 DEF Next

\* The helper is only given valid answers that it waits for, each once, whatever
\* the backend and a stray writer send (NativeWebSocketGate, read_rpc), for every
\* set of ids.
THEOREM OnlyAwaitedAnswers == Spec => []NoCrossTalk
<1>1. Init => HelperShapes /\ WayInv
  BY WayInit
<1>2. (HelperShapes /\ WayInv) /\ [Next]_vars => (HelperShapes /\ WayInv)'
  BY WayStep, WireAssumption
<1>3. WayInv => NoCrossTalk
  BY DEF WayInv
<1> QED
  BY <1>1, <1>2, <1>3, PTL DEF Spec

-----------------------------------------------------------------------------
(* What the observer makes of a message *)

\* A connection and the length of the queue, while messages are parsed.
Heard == [c : Connection, n : 0 .. MaxEvents - 1]

\* A row changes the protocol record of a connection and nothing else, and never
\* lets a refuted record count again.
Kept(c, d) ==
    /\ d \in Connection /\ d.state = c.state /\ d.valid = c.valid /\ d.over = c.over
    /\ d.published = c.published /\ (d.ok => c.ok)

\* What a message did (Happened), by the method m its id was pending for.
Did(m, p, x) ==
    LET answers == x.kind = "answer" /\ x.ok
    IN  [p EXCEPT !.turn = @ \/ (x.kind = "request" /\ x.method = "turn/start"),
                  !.home = @ \/ (answers /\ m = "initialize" /\ x.thread = NoThread),
                  !.threads = IF answers /\ m = "thread/start" THEN @ \cup {x.thread} ELSE @,
                  !.resumed = @ \/ (answers /\ m = "thread/resume" /\ x.thread = Expected),
                  !.listed = @ \/ (answers /\ m = "skills/list" /\ p.resumed),
                  !.announced = IF x.kind = "started" THEN @ \cup {x.thread} ELSE @]

\* The history only grows, and each field by what it is named for.
LEMMA DidFields ==
    ASSUME NEW p \in Past, NEW x \in OwnerMessage, NEW m \in Method \cup {NoMethod}
    PROVE  LET q == Did(m, p, x) IN
           /\ q \in Past
           /\ q.turn = (p.turn \/ (x.kind = "request" /\ x.method = "turn/start"))
           /\ p.home => q.home
           /\ x.kind = "answer" /\ x.ok /\ m = "initialize" /\ x.thread = NoThread => q.home
           /\ p.threads \subseteq q.threads
           /\ x.kind = "answer" /\ x.ok /\ m = "thread/start" => x.thread \in q.threads
           /\ p.resumed => q.resumed
           /\ x.kind = "answer" /\ x.ok /\ m = "thread/resume" /\ x.thread = Expected => q.resumed
           /\ p.listed => q.listed
           /\ x.kind = "answer" /\ x.ok /\ m = "skills/list" /\ p.resumed => q.listed
           /\ p.announced \subseteq q.announced
           /\ x.kind = "started" => x.thread \in q.announced
<1> DEFINE q == Did(m, p, x)
<1>1. q \in Past
  <2> DEFINE answers == x.kind = "answer" /\ x.ok
             turn == p.turn \/ (x.kind = "request" /\ x.method = "turn/start")
             home == p.home \/ (answers /\ m = "initialize" /\ x.thread = NoThread)
             threads == IF answers /\ m = "thread/start"
                          THEN p.threads \cup {x.thread} ELSE p.threads
             resumed == p.resumed \/ (answers /\ m = "thread/resume" /\ x.thread = Expected)
             listed == p.listed \/ (answers /\ m = "skills/list" /\ p.resumed)
             announced == IF x.kind = "started" THEN p.announced \cup {x.thread} ELSE p.announced
  <2>1. turn \in BOOLEAN /\ home \in BOOLEAN /\ resumed \in BOOLEAN /\ listed \in BOOLEAN
    BY DEF Past
  <2>2. x.thread \in Thread \cup {NoThread}
    BY DEF OwnerMessage
  <2>3. threads \subseteq Thread \cup {NoThread} /\ announced \subseteq Thread \cup {NoThread}
    BY <2>2 DEF Past
  <2>4. q = [p EXCEPT !.turn = turn, !.home = home, !.threads = threads, !.resumed = resumed,
                      !.listed = listed, !.announced = announced]
    BY DEF Did, Past
  <2> HIDE DEF q, turn, home, threads, resumed, listed, announced
  <2> QED
    BY <2>1, <2>3, <2>4, ZenonT(60) DEF Past
<1>2. /\ q.turn = (p.turn \/ (x.kind = "request" /\ x.method = "turn/start"))
      /\ q.home = (p.home \/ (x.kind = "answer" /\ x.ok /\ m = "initialize" /\ x.thread = NoThread))
      /\ q.threads = IF x.kind = "answer" /\ x.ok /\ m = "thread/start"
                       THEN p.threads \cup {x.thread} ELSE p.threads
  BY DEF Did, Past
<1>3. /\ q.resumed = (p.resumed \/ (x.kind = "answer" /\ x.ok /\ m = "thread/resume" /\ x.thread = Expected))
      /\ q.listed = (p.listed \/ (x.kind = "answer" /\ x.ok /\ m = "skills/list" /\ p.resumed))
      /\ q.announced = IF x.kind = "started" THEN p.announced \cup {x.thread} ELSE p.announced
  BY DEF Did, Past
<1> QED
  BY <1>1, <1>2, <1>3

\* What a record says stays grounded while the history grows without a turn.
LEMMA GroundedGrows ==
    ASSUME NEW c \in Connection, NEW p \in Past, NEW q \in Past, NEW r \in BOOLEAN,
           Grounded(c, p, r), q.turn => p.turn \/ c.turns,
           p.home => q.home, p.threads \subseteq q.threads, p.resumed => q.resumed,
           p.listed => q.listed, p.announced \subseteq q.announced
    PROVE  Grounded(c, q, r)
BY DEF Grounded

\* What Forget leaves alone.
LEMMA ForgetFields ==
    ASSUME NEW c \in Connection
    PROVE  /\ Forget(c) \in Connection /\ ~Forget(c).valid
           /\ Forget(c).state = c.state /\ Forget(c).over = c.over /\ Forget(c).ok = c.ok
           /\ Forget(c).published = c.published
BY DEF Forget, Connection

\* What Refute leaves alone.
LEMMA RefuteFields ==
    ASSUME NEW c \in Connection
    PROVE  /\ Refute(c) \in Connection /\ ~Refute(c).ok
           /\ Refute(c).state = c.state /\ Refute(c).over = c.over /\ Refute(c).valid = c.valid
           /\ Refute(c).published = c.published
BY DEF Refute, Connection

\* The connection and the queue after a row: what the caller made of the
\* connection, or a refuted one.
LEMMA EmitGood ==
    ASSUME NEW s \in Heard, NEW d \in Connection, NEW q \in Past, NEW r \in BOOLEAN,
           s.c.over => ~s.c.ok, Readable(d), d.ok => Grounded(d, q, r),
           d.state = s.c.state, d.published = s.c.published
    PROVE  LET e == Emit(s, d) IN
           /\ e \in Heard /\ e.c.state = s.c.state /\ e.c.published = s.c.published
           /\ Readable(e.c) /\ (e.c.ok => Grounded(e.c, q, r))
<1> DEFINE e == Emit(s, d)
<1>1. s.c \in Connection /\ s.n \in 0 .. MaxEvents - 1 /\ MaxEvents \in Nat
  BY WireAssumption DEF Heard
<1>2. CASE s.c.over
  <2>1. e = s /\ ~s.c.ok
    BY <1>2 DEF Emit
  <2> QED
    BY <1>2, <2>1 DEF Readable
<1>3. CASE ~s.c.over /\ s.n >= MaxEvents - 1
  <2> DEFINE f == [Forget(s.c) EXCEPT !.over = TRUE]
  <2>1. e = [s EXCEPT !.c = Refute(f)]
    BY <1>3 DEF Emit
  <2>2. f \in Connection /\ f.state = s.c.state /\ f.published = s.c.published
    <3>1. Forget(s.c) \in Connection /\ Forget(s.c).state = s.c.state
          /\ Forget(s.c).published = s.c.published
      BY <1>1, ForgetFields
    <3> QED
      BY <3>1 DEF Connection
  <2> HIDE DEF f
  <2>3. /\ Refute(f) \in Connection /\ ~Refute(f).ok
        /\ Refute(f).state = s.c.state /\ Refute(f).published = s.c.published
    BY <2>2, RefuteFields
  <2>4. e \in Heard /\ e.c = Refute(f)
    BY <1>1, <2>1, <2>3 DEF Heard
  <2> QED
    BY <2>3, <2>4 DEF Readable
<1>4. CASE ~s.c.over /\ ~(s.n >= MaxEvents - 1)
  <2>1. e = [c |-> d, n |-> s.n + 1]
    BY <1>4 DEF Emit
  <2>2. s.n + 1 \in 0 .. MaxEvents - 1
    BY <1>1, <1>4
  <2>3. e \in Heard /\ e.c = d
    BY <2>1, <2>2 DEF Heard
  <2> QED
    BY <2>3
<1> QED
  BY <1>2, <1>3, <1>4

\* A gap costs the connection its validity and its record.
LEMMA GapGood ==
    ASSUME NEW s \in Heard, NEW q \in Past, NEW r \in BOOLEAN, Readable(s.c)
    PROVE  LET e == GapRow(s) IN
           /\ e \in Heard /\ e.c.state = s.c.state /\ e.c.published = s.c.published
           /\ Readable(e.c) /\ (e.c.ok => Grounded(e.c, q, r))
<1> DEFINE f == Forget(s.c)
           s2 == [s EXCEPT !.c = f]
           d == Refute(f)
<1>1. s.c \in Connection
  BY DEF Heard
<1>2. f \in Connection /\ f.state = s.c.state /\ f.over = s.c.over /\ f.ok = s.c.ok
      /\ f.published = s.c.published
  BY <1>1, ForgetFields
<1>3. GapRow(s) = Emit(s2, d)
  BY DEF GapRow
<1> HIDE DEF f
<1>4. s2 \in Heard /\ s2.c = f
  BY <1>2 DEF Heard
<1> HIDE DEF s2
<1>5. d \in Connection /\ ~d.ok /\ d.state = f.state /\ d.published = f.published
  BY <1>2, RefuteFields
<1> HIDE DEF d
<1>6. Readable(d) /\ (s2.c.over => ~s2.c.ok)
  BY <1>2, <1>4, <1>5 DEF Readable
<1>7. LET e == Emit(s2, d) IN
      /\ e \in Heard /\ e.c.state = s2.c.state /\ e.c.published = s2.c.published
      /\ Readable(e.c) /\ (e.c.ok => Grounded(e.c, q, r))
  BY <1>2, <1>4, <1>5, <1>6, EmitGood
<1> QED
  BY <1>2, <1>3, <1>4, <1>7

\* A row that keeps validity keeps a connection readable.
LEMMA KeptReadable ==
    ASSUME NEW c \in Connection, NEW d, Readable(c), Kept(c, d)
    PROVE  Readable(d)
BY DEF Readable, Kept, Connection

\* A request: what it asks for is noted, and a turn is counted.
LEMMA RequestGood ==
    ASSUME NEW c \in Connection, NEW p \in Past, NEW r \in BOOLEAN, NEW x \in OwnerMessage,
           NEW m \in Method \cup {NoMethod}, x.kind = "request", c.ok => Grounded(c, p, r)
    PROVE  LET d == RequestRow([c EXCEPT !.pending[x.id] = x.method], r, x) IN
           Kept(c, d) /\ (d.ok => Grounded(d, Did(m, p, x), r))
<1> DEFINE taken == [c EXCEPT !.pending[x.id] = x.method]
           d == RequestRow(taken, r, x)
           q == Did(m, p, x)
<1> SUFFICES Kept(c, d) /\ (d.ok => Grounded(d, q, r))
  OBVIOUS
<1>1. /\ taken \in Connection
      /\ \A f \in DOMAIN NoConnection \ {"pending"} : taken[f] = c[f]
      /\ taken.pending = [c.pending EXCEPT ![x.id] = x.method]
  BY DEF Connection, OwnerMessage, NoConnection
<1>2. /\ taken.ok = c.ok /\ taken.init = c.init /\ taken.inited = c.inited
      /\ taken.thread = c.thread /\ taken.announced = c.announced
      /\ taken.resumed = c.resumed /\ taken.skills = c.skills /\ taken.barrier = c.barrier
      /\ taken.turns = c.turns /\ taken.asked = c.asked /\ taken.state = c.state
      /\ taken.valid = c.valid /\ taken.over = c.over /\ taken.published = c.published
  BY DEF Connection
<1> HIDE DEF taken
<1>3. /\ q \in Past
      /\ q.turn = (p.turn \/ x.method = "turn/start")
      /\ p.home => q.home
      /\ p.threads \subseteq q.threads
      /\ p.resumed => q.resumed
      /\ p.listed => q.listed
      /\ p.announced \subseteq q.announced
  BY DidFields
<1>d. d = RequestRow(taken, r, x)
  OBVIOUS
<1> HIDE DEF q, d
<1>4. x.id \in Id /\ x.method \in Method \cup {NoMethod} /\ x.thread \in Thread \cup {NoThread}
  BY DEF OwnerMessage
<1>5. \A i \in Id : taken.pending[i] = "thread/start" =>
        c.pending[i] = "thread/start" \/ x.method = "thread/start"
  BY <1>1, <1>4 DEF Connection
<1>6. CASE x.method = "initialize"
  <2>1. d = [taken EXCEPT !.ok = @ /\ taken.init = "no", !.init = IF @ = "no" THEN "asked" ELSE @]
    BY <1>d, <1>6 DEF RequestRow
  <2> DEFINE ok == taken.ok /\ taken.init = "no"
             init == IF taken.init = "no" THEN "asked" ELSE taken.init
  <2>2. ok \in BOOLEAN /\ (ok => c.ok)
    BY <1>1, <1>2 DEF Connection
  <2>3. init \in {"no", "asked", "home", "wrong"} /\ (init = "home" => c.init = "home")
    BY <1>1, <1>2 DEF Connection
  <2>4. d = [taken EXCEPT !.ok = ok, !.init = init]
    BY <1>1, <2>1 DEF Connection
  <2> HIDE DEF ok, init
  <2>5. Kept(c, d)
    BY <1>1, <1>2, <2>2, <2>3, <2>4, ZenonT(60) DEF Kept, Connection
  <2>6. /\ d.ok = ok /\ d.init = init /\ d.thread = c.thread /\ d.announced = c.announced
        /\ d.resumed = c.resumed /\ d.skills = c.skills /\ d.barrier = c.barrier
        /\ d.turns = c.turns /\ d.pending = taken.pending
    BY <1>1, <1>2, <2>4 DEF Connection
  <2>7. d.ok => Grounded(d, q, r)
    BY <1>3, <1>5, <1>6, <2>2, <2>3, <2>6 DEF Grounded
  <2> QED
    BY <2>5, <2>7
<1>7. CASE x.method = "thread/start"
  <2>1. d = [taken EXCEPT !.ok = @ /\ ~r /\ taken.inited /\ taken.thread = NoThread
                                   /\ x.thread = NoThread,
                          !.asked = {x.id}]
    BY <1>d, <1>7 DEF RequestRow
  <2> DEFINE ok == taken.ok /\ ~r /\ taken.inited /\ taken.thread = NoThread
                     /\ x.thread = NoThread
  <2>2. ok \in BOOLEAN /\ (ok => c.ok /\ ~r)
    BY <1>1, <1>2 DEF Connection
  <2>3. d = [taken EXCEPT !.ok = ok, !.asked = {x.id}]
    BY <1>1, <2>1 DEF Connection
  <2> HIDE DEF ok
  <2>4. Kept(c, d)
    BY <1>1, <1>2, <1>4, <2>2, <2>3, ZenonT(60) DEF Kept, Connection
  <2>5. /\ d.ok = ok /\ d.init = c.init /\ d.thread = c.thread /\ d.announced = c.announced
        /\ d.resumed = c.resumed /\ d.skills = c.skills /\ d.barrier = c.barrier
        /\ d.turns = c.turns /\ d.pending = taken.pending
    BY <1>1, <1>2, <2>3 DEF Connection
  <2>6. d.ok => Grounded(d, q, r)
    BY <1>3, <1>5, <1>7, <2>2, <2>5 DEF Grounded
  <2> QED
    BY <2>4, <2>6
<1>8. CASE x.method = "thread/resume"
  <2>1. d = [taken EXCEPT !.ok = @ /\ r /\ taken.inited /\ taken.asked = {} /\ x.thread = Expected,
                          !.asked = {x.id}]
    BY <1>d, <1>8 DEF RequestRow
  <2> DEFINE ok == taken.ok /\ r /\ taken.inited /\ taken.asked = {} /\ x.thread = Expected
  <2>2. ok \in BOOLEAN /\ (ok => c.ok)
    BY <1>1, <1>2 DEF Connection
  <2>3. d = [taken EXCEPT !.ok = ok, !.asked = {x.id}]
    BY <1>1, <2>1 DEF Connection
  <2> HIDE DEF ok
  <2>4. Kept(c, d)
    BY <1>1, <1>2, <1>4, <2>2, <2>3, ZenonT(60) DEF Kept, Connection
  <2>5. /\ d.ok = ok /\ d.init = c.init /\ d.thread = c.thread /\ d.announced = c.announced
        /\ d.resumed = c.resumed /\ d.skills = c.skills /\ d.barrier = c.barrier
        /\ d.turns = c.turns /\ d.pending = taken.pending
    BY <1>1, <1>2, <2>3 DEF Connection
  <2>6. d.ok => Grounded(d, q, r)
    BY <1>3, <1>5, <1>8, <2>2, <2>5 DEF Grounded
  <2> QED
    BY <2>4, <2>6
<1>9. CASE x.method = "skills/list" /\ taken.resumed
  <2>1. d = [taken EXCEPT !.skills = @ \cup {x.id}]
    BY <1>d, <1>9 DEF RequestRow
  <2>2. Kept(c, d)
    BY <1>1, <1>2, <1>4, <2>1 DEF Kept, Connection
  <2>3. /\ d.ok = c.ok /\ d.init = c.init /\ d.thread = c.thread /\ d.announced = c.announced
        /\ d.resumed = c.resumed /\ d.barrier = c.barrier
        /\ d.turns = c.turns /\ d.pending = taken.pending
    BY <1>1, <1>2, <2>1 DEF Connection
  <2>4. d.ok => Grounded(d, q, r)
    BY <1>2, <1>3, <1>5, <1>9, <2>3, ZenonT(60) DEF Grounded
  <2> QED
    BY <2>2, <2>4
<1>10. CASE x.method = "turn/start"
  <2>1. d = [taken EXCEPT !.turns = TRUE]
    BY <1>d, <1>10 DEF RequestRow
  <2>2. Kept(c, d)
    BY <1>1, <1>2, <1>4, <2>1 DEF Kept, Connection
  <2>3. /\ d.ok = c.ok /\ d.init = c.init /\ d.thread = c.thread /\ d.announced = c.announced
        /\ d.resumed = c.resumed /\ d.skills = c.skills /\ d.barrier = c.barrier
        /\ d.turns /\ d.pending = taken.pending
    BY <1>1, <1>2, <2>1 DEF Connection
  <2>4. d.ok => Grounded(d, q, r)
    BY <1>2, <1>3, <1>5, <1>10, <2>3 DEF Grounded
  <2> QED
    BY <2>2, <2>4
<1>11. CASE x.method \notin {"initialize", "thread/start", "thread/resume", "turn/start"}
            /\ ~(x.method = "skills/list" /\ taken.resumed)
  <2>1. d = taken
    BY <1>d, <1>11 DEF RequestRow
  <2>2. Kept(c, d)
    BY <1>1, <1>2, <2>1 DEF Kept
  <2>3. d.ok => c.ok
    BY <2>2 DEF Kept
  <2>4. d.ok => Grounded(taken, q, r)
    BY <1>2, <1>3, <1>5, <1>11, <2>3 DEF Grounded
  <2> QED
    BY <2>1, <2>2, <2>4
<1> QED
  BY <1>6, <1>7, <1>8, <1>9, <1>10, <1>11

\* An answer to a request under way: the thread it gives, the resume it grants
\* and the skills it lists.
LEMMA AnswerGood ==
    ASSUME NEW c \in Connection, NEW p \in Past, NEW r \in BOOLEAN, NEW x \in OwnerMessage,
           x.kind = "answer", c.ok => Grounded(c, p, r)
    PROVE  LET m == c.pending[x.id]
               d == ResponseRow([c EXCEPT !.pending[x.id] = NoMethod], r, m, x) IN
           Kept(c, d) /\ (d.ok => Grounded(d, Did(m, p, x), r))
<1> DEFINE m == c.pending[x.id]
           freed == [c EXCEPT !.pending[x.id] = NoMethod]
           d == ResponseRow(freed, r, m, x)
           q == Did(m, p, x)
<1> SUFFICES Kept(c, d) /\ (d.ok => Grounded(d, q, r))
  OBVIOUS
<1>1. freed \in Connection /\ freed.pending = [c.pending EXCEPT ![x.id] = NoMethod]
  BY DEF Connection, OwnerMessage
<1>2. /\ freed.ok = c.ok /\ freed.init = c.init /\ freed.inited = c.inited
      /\ freed.thread = c.thread /\ freed.announced = c.announced
      /\ freed.resumed = c.resumed /\ freed.skills = c.skills /\ freed.barrier = c.barrier
      /\ freed.turns = c.turns /\ freed.asked = c.asked /\ freed.state = c.state
      /\ freed.valid = c.valid /\ freed.over = c.over /\ freed.published = c.published
  BY DEF Connection
<1>3. x.id \in Id /\ x.thread \in Thread \cup {NoThread} /\ x.ok \in BOOLEAN
      /\ m \in Method \cup {NoMethod}
  BY DEF OwnerMessage, Connection
<1>4. \A i \in Id : freed.pending[i] = "thread/start" => c.pending[i] = "thread/start"
  BY <1>1, <1>3 DEF Connection, NoMethod
<1> HIDE DEF freed
<1>5. /\ q \in Past
      /\ q.turn = p.turn
      /\ p.home => q.home
      /\ p.threads \subseteq q.threads
      /\ x.ok /\ m = "thread/start" => x.thread \in q.threads
      /\ p.resumed => q.resumed
      /\ x.ok /\ m = "thread/resume" /\ x.thread = Expected => q.resumed
      /\ p.listed => q.listed
      /\ x.ok /\ m = "skills/list" /\ p.resumed => q.listed
      /\ p.announced \subseteq q.announced
  BY <1>3, DidFields DEF Past
<1>6. c.ok /\ r => m # "thread/start"
  BY <1>3 DEF Grounded
<1>d. d = ResponseRow(freed, r, m, x)
  OBVIOUS
<1> HIDE DEF q, m, d
<1>7. Refute(freed) \in Connection /\ Kept(c, Refute(freed)) /\ ~Refute(freed).ok
  BY <1>1, <1>2, RefuteFields DEF Kept
<1>8. Kept(c, freed) /\ (freed.ok => Grounded(freed, q, r))
  BY <1>1, <1>2, <1>4, <1>5 DEF Kept, Grounded
<1>9. CASE m = "thread/start" /\ x.ok
  <2>1. CASE x.id \in freed.asked /\ x.thread # NoThread /\ freed.thread = NoThread
    <3>1. d = [freed EXCEPT !.thread = x.thread]
      BY <1>d, <1>9, <2>1 DEF ResponseRow
    <3>2. Kept(c, d)
      BY <1>1, <1>2, <1>3, <3>1 DEF Kept, Connection
    <3>3. /\ d.ok = c.ok /\ d.init = c.init /\ d.thread = x.thread /\ d.announced = c.announced
          /\ d.resumed = c.resumed /\ d.skills = c.skills /\ d.barrier = c.barrier
          /\ d.turns = c.turns /\ d.pending = freed.pending
      BY <1>1, <1>2, <3>1 DEF Connection
    <3>4. d.ok => ~r /\ c.thread = NoThread /\ Grounded(c, p, r)
      BY <1>2, <1>6, <1>9, <2>1, <3>3
    <3>5. d.ok => ~c.announced /\ ~c.resumed /\ x.thread \in q.threads
      BY <1>5, <1>9, <3>4 DEF Grounded
    <3>6. d.ok => Grounded(d, q, r)
      BY <1>5, <3>3, <3>4, <3>5 DEF Grounded
    <3> QED
      BY <3>2, <3>6
  <2>2. CASE ~(x.id \in freed.asked /\ x.thread # NoThread /\ freed.thread = NoThread)
    BY <1>d, <1>7, <1>9, <2>2 DEF ResponseRow
  <2> QED
    BY <2>1, <2>2
<1>10. CASE m = "thread/resume"
  <2>1. CASE x.ok /\ x.id \in freed.asked /\ ~freed.resumed /\ r /\ x.thread = Expected
    <3>1. d = [freed EXCEPT !.thread = x.thread, !.resumed = TRUE]
      BY <1>d, <1>10, <2>1 DEF ResponseRow
    <3>2. Kept(c, d)
      BY <1>1, <1>2, <1>3, <3>1 DEF Kept, Connection
    <3>3. /\ d.ok = c.ok /\ d.init = c.init /\ d.thread = Expected /\ d.announced = c.announced
          /\ d.resumed /\ d.skills = c.skills /\ d.barrier = c.barrier
          /\ d.turns = c.turns /\ d.pending = freed.pending
      BY <1>1, <1>2, <2>1, <3>1 DEF Connection
    <3>4. d.ok => r /\ ~c.resumed /\ Grounded(c, p, r) /\ q.resumed
      BY <1>2, <1>5, <1>10, <2>1, <3>3
    <3>5. d.ok => ~c.announced /\ c.skills = {} /\ ~c.barrier
      BY <3>4 DEF Grounded, Connection
    <3>6. d.ok => Grounded(d, q, r)
      BY <1>4, <1>5, <3>3, <3>4, <3>5 DEF Grounded
    <3> QED
      BY <3>2, <3>6
  <2>2. CASE ~(x.ok /\ x.id \in freed.asked /\ ~freed.resumed /\ r /\ x.thread = Expected)
    BY <1>d, <1>7, <1>10, <2>2 DEF ResponseRow
  <2> QED
    BY <2>1, <2>2
<1>11. CASE m = "skills/list" /\ x.id \in freed.skills
  <2>1. CASE x.ok
    <3>1. d = [freed EXCEPT !.skills = @ \ {x.id}, !.barrier = TRUE]
      BY <1>d, <1>11, <2>1 DEF ResponseRow
    <3>2. Kept(c, d)
      BY <1>1, <1>2, <3>1 DEF Kept, Connection
    <3>3. /\ d.ok = c.ok /\ d.init = c.init /\ d.thread = c.thread /\ d.announced = c.announced
          /\ d.resumed = c.resumed /\ d.skills \subseteq c.skills /\ d.barrier
          /\ d.turns = c.turns /\ d.pending = freed.pending
      BY <1>1, <1>2, <3>1 DEF Connection
    <3>4. d.ok => c.resumed /\ q.listed
      BY <1>2, <1>5, <1>11, <2>1, <3>3 DEF Grounded
    <3>5. d.ok => Grounded(d, q, r)
      BY <1>4, <1>5, <3>3, <3>4 DEF Grounded
    <3> QED
      BY <3>2, <3>5
  <2>2. CASE ~x.ok
    <3> DEFINE less == [freed EXCEPT !.skills = @ \ {x.id}]
    <3>1. d = Refute(less)
      BY <1>d, <1>11, <2>2 DEF ResponseRow
    <3>2. Kept(c, less)
      BY <1>1, <1>2 DEF Kept, Connection
    <3> HIDE DEF less
    <3>3. Kept(c, d) /\ ~d.ok
      BY <3>1, <3>2, RefuteFields DEF Kept
    <3> QED
      BY <3>3
  <2> QED
    BY <2>1, <2>2
<1>12. CASE /\ ~(m = "thread/start" /\ x.ok) /\ m # "thread/resume"
            /\ ~(m = "skills/list" /\ x.id \in freed.skills)
  BY <1>d, <1>8, <1>12 DEF ResponseRow
<1> QED
  BY <1>9, <1>10, <1>11, <1>12

\* A message without an id: the frontend's initialized, the announced thread.
LEMMA NoticeGood ==
    ASSUME NEW c \in Connection, NEW p \in Past, NEW r \in BOOLEAN, NEW x \in OwnerMessage,
           NEW m \in Method \cup {NoMethod}, x.kind \notin {"request", "answer"},
           c.ok => Grounded(c, p, r)
    PROVE  Kept(c, NoticeRow(c, x)) /\
             (NoticeRow(c, x).ok => Grounded(NoticeRow(c, x), Did(m, p, x), r))
<1> DEFINE d == NoticeRow(c, x)
           q == Did(m, p, x)
<1>1. /\ q \in Past /\ q.turn = p.turn
      /\ p.home => q.home
      /\ p.threads \subseteq q.threads
      /\ p.resumed => q.resumed
      /\ p.listed => q.listed
      /\ p.announced \subseteq q.announced
      /\ x.kind = "started" => x.thread \in q.announced
  BY DidFields DEF Past
<1>2. Kept(c, c) /\ (c.ok => Grounded(c, q, r))
  BY <1>1, GroundedGrows DEF Kept
<1>d. d = NoticeRow(c, x)
  OBVIOUS
<1> SUFFICES Kept(c, d) /\ (d.ok => Grounded(d, q, r))
  OBVIOUS
<1> HIDE DEF d, q
<1>3. CASE x.kind = "initialized"
  <2> DEFINE ok == c.ok /\ ~c.inited /\ c.init = "home"
  <2>1. ok \in BOOLEAN /\ (ok => c.ok)
    BY DEF Connection
  <2>2. d = [c EXCEPT !.ok = ok, !.inited = TRUE]
    BY <1>d, <1>3 DEF NoticeRow, Connection
  <2> HIDE DEF ok
  <2>3. Kept(c, d)
    BY <2>1, <2>2, ZenonT(60) DEF Kept, Connection
  <2>4. /\ d.ok = ok /\ d.init = c.init /\ d.thread = c.thread /\ d.announced = c.announced
        /\ d.resumed = c.resumed /\ d.skills = c.skills /\ d.barrier = c.barrier
        /\ d.turns = c.turns /\ d.pending = c.pending
    BY <2>2 DEF Connection
  <2>5. d.ok => Grounded(d, q, r)
    BY <1>2, <2>1, <2>4 DEF Grounded
  <2> QED
    BY <2>3, <2>5
<1>4. CASE x.kind = "started" /\ c.thread # NoThread /\ c.thread = x.thread /\ ~c.announced
  <2>1. d = [c EXCEPT !.announced = TRUE]
    BY <1>d, <1>4 DEF NoticeRow
  <2>2. Kept(c, d)
    BY <2>1 DEF Kept, Connection
  <2>3. /\ d.ok = c.ok /\ d.init = c.init /\ d.thread = c.thread /\ d.announced
        /\ d.resumed = c.resumed /\ d.skills = c.skills /\ d.barrier = c.barrier
        /\ d.turns = c.turns /\ d.pending = c.pending
    BY <2>1 DEF Connection
  <2>4. d.ok => Grounded(d, q, r)
    BY <1>1, <1>2, <1>4, <2>3 DEF Grounded
  <2> QED
    BY <2>2, <2>4
<1>5. CASE x.kind = "started" /\ ~(c.thread # NoThread /\ c.thread = x.thread /\ ~c.announced)
  <2>1. d = Refute(c)
    BY <1>d, <1>5 DEF NoticeRow
  <2> QED
    BY <2>1, RefuteFields DEF Kept
<1>6. CASE x.kind \notin {"initialized", "started"}
  <2>1. d = c
    BY <1>d, <1>6 DEF NoticeRow
  <2> QED
    BY <1>2, <2>1
<1> QED
  BY <1>3, <1>4, <1>5, <1>6

\* The initialize answer: the home it names.
LEMMA HomeGood ==
    ASSUME NEW c \in Connection, NEW q \in Past, NEW r \in BOOLEAN, NEW x \in OwnerMessage,
           x.thread = NoThread => q.home, c.ok => Grounded(c, q, r)
    PROVE  Kept(c, HomeRow(c, x)) /\ (HomeRow(c, x).ok => Grounded(HomeRow(c, x), q, r))
<1> DEFINE d == HomeRow(c, x)
           ok == c.ok /\ x.thread = NoThread
           init == IF x.thread = NoThread THEN "home" ELSE "wrong"
<1>1. ok \in BOOLEAN /\ (ok => c.ok)
  BY DEF Connection
<1>2. init \in {"no", "asked", "home", "wrong"} /\ (init = "home" => q.home)
  OBVIOUS
<1>3. d = [c EXCEPT !.init = init, !.ok = ok]
  BY DEF HomeRow, Connection
<1> SUFFICES Kept(c, d) /\ (d.ok => Grounded(d, q, r))
  OBVIOUS
<1> HIDE DEF d, ok, init
<1>4. Kept(c, d)
  BY <1>1, <1>2, <1>3 DEF Kept, Connection
<1>5. /\ d.ok = ok /\ d.init = init /\ d.thread = c.thread /\ d.announced = c.announced
      /\ d.resumed = c.resumed /\ d.skills = c.skills /\ d.barrier = c.barrier
      /\ d.turns = c.turns /\ d.pending = c.pending
  BY <1>3 DEF Connection
<1>6. d.ok => Grounded(d, q, r)
  BY <1>1, <1>2, <1>5 DEF Grounded
<1> QED
  BY <1>4, <1>6

\* What parsing keeps: its state, its receipt, and what its record rests on.
Sound(s, t, q, r) ==
    /\ t \in Heard /\ t.c.state = s.c.state /\ t.c.published = s.c.published
    /\ Readable(t.c) /\ (t.c.ok => Grounded(t.c, q, r))

\* A row of a kept connection, heard by a connection that still has its own record.
LEMMA KeptEmitted ==
    ASSUME NEW s \in Heard, NEW d, NEW q \in Past, NEW r \in BOOLEAN,
           Readable(s.c), Kept(s.c, d), d.ok => Grounded(d, q, r)
    PROVE  Sound(s, Emit(s, d), q, r)
<1>1. s.c \in Connection
  BY DEF Heard
<1>2. d \in Connection /\ Readable(d) /\ d.state = s.c.state /\ d.published = s.c.published
  BY <1>1, KeptReadable DEF Kept
<1>3. s.c.over => ~s.c.ok
  BY DEF Readable
<1> QED
  BY <1>2, <1>3, EmitGood DEF Sound

\* A whole message (_parse_frames, _process_rpc) leaves the record grounded in
\* the history with that message.
LEMMA ParseSound ==
    ASSUME NEW s \in Heard, NEW p \in Past, NEW r \in BOOLEAN, NEW x \in OwnerMessage,
           s.c.state = "open", Readable(s.c), s.c.ok => Grounded(s.c, p, r)
    PROVE  Sound(s, Parse(s, r, x), Did(s.c.pending[x.id], p, x), r)
<1> DEFINE c == s.c
           m == c.pending[x.id]
           q == Did(m, p, x)
           taken == [c EXCEPT !.pending[x.id] = x.method]
           freed == [c EXCEPT !.pending[x.id] = NoMethod]
<1>1. c \in Connection /\ x.id \in Id /\ m \in Method \cup {NoMethod}
      /\ x.method \in Method \cup {NoMethod} /\ x.kind \in Kind
  BY DEF Heard, Connection, OwnerMessage
<1>2. q \in Past
  BY <1>1, DidFields
<1>3. taken \in Connection /\ Kept(c, taken) /\ freed \in Connection /\ Kept(c, freed)
  BY <1>1 DEF Kept, Connection, NoMethod
<1>4. \A d : [s EXCEPT !.c = d].c = d /\ [s EXCEPT !.c = d].n = s.n
  BY DEF Heard
<1>5. \A d \in Connection : [s EXCEPT !.c = d] \in Heard
  BY DEF Heard
<1>6. CASE ~c.valid
  <2>1. Parse(s, r, x) = s
    BY <1>6 DEF Parse
  <2>2. ~c.ok
    BY <1>1, <1>6 DEF Readable, Connection
  <2> QED
    BY <2>1, <2>2 DEF Sound
<1>7. CASE c.valid /\ x.kind = "bad"
  <2>1. Parse(s, r, x) = GapRow(s)
    BY <1>7 DEF Parse
  <2> QED
    BY <1>2, <2>1, GapGood DEF Sound
<1>8. CASE c.valid /\ x.kind = "upgrade"
  <2> DEFINE d == [c EXCEPT !.up = @ \cup {x.leg}]
  <2>1. Parse(s, r, x) = Emit(s, d)
    BY <1>8 DEF Parse
  <2>2. Kept(c, d)
    BY <1>1 DEF Kept, Connection, OwnerMessage
  <2>3. /\ d.ok = c.ok /\ d.init = c.init /\ d.thread = c.thread /\ d.announced = c.announced
        /\ d.resumed = c.resumed /\ d.skills = c.skills /\ d.barrier = c.barrier
        /\ d.turns = c.turns /\ d.pending = c.pending
    BY <1>1 DEF Connection
  <2> HIDE DEF d
  <2>4. /\ q.turn = p.turn /\ (p.home => q.home) /\ p.threads \subseteq q.threads
        /\ (p.resumed => q.resumed) /\ (p.listed => q.listed)
        /\ p.announced \subseteq q.announced
    BY <1>1, <1>8, DidFields DEF Past
  <2> HIDE DEF q
  <2>5. d.ok => Grounded(d, q, r)
    BY <2>3, <2>4 DEF Grounded
  <2>6. Sound(s, Emit(s, d), q, r)
    BY <1>2, <2>2, <2>5, KeptEmitted
  <2> QED
    BY <2>1, <2>6 DEF q
<1>9. CASE c.valid /\ x.kind = "request"
  <2>1. CASE m # NoMethod
    <3>1. Parse(s, r, x) = GapRow(s)
      BY <1>9, <2>1 DEF Parse
    <3> QED
      BY <1>2, <3>1, GapGood DEF Sound
  <2>2. CASE m = NoMethod
    <3> DEFINE d == RequestRow(taken, r, x)
               s2 == [s EXCEPT !.c = taken]
    <3>1. Parse(s, r, x) = Emit(s2, d)
      BY <1>9, <2>2, SMTT(30) DEF Parse
    <3>2. Kept(c, d) /\ (d.ok => Grounded(d, q, r))
      BY <1>1, <1>9, RequestGood, SMTT(30)
    <3>3. s2 \in Heard /\ s2.c = taken
      BY <1>3, <1>4, <1>5
    <3> HIDE DEF s2, d
    <3>4. Readable(taken) /\ Kept(taken, d) /\ taken.ok = c.ok
      BY <1>1, <1>3, <3>2, KeptReadable DEF Kept, Connection
    <3>5. Sound(s2, Emit(s2, d), q, r)
      BY <1>2, <3>2, <3>3, <3>4, KeptEmitted
    <3>6. s2.c.state = c.state /\ s2.c.published = c.published
      BY <1>3, <3>3 DEF Kept
    <3> QED
      BY <3>1, <3>5, <3>6 DEF Sound
  <2> QED
    BY <2>1, <2>2
<1>10. CASE c.valid /\ x.kind = "answer"
  <2>1. CASE m = NoMethod
    <3>1. Parse(s, r, x) = Emit(s, Refute(c))
      BY <1>10, <2>1 DEF Parse
    <3>2. Kept(c, Refute(c)) /\ ~Refute(c).ok
      BY <1>1, RefuteFields DEF Kept
    <3> QED
      BY <1>2, <3>1, <3>2, KeptEmitted
  <2>2. CASE m # NoMethod
    <3> DEFINE d == ResponseRow(freed, r, m, x)
               s2 == [s EXCEPT !.c = freed]
               e == Emit(s2, d)
               h == HomeRow(e.c, x)
    <3>1. Parse(s, r, x) = IF m = "initialize" /\ x.ok /\ e.c.valid THEN Emit(e, h) ELSE e
      BY <1>10, <2>2 DEF Parse
    <3>2. Kept(c, d) /\ (d.ok => Grounded(d, q, r))
      BY <1>1, <1>10, AnswerGood, SMTT(30)
    <3>3. s2 \in Heard /\ s2.c = freed
      BY <1>3, <1>4, <1>5
    <3> HIDE DEF s2, d
    <3>4. Readable(freed) /\ Kept(freed, d) /\ freed.ok = c.ok
      BY <1>1, <1>3, <3>2, KeptReadable DEF Kept, Connection
    <3>5. Sound(s2, e, q, r)
      BY <1>2, <3>2, <3>3, <3>4, KeptEmitted
    <3>6. s2.c.state = c.state /\ s2.c.published = c.published
      BY <1>3, <3>3 DEF Kept
    <3>7. Sound(s, e, q, r)
      BY <3>5, <3>6 DEF Sound
    <3>8. CASE m = "initialize" /\ x.ok /\ e.c.valid
      <4>1. x.thread = NoThread => q.home
        BY <1>1, <1>10, <3>8, DidFields
      <4>2. e \in Heard /\ e.c \in Connection /\ Readable(e.c) /\ (e.c.ok => Grounded(e.c, q, r))
        BY <3>7 DEF Sound, Heard
      <4> HIDE DEF e, q
      <4>3. Kept(e.c, h) /\ (h.ok => Grounded(h, q, r))
        BY <1>2, <4>1, <4>2, HomeGood
      <4> HIDE DEF h
      <4>4. Sound(e, Emit(e, h), q, r)
        BY <1>2, <4>2, <4>3, KeptEmitted
      <4>5. Sound(s, Emit(e, h), q, r)
        BY <3>7, <4>4 DEF Sound
      <4> QED
        BY <3>1, <3>8, <4>5 DEF q, e
    <3>9. CASE ~(m = "initialize" /\ x.ok /\ e.c.valid)
      BY <3>1, <3>7, <3>9
    <3> QED
      BY <3>8, <3>9
  <2> QED
    BY <2>1, <2>2
<1>11. CASE c.valid /\ x.kind \in {"initialized", "started"}
  <2>1. Parse(s, r, x) = Emit(s, NoticeRow(c, x))
    BY <1>11 DEF Parse
  <2>2. Kept(c, NoticeRow(c, x)) /\ (NoticeRow(c, x).ok => Grounded(NoticeRow(c, x), q, r))
    BY <1>1, <1>11, NoticeGood
  <2> QED
    BY <1>2, <2>1, <2>2, KeptEmitted
<1> QED
  BY <1>1, <1>6, <1>7, <1>8, <1>9, <1>10, <1>11 DEF Kind

-----------------------------------------------------------------------------
(* A chunk *)

\* The messages of a chunk, parsed one after the other.
Parsed(s, r, messages) == FoldLeft(LAMBDA t, x : Parse(t, r, x), s, messages)

\* The index FoldLeft of the library takes last, for one and two messages.
LEMMA LastOfTwo ==
    ASSUME NEW S \in SUBSET {1, 2}
    PROVE  (2 \in S => Max(S) = 2) /\ (S = {1} => Max(S) = 1)
<1>1. CASE 2 \in S
  <2>1. 2 \in S /\ \A y \in S : 2 >= y
    BY <1>1
  <2>2. Max(S) \in S /\ \A y \in S : Max(S) >= y
    BY <2>1 DEF Max
  <2>3. Max(S) \in {1, 2} /\ Max(S) >= 2
    BY <1>1, <2>2
  <2>4. Max(S) = 2
    BY <2>3
  <2> QED
    BY <1>1, <2>4
<1>2. CASE S = {1}
  <2>1. Max(S) \in S
    <3>1. 1 \in S /\ \A y \in S : 1 >= y
      BY <1>2
    <3> QED
      BY <3>1 DEF Max
  <2> QED
    BY <1>2, <2>1
<1>3. CASE 2 \notin S /\ S # {1}
  BY <1>3
<1> QED
  BY <1>1, <1>2, <1>3

\* What the fold of one and of two messages is.
LEMMA FoldOfTwo ==
    ASSUME NEW s, NEW r, NEW messages, DOMAIN messages \in {{1}, {1, 2}}
    PROVE  LET first == Parse(s, r, messages[1]) IN
           Parsed(s, r, messages) =
             IF 2 \in DOMAIN messages THEN Parse(first, r, messages[2]) ELSE first
<1> DEFINE D == DOMAIN messages
           first == Parse(s, r, messages[1])
           next(f, S) == IF S = {} THEN s ELSE Parse(f[S \ {Max(S)}], r, messages[Max(S)])
           iter == CHOOSE f : f = [S \in SUBSET D |-> next(f, S)]
           one(S) == IF 1 \in S THEN first ELSE s
           part == [S \in SUBSET D |-> IF 2 \in S THEN Parse(one(S), r, messages[2]) ELSE one(S)]
<1>1. Parsed(s, r, messages) = iter[D]
  BY DEF Parsed, FoldLeft, MapThenFoldSet
<1>2. D \in {{1}, {1, 2}}
  OBVIOUS
<1> HIDE DEF D
<1>3. \A S \in SUBSET D : part[S] = next(part, S)
  <2> SUFFICES ASSUME NEW S \in SUBSET D PROVE part[S] = next(part, S)
    OBVIOUS
  <2>1. S \in SUBSET {1, 2}
    BY <1>2
  <2>2. CASE S = {}
    BY <2>2
  <2>3. CASE 2 \in S
    <3>1. Max(S) = 2 /\ S \ {2} \in SUBSET D /\ 2 \notin S \ {2} /\ (1 \in S \ {2} <=> 1 \in S)
      BY <2>1, <2>3, LastOfTwo
    <3>2. part[S \ {2}] = one(S)
      BY <3>1
    <3>3. part[S] = Parse(one(S), r, messages[2])
      BY <2>3
    <3> HIDE DEF part, one
    <3> QED
      BY <2>3, <3>1, <3>2, <3>3
  <2>4. CASE S = {1}
    <3>1. Max(S) = 1 /\ S \ {1} = {}
      BY <2>1, <2>4, LastOfTwo
    <3>2. part[{}] = s /\ part[S] = first
      BY <2>4
    <3> HIDE DEF part, one
    <3> QED
      BY <2>4, <3>1, <3>2
  <2> QED
    BY <2>1, <2>2, <2>3, <2>4
<1>4. part = [S \in SUBSET D |-> next(part, S)]
  BY <1>3
<1>5. iter = [S \in SUBSET D |-> next(iter, S)]
  <2> HIDE DEF part, next
  <2> QED
    BY <1>4
<1>6. \A S \in SUBSET D : iter[S] = next(iter, S)
  <2> HIDE DEF iter, next
  <2> QED
    BY <1>5
<1> HIDE DEF iter, part
<1>7. iter[{}] = s
  BY <1>6
<1>8. iter[{1}] = first
  <2>1. Max({1}) = 1 /\ {1} \ {1} = {} /\ {1} \in SUBSET D
    BY <1>2, LastOfTwo
  <2>2. iter[{1}] = Parse(iter[{1} \ {Max({1})}], r, messages[Max({1})])
    BY <1>6, <2>1
  <2> QED
    BY <1>7, <2>1, <2>2
<1>9. CASE D = {1}
  BY <1>1, <1>8, <1>9 DEF D
<1>10. CASE D = {1, 2}
  <2>1. Max({1, 2}) = 2 /\ {1, 2} \ {2} = {1} /\ {1, 2} \in SUBSET D
    BY <1>10, LastOfTwo
  <2>2. iter[{1, 2}] = Parse(iter[{1, 2} \ {Max({1, 2})}], r, messages[Max({1, 2})])
    BY <1>6, <2>1
  <2>3. iter[{1, 2}] = Parse(first, r, messages[2])
    BY <1>8, <2>1, <2>2
  <2> QED
    BY <1>1, <1>10, <2>3 DEF D
<1> QED
  BY <1>2, <1>9, <1>10

\* A chunk of one or two messages is parsed one message after the other.
LEMMA ParsedMessages ==
    ASSUME NEW s, NEW r, NEW x, NEW y
    PROVE  /\ Parsed(s, r, <<x>>) = Parse(s, r, x)
           /\ Parsed(s, r, <<x, y>>) = Parse(Parse(s, r, x), r, y)
<1>1. Parsed(s, r, <<x>>) = Parse(s, r, x)
  <2>1. DOMAIN <<x>> = {1} /\ <<x>>[1] = x
    OBVIOUS
  <2> QED
    BY <2>1, FoldOfTwo
<1>2. Parsed(s, r, <<x, y>>) = Parse(Parse(s, r, x), r, y)
  <2>1. DOMAIN <<x, y>> = {1, 2} /\ <<x, y>>[1] = x /\ <<x, y>>[2] = y
    OBVIOUS
  <2> QED
    BY <2>1, FoldOfTwo
<1> QED
  BY <1>1, <1>2

\* The types of one connection and its history.
LEMMA OwnerShapesTypes ==
    ASSUME OwnerShapes, NEW o \in Owner
    PROVE  /\ ev[o] \in Connection /\ past[o] \in Past
           /\ rows \in 0 .. MaxEvents - 1 /\ MaxEvents \in Nat /\ MaxEvents > 1
BY WireAssumption DEF OwnerShapes

\* What a peer may send.
LEMMA OwnerMessages ==
    ASSUME OwnerShapes, NEW o \in Owner
    PROVE  Orderly(o) \cup Surprise \subseteq OwnerMessage
<1> DEFINE c == ev[o]
<1>1. c \in Connection
  BY OwnerShapesTypes
<1>2. /\ \A i \in Id : c.pending[i] \in Method \cup {NoMethod}
      /\ c.thread \in Thread \cup {NoThread}
  BY <1>1 DEF Connection
<1>3. /\ Expected \in Thread \cup {NoThread} /\ NoThread \in Thread \cup {NoThread}
      /\ (CHOOSE t \in Thread : t # Expected) \in Thread
      /\ (CHOOSE i \in Id : TRUE) \in Id
  BY WireAssumption
<1>4. \A leg \in Leg, kind \in Kind, m \in Method \cup {NoMethod}, i \in Id, ok \in BOOLEAN,
        t \in Thread \cup {NoThread} : Message(leg, kind, m, i, ok, t) \in OwnerMessage
  BY DEF Message, OwnerMessage
<1>a. \A m \in Method \cup {NoMethod}, i \in Id, t \in Thread \cup {NoThread} :
        Asks(m, i, t) \in OwnerMessage
  BY <1>4 DEF Asks, Leg, Kind
<1>b. \A m \in Method \cup {NoMethod}, i \in Id, ok \in BOOLEAN, t \in Thread \cup {NoThread} :
        Answers(m, i, ok, t) \in OwnerMessage
  BY <1>4 DEF Answers, Leg, Kind
<1>c. \A leg \in Leg, kind \in Kind, i \in Id, t \in Thread \cup {NoThread} :
        Message(leg, kind, NoMethod, i, FALSE, t) \in OwnerMessage
  BY <1>4
<1>5. Surprise \subseteq OwnerMessage
  <2> DEFINE no == FALSE
             A == {Message(leg, "bad", NoMethod, i, no, NoThread) : leg \in Leg, i \in Id}
             B == {Asks(m, i, t) : m \in Method, i \in Id, t \in {NoThread, Expected}}
             C == {Answers(NoMethod, i, ok, t) :
                     i \in Id, ok \in BOOLEAN, t \in Thread \cup {NoThread}}
             D == {Message("server", "started", NoMethod, i, no, t) : i \in Id, t \in Thread}
             E == {Message("client", "initialized", NoMethod, i, no, NoThread) : i \in Id}
  <2>1. Surprise = A \cup B \cup C \cup D \cup E
    BY DEF Surprise
  <2>2. "bad" \in Kind /\ "started" \in Kind /\ "initialized" \in Kind
        /\ "client" \in Leg /\ "server" \in Leg
    BY DEF Kind, Leg
  <2>3. \A leg \in Leg, kind \in Kind, i \in Id, t \in Thread \cup {NoThread} :
          Message(leg, kind, NoMethod, i, no, t) \in OwnerMessage
    BY <1>c
  <2> HIDE DEF no
  <2>4. A \subseteq OwnerMessage
    BY <1>3, <2>2, <2>3
  <2>5. B \subseteq OwnerMessage
    BY <1>3, <1>a
  <2>6. C \subseteq OwnerMessage
    BY <1>b
  <2>7. D \subseteq OwnerMessage
    BY <2>2, <2>3
  <2>8. E \subseteq OwnerMessage
    BY <1>3, <2>2, <2>3
  <2> HIDE DEF A, B, C, D, E
  <2> QED
    BY <2>1, <2>4, <2>5, <2>6, <2>7, <2>8
<1> DEFINE Ask(m, t) == {Asks(m, i, t) : i \in {j \in Id : c.pending[j] = NoMethod}}
           Reply(t) == {Answers(c.pending[i], i, TRUE, t) :
                           i \in {j \in Id : c.pending[j] # NoMethod}}
           Say(leg, kind, t) == {Message(leg, kind, NoMethod, CHOOSE i \in Id : TRUE, FALSE, t)}
<1>6. \A m \in Method, t \in Thread \cup {NoThread} : Ask(m, t) \subseteq OwnerMessage
  BY <1>a
<1>7. \A t \in Thread \cup {NoThread} : Reply(t) \subseteq OwnerMessage
  <2> HIDE DEF c
  <2> QED
    BY <1>2, <1>b, ZenonT(60)
<1>8. \A leg \in Leg, kind \in Kind, t \in Thread \cup {NoThread} :
        Say(leg, kind, t) \subseteq OwnerMessage
  BY <1>3, <1>c
<1>9. /\ {"initialize", "thread/start", "thread/resume", "skills/list", "turn/start", "other"}
           = Method
      /\ {"client", "server"} = Leg /\ {"upgrade", "initialized", "started"} \subseteq Kind
  BY DEF Method, Leg, Kind
<1>10. Orderly(o) \in
         {Say("client", "upgrade", NoThread), Say("server", "upgrade", NoThread),
          Reply(IF o \in Resuming THEN Expected ELSE CHOOSE t \in Thread : t # Expected),
          Reply(NoThread), Ask("initialize", NoThread), Say("client", "initialized", NoThread),
          Ask("thread/resume", Expected), Ask("thread/start", NoThread),
          Ask("skills/list", NoThread), Say("server", "started", c.thread),
          Ask("other", NoThread) \cup Ask("turn/start", NoThread)}
  <2> HIDE DEF Ask, Reply, Say
  <2> QED
    BY DEF Orderly, Ask, Reply, Say
<1> HIDE DEF Ask, Reply, Say, c
<1>11. Orderly(o) \subseteq OwnerMessage
  BY <1>2, <1>3, <1>6, <1>7, <1>8, <1>9, <1>10
<1> QED
  BY <1>5, <1>11

\* The second message of a chunk is one too.
LEMMA TurnMessage ==
    ASSUME NEW x \in OwnerMessage
    PROVE  Asks("turn/start", CHOOSE i \in Id : i # x.id, NoThread) \in OwnerMessage
<1>1. (CHOOSE i \in Id : i # x.id) \in Id
  BY WireAssumption
<1> QED
  BY <1>1 DEF Asks, Message, OwnerMessage, Leg, Kind, Method

\* The history after a turn has started in it.
LEMMA TurnStarted ==
    ASSUME NEW p \in Past, NEW y \in OwnerMessage, NEW m,
           y.kind = "request", y.method = "turn/start"
    PROVE  Did(m, p, y) = [p EXCEPT !.turn = TRUE]
<1>1. /\ p.home \in BOOLEAN /\ p.resumed \in BOOLEAN /\ p.listed \in BOOLEAN
      /\ y.kind # "answer" /\ y.kind # "started"
  BY DEF Past
<1>2. Did(m, p, y) = [p EXCEPT !.turn = TRUE, !.home = p.home, !.threads = p.threads,
                               !.resumed = p.resumed, !.listed = p.listed,
                               !.announced = p.announced]
  BY <1>1 DEF Did
<1> QED
  BY <1>2 DEF Past

\* What on_data starts a chunk of a leg from: the connection, with no message of
\* the leg cut short any more, and the length of the queue.
Heading(o, leg) == [c |-> [ev[o] EXCEPT !.tail = @ \ {leg}], n |-> rows]

\* What a chunk starts from is as sound as the connection it is for.
LEMMA HeadingSound ==
    ASSUME OwnerShapes, EvidenceInv, NEW o \in Owner, NEW leg
    PROVE  LET s == Heading(o, leg) IN
           /\ s \in Heard /\ s.c.state = ev[o].state /\ s.c.published = ev[o].published
           /\ s.c.pending = ev[o].pending
           /\ Readable(s.c) /\ (s.c.ok => Grounded(s.c, past[o], o \in Resuming))
<1> DEFINE c == ev[o]
           d == [c EXCEPT !.tail = @ \ {leg}]
<1>1. c \in Connection /\ rows \in 0 .. MaxEvents - 1
  BY OwnerShapesTypes
<1>2. Readable(c) /\ (c.ok => Grounded(c, past[o], o \in Resuming))
  BY DEF EvidenceInv, Evidence
<1>3. Heading(o, leg) = [c |-> d, n |-> rows]
  BY DEF Heading
<1> HIDE DEF c
<1>4. d \in Connection /\ d.state = c.state /\ d.published = c.published
  BY <1>1 DEF Connection
<1>5. /\ d.ok = c.ok /\ d.init = c.init /\ d.thread = c.thread /\ d.announced = c.announced
      /\ d.resumed = c.resumed /\ d.skills = c.skills /\ d.barrier = c.barrier
      /\ d.turns = c.turns /\ d.pending = c.pending /\ d.over = c.over /\ d.valid = c.valid
  BY <1>1 DEF Connection
<1> HIDE DEF d
<1>6. Readable(d)
  BY <1>2, <1>4, <1>5 DEF Readable
<1>7. d.ok => Grounded(d, past[o], o \in Resuming)
  <2> DEFINE p == past[o]
             r == o \in Resuming
  <2>1. c.ok => Grounded(c, p, r)
    BY <1>2
  <2> HIDE DEF p, r
  <2>2. d.ok => Grounded(d, p, r)
    BY <1>5, <2>1 DEF Grounded
  <2> QED
    BY <2>2 DEF p, r
<1>8. Heading(o, leg) \in Heard /\ Heading(o, leg).c = d
  BY <1>1, <1>3, <1>4 DEF Heard
<1> QED
  BY <1>4, <1>5, <1>6, <1>7, <1>8 DEF c

\* A chunk of one message, and one of a message and the start of a turn: the
\* record at its end is grounded in the history with all of it.
LEMMA ChunkSound ==
    ASSUME OwnerShapes, EvidenceInv, NEW o \in Owner, NEW leg, NEW x \in OwnerMessage,
           NEW y \in OwnerMessage, y.kind = "request", y.method = "turn/start",
           ev[o].state = "open"
    PROVE  LET s == Heading(o, leg)
               r == o \in Resuming
               q == Happened(o, past[o], x) IN
           /\ q \in Past /\ Sound(s, Parsed(s, r, <<x>>), q, r)
           /\ [q EXCEPT !.turn = TRUE] \in Past
           /\ Sound(s, Parsed(s, r, <<x, y>>), [q EXCEPT !.turn = TRUE], r)
<1> DEFINE s == Heading(o, leg)
           r == o \in Resuming
           q == Happened(o, past[o], x)
           t == Parse(s, r, x)
           m == t.c.pending[y.id]
<1>1. /\ s \in Heard /\ s.c.state = "open" /\ s.c.pending = ev[o].pending
      /\ Readable(s.c) /\ (s.c.ok => Grounded(s.c, past[o], r))
  BY HeadingSound
<1>2. past[o] \in Past /\ s.c \in Connection /\ x.id \in Id /\ y.id \in Id /\ r \in BOOLEAN
  BY <1>1, OwnerShapesTypes DEF Heard, OwnerMessage
<1>3. q = Did(s.c.pending[x.id], past[o], x)
  BY <1>1 DEF Happened, Did
<1>4. s.c.pending[x.id] \in Method \cup {NoMethod}
  BY <1>2 DEF Connection
<1> HIDE DEF s, r, q
<1>5. q \in Past
  BY <1>2, <1>3, <1>4, DidFields
<1>6. Sound(s, t, q, r)
  BY <1>1, <1>2, <1>3, ParseSound
<1> HIDE DEF t
<1>7. /\ t \in Heard /\ t.c.state = "open" /\ Readable(t.c) /\ (t.c.ok => Grounded(t.c, q, r))
      /\ t.c.published = s.c.published /\ t.c.state = s.c.state
  BY <1>1, <1>6 DEF Sound
<1>8. Sound(t, Parse(t, r, y), Did(m, q, y), r)
  BY <1>2, <1>5, <1>7, ParseSound
<1>9. Did(m, q, y) = [q EXCEPT !.turn = TRUE]
  BY <1>5, TurnStarted
<1>10. Sound(s, Parse(t, r, y), [q EXCEPT !.turn = TRUE], r)
  BY <1>7, <1>8, <1>9 DEF Sound
<1>11. [q EXCEPT !.turn = TRUE] \in Past
  BY <1>5 DEF Past
<1> QED
  BY <1>5, <1>6, <1>10, <1>11, ParsedMessages DEF s, r, q, t

-----------------------------------------------------------------------------
(* The owners' connections *)

\* What ReadyEarned asks of a receipt: d is the record, q the history.
Earned(d, q, r) ==
    /\ q.home /\ ~q.turn
    /\ IF r THEN /\ d.thread = Expected /\ q.resumed
                 /\ q.listed \/ Expected \in q.announced
            ELSE d.thread \in q.threads \cap q.announced

EarnedNow ==
    \A o \in Owner : ev'[o].published /\ ~ev[o].published =>
        Earned(ev'[o], past'[o], o \in Resuming)

\* A record that is ready and grounded has earned its receipt.
LEMMA ReadyIsGrounded ==
    ASSUME NEW c \in Connection, NEW q \in Past, NEW r \in BOOLEAN, Ready(c),
           c.ok => Grounded(c, q, r)
    PROVE  Earned(c, q, r)
<1>1. /\ Grounded(c, q, r) /\ c.init = "home" /\ c.thread # NoThread
      /\ c.announced \/ c.barrier
      /\ ~c.turns
  BY DEF Ready
<1>2. q.home /\ ~q.turn
  BY <1>1 DEF Grounded
<1>3. CASE r
  BY <1>1, <1>2, <1>3 DEF Grounded, Earned
<1>4. CASE ~r
  <2>1. c.thread \in q.threads /\ ~c.barrier
    BY <1>1, <1>4 DEF Grounded
  <2>2. c.thread \in q.announced
    BY <1>1, <2>1 DEF Grounded
  <2> QED
    BY <1>2, <1>4, <2>1, <2>2 DEF Earned
<1> QED
  BY <1>3, <1>4

\* A step of one connection leaves the others and what they rest on.
LEMMA OneConnection ==
    ASSUME OwnerShapes, EvidenceInv, NEW o \in Owner, NEW d \in Connection, NEW q \in Past,
           ev' = [ev EXCEPT ![o] = d], past' = [past EXCEPT ![o] = q],
           rows' \in 0 .. MaxEvents - 1, odd' \in 0 .. Irregularities,
           d.state # "unused", Readable(d), d.ok => Grounded(d, q, o \in Resuming),
           d.published /\ ~ev[o].published => Earned(d, q, o \in Resuming)
    PROVE  OwnerShapes' /\ EvidenceInv' /\ EarnedNow
<1>1. /\ ev \in [Owner -> Connection] /\ past \in [Owner -> Past]
  BY DEF OwnerShapes
<1>2. /\ ev'[o] = d /\ past'[o] = q
      /\ \A u \in Owner \ {o} : ev'[u] = ev[u] /\ past'[u] = past[u]
  BY <1>1
<1>3. ev' \in [Owner -> Connection] /\ past' \in [Owner -> Past]
  BY <1>1
<1>4. OwnerShapes'
  BY <1>3 DEF OwnerShapes
<1>5. EvidenceInv'
  <2> SUFFICES ASSUME NEW u \in Owner PROVE Evidence(u)'
    BY DEF EvidenceInv
  <2>1. CASE u = o
    BY <1>2, <2>1 DEF Evidence
  <2>2. CASE u # o
    <3>1. Evidence(u) /\ ev'[u] = ev[u] /\ past'[u] = past[u]
      BY <1>2, <2>2 DEF EvidenceInv
    <3> QED
      BY <3>1 DEF Evidence
  <2> QED
    BY <2>1, <2>2
<1>6. EarnedNow
  BY <1>2 DEF EarnedNow
<1> QED
  BY <1>4, <1>5, <1>6

\* The end of on_data: the start of a cut message is kept, and a receipt is
\* published if the record is ready at a message boundary.
LEMMA DataEnd ==
    ASSUME NEW w \in Connection, NEW q \in Past, NEW r \in BOOLEAN, NEW leg \in Leg,
           NEW cut \in BOOLEAN, w.state = "open", Readable(w), w.ok => Grounded(w, q, r)
    PROVE  LET c == IF cut /\ w.valid THEN [w EXCEPT !.tail = @ \cup {leg}] ELSE w
               d == [c EXCEPT !.published = @ \/ (Ready(c) /\ Boundary(c))] IN
           /\ d \in Connection /\ d.state = "open" /\ Readable(d)
           /\ d.ok => Grounded(d, q, r)
           /\ d.published /\ ~w.published => Earned(d, q, r)
<1> DEFINE c == IF cut /\ w.valid THEN [w EXCEPT !.tail = @ \cup {leg}] ELSE w
           published == c.published \/ (Ready(c) /\ Boundary(c))
           d == [c EXCEPT !.published = @ \/ (Ready(c) /\ Boundary(c))]
<1>1. c \in Connection /\ c.state = "open" /\ c.published = w.published
  BY DEF Connection
<1>2. /\ c.ok = w.ok /\ c.init = w.init /\ c.thread = w.thread /\ c.announced = w.announced
      /\ c.resumed = w.resumed /\ c.skills = w.skills /\ c.barrier = w.barrier
      /\ c.turns = w.turns /\ c.pending = w.pending /\ c.over = w.over /\ c.valid = w.valid
  BY DEF Connection
<1>3. Readable(c)
  BY <1>1, <1>2 DEF Readable
<1>4. c.ok => Grounded(c, q, r)
  BY <1>2 DEF Grounded
<1> SUFFICES /\ d \in Connection /\ d.state = "open" /\ Readable(d)
             /\ d.ok => Grounded(d, q, r)
             /\ d.published /\ ~w.published => Earned(d, q, r)
  OBVIOUS
<1> HIDE DEF c
<1>5. d = [c EXCEPT !.published = published]
  BY <1>1 DEF Connection
<1>6. published \in BOOLEAN /\ (published => c.published \/ Ready(c))
  BY <1>1 DEF Connection
<1> HIDE DEF published, d
<1>7. d \in Connection /\ d.state = "open" /\ d.published = published
  BY <1>1, <1>5, <1>6 DEF Connection
<1>8. /\ d.ok = c.ok /\ d.init = c.init /\ d.thread = c.thread /\ d.announced = c.announced
      /\ d.resumed = c.resumed /\ d.skills = c.skills /\ d.barrier = c.barrier
      /\ d.turns = c.turns /\ d.pending = c.pending /\ d.over = c.over /\ d.valid = c.valid
  BY <1>1, <1>5 DEF Connection
<1>9. Readable(d)
  BY <1>3, <1>1, <1>7, <1>8 DEF Readable
<1>10. d.ok => Grounded(d, q, r)
  BY <1>4, <1>8 DEF Grounded
<1>11. ASSUME d.published, ~w.published
       PROVE  Earned(d, q, r)
  <2>1. Ready(c)
    BY <1>1, <1>6, <1>7, <1>11
  <2>2. Earned(c, q, r)
    BY <1>1, <1>4, <2>1, ReadyIsGrounded
  <2> QED
    BY <1>8, <2>2 DEF Earned
<1> QED
  BY <1>7, <1>9, <1>10, <1>11

\* A chunk keeps every record grounded in what happened, and a receipt it publishes
\* is earned.
LEMMA ChunkEvidence ==
    ASSUME OwnerShapes, EvidenceInv, NEW o \in Owner, Chunk(o)
    PROVE  OwnerShapes' /\ EvidenceInv' /\ EarnedNow
<1>1. PICK x \in Orderly(o) \cup Surprise :
        /\ ev[o].state = "open"
        /\ Irregular(x \notin Orderly(o))
        /\ \E cut, turn \in BOOLEAN :
             LET y == Asks("turn/start", CHOOSE i \in Id : i # x.id, NoThread)
                 ms == IF turn THEN <<x, y>> ELSE <<x>>
             IN  /\ turn => x.leg = "client" /\ ~cut
                 /\ Data(o, x.leg, ms, cut)
                 /\ past' = [past EXCEPT ![o] =
                               IF turn THEN [Happened(o, @, x) EXCEPT !.turn = TRUE]
                               ELSE Happened(o, @, x)]
  BY DEF Chunk
<1> DEFINE y == Asks("turn/start", CHOOSE i \in Id : i # x.id, NoThread)
           r == o \in Resuming
           s == Heading(o, x.leg)
           p == Happened(o, past[o], x)
<1>2. PICK cut \in BOOLEAN, turn \in BOOLEAN :
        /\ Data(o, x.leg, IF turn THEN <<x, y>> ELSE <<x>>, cut)
        /\ past' = [past EXCEPT ![o] = IF turn THEN [Happened(o, @, x) EXCEPT !.turn = TRUE]
                                       ELSE Happened(o, @, x)]
  BY <1>1
<1> DEFINE q == IF turn THEN [p EXCEPT !.turn = TRUE] ELSE p
           w == Parsed(s, r, IF turn THEN <<x, y>> ELSE <<x>>)
           c == IF cut /\ w.c.valid THEN [w.c EXCEPT !.tail = @ \cup {x.leg}] ELSE w.c
           d == [c EXCEPT !.published = @ \/ (Ready(c) /\ Boundary(c))]
<1>3. x \in OwnerMessage /\ x.leg \in Leg
  BY OwnerMessages DEF OwnerMessage
<1>4. y \in OwnerMessage /\ y.kind = "request" /\ y.method = "turn/start"
  BY <1>3, TurnMessage DEF Asks, Message
<1>5. ev' = [ev EXCEPT ![o] = d] /\ rows' = w.n
  BY <1>2 DEF Data, Parsed, Heading
<1>6. past' = [past EXCEPT ![o] = q]
  <2>1. past \in [Owner -> Past]
    BY DEF OwnerShapes
  <2> QED
    BY <1>2, <2>1
<1> HIDE DEF y
<1>7. /\ p \in Past /\ Sound(s, Parsed(s, r, <<x>>), p, r)
      /\ [p EXCEPT !.turn = TRUE] \in Past
      /\ Sound(s, Parsed(s, r, <<x, y>>), [p EXCEPT !.turn = TRUE], r)
  BY <1>1, <1>3, <1>4, ChunkSound
<1>8. s.c.state = "open" /\ s.c.published = ev[o].published
  BY <1>1, HeadingSound
<1> HIDE DEF p, s, r
<1>9. q \in Past /\ Sound(s, w, q, r)
  BY <1>7
<1> HIDE DEF q, w
<1>10. /\ w.c \in Connection /\ w.n \in 0 .. MaxEvents - 1 /\ w.c.state = "open"
       /\ w.c.published = ev[o].published
       /\ Readable(w.c) /\ (w.c.ok => Grounded(w.c, q, r))
  BY <1>8, <1>9 DEF Sound, Heard
<1>11. r \in BOOLEAN
  BY DEF r
<1>12. /\ d \in Connection /\ d.state = "open" /\ Readable(d)
       /\ d.ok => Grounded(d, q, r)
       /\ d.published /\ ~w.c.published => Earned(d, q, r)
  BY <1>3, <1>9, <1>10, <1>11, DataEnd, SMTT(30)
<1> HIDE DEF d
<1>13. odd' \in 0 .. Irregularities
  BY <1>1, WireAssumption DEF Irregular, Odd, OwnerShapes
<1> QED
  BY <1>5, <1>6, <1>9, <1>10, <1>12, <1>13, OneConnection DEF r

\* A step that leaves the history as it is.
LEMMA QuietConnection ==
    ASSUME OwnerShapes, EvidenceInv, NEW o \in Owner, NEW d \in Connection,
           ev' = [ev EXCEPT ![o] = d], UNCHANGED past,
           rows' \in 0 .. MaxEvents - 1, odd' \in 0 .. Irregularities,
           d.state # "unused", Readable(d), d.ok => Grounded(d, past[o], o \in Resuming),
           d.published => ev[o].published
    PROVE  OwnerShapes' /\ EvidenceInv' /\ EarnedNow
<1>1. past' = [past EXCEPT ![o] = past[o]] /\ past[o] \in Past
  BY DEF OwnerShapes
<1> QED
  BY <1>1, OneConnection

\* A new connection's record rests on nothing yet.
LEMMA ConnectEvidence ==
    ASSUME OwnerShapes, EvidenceInv, NEW o \in Owner, Connect(o)
    PROVE  OwnerShapes' /\ EvidenceInv' /\ EarnedNow
<1> DEFINE c == [NoConnection EXCEPT !.state = "open", !.valid = TRUE, !.ok = TRUE]
           s == [c |-> c, n |-> rows]
           e == Emit(s, c)
           r == o \in Resuming
<1>1. ev' = [ev EXCEPT ![o] = e.c] /\ rows' = e.n /\ UNCHANGED <<past, odd>>
  BY DEF Connect
<1>2. past[o] = NoPast /\ rows \in 0 .. MaxEvents - 1 /\ odd \in 0 .. Irregularities
  BY OwnerShapesTypes DEF Connect, EvidenceInv, Evidence, OwnerShapes
<1>3. c = [NoConnection EXCEPT !.state = "open", !.valid = TRUE, !.ok = TRUE]
  OBVIOUS
<1> HIDE DEF c
<1>4. c \in Connection /\ c.state = "open" /\ ~c.published /\ c.valid /\ ~c.over
      /\ c.init = "no" /\ ~c.announced /\ c.skills = {} /\ ~c.barrier /\ ~c.resumed
      /\ c.thread = NoThread /\ c.pending = [i \in Id |-> NoMethod]
  BY <1>3 DEF NoConnection, Connection
<1>5. past[o] \in Past /\ ~past[o].turn
  BY <1>2, OwnerShapesTypes DEF NoPast
<1>6. Readable(c) /\ Grounded(c, past[o], r)
  BY <1>4, <1>5 DEF Readable, Grounded, NoMethod
<1>7. s \in Heard /\ s.c = c
  BY <1>2, <1>4 DEF Heard
<1> HIDE DEF s
<1>8. Kept(s.c, c)
  BY <1>4, <1>7 DEF Kept
<1>9. r \in BOOLEAN
  OBVIOUS
<1> HIDE DEF r
<1>10. Sound(s, e, past[o], r)
  BY <1>4, <1>5, <1>6, <1>7, <1>8, <1>9, KeptEmitted
<1> HIDE DEF e
<1>11. e.c \in Connection /\ e.n \in 0 .. MaxEvents - 1 /\ e.c.state = "open" /\ ~e.c.published
       /\ Readable(e.c) /\ (e.c.ok => Grounded(e.c, past[o], r))
  BY <1>4, <1>7, <1>10 DEF Sound, Heard
<1> QED
  BY <1>1, <1>2, <1>11, QuietConnection DEF r

\* The end of a stream publishes nothing and leaves a record nobody reads.
LEMMA EndsEvidence ==
    ASSUME OwnerShapes, EvidenceInv, NEW o \in Owner, Ends(o)
    PROVE  OwnerShapes' /\ EvidenceInv' /\ EarnedNow
<1> DEFINE c == ev[o]
           p == past[o]
           r == o \in Resuming
           s == [c |-> c, n |-> rows]
           g == IF c.valid /\ (c.tail # {} \/ c.up \notin {{}, Leg}) THEN GapRow(s) ELSE s
           closed == [g EXCEPT !.c.state = "closed", !.c.valid = FALSE]
           k == [g.c EXCEPT !.state = "closed", !.valid = FALSE]
           e == Emit(closed, closed.c)
<1>1. ev' = [ev EXCEPT ![o] = e.c] /\ rows' = e.n /\ UNCHANGED <<past, odd>>
  BY DEF Ends
<1>2. c \in Connection /\ p \in Past /\ r \in BOOLEAN /\ rows \in 0 .. MaxEvents - 1
      /\ odd \in 0 .. Irregularities /\ c.state = "open"
  BY OwnerShapesTypes DEF OwnerShapes, Ends
<1>3. Readable(c) /\ (c.ok => Grounded(c, p, r))
  BY DEF EvidenceInv, Evidence
<1> HIDE DEF c, p, r
<1>4. s \in Heard /\ s.c = c
  BY <1>2 DEF Heard
<1> HIDE DEF s
<1>5. Sound(s, GapRow(s), p, r)
  BY <1>2, <1>3, <1>4, GapGood DEF Sound
<1>6. Sound(s, g, p, r)
  BY <1>2, <1>3, <1>4, <1>5 DEF Sound
<1> HIDE DEF g
<1>7. g \in Heard /\ g.c \in Connection /\ g.c.published = c.published
      /\ Readable(g.c) /\ (g.c.ok => Grounded(g.c, p, r))
  BY <1>4, <1>6 DEF Sound, Heard
<1>8. k \in Connection /\ k.state = "closed" /\ k.published = c.published
      /\ k.over = g.c.over /\ k.ok = g.c.ok
  BY <1>7 DEF Connection
<1>9. /\ k.init = g.c.init /\ k.thread = g.c.thread /\ k.announced = g.c.announced
      /\ k.resumed = g.c.resumed /\ k.skills = g.c.skills /\ k.barrier = g.c.barrier
      /\ k.turns = g.c.turns /\ k.pending = g.c.pending
  BY <1>7 DEF Connection
<1>10. closed = [g EXCEPT !.c = k]
  BY <1>7 DEF Heard, Connection
<1> HIDE DEF k
<1>11. closed \in Heard /\ closed.c = k
  BY <1>7, <1>8, <1>10 DEF Heard
<1>12. Readable(k) /\ (k.ok => Grounded(k, p, r))
  <2>1. Readable(k)
    BY <1>7, <1>8 DEF Readable
  <2>2. k.ok => Grounded(k, p, r)
    BY <1>7, <1>8, <1>9 DEF Grounded
  <2> QED
    BY <2>1, <2>2
<1> HIDE DEF closed
<1>13. Kept(closed.c, k)
  BY <1>8, <1>11 DEF Kept
<1>14. Sound(closed, e, p, r)
  BY <1>2, <1>11, <1>12, <1>13, KeptEmitted
<1> HIDE DEF e
<1>15. e.c \in Connection /\ e.n \in 0 .. MaxEvents - 1 /\ e.c.state = "closed"
       /\ e.c.published = c.published
       /\ Readable(e.c) /\ (e.c.ok => Grounded(e.c, p, r))
  BY <1>8, <1>11, <1>14 DEF Sound, Heard
<1> QED
  BY <1>1, <1>2, <1>15, QuietConnection DEF c, p, r

\* A gap of the capture refutes the record.
LEMMA GapEvidence ==
    ASSUME OwnerShapes, EvidenceInv, NEW o \in Owner, CaptureGap(o)
    PROVE  OwnerShapes' /\ EvidenceInv' /\ EarnedNow
<1> DEFINE d == Refute(ev[o])
<1>1. ev \in [Owner -> Connection] /\ ev[o] \in Connection /\ ev[o].state = "open"
  BY OwnerShapesTypes DEF OwnerShapes, CaptureGap
<1>2. ev' = [ev EXCEPT ![o] = d] /\ UNCHANGED <<rows, past>>
  BY <1>1 DEF CaptureGap
<1>3. odd' \in 0 .. Irregularities /\ rows' \in 0 .. MaxEvents - 1
  BY <1>2, WireAssumption DEF CaptureGap, Odd, OwnerShapes
<1>4. d \in Connection /\ ~d.ok /\ d.state = "open" /\ d.published = ev[o].published
  BY <1>1, RefuteFields
<1> HIDE DEF d
<1>5. Readable(d)
  BY <1>4 DEF Readable
<1> QED
  BY <1>2, <1>3, <1>4, <1>5, QuietConnection

\* Rows of nobody's connection.
LEMMA RowsObserved ==
    ASSUME OwnerShapes, NEW n \in Nat, Observed(n)
    PROVE  rows' \in 0 .. MaxEvents - 1
BY WireAssumption DEF Observed, OwnerShapes

\* A step of no owner connection keeps the evidence of all.
LEMMA NoConnectionMoves ==
    ASSUME OwnerShapes, EvidenceInv, UNCHANGED <<ev, past>>,
           rows' \in 0 .. MaxEvents - 1, odd' \in 0 .. Irregularities
    PROVE  OwnerShapes' /\ EvidenceInv' /\ EarnedNow
<1>1. OwnerShapes'
  BY DEF OwnerShapes
<1>2. EvidenceInv'
  BY DEF EvidenceInv, Evidence
<1>3. EarnedNow
  BY DEF EarnedNow
<1> QED
  BY <1>1, <1>2, <1>3

\* The helper's steps only add rows to the queue.
LEMMA HelperEvidence ==
    ASSUME OwnerShapes, EvidenceInv, HelperStep
    PROVE  OwnerShapes' /\ EvidenceInv' /\ EarnedNow
<1>1. UNCHANGED <<ev, past>>
  BY DEF HelperStep, HelperConnect, ReadRpc, SendRpc, RogueSend, BackendStray, ClientGate,
         ServerGate, BackendAnswers
<1>2. UNCHANGED rows \/ \E n \in Nat : Observed(n)
  <2>1. CASE HelperConnect
    BY <2>1 DEF HelperConnect
  <2>2. CASE ReadRpc
    BY <2>2 DEF ReadRpc
  <2>3. CASE \E id \in Id \cup {NoId} : SendRpc(id) \/ RogueSend(id) \/ BackendStray(id)
    BY <2>3 DEF SendRpc, RogueSend, BackendStray
  <2>4. CASE \E n \in 1 .. 2 : ClientGate(n) \/ ServerGate(n)
    <3>1. PICK n \in 1 .. 2 : ClientGate(n) \/ ServerGate(n)
      BY <2>4
    <3>2. Observed(n) \/ Observed(1)
      BY <3>1 DEF ClientGate, ServerGate, GateCloses
    <3> QED
      BY <3>2
  <2>5. CASE \E id \in Id : BackendAnswers(id)
    BY <2>5 DEF BackendAnswers
  <2> QED
    BY <2>1, <2>2, <2>3, <2>4, <2>5 DEF HelperStep
<1>3. rows' \in 0 .. MaxEvents - 1
  BY <1>2, RowsObserved DEF OwnerShapes
<1>4. UNCHANGED odd \/ Odd
  BY DEF HelperStep, HelperConnect, ReadRpc, SendRpc, RogueSend, BackendStray, ClientGate,
         ServerGate, BackendAnswers
<1>5. odd' \in 0 .. Irregularities
  BY <1>4, WireAssumption DEF Odd, OwnerShapes
<1> QED
  BY <1>1, <1>3, <1>5, NoConnectionMoves

\* Before any connection there is nothing to ground.
LEMMA EvidenceInit == Init => OwnerShapes /\ EvidenceInv
<1> SUFFICES ASSUME Init PROVE OwnerShapes /\ EvidenceInv
  OBVIOUS
<1>1. NoConnection \in Connection
  BY DEF NoConnection, Connection, Method, NoMethod
<1>2. NoPast \in Past
  BY DEF NoPast, Past
<1>3. Readable(NoConnection) /\ ~NoConnection.ok
  BY DEF Readable, NoConnection
<1>4. \A o \in Owner : ev[o] = NoConnection /\ past[o] = NoPast
  BY DEF Init
<1>5. OwnerShapes
  BY <1>1, <1>2, WireAssumption DEF Init, OwnerShapes
<1>6. EvidenceInv
  BY <1>3, <1>4 DEF EvidenceInv, Evidence
<1> QED
  BY <1>5, <1>6

\* Every step keeps the evidence, and whatever it publishes is earned.
LEMMA EvidenceStep ==
    ASSUME OwnerShapes, EvidenceInv, [Next]_vars
    PROVE  OwnerShapes' /\ EvidenceInv' /\ EarnedNow
<1>1. CASE HelperStep
  BY <1>1, HelperEvidence
<1>2. ASSUME NEW o \in Owner, OwnerStep(o)
      PROVE  OwnerShapes' /\ EvidenceInv' /\ EarnedNow
  <2>1. CASE Connect(o)
    BY <2>1, ConnectEvidence
  <2>2. CASE Chunk(o)
    BY <2>2, ChunkEvidence
  <2>3. CASE Ends(o)
    BY <2>3, EndsEvidence
  <2>4. CASE LateData(o)
    <3>1. UNCHANGED <<ev, past, odd>> /\ Observed(1)
      BY <2>4 DEF LateData
    <3>2. rows' \in 0 .. MaxEvents - 1 /\ odd' \in 0 .. Irregularities
      BY <3>1, RowsObserved DEF OwnerShapes
    <3> QED
      BY <3>1, <3>2, NoConnectionMoves
  <2>5. CASE CaptureGap(o)
    BY <2>5, GapEvidence
  <2> QED
    BY <1>2, <2>1, <2>2, <2>3, <2>4, <2>5 DEF OwnerStep
<1>3. CASE UNCHANGED vars
  <2>1. UNCHANGED <<ev, past, rows, odd>>
    BY <1>3 DEF vars
  <2>2. rows' \in 0 .. MaxEvents - 1 /\ odd' \in 0 .. Irregularities
    BY <2>1 DEF OwnerShapes
  <2> QED
    BY <2>1, <2>2, NoConnectionMoves
<1> QED
  BY <1>1, <1>2, <1>3 DEF Next

-----------------------------------------------------------------------------
(* The theorems *)

\* The state has the shapes the code gives it, the observer's queue never
\* exceeds its limit (Observer._emit) and no id is owed a negative answer.
THEOREM TypeCorrect == Spec => [](TypeOK /\ Shapes)
<1>1. Init => OwnerShapes /\ EvidenceInv /\ HelperShapes /\ WayInv
  BY WayInit, EvidenceInit
<1>2. (OwnerShapes /\ EvidenceInv /\ HelperShapes /\ WayInv) /\ [Next]_vars
        => (OwnerShapes /\ EvidenceInv /\ HelperShapes /\ WayInv)'
  BY WayStep, EvidenceStep, WireAssumption
<1>3. OwnerShapes /\ HelperShapes => TypeOK /\ Shapes
  <2> SUFFICES ASSUME OwnerShapes, HelperShapes PROVE TypeOK /\ Shapes
    OBVIOUS
  <2>1. ASSUME NEW o \in Owner
        PROVE  /\ DOMAIN ev[o] = DOMAIN NoConnection
               /\ ev[o].state \in {"unused", "open", "closed"}
               /\ ev[o].pending \in [Id -> Method \cup {NoMethod}]
               /\ ev[o].init \in {"no", "asked", "home", "wrong"}
               /\ ev[o].thread \in Thread \cup {NoThread}
               /\ ev[o].asked \cup ev[o].skills \subseteq Id
    <3>1. ev[o] \in Connection
      BY OwnerShapesTypes
    <3> QED
      BY <3>1 DEF Connection, NoConnection
  <2>2. rows \in 0 .. MaxEvents - 1 /\ odd \in 0 .. Irregularities
    BY DEF OwnerShapes
  <2>3. helper.waiting \subseteq Id /\ gate.pending \subseteq Id
        /\ gate.state \in {"none", "open", "closed"}
    BY DEF HelperShapes
  <2> QED
    BY <2>1, <2>2, <2>3 DEF TypeOK, Shapes
<1> QED
  BY <1>1, <1>2, <1>3, PTL DEF Spec

\* A ready receipt (_ready, complete_boundary) is earned by what really happened
\* on its connection, with any number of owner connections and messages, whatever
\* the peers send and whenever the observer's queue fills up.
THEOREM ReadyIsEarned == Spec => ReadyEarned
<1>1. Init => OwnerShapes /\ EvidenceInv
  BY EvidenceInit
<1>2. (OwnerShapes /\ EvidenceInv) /\ [Next]_vars => (OwnerShapes /\ EvidenceInv)' /\ EarnedNow
  BY EvidenceStep
<1>3. EarnedNow => (\A o \in Owner : ev'[o].published /\ ~ev[o].published =>
         /\ past'[o].home /\ ~past'[o].turn
         /\ IF o \in Resuming
              THEN /\ ev'[o].thread = Expected /\ past'[o].resumed
                   /\ past'[o].listed \/ Expected \in past'[o].announced
              ELSE ev'[o].thread \in past'[o].threads \cap past'[o].announced)
  BY DEF EarnedNow, Earned
<1> QED
  BY <1>1, <1>2, <1>3, PTL DEF Spec, ReadyEarned
=============================================================================
