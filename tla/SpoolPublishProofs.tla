-------------------------- MODULE SpoolPublishProofs --------------------------
(***************************************************************************)
(* Proofs about SpoolPublish: no event is forgotten, and the spools with   *)
(* the coordinator implement EventLog, for any number of segments and      *)
(* events, any number of processes one after another, and any sequence of  *)
(* crashes, closed connections, refusals and restarts.  The numbering of   *)
(* the events relies on one process using the spool root at a time         *)
(* (OneAtATime).                                                           *)
(***************************************************************************)
EXTENDS SpoolPublish, FiniteSetTheorems, WellFoundedInduction, TLAPS

\* Processes follow one another: one that is killed or returns leaves its
\* files, and perhaps a handler that has not noticed, to the next.
OneAtATime == \A p, r \in Proc : phase[p] # "down" /\ phase[r] # "down" => p = r

-----------------------------------------------------------------------------
(* The inductive invariant *)

\* Numbers of the events on disk, and the largest.
Numbers == UNION {Files(s) : s \in Segment}
Newest == Max({0} \cup Numbers)

OnDisk(e) == e.q \in Files(e.s)

\* The numbers have no gap, no number is used twice, and every spool with a
\* file is listed.
DiskInv ==
    /\ Newest \in Nat /\ Numbers = 1..Newest
    /\ \A r, s \in Segment : \A q \in Files(r) \cap Files(s) : r = s
    /\ \A s \in Segment \ dirs : Files(s) = {}

\* The sequence in memory is the one on disk, short of an event just linked.
SequenceInv ==
    \A p \in Proc :
        /\ appending[p] = {} => sequence[p] \in {-1, Newest}
        /\ appending[p] # {} => sequence[p] = Newest - 1

\* What is under way between the two sides is on disk.
MessagesInv ==
    /\ \A e \in stale : OnDisk(e)
    /\ \A p \in Proc : \A e \in wire[p] : OnDisk(e)

\* What is committed was produced, in this order.
CommittedInv == \A q \in DOMAIN committed : q \in Files(committed[q])

\* No cursor and no confirmation passes what is committed.
CursorInv ==
    /\ published <= Len(committed)
    /\ \A s \in Segment : /\ acked[s] <= Len(committed)
                          /\ \A q \in arch[s] : q <= Len(committed)
    /\ \A p \in Proc : \A a \in answer[p] : a.durable => a.e.q <= Len(committed)

\* A call of PublishAll: what it has read is on disk, what it takes as
\* confirmed is committed, and a file is removed only when it is archived.
CallInv(p) ==
    LET c == pub[p] IN
    /\ \A e \in c.pending \cup c.sent : OnDisk(e)
    /\ c.last <= Len(committed)
    /\ c.pc = "read" => c.todo # {}
    /\ c.pc \in {"ack", "link", "remove"} =>
           \A s \in c.todo : \E e \in c.pending : e.s = s /\ e.q <= c.last
    /\ c.pc \in {"link", "remove"} =>
           \A m \in c.sent : m.q <= Len(committed) /\ c.sent = {m}
    /\ c.pc = "remove" =>
           \A m \in c.sent : \A q \in live[m.s] : q <= m.q => q \in arch[m.s]

\* A process that is gone has left nothing in memory.
Resting(p) ==
    /\ pub[p] = NoCall /\ sequence[p] = -1 /\ appending[p] = {}
    /\ granted[p] = {} /\ publisher[p] = "off"

RestInv == \A p \in Proc : phase[p] = "down" => Resting(p)

SpoolInv ==
    /\ TypeOK
    /\ DiskInv
    /\ SequenceInv
    /\ MessagesInv
    /\ CommittedInv
    /\ CursorInv
    /\ \A p \in Proc : CallInv(p)

-----------------------------------------------------------------------------
(* Smallest and largest numbers *)

\* Every nonempty set of natural numbers has a least element.
LEMMA NatMinimum ==
    ASSUME NEW S \in SUBSET Nat, S # {}
    PROVE  \E x \in S : \A y \in S : x <= y
<1> DEFINE less == {p \in Nat \X Nat : p[1] < p[2]}
<1>1. IsWellFoundedOn(less, Nat)
  BY NatLessThanWellFounded DEF OpToRel
<1>2. PICK x \in S : \A y \in S : ~ (<<y, x>> \in less)
  <2> HIDE DEF less
  <2> QED
    BY <1>1, WFMin
<1>3. \A y \in S : ~ (y < x)
  BY <1>2
<1> QED
  BY <1>3

\* Min returns it.
LEMMA MinOf ==
    ASSUME NEW S \in SUBSET Nat, S # {}
    PROVE  Min(S) \in S /\ \A y \in S : Min(S) <= y
BY NatMinimum DEF Min

\* Max returns the largest element of a bounded set.
LEMMA MaxOf ==
    ASSUME NEW S \in SUBSET Nat, S # {}, NEW n \in Nat, \A y \in S : y <= n
    PROVE  Max(S) \in S /\ \A y \in S : Max(S) >= y
<1> DEFINE B == {b \in Nat : \A y \in S : y <= b}
<1>1. n \in B
  OBVIOUS
<1>2. PICK b \in B : \A c \in B : b <= c
  BY <1>1, NatMinimum
<1>3. b \in S
  <2> SUFFICES ASSUME b \notin S PROVE FALSE
    OBVIOUS
  <2>1. PICK z \in S : TRUE
    OBVIOUS
  <2>2. \A y \in S : y <= b - 1
    OBVIOUS
  <2>3. b - 1 \in B
    BY <2>1, <2>2
  <2> QED
    BY <1>2, <2>3
<1> QED
  BY <1>2, <1>3 DEF Max

\* The largest of a set that consists of 1..n and smaller numbers.
LEMMA MaxIs ==
    ASSUME NEW n \in Nat, NEW S \in SUBSET Nat, n \in S, \A y \in S : y <= n
    PROVE  Max(S) = n
<1>1. Max(S) \in S /\ \A y \in S : Max(S) >= y
  BY MaxOf
<1>2. Max(S) \in Nat /\ Max(S) >= n /\ Max(S) <= n
  BY <1>1
<1> HIDE <1>1
<1> QED
  BY <1>2

-----------------------------------------------------------------------------
(* Steps that add no event *)

\* The state of a call of PublishAll.
Call == [pc : Stage, by : Caller, todo : SUBSET Segment, pending : SUBSET Event,
         sent : SUBSET Event, last : Nat, orig : Nat]

FilesType ==
    /\ dirs \subseteq Segment
    /\ live \in [Segment -> SUBSET (Nat \ {0})]
    /\ arch \in [Segment -> SUBSET (Nat \ {0})]
    /\ acked \in [Segment -> Nat]
    /\ published \in Nat

MemoryType ==
    /\ phase \in [Proc -> {"down", "replay", "serving", "flush", "exiting"}]
    /\ cancelled \in [Proc -> BOOLEAN]
    /\ sequence \in [Proc -> Nat \cup {-1}]
    /\ appending \in [Proc -> SUBSET Segment]
    /\ eventReady \in [Proc -> BOOLEAN]
    /\ publisher \in [Proc -> {"off", "on", "failed"}]
    /\ pub \in [Proc -> Call]

SocketType ==
    /\ conn \in [Proc -> {"none", "up", "cut"}]
    /\ wire \in [Proc -> SUBSET Event]
    /\ answer \in [Proc -> SUBSET [e : Event, durable : BOOLEAN]]
    /\ stale \subseteq Event

HandlerType ==
    /\ handler \in [Proc -> {"none", "replay", "serving", "lost"}]
    /\ granted \in [Proc -> SUBSET Segment]

LedgerType ==
    /\ current \in Proc \cup {NoProc}
    /\ bound \in Proc \cup {NoProc}
    /\ row \in {"offline", "reconciling", "ready"}
    /\ claimed \subseteq Segment
    /\ committed \in Seq(Segment)

\* TypeOK by the parts of the system.
LEMMA TypeParts ==
    TypeOK <=> FilesType /\ MemoryType /\ SocketType /\ HandlerType /\ LedgerType
BY DEF TypeOK, FilesType, MemoryType, SocketType, HandlerType, LedgerType, Call

\* A step that adds no event to the spools keeps the invariant, if every
\* message it leaves is on disk and no cursor passes what is committed.
LEMMA Kept ==
    ASSUME SpoolInv, TypeOK', \A s \in Segment : Files(s)' = Files(s),
           dirs \subseteq dirs', Len(committed) <= Len(committed)',
           SequenceInv', CommittedInv',
           \A e \in stale' : e \in stale \/ \E p \in Proc : e \in wire[p],
           \A p \in Proc : \A e \in wire'[p] : e \in wire[p] \/ OnDisk(e),
           \A p \in Proc : \A a \in answer'[p] :
               a \in answer[p] \/ (a.durable => a.e.q <= Len(committed)'),
           published' <= Len(committed)',
           \A s \in Segment : /\ acked'[s] <= Len(committed)'
                              /\ \A q \in arch'[s] : q <= Len(committed)',
           \A p \in Proc : CallInv(p)'
    PROVE  SpoolInv'
<1>1. Numbers' = Numbers /\ Newest' = Newest
  BY DEF Numbers, Newest
<1>2. \A e \in Event : OnDisk(e)' <=> OnDisk(e)
  BY DEF OnDisk, Event
<1>3. DiskInv'
  BY <1>1 DEF SpoolInv, DiskInv
<1>4. /\ stale' \subseteq Event /\ stale \subseteq Event
      /\ \A p \in Proc : wire[p] \subseteq Event /\ wire'[p] \subseteq Event
  BY DEF SpoolInv, TypeOK
<1>5. \A e \in stale' : OnDisk(e)'
  BY <1>2, <1>4 DEF SpoolInv, MessagesInv
<1>6. \A p \in Proc : \A e \in wire'[p] : OnDisk(e)'
  BY <1>2, <1>4 DEF SpoolInv, MessagesInv
<1>7. CursorInv'
  <2>1. \A p \in Proc : \A a \in answer'[p] : a.durable => a.e.q <= Len(committed)'
    <3> SUFFICES ASSUME NEW p \in Proc, NEW a \in answer'[p], a.durable, a \in answer[p]
                 PROVE  a.e.q <= Len(committed)'
      OBVIOUS
    <3>1. a \in [e : Event, durable : BOOLEAN] /\ a.e.q <= Len(committed)
      BY DEF SpoolInv, TypeOK, CursorInv
    <3>2. a.e.q \in Nat
      BY <3>1 DEF Event
    <3>3. Len(committed) \in Nat /\ Len(committed)' \in Nat
      <4>1. committed \in Seq(Segment) /\ committed' \in Seq(Segment)
        BY DEF SpoolInv, TypeOK
      <4> QED
        BY <4>1
    <3> QED
      BY <3>1, <3>2, <3>3
  <2> QED
    BY <2>1 DEF CursorInv
<1>8. MessagesInv'
  BY <1>5, <1>6 DEF MessagesInv
<1> QED
  BY <1>3, <1>7, <1>8 DEF SpoolInv

-----------------------------------------------------------------------------
(* PublishAll *)

\* The call that begins is a call.
LEMMA NoCallType == NoCall \in Call
BY DEF NoCall, Call, Stage, Caller

\* A process at rest in PublishAll promises nothing.
LEMMA RestingCall ==
    ASSUME NEW p \in Proc, pub'[p] = NoCall, committed' \in Seq(Segment)
    PROVE  CallInv(p)'
<1>1. Len(committed)' \in Nat
  OBVIOUS
<1> QED
  BY <1>1 DEF CallInv, NoCall

\* What the memory of a process and the messages may do in a step that sends
\* nothing.
Recedes ==
    /\ \A r \in Proc :
           \/ sequence'[r] = sequence[r] /\ appending'[r] = appending[r]
           \/ sequence'[r] = -1 /\ appending'[r] = {}
    /\ \A e \in stale' : e \in stale \/ \E r \in Proc : e \in wire[r]
    /\ \A r \in Proc : wire'[r] \subseteq wire[r] /\ answer'[r] \subseteq answer[r]

\* A process that ends forgets what is in its memory.
LEMMA EndsShape ==
    ASSUME MemoryType, SocketType, HandlerType, NEW p \in Proc, Ends(p)
    PROVE  /\ MemoryType' /\ SocketType' /\ HandlerType'
           /\ pub'[p] = NoCall
           /\ Recedes
<1>1. MemoryType'
  BY NoCallType DEF MemoryType, Ends
<1>2. SocketType'
  BY DEF SocketType, Ends
<1>3. HandlerType'
  BY DEF HandlerType, Ends
<1>4. Recedes
  BY DEF Recedes, MemoryType, SocketType, Ends
<1> QED
  BY <1>1, <1>2, <1>3, <1>4 DEF MemoryType, Ends

\* Whoever called it, PublishAll returns with its state forgotten and nothing
\* new on the socket.
LEMMA ReturnsShape ==
    ASSUME MemoryType, SocketType, HandlerType, NEW p \in Proc, NEW ok,
           NEW left \in SUBSET answer[p], Returns(p, ok, left)
    PROVE  /\ MemoryType' /\ SocketType' /\ HandlerType'
           /\ pub'[p] = NoCall
           /\ Recedes
<1>1. CASE Ends(p)
  BY <1>1, EndsShape
<1>2. CASE /\ phase' = [phase EXCEPT ![p] = "serving"]
           /\ publisher' = [publisher EXCEPT ![p] = "on"]
           /\ pub' = [pub EXCEPT ![p] = NoCall]
           /\ UNCHANGED <<cancelled, sequence, appending, eventReady, socket, handler,
                          granted>>
  BY <1>2, NoCallType DEF MemoryType, SocketType, HandlerType, Recedes, socket
<1>3. ASSUME pub' = [pub EXCEPT ![p] = NoCall], answer' = [answer EXCEPT ![p] = left],
             \/ /\ publisher' = [publisher EXCEPT ![p] = IF ok THEN @ ELSE "failed"]
                /\ UNCHANGED <<phase, cancelled>>
             \/ /\ phase' = [phase EXCEPT ![p] = "exiting"]
                /\ cancelled' = [cancelled EXCEPT ![p] = TRUE]
                /\ UNCHANGED publisher,
             UNCHANGED <<sequence, appending, eventReady, conn, wire, stale, handler,
                         granted>>
      PROVE  /\ MemoryType' /\ SocketType' /\ HandlerType'
             /\ pub'[p] = NoCall
             /\ Recedes
  <2>1. SocketType'
    BY <1>3 DEF SocketType
  <2>2. MemoryType'
    BY <1>3, NoCallType DEF MemoryType
  <2>3. Recedes
    BY <1>3 DEF SocketType, Recedes
  <2> QED
    BY <1>3, <2>1, <2>2, <2>3 DEF HandlerType, MemoryType
<1> QED
  BY <1>1, <1>2, <1>3 DEF Returns

\* Inside PublishAll only its own state changes.
LEMMA InsideShape ==
    ASSUME MemoryType, HandlerType, NEW p \in Proc, NEW c \in Call, Inside(p, c)
    PROVE  /\ MemoryType' /\ HandlerType'
           /\ pub'[p] = c
           /\ UNCHANGED <<sequence, appending>>
BY DEF MemoryType, HandlerType, Inside

\* The sequence stays right when no event is added.
LEMMA SequenceKept ==
    ASSUME SequenceInv, \A s \in Segment : Files(s)' = Files(s),
           \A r \in Proc :
               \/ sequence'[r] = sequence[r] /\ appending'[r] = appending[r]
               \/ sequence'[r] = -1 /\ appending'[r] = {}
    PROVE  SequenceInv'
<1>1. Newest' = Newest
  BY DEF Numbers, Newest
<1> QED
  BY <1>1 DEF SequenceInv

\* In this step every process but p is gone.
Alone(p) ==
    \A r \in Proc \ {p} : /\ pub[r] = NoCall /\ pub'[r] = NoCall
                          /\ appending[r] = {} /\ appending'[r] = {}
                          /\ sequence[r] = -1 /\ sequence'[r] = -1

\* A step of PublishAll that sends nothing, moves no file into or out of a
\* spool, and advances the cursors at most to what is committed.
LEMMA PublishKept ==
    ASSUME SpoolInv, NEW p \in Proc, Alone(p), FilesType', MemoryType', SocketType',
           HandlerType', UNCHANGED Coordinator, dirs' = dirs,
           \A s \in Segment : Files(s)' = Files(s),
           \A r \in Proc :
               \/ sequence'[r] = sequence[r] /\ appending'[r] = appending[r]
               \/ sequence'[r] = -1 /\ appending'[r] = {},
           \A e \in stale' : e \in stale \/ \E r \in Proc : e \in wire[r],
           \A r \in Proc : \A e \in wire'[r] : e \in wire[r] \/ OnDisk(e),
           \A r \in Proc : answer'[r] \subseteq answer[r],
           published' <= Len(committed),
           \A s \in Segment : /\ acked'[s] <= Len(committed)
                              /\ \A q \in arch'[s] : q <= Len(committed),
           CallInv(p)'
    PROVE  SpoolInv'
<1>1. committed' = committed /\ LedgerType'
  BY TypeParts DEF Coordinator, SpoolInv, LedgerType
<1>2. TypeOK'
  BY <1>1, TypeParts DEF TypeOK, FilesType, MemoryType, SocketType, HandlerType, LedgerType,
     Call
<1>3. SequenceInv'
  BY SequenceKept DEF SpoolInv
<1>4. CommittedInv'
  <2>1. \A q \in DOMAIN committed : committed[q] \in Segment
    BY DEF SpoolInv, TypeOK
  <2> QED
    BY <1>1, <2>1 DEF SpoolInv, CommittedInv
<1>5. Len(committed) <= Len(committed)'
  <2>1. committed \in Seq(Segment)
    BY DEF SpoolInv, TypeOK
  <2>2. Len(committed) \in Nat
    BY <2>1
  <2> QED
    BY <1>1, <2>2
<1>6. \A r \in Proc \ {p} : CallInv(r)'
  BY <1>1, RestingCall DEF Alone, LedgerType
<1> QED
  BY <1>1, <1>2, <1>3, <1>4, <1>5, <1>6, Kept

\* PublishAll returns and has touched no file in this step.
LEMMA ReturnsKept ==
    ASSUME SpoolInv, NEW p \in Proc, Alone(p), NEW ok, NEW left \in SUBSET answer[p],
           Returns(p, ok, left), UNCHANGED <<files, Coordinator>>
    PROVE  SpoolInv'
<1>1. FilesType /\ MemoryType /\ SocketType /\ HandlerType /\ LedgerType
  BY TypeParts DEF SpoolInv
<1>2. /\ MemoryType' /\ SocketType' /\ HandlerType'
      /\ pub'[p] = NoCall
      /\ Recedes
  BY <1>1, ReturnsShape
<1>3. FilesType' /\ dirs' = dirs /\ \A s \in Segment : Files(s)' = Files(s)
  BY <1>1 DEF files, FilesType, Files
<1>4. CallInv(p)'
  BY <1>1, <1>2, RestingCall DEF Coordinator, LedgerType
<1>5. /\ published' <= Len(committed)
      /\ \A s \in Segment : /\ acked'[s] <= Len(committed)
                            /\ \A q \in arch'[s] : q <= Len(committed)
  BY DEF files, SpoolInv, CursorInv
<1> QED
  BY <1>2, <1>3, <1>4, <1>5, PublishKept DEF Recedes

\* A step inside PublishAll that touches no file and no socket.
LEMMA InsideKept ==
    ASSUME SpoolInv, NEW p \in Proc, Alone(p), NEW c \in Call, Inside(p, c),
           UNCHANGED <<files, socket, Coordinator>>, CallInv(p)'
    PROVE  SpoolInv'
<1>1. FilesType /\ MemoryType /\ SocketType /\ HandlerType /\ LedgerType
  BY TypeParts DEF SpoolInv
<1>2. MemoryType' /\ HandlerType' /\ UNCHANGED <<sequence, appending>>
  BY <1>1, InsideShape
<1>3. FilesType' /\ dirs' = dirs /\ \A s \in Segment : Files(s)' = Files(s)
  BY <1>1 DEF files, FilesType, Files
<1>4. SocketType' /\ UNCHANGED <<wire, answer, stale>>
  BY <1>1 DEF socket, SocketType
<1>5. /\ published' <= Len(committed)
      /\ \A s \in Segment : /\ acked'[s] <= Len(committed)
                            /\ \A q \in arch'[s] : q <= Len(committed)
  BY DEF files, SpoolInv, CursorInv
<1> QED
  BY <1>2, <1>3, <1>4, <1>5, PublishKept

\* A call finds at its beginning that the cursor passes nothing committed.
LEMMA BeginKept ==
    ASSUME SpoolInv, NEW p \in Proc, Alone(p), NEW by \in Caller, BeginPublish(p, by)
    PROVE  SpoolInv'
<1> DEFINE c == [NoCall EXCEPT !.pc = IF dirs = {} THEN "send" ELSE "read",
                               !.by = by, !.todo = dirs,
                               !.last = published, !.orig = published]
<1>1. FilesType /\ MemoryType /\ SocketType /\ HandlerType /\ LedgerType
  BY TypeParts DEF SpoolInv
<1>2. /\ c.pc = IF dirs = {} THEN "send" ELSE "read"
      /\ c.todo = dirs /\ c.pending = {} /\ c.sent = {} /\ c.last = published
  BY DEF NoCall
<1>3. c \in Call
  BY <1>1 DEF NoCall, Call, FilesType, Stage, Caller
<1>4. pub' = [pub EXCEPT ![p] = c]
  BY DEF BeginPublish
<1> HIDE DEF c
<1>5. pub'[p] = c /\ MemoryType'
  BY <1>1, <1>3, <1>4, ZenonT(60) DEF BeginPublish, MemoryType
<1>6. /\ UNCHANGED <<files, socket, handler, granted, Coordinator, sequence, appending>>
  BY DEF BeginPublish
<1>7. FilesType' /\ SocketType' /\ HandlerType' /\ \A s \in Segment : Files(s)' = Files(s)
  BY <1>1, <1>6 DEF FilesType, SocketType, HandlerType, files, socket, Files
<1>8. published <= Len(committed) /\ committed' = committed
  BY <1>6 DEF Coordinator, SpoolInv, CursorInv
<1>9. CallInv(p)'
  BY <1>2, <1>5, <1>8 DEF CallInv
<1>10. /\ published' <= Len(committed)
       /\ \A s \in Segment : /\ acked'[s] <= Len(committed)
                             /\ \A q \in arch'[s] : q <= Len(committed)
  BY <1>6 DEF files, SpoolInv, CursorInv
<1> QED
  BY <1>5, <1>6, <1>7, <1>9, <1>10, PublishKept DEF files, socket

\* What a spool holds is on disk, and its acknowledged position is committed.
LEMMA ReadKept ==
    ASSUME SpoolInv, NEW p \in Proc, Alone(p), ReadSpool(p)
    PROVE  SpoolInv'
<1>1. pub[p] \in Call /\ pub[p].pc = "read" /\ pub[p].todo # {} /\ CallInv(p)
  BY TypeParts DEF SpoolInv, MemoryType, ReadSpool, CallInv
<1>2. PICK todo \in SUBSET Segment, pending \in SUBSET Event, last \in Nat :
          todo = pub[p].todo /\ pending = pub[p].pending /\ last = pub[p].last
  BY <1>1 DEF Call
<1>3. PICK s \in Segment : s = Min(todo) /\ s \in todo
  BY <1>1, <1>2, MinOf, ConstantsAssumption
<1> DEFINE new == {[q |-> q, s |-> s] : q \in {x \in live[s] : x > acked[s]}}
           c == [pub[p] EXCEPT
                  !.pc = IF pub[p].todo = {s} THEN "send" ELSE "read",
                  !.todo = @ \ {s},
                  !.pending = @ \cup new,
                  !.last = Max({@, acked[s]})]
<1>4. Inside(p, c) /\ UNCHANGED <<files, socket, Coordinator>>
  BY <1>2, <1>3 DEF ReadSpool
<1>5. live[s] \subseteq Nat /\ acked[s] \in Nat /\ acked[s] <= Len(committed)
  BY TypeParts DEF SpoolInv, FilesType, CursorInv
<1>6. new \subseteq Event /\ \A e \in new : OnDisk(e)
  BY <1>5 DEF Event, OnDisk, Files
<1>7. PICK top \in {last, acked[s]} : top = Max({last, acked[s]})
  <2> DEFINE b == IF last > acked[s] THEN last ELSE acked[s]
  <2>1. b \in Nat /\ \A y \in {last, acked[s]} : y <= b
    BY <1>5
  <2>2. {last, acked[s]} \in SUBSET Nat /\ {last, acked[s]} # {}
    BY <1>5
  <2> HIDE DEF b
  <2>3. Max({last, acked[s]}) \in {last, acked[s]}
    BY <2>1, <2>2, MaxOf
  <2> QED
    BY <2>3
<1>8. /\ c.pc = IF todo = {s} THEN "send" ELSE "read"
      /\ c.todo = todo \ {s} /\ c.pending = pending \cup new
      /\ c.sent = pub[p].sent /\ c.last = top
  <2> HIDE DEF new
  <2> QED
    BY <1>1, <1>2, <1>7 DEF Call
<1>9. c \in Call
  <2>1. top \in Nat
    BY <1>5, <1>7
  <2> HIDE DEF new
  <2> QED
    BY <1>1, <1>2, <1>6, <1>7, <2>1 DEF Call, Stage
<1> HIDE DEF c, new
<1>10. pub'[p] = c
  BY <1>4, <1>9, InsideShape, TypeParts DEF SpoolInv
<1>11. CallInv(p)'
  <2>1. \A e \in c.pending \cup c.sent : OnDisk(e)
    BY <1>1, <1>2, <1>6, <1>8 DEF CallInv
  <2>2. c.last <= Len(committed)
    BY <1>1, <1>2, <1>5, <1>7, <1>8 DEF CallInv
  <2>3. c.pc = "read" => c.todo # {}
    BY <1>3, <1>8
  <2>4. c.pc \notin {"ack", "link", "remove"}
    BY <1>8
  <2>5. UNCHANGED <<live, arch, committed>>
    BY <1>4 DEF files, Coordinator
  <2> QED
    BY <1>10, <2>1, <2>2, <2>3, <2>4, <2>5 DEF CallInv, OnDisk, Files
<1> QED
  BY <1>4, <1>9, <1>11, InsideKept

\* The event that is sent is on disk.
LEMMA SendKept ==
    ASSUME SpoolInv, NEW p \in Proc, Alone(p), SendEvent(p)
    PROVE  SpoolInv'
<1>1. FilesType /\ MemoryType /\ SocketType /\ HandlerType /\ LedgerType /\ CallInv(p)
  BY TypeParts DEF SpoolInv
<1>2. pub[p] \in Call /\ pub[p].pc = "send" /\ UNCHANGED <<files, Coordinator>>
  BY <1>1 DEF MemoryType, SendEvent
<1>3. CASE Returns(p, FALSE, answer[p])
  BY <1>2, <1>3, ReturnsKept
<1>4. ASSUME NEW e \in pub[p].pending,
             Inside(p, [pub[p] EXCEPT !.pc = "wait", !.sent = {e}]),
             wire' = [wire EXCEPT ![p] = @ \cup {e}],
             UNCHANGED <<conn, answer, stale>>
      PROVE  SpoolInv'
  <2> DEFINE c == [pub[p] EXCEPT !.pc = "wait", !.sent = {e}]
  <2>1. e \in Event /\ OnDisk(e)
    BY <1>1, <1>2 DEF Call, CallInv
  <2>2. /\ c \in Call /\ c.pc = "wait" /\ c.sent = {e} /\ c.pending = pub[p].pending
        /\ c.last = pub[p].last
    BY <1>2, <2>1 DEF Call, Stage
  <2> HIDE DEF c
  <2>3. /\ MemoryType' /\ HandlerType' /\ pub'[p] = c
        /\ UNCHANGED <<sequence, appending>>
    BY <1>1, <1>4, <2>2, InsideShape DEF c
  <2>4. SocketType' /\ \A r \in Proc : \A f \in wire'[r] : f \in wire[r] \/ OnDisk(f)
    BY <1>1, <1>4, <2>1 DEF SocketType
  <2>5. CallInv(p)'
    <3>1. UNCHANGED <<live, arch, committed>>
      BY <1>2 DEF files, Coordinator
    <3> QED
      BY <1>1, <2>1, <2>2, <2>3, <3>1 DEF CallInv, OnDisk, Files
  <2>6. FilesType' /\ dirs' = dirs /\ \A s \in Segment : Files(s)' = Files(s)
    BY <1>1, <1>2 DEF files, FilesType, Files
  <2>7. /\ published' <= Len(committed)
        /\ \A s \in Segment : /\ acked'[s] <= Len(committed)
                              /\ \A q \in arch'[s] : q <= Len(committed)
    BY <1>2 DEF files, SpoolInv, CursorInv
  <2> QED
    BY <1>2, <1>4, <2>3, <2>4, <2>5, <2>6, <2>7, PublishKept
<1> QED
  BY <1>2, <1>3, <1>4 DEF SendEvent, Lowest, Unsent

\* A durable answer is about a committed event.
LEMMA AnswerKept ==
    ASSUME SpoolInv, NEW p \in Proc, Alone(p), TakeAnswer(p)
    PROVE  SpoolInv'
<1>1. FilesType /\ MemoryType /\ SocketType /\ HandlerType /\ LedgerType /\ CallInv(p)
  BY TypeParts DEF SpoolInv
<1>2. pub[p] \in Call /\ pub[p].pc = "wait" /\ UNCHANGED <<files, Coordinator>>
  BY <1>1 DEF MemoryType, TakeAnswer
<1>3. ASSUME NEW a \in answer[p], Returns(p, FALSE, answer[p] \ {a})
      PROVE  SpoolInv'
  BY <1>2, <1>3, ReturnsKept
<1>4. ASSUME NEW a \in answer[p], a.durable,
             Inside(p, [pub[p] EXCEPT !.pc = "send", !.sent = {}, !.last = a.e.q]),
             answer' = [answer EXCEPT ![p] = @ \ {a}],
             UNCHANGED <<conn, wire, stale>>
      PROVE  SpoolInv'
  <2> DEFINE c == [pub[p] EXCEPT !.pc = "send", !.sent = {}, !.last = a.e.q]
  <2>1. a.e.q \in Nat /\ a.e.q <= Len(committed)
    BY <1>1, <1>4 DEF SocketType, Event, SpoolInv, CursorInv
  <2>2. /\ c \in Call /\ c.pc = "send" /\ c.sent = {} /\ c.pending = pub[p].pending
        /\ c.last = a.e.q
    BY <1>2, <2>1 DEF Call, Stage
  <2> HIDE DEF c
  <2>3. /\ MemoryType' /\ HandlerType' /\ pub'[p] = c
        /\ UNCHANGED <<sequence, appending>>
    BY <1>1, <1>4, <2>2, InsideShape DEF c
  <2>4. SocketType' /\ \A r \in Proc : answer'[r] \subseteq answer[r]
    BY <1>1, <1>4 DEF SocketType
  <2>5. CallInv(p)'
    <3>1. UNCHANGED <<live, arch, committed>>
      BY <1>2 DEF files, Coordinator
    <3> QED
      BY <1>1, <2>1, <2>2, <2>3, <3>1 DEF CallInv, OnDisk, Files
  <2>6. FilesType' /\ dirs' = dirs /\ \A s \in Segment : Files(s)' = Files(s)
    BY <1>1, <1>2 DEF files, FilesType, Files
  <2>7. /\ published' <= Len(committed)
        /\ \A s \in Segment : /\ acked'[s] <= Len(committed)
                              /\ \A q \in arch'[s] : q <= Len(committed)
    BY <1>2 DEF files, SpoolInv, CursorInv
  <2> QED
    BY <1>2, <1>4, <2>3, <2>4, <2>5, <2>6, <2>7, PublishKept
<1> QED
  BY <1>2, <1>3, <1>4 DEF TakeAnswer

\* Only spools with a confirmed event are acknowledged.
LEMMA ConfirmedKept ==
    ASSUME SpoolInv, NEW p \in Proc, Alone(p), Confirmed(p)
    PROVE  SpoolInv'
<1>1. FilesType /\ MemoryType /\ SocketType /\ HandlerType /\ LedgerType /\ CallInv(p)
  BY TypeParts DEF SpoolInv
<1>2. pub[p] \in Call /\ pub[p].pc = "send" /\ UNCHANGED <<files, Coordinator>>
  BY <1>1 DEF MemoryType, Confirmed
<1>3. CASE Returns(p, TRUE, answer[p])
  BY <1>2, <1>3, ReturnsKept
<1> DEFINE advanced == {e.s : e \in {x \in pub[p].pending : x.q <= pub[p].last}}
           c == [pub[p] EXCEPT !.pc = IF advanced = {} THEN "write" ELSE "ack",
                               !.todo = advanced]
<1>4. ASSUME Inside(p, c), UNCHANGED socket
      PROVE  SpoolInv'
  <2>1. \A e \in pub[p].pending : e \in Event /\ e.s \in Segment
    BY <1>2 DEF Call, Event
  <2>2. advanced \subseteq Segment
    BY <2>1
  <2>3. \A s \in advanced : \E e \in pub[p].pending : e.s = s /\ e.q <= pub[p].last
    OBVIOUS
  <2> HIDE DEF advanced
  <2>4. /\ c \in Call /\ c.pc \in {"write", "ack"} /\ c.todo = advanced
        /\ c.sent = pub[p].sent /\ c.pending = pub[p].pending /\ c.last = pub[p].last
    BY <1>2, <2>2 DEF Call, Stage
  <2> HIDE DEF c
  <2>5. pub'[p] = c
    BY <1>1, <1>4, <2>4, InsideShape
  <2>6. UNCHANGED <<live, arch, committed>>
    BY <1>2 DEF files, Coordinator
  <2>7. CallInv(p)'
    BY <1>1, <2>3, <2>4, <2>5, <2>6 DEF CallInv, OnDisk, Files
  <2> QED
    BY <1>2, <1>4, <2>4, <2>7, InsideKept
<1> QED
  BY <1>2, <1>3, <1>4 DEF Confirmed

\* The acknowledged position of a spool is that of its last confirmed event.
LEMMA TargetOf ==
    ASSUME NEW c \in Call, NEW s \in Segment,
           \E e \in c.pending : e.s = s /\ e.q <= c.last
    PROVE  \E e \in c.pending : e.s = s /\ e.q = Target(c, s) /\ e.q <= c.last
<1> DEFINE S == {e.q : e \in {x \in c.pending : x.s = s /\ x.q <= c.last}}
<1>1. c.last \in Nat /\ \A e \in c.pending : e.q \in Nat
  BY DEF Call, Event
<1>2. S \in SUBSET Nat /\ S # {} /\ \A y \in S : y <= c.last
  BY <1>1
<1>3. \A y \in S : \E e \in c.pending : e.s = s /\ e.q = y /\ e.q <= c.last
  OBVIOUS
<1>4. Target(c, s) = Max(S)
  BY DEF Target
<1> HIDE DEF S
<1>5. Target(c, s) \in S
  BY <1>1, <1>2, <1>4, MaxOf
<1> QED
  BY <1>3, <1>5

\* ack.json never passes what is committed.
LEMMA AckKept ==
    ASSUME SpoolInv, NEW p \in Proc, Alone(p), AckThrough(p)
    PROVE  SpoolInv'
<1>1. FilesType /\ MemoryType /\ SocketType /\ HandlerType /\ LedgerType /\ CallInv(p)
  BY TypeParts DEF SpoolInv
<1>2. pub[p] \in Call /\ pub[p].pc = "ack" /\ UNCHANGED Coordinator
  BY <1>1 DEF MemoryType, AckThrough
<1>3. CASE Returns(p, FALSE, answer[p]) /\ UNCHANGED files
  BY <1>2, <1>3, ReturnsKept
<1>4. ASSUME NEW s \in pub[p].todo,
             acked' = [acked EXCEPT ![s] = Target(pub[p], s)],
             Inside(p, [pub[p] EXCEPT !.pc = "link",
                                      !.sent = {[q |-> Target(pub[p], s), s |-> s]}]),
             UNCHANGED <<dirs, live, arch, published, socket>>
      PROVE  SpoolInv'
  <2>1. s \in Segment /\ \E e \in pub[p].pending : e.s = s /\ e.q <= pub[p].last
    BY <1>1, <1>2 DEF Call, CallInv
  <2>2. PICK e \in pub[p].pending :
            e.s = s /\ e.q = Target(pub[p], s) /\ e.q <= pub[p].last
    BY <1>2, <2>1, TargetOf
  <2>3. /\ e \in Event /\ OnDisk(e) /\ e.q \in Nat
        /\ [q |-> Target(pub[p], s), s |-> s] = e
    BY <1>1, <1>2, <2>2 DEF Call, CallInv, Event
  <2>4. e.q <= Len(committed)
    <3>1. pub[p].last \in Nat /\ pub[p].last <= Len(committed) /\ Len(committed) \in Nat
      BY <1>1, <1>2 DEF Call, CallInv, LedgerType
    <3> QED
      BY <2>2, <2>3, <3>1
  <2> DEFINE c == [pub[p] EXCEPT !.pc = "link", !.sent = {e}]
  <2>5. /\ c \in Call /\ c.pc = "link" /\ c.sent = {e} /\ c.pending = pub[p].pending
        /\ c.last = pub[p].last /\ c.todo = pub[p].todo
    BY <1>2, <2>3 DEF Call, Stage
  <2>6. Inside(p, c)
    BY <1>4, <2>3
  <2> HIDE DEF c
  <2>7. /\ MemoryType' /\ HandlerType' /\ pub'[p] = c
        /\ UNCHANGED <<sequence, appending>>
    BY <1>1, <2>5, <2>6, InsideShape
  <2>8. FilesType' /\ \A r \in Segment : Files(r)' = Files(r)
    BY <1>1, <1>4, <2>2, <2>3 DEF FilesType, Files
  <2>9. SocketType' /\ UNCHANGED <<wire, answer, stale>>
    BY <1>1, <1>4 DEF SocketType, socket
  <2>10. committed' = committed
    BY <1>2 DEF Coordinator
  <2>11. CallInv(p)'
    BY <1>1, <1>2, <1>4, <2>3, <2>4, <2>5, <2>7, <2>10 DEF CallInv, OnDisk, Files
  <2>12. /\ published' <= Len(committed)
         /\ \A r \in Segment : /\ acked'[r] <= Len(committed)
                               /\ \A q \in arch'[r] : q <= Len(committed)
    BY <1>1, <1>4, <2>2, <2>4 DEF SpoolInv, CursorInv, FilesType
  <2> QED
    BY <1>2, <1>4, <2>7, <2>8, <2>9, <2>11, <2>12, PublishKept
<1> QED
  BY <1>2, <1>3, <1>4 DEF AckThrough

\* Only committed events are archived, and all of them before one is removed.
LEMMA LinkKept ==
    ASSUME SpoolInv, NEW p \in Proc, Alone(p), LinkArchive(p)
    PROVE  SpoolInv' /\ \A r \in Segment : Files(r)' = Files(r)
<1>1. FilesType /\ MemoryType /\ SocketType /\ HandlerType /\ LedgerType /\ CallInv(p)
  BY TypeParts DEF SpoolInv
<1>2. pub[p] \in Call /\ pub[p].pc = "link" /\ UNCHANGED <<socket, Coordinator>>
  BY <1>1 DEF MemoryType, LinkArchive
<1>3. PICK m \in pub[p].sent :
          LET left == {q \in live[m.s] : q <= m.q} \ arch[m.s] IN
          IF left = {}
          THEN Inside(p, [pub[p] EXCEPT !.pc = "remove"]) /\ UNCHANGED files
          ELSE /\ arch' = [arch EXCEPT ![m.s] = @ \cup {Min(left)}]
               /\ Inside(p, pub[p])
               /\ UNCHANGED <<dirs, live, acked, published>>
  BY DEF LinkArchive
<1> DEFINE left == {q \in live[m.s] : q <= m.q} \ arch[m.s]
<1>4. m \in Event /\ m.s \in Segment /\ m.q \in Nat /\ m.q <= Len(committed)
  BY <1>1, <1>2 DEF Call, Event, CallInv
<1>5. CASE left = {}
  <2> DEFINE c == [pub[p] EXCEPT !.pc = "remove"]
  <2>0. Inside(p, c) /\ UNCHANGED files
    BY <1>3, <1>5
  <2>1. /\ c \in Call /\ c.pc = "remove" /\ c.sent = pub[p].sent
        /\ c.pending = pub[p].pending /\ c.last = pub[p].last /\ c.todo = pub[p].todo
    BY <1>2 DEF Call, Stage
  <2> HIDE DEF c
  <2>2. pub'[p] = c
    BY <1>1, <2>0, <2>1, InsideShape
  <2>3. UNCHANGED <<live, arch, committed>>
    BY <1>2, <2>0 DEF files, Coordinator
  <2>4. pub[p].sent = {m}
    BY <1>1, <1>2 DEF CallInv
  <2>5. \A q \in live[m.s] : q <= m.q => q \in arch[m.s]
    BY <1>5
  <2>6. CallInv(p)'
    BY <1>1, <1>2, <2>1, <2>2, <2>3, <2>4, <2>5 DEF CallInv, OnDisk, Files
  <2> QED
    BY <1>2, <2>0, <2>1, <2>6, InsideKept DEF files, Files
<1>6. CASE left # {}
  <2>1. /\ arch' = [arch EXCEPT ![m.s] = @ \cup {Min(left)}]
        /\ Inside(p, pub[p])
        /\ UNCHANGED <<dirs, live, acked, published>>
    BY <1>3, <1>6
  <2>2. left \in SUBSET Nat
    BY <1>1, <1>4 DEF FilesType
  <2>3. Min(left) \in live[m.s] /\ Min(left) <= m.q
    <3>1. Min(left) \in left
      BY <1>6, <2>2, MinOf
    <3> QED
      BY <3>1
  <2> HIDE DEF left
  <2>4. Min(left) \in Nat \ {0}
    BY <1>1, <1>4, <2>3 DEF FilesType
  <2>5. /\ arch' \in [Segment -> SUBSET (Nat \ {0})]
        /\ \A r \in Segment : arch'[r] = IF r = m.s THEN arch[r] \cup {Min(left)} ELSE arch[r]
    BY <1>1, <1>4, <2>1, <2>4 DEF FilesType
  <2>6. FilesType' /\ \A r \in Segment : Files(r)' = Files(r)
    BY <1>1, <2>1, <2>3, <2>5 DEF FilesType, Files
  <2>7. /\ MemoryType' /\ HandlerType' /\ pub'[p] = pub[p]
        /\ UNCHANGED <<sequence, appending>>
    BY <1>1, <1>2, <2>1, InsideShape
  <2>8. SocketType' /\ UNCHANGED <<wire, answer, stale>>
    BY <1>1, <1>2 DEF SocketType, socket
  <2>9. committed' = committed /\ Len(committed) \in Nat
    BY <1>1, <1>2 DEF Coordinator, LedgerType
  <2>10. CallInv(p)'
    BY <1>1, <1>2, <2>1, <2>6, <2>7, <2>9 DEF CallInv, OnDisk, Call, Event
  <2>11. Min(left) <= Len(committed)
    BY <1>4, <2>3, <2>4, <2>9
  <2>12. /\ published' <= Len(committed)
         /\ \A r \in Segment : /\ acked'[r] <= Len(committed)
                               /\ \A q \in arch'[r] : q <= Len(committed)
    BY <2>1, <2>5, <2>11 DEF SpoolInv, CursorInv
  <2> QED
    BY <1>2, <2>1, <2>6, <2>7, <2>8, <2>10, <2>12, PublishKept
<1> QED
  BY <1>5, <1>6

\* A file leaves the spool only when it is in the archive.
LEMMA RemoveKept ==
    ASSUME SpoolInv, NEW p \in Proc, Alone(p), RemoveArchived(p)
    PROVE  SpoolInv' /\ \A r \in Segment : Files(r)' = Files(r)
<1>1. FilesType /\ MemoryType /\ SocketType /\ HandlerType /\ LedgerType /\ CallInv(p)
  BY TypeParts DEF SpoolInv
<1>2. pub[p] \in Call /\ pub[p].pc = "remove" /\ UNCHANGED <<socket, Coordinator>>
  BY <1>1 DEF MemoryType, RemoveArchived
<1>3. PICK m \in pub[p].sent :
          LET left == {q \in live[m.s] : q <= m.q} IN
          IF left = {}
          THEN /\ Inside(p, [pub[p] EXCEPT
                        !.pc = IF pub[p].todo = {m.s} THEN "write" ELSE "ack",
                        !.todo = @ \ {m.s}, !.sent = {}])
               /\ UNCHANGED files
          ELSE /\ live' = [live EXCEPT ![m.s] = @ \ {Min(left)}]
               /\ Inside(p, pub[p])
               /\ UNCHANGED <<dirs, arch, acked, published>>
  BY DEF RemoveArchived
<1> DEFINE left == {q \in live[m.s] : q <= m.q}
<1>4. m \in Event /\ m.s \in Segment /\ m.q \in Nat
  BY <1>1, <1>2 DEF Call, Event, CallInv
<1>5. CASE left = {}
  <2> DEFINE c == [pub[p] EXCEPT
                    !.pc = IF pub[p].todo = {m.s} THEN "write" ELSE "ack",
                    !.todo = @ \ {m.s}, !.sent = {}]
  <2>0. Inside(p, c) /\ UNCHANGED files
    BY <1>3, <1>5
  <2>1. /\ c \in Call /\ c.pc \in {"write", "ack"} /\ c.sent = {}
        /\ c.pending = pub[p].pending /\ c.last = pub[p].last
        /\ c.todo = pub[p].todo \ {m.s}
    BY <1>2 DEF Call, Stage
  <2> HIDE DEF c
  <2>2. pub'[p] = c
    BY <1>1, <2>0, <2>1, InsideShape
  <2>3. UNCHANGED <<live, arch, committed>>
    BY <1>2, <2>0 DEF files, Coordinator
  <2>4. CallInv(p)'
    BY <1>1, <1>2, <2>1, <2>2, <2>3 DEF CallInv, OnDisk, Files
  <2> QED
    BY <1>2, <2>0, <2>1, <2>4, InsideKept DEF files, Files
<1>6. CASE left # {}
  <2>1. /\ live' = [live EXCEPT ![m.s] = @ \ {Min(left)}]
        /\ Inside(p, pub[p])
        /\ UNCHANGED <<dirs, arch, acked, published>>
    BY <1>3, <1>6
  <2>2. Min(left) \in arch[m.s]
    <3>1. left \in SUBSET Nat
      BY <1>1, <1>4 DEF FilesType
    <3>2. Min(left) \in left
      BY <1>6, <3>1, MinOf
    <3>3. Min(left) \in live[m.s] /\ Min(left) <= m.q
      BY <3>2
    <3> QED
      BY <1>1, <1>2, <3>3 DEF CallInv
  <2> HIDE DEF left
  <2>3. /\ live' \in [Segment -> SUBSET (Nat \ {0})]
        /\ \A r \in Segment : live'[r] = IF r = m.s THEN live[r] \ {Min(left)} ELSE live[r]
    BY <1>1, <1>4, <2>1 DEF FilesType
  <2>4. FilesType' /\ \A r \in Segment : Files(r)' = Files(r)
    BY <1>1, <2>1, <2>2, <2>3 DEF FilesType, Files
  <2>5. /\ MemoryType' /\ HandlerType' /\ pub'[p] = pub[p]
        /\ UNCHANGED <<sequence, appending>>
    BY <1>1, <1>2, <2>1, InsideShape
  <2>6. SocketType' /\ UNCHANGED <<wire, answer, stale>>
    BY <1>1, <1>2 DEF SocketType, socket
  <2>7. committed' = committed
    BY <1>2 DEF Coordinator
  <2>8. \A e \in pub[p].pending \cup pub[p].sent : e.s \in Segment
    BY <1>2 DEF Call, Event
  <2>9. CallInv(p)'
    BY <1>1, <1>2, <2>1, <2>3, <2>4, <2>5, <2>7, <2>8 DEF CallInv, OnDisk
  <2>10. /\ published' <= Len(committed)
         /\ \A r \in Segment : /\ acked'[r] <= Len(committed)
                               /\ \A q \in arch'[r] : q <= Len(committed)
    BY <2>1 DEF SpoolInv, CursorInv
  <2> QED
    BY <1>2, <2>1, <2>4, <2>5, <2>6, <2>9, <2>10, PublishKept
<1> QED
  BY <1>5, <1>6

\* The host's cursor never passes what is committed.
LEMMA WriteKept ==
    ASSUME SpoolInv, NEW p \in Proc, Alone(p), WritePublished(p)
    PROVE  SpoolInv'
<1>1. FilesType /\ MemoryType /\ SocketType /\ HandlerType /\ LedgerType /\ CallInv(p)
  BY TypeParts DEF SpoolInv
<1>2. /\ Returns(p, TRUE, answer[p]) /\ published' = pub[p].last
      /\ UNCHANGED <<dirs, live, arch, acked, Coordinator>>
  BY DEF WritePublished
<1>3. pub[p].last \in Nat /\ pub[p].last <= Len(committed)
  BY <1>1 DEF MemoryType, Call, CallInv
<1>4. /\ MemoryType' /\ SocketType' /\ HandlerType'
      /\ pub'[p] = NoCall
      /\ Recedes
  BY <1>1, <1>2, ReturnsShape
<1>5. FilesType' /\ \A s \in Segment : Files(s)' = Files(s)
  BY <1>1, <1>2, <1>3 DEF FilesType, Files
<1>6. CallInv(p)'
  BY <1>1, <1>2, <1>4, RestingCall DEF Coordinator, LedgerType
<1>7. /\ published' <= Len(committed)
      /\ \A s \in Segment : /\ acked'[s] <= Len(committed)
                            /\ \A q \in arch'[s] : q <= Len(committed)
  BY <1>2, <1>3 DEF SpoolInv, CursorInv
<1> QED
  BY <1>2, <1>4, <1>5, <1>6, <1>7, PublishKept DEF Recedes

\* Every step of PublishAll.
LEMMA PublishStepKept ==
    ASSUME SpoolInv, NEW p \in Proc, Alone(p), PublishStep(p)
    PROVE  SpoolInv'
<1>1. CASE Abandon(p)
  BY <1>1, ReturnsKept DEF Abandon
<1> QED
  BY <1>1, BeginKept, ReadKept, SendKept, AnswerKept, ConfirmedKept, AckKept, LinkKept,
     RemoveKept, WriteKept DEF PublishStep

-----------------------------------------------------------------------------
(* Workers append events *)

\* The number after the largest on disk is the next one.
LEMMA NextNumber ==
    ASSUME SpoolInv, NEW p \in Proc, appending[p] = {}
    PROVE  LoadedSequence(p) = Newest
<1>1. sequence[p] \in {-1, Newest} /\ Newest \in Nat
  BY DEF SpoolInv, SequenceInv, DiskInv
<1>2. UNION {Files(s) : s \in dirs} = 1..Newest
  <2>1. \A s \in Segment \ dirs : Files(s) = {}
    BY DEF SpoolInv, DiskInv
  <2>2. UNION {Files(s) : s \in dirs} = Numbers
    BY <2>1 DEF Numbers, SpoolInv, TypeOK
  <2> QED
    BY <2>2 DEF SpoolInv, DiskInv
<1>3. published \in Nat /\ published <= Newest
  <2>1. published \in Nat /\ published <= Len(committed) /\ committed \in Seq(Segment)
    BY DEF SpoolInv, CursorInv, TypeOK
  <2>2. Len(committed) \in Nat
    BY <2>1
  <2>3. CASE Len(committed) = 0
    BY <1>1, <2>1, <2>3
  <2>4. CASE Len(committed) # 0
    <3>1. /\ Len(committed) \in DOMAIN committed
          /\ committed[Len(committed)] \in Segment
      BY <2>1, <2>2, <2>4
    <3>2. Len(committed) \in Files(committed[Len(committed)])
      BY <3>1 DEF SpoolInv, CommittedInv
    <3>3. Len(committed) \in Numbers
      BY <3>1, <3>2 DEF Numbers
    <3>4. Len(committed) \in 1..Newest
      BY <3>3 DEF SpoolInv, DiskInv
    <3> QED
      BY <1>1, <2>1, <2>2, <3>4
  <2> QED
    BY <2>3, <2>4
<1>4. Max({published} \cup 1..Newest) = Newest
  <2> DEFINE S == {published} \cup 1..Newest
  <2>1. Newest \in S
    BY <1>1, <1>3
  <2>2. S \in SUBSET Nat /\ \A y \in S : y <= Newest
    BY <1>1, <1>3
  <2> HIDE DEF S
  <2>3. Max(S) = Newest
    BY <1>1, <2>1, <2>2, MaxIs
  <2> QED
    BY <2>3 DEF S
<1> QED
  BY <1>1, <1>2, <1>4 DEF LoadedSequence

\* A linked event is the newest, and of its segment alone.
LEMMA LinkGrows ==
    ASSUME SpoolInv, NEW p \in Proc, NEW s \in Segment, LinkEvent(p, s)
    PROVE  /\ live' = [live EXCEPT ![s] = @ \cup {Newest + 1}]
           /\ Files(s)' = Files(s) \cup {Newest + 1}
           /\ \A r \in Segment : r # s => Files(r)' = Files(r)
           /\ Newest \in Nat /\ Newest' = Newest + 1
           /\ Numbers = 1..Newest /\ Numbers' = 1..(Newest + 1)
           /\ sequence' = [sequence EXCEPT ![p] = Newest]
           /\ appending' = [appending EXCEPT ![p] = {s}]
<1>1. LoadedSequence(p) = Newest
  BY NextNumber DEF LinkEvent
<1>2. Newest \in Nat /\ Numbers = 1..Newest
  BY DEF SpoolInv, DiskInv
<1>3. /\ live' = [live EXCEPT ![s] = @ \cup {Newest + 1}]
      /\ sequence' = [sequence EXCEPT ![p] = (Newest + 1) - 1]
      /\ appending' = [appending EXCEPT ![p] = {s}]
      /\ arch' = arch
  BY <1>1 DEF LinkEvent
<1>4. /\ Files(s)' = Files(s) \cup {Newest + 1}
      /\ \A r \in Segment : r # s => Files(r)' = Files(r)
  BY <1>3, TypeParts DEF Files, SpoolInv, FilesType
<1>5. Numbers' = Numbers \cup {Newest + 1}
  BY <1>4 DEF Numbers
<1>6. Numbers' = 1..(Newest + 1)
  BY <1>2, <1>5
<1>7. Newest' = Newest + 1
  <2>1. PICK n \in Nat : n = Newest + 1
    BY <1>2
  <2>2. Newest' = Max({0} \cup 1..n)
    BY <1>6, <2>1 DEF Newest
  <2>3. Max({0} \cup 1..n) = n
    <3>1. n \in {0} \cup 1..n
      OBVIOUS
    <3>2. {0} \cup 1..n \in SUBSET Nat /\ \A y \in {0} \cup 1..n : y <= n
      OBVIOUS
    <3> QED
      BY <3>1, <3>2, MaxIs
  <2> QED
    BY <2>1, <2>2, <2>3
<1>8. (Newest + 1) - 1 = Newest
  BY <1>2
<1> QED
  BY <1>2, <1>3, <1>4, <1>6, <1>7, <1>8

\* What is committed is a number on disk.
LEMMA CommittedIsOnDisk ==
    ASSUME SpoolInv
    PROVE  Len(committed) \in Nat /\ Len(committed) <= Newest
<1>1. committed \in Seq(Segment) /\ Newest \in Nat
  BY DEF SpoolInv, TypeOK, DiskInv
<1>2. Len(committed) \in Nat
  BY <1>1
<1>3. CASE Len(committed) # 0
  <2>1. /\ Len(committed) \in DOMAIN committed
        /\ committed[Len(committed)] \in Segment
    BY <1>1, <1>2, <1>3
  <2>2. Len(committed) \in Files(committed[Len(committed)])
    BY <2>1 DEF SpoolInv, CommittedInv
  <2>3. Len(committed) \in 1..Newest
    BY <2>1, <2>2 DEF Numbers, SpoolInv, DiskInv
  <2> QED
    BY <1>1, <1>2, <2>3
<1> QED
  BY <1>1, <1>2, <1>3

\* An appended event takes the next number.
LEMMA LinkEventKept ==
    ASSUME SpoolInv, NEW p \in Proc, Alone(p), NEW s \in Segment, LinkEvent(p, s)
    PROVE  SpoolInv'
<1>1. FilesType /\ MemoryType /\ SocketType /\ HandlerType /\ LedgerType /\ CallInv(p)
  BY TypeParts DEF SpoolInv
<1>2. /\ live' = [live EXCEPT ![s] = @ \cup {Newest + 1}]
      /\ Files(s)' = Files(s) \cup {Newest + 1}
      /\ \A r \in Segment : r # s => Files(r)' = Files(r)
      /\ Newest \in Nat /\ Newest' = Newest + 1
      /\ Numbers = 1..Newest /\ Numbers' = 1..(Newest + 1)
      /\ sequence' = [sequence EXCEPT ![p] = Newest]
      /\ appending' = [appending EXCEPT ![p] = {s}]
  BY LinkGrows
<1>3. /\ UNCHANGED <<dirs, arch, acked, published, phase, cancelled, eventReady, publisher,
                     pub, socket, server, granted, committed>>
      /\ s \in dirs
  BY DEF LinkEvent
<1>4. TypeOK'
  <2>1. FilesType'
    BY <1>1, <1>2, <1>3 DEF FilesType
  <2>2. MemoryType'
    BY <1>1, <1>2, <1>3 DEF MemoryType
  <2>3. SocketType' /\ HandlerType' /\ LedgerType'
    BY <1>1, <1>3 DEF SocketType, HandlerType, LedgerType, socket, server
  <2> QED
    BY <2>1, <2>2, <2>3 DEF TypeOK, FilesType, MemoryType, SocketType, HandlerType,
       LedgerType, Call
<1>5. DiskInv'
  <2>1. \A r \in Segment : Files(r) \subseteq 1..Newest
    BY <1>2 DEF Numbers
  <2>2. \A r, u \in Segment : \A q \in Files(r)' \cap Files(u)' : r = u
    BY <1>2, <2>1 DEF SpoolInv, DiskInv
  <2>3. \A r \in Segment \ dirs' : Files(r)' = {}
    BY <1>2, <1>3 DEF SpoolInv, DiskInv
  <2>4. Newest' \in Nat /\ Numbers' = 1..Newest'
    BY <1>2
  <2> QED
    BY <2>2, <2>3, <2>4 DEF DiskInv
<1>6. SequenceInv'
  <2>1. \A r \in Proc \ {p} : sequence'[r] = -1 /\ appending'[r] = {}
    BY DEF Alone
  <2>2. sequence'[p] = Newest /\ appending'[p] = {s}
    BY <1>1, <1>2 DEF MemoryType
  <2>3. sequence'[p] = Newest' - 1
    BY <1>2, <2>2
  <2> QED
    BY <2>1, <2>2, <2>3 DEF SequenceInv
<1>7. \A r \in Segment : Files(r) \subseteq Files(r)'
  BY <1>2
<1>8. \A e \in Event : OnDisk(e) => OnDisk(e)'
  BY <1>7 DEF OnDisk, Event
<1>9. MessagesInv'
  BY <1>1, <1>3, <1>8 DEF SpoolInv, MessagesInv, SocketType, socket
<1>10. CommittedInv'
  <2>1. \A q \in DOMAIN committed : committed[q] \in Segment
    BY <1>1 DEF LedgerType
  <2> QED
    BY <1>3, <1>7, <2>1 DEF SpoolInv, CommittedInv
<1>11. CursorInv'
  BY <1>3 DEF SpoolInv, CursorInv, socket
<1>12. CallInv(p)'
  <2>1. /\ pub'[p] = pub[p] /\ pub[p] \in Call
        /\ committed' = committed /\ arch' = arch
    BY <1>1, <1>3 DEF MemoryType
  <2>2. \A e \in pub[p].pending \cup pub[p].sent : e \in Event
    BY <2>1 DEF Call
  <2>3. \A e \in pub[p].pending \cup pub[p].sent : OnDisk(e)'
    BY <1>1, <1>8, <2>2 DEF CallInv
  <2>4. pub[p].pc = "remove" =>
            \A m \in pub[p].sent : \A q \in live'[m.s] : q <= m.q => q \in arch[m.s]
    <3> SUFFICES ASSUME pub[p].pc = "remove", NEW m \in pub[p].sent,
                        NEW q \in live'[m.s], q <= m.q, q \notin live[m.s]
                 PROVE  q \in arch[m.s]
      BY <1>1 DEF CallInv
    <3>1. m.q <= Len(committed) /\ m.q \in Nat /\ m.s \in Segment
      BY <1>1, <2>2 DEF CallInv, Event
    <3>2. q = Newest + 1
      BY <1>1, <1>2, <3>1 DEF FilesType
    <3>3. Len(committed) \in Nat /\ Len(committed) <= Newest
      BY CommittedIsOnDisk
    <3> QED
      BY <1>2, <3>1, <3>2, <3>3
  <2> QED
    BY <1>1, <2>1, <2>3, <2>4 DEF CallInv
<1>13. \A r \in Proc : CallInv(r)'
  <2>1. \A r \in Proc \ {p} : CallInv(r)'
    BY <1>1, <1>3, RestingCall DEF Alone, LedgerType
  <2> QED
    BY <1>12, <2>1
<1> QED
  BY <1>4, <1>5, <1>6, <1>9, <1>10, <1>11, <1>13 DEF SpoolInv

\* The number of a linked event becomes the host's.
LEMMA FinishAppendKept ==
    ASSUME SpoolInv, NEW p \in Proc, Alone(p), FinishAppend(p)
    PROVE  SpoolInv'
<1>1. FilesType /\ MemoryType /\ SocketType /\ HandlerType /\ LedgerType /\ CallInv(p)
  BY TypeParts DEF SpoolInv
<1>2. sequence[p] = Newest - 1 /\ Newest \in Nat
  BY DEF FinishAppend, SpoolInv, SequenceInv, DiskInv
<1>3. /\ sequence' = [sequence EXCEPT ![p] = sequence[p] + 1]
      /\ appending' = [appending EXCEPT ![p] = {}]
      /\ eventReady' = [eventReady EXCEPT ![p] = TRUE]
      /\ UNCHANGED <<files, phase, cancelled, publisher, pub, socket, server, granted,
                     committed>>
  BY DEF FinishAppend
<1>4. sequence[p] + 1 = Newest
  BY <1>2
<1>5. TypeOK'
  <2>1. MemoryType'
    BY <1>1, <1>2, <1>3, <1>4 DEF MemoryType
  <2>2. FilesType' /\ SocketType' /\ HandlerType' /\ LedgerType'
    BY <1>1, <1>3 DEF FilesType, SocketType, HandlerType, LedgerType, files, socket, server
  <2> QED
    BY <2>1, <2>2 DEF TypeOK, FilesType, MemoryType, SocketType, HandlerType, LedgerType,
       Call
<1>6. \A s \in Segment : Files(s)' = Files(s)
  BY <1>3 DEF files, Files
<1>7. Newest' = Newest
  BY <1>6 DEF Newest, Numbers
<1>8. SequenceInv'
  BY <1>1, <1>3, <1>4, <1>7 DEF Alone, SequenceInv, MemoryType
<1>9. \A r \in Proc : CallInv(r)'
  <2>1. CallInv(p)'
    BY <1>1, <1>3, <1>6 DEF CallInv, OnDisk, files, Files
  <2>2. \A r \in Proc \ {p} : CallInv(r)'
    BY <1>1, <1>3, RestingCall DEF Alone, LedgerType
  <2> QED
    BY <2>1, <2>2
<1>10. /\ CommittedInv' /\ CursorInv' /\ Len(committed) <= Len(committed)'
  <2>1. \A q \in DOMAIN committed : committed[q] \in Segment
    BY <1>1 DEF LedgerType
  <2>2. CommittedInv'
    BY <1>3, <1>6, <2>1 DEF SpoolInv, CommittedInv
  <2>3. CursorInv'
    BY <1>3 DEF SpoolInv, CursorInv, files, socket
  <2> QED
    BY <1>3, <2>2, <2>3, CommittedIsOnDisk
<1>11. DiskInv' /\ MessagesInv'
  BY <1>3, <1>6, <1>7
     DEF SpoolInv, DiskInv, MessagesInv, Numbers, files, socket, OnDisk, Files
<1> QED
  BY <1>5, <1>8, <1>9, <1>10, <1>11 DEF SpoolInv

-----------------------------------------------------------------------------
(* Processes, connections and commits *)

\* A step that touches no event, no cursor and no call.
LEMMA QuietKept ==
    ASSUME SpoolInv, TypeOK', dirs \subseteq dirs',
           UNCHANGED <<live, arch, acked, published, pub, sequence, appending, committed>>,
           \A e \in stale' : e \in stale \/ \E r \in Proc : e \in wire[r],
           \A r \in Proc : wire'[r] \subseteq wire[r] /\ answer'[r] \subseteq answer[r]
    PROVE  SpoolInv'
<1>1. \A s \in Segment : Files(s)' = Files(s)
  BY DEF Files
<1>2. SequenceInv'
  BY <1>1, SequenceKept DEF SpoolInv
<1>3. /\ CommittedInv' /\ Len(committed) <= Len(committed)'
  <2>1. \A q \in DOMAIN committed : committed[q] \in Segment
    BY DEF SpoolInv, TypeOK
  <2>2. CommittedInv'
    BY <1>1, <2>1 DEF SpoolInv, CommittedInv
  <2> QED
    BY <2>2, CommittedIsOnDisk
<1>4. \A r \in Proc : CallInv(r)'
  BY <1>1 DEF SpoolInv, CallInv, OnDisk, Files
<1>5. /\ published' <= Len(committed)'
      /\ \A s \in Segment : /\ acked'[s] <= Len(committed)'
                            /\ \A q \in arch'[s] : q <= Len(committed)'
  BY DEF SpoolInv, CursorInv
<1> QED
  BY <1>1, <1>2, <1>3, <1>4, <1>5, Kept

\* A process is killed, or RunSource returns.
LEMMA EndsKept ==
    ASSUME SpoolInv, NEW p \in Proc, Alone(p), Ends(p),
           UNCHANGED <<files, current, bound, row, claimed, committed>>
    PROVE  SpoolInv'
<1>1. FilesType /\ MemoryType /\ SocketType /\ HandlerType /\ LedgerType
  BY TypeParts DEF SpoolInv
<1>2. /\ MemoryType' /\ SocketType' /\ HandlerType'
      /\ pub'[p] = NoCall
      /\ Recedes
  BY <1>1, EndsShape
<1>3. FilesType' /\ dirs' = dirs /\ \A s \in Segment : Files(s)' = Files(s)
  BY <1>1 DEF files, FilesType, Files
<1>4. CallInv(p)'
  BY <1>1, <1>2, RestingCall DEF LedgerType
<1>5. /\ published' <= Len(committed)
      /\ \A s \in Segment : /\ acked'[s] <= Len(committed)
                            /\ \A q \in arch'[s] : q <= Len(committed)
  BY DEF files, SpoolInv, CursorInv
<1> QED
  BY <1>2, <1>3, <1>4, <1>5, PublishKept DEF Recedes, Coordinator

\* Signals, the end of RunSource's loop and of the publisher, and the first
\* use of a spool.
LEMMA ProcessKept ==
    ASSUME SpoolInv, NEW p \in Proc, Alone(p),
           \/ Crash(p) \/ Exit(p)
           \/ Terminate(p) \/ Leave(p) \/ Notice(p) \/ StopPublisher(p)
           \/ \E s \in Segment : OpenSpool(p, s)
    PROVE  SpoolInv'
<1>1. FilesType /\ MemoryType /\ SocketType /\ HandlerType /\ LedgerType
  BY TypeParts DEF SpoolInv
<1>2. CASE Crash(p) \/ Exit(p)
  BY <1>2, EndsKept DEF Crash, Exit
<1>3. ASSUME FilesType', MemoryType',
             UNCHANGED <<live, arch, acked, published, pub, sequence, appending, socket,
                         server, granted, committed>>,
             dirs \subseteq dirs'
      PROVE  SpoolInv'
  <2>1. TypeOK'
    BY <1>1, <1>3
       DEF TypeOK, FilesType, MemoryType, SocketType, HandlerType, LedgerType, Call, socket,
           server
  <2> QED
    BY <1>3, <2>1, QuietKept DEF socket
<1>4. CASE Terminate(p)
  BY <1>1, <1>3, <1>4 DEF Terminate, FilesType, MemoryType, files
<1>5. CASE Leave(p) \/ Notice(p)
  BY <1>1, <1>3, <1>5 DEF Leave, Notice, Flush, FilesType, MemoryType, files
<1>6. CASE StopPublisher(p)
  BY <1>1, <1>3, <1>6 DEF StopPublisher, FilesType, MemoryType, files
<1>7. ASSUME NEW s \in Segment, OpenSpool(p, s)
      PROVE  SpoolInv'
  BY <1>1, <1>3, <1>7 DEF OpenSpool, FilesType, MemoryType, memory
<1> QED
  BY <1>2, <1>4, <1>5, <1>6, <1>7

\* A commit appends the event with the next number, or nothing.
LEMMA CommitShape ==
    ASSUME SpoolInv, NEW e \in Event, OnDisk(e), CommitHostEvent(e)
    PROVE  /\ committed' \in Seq(Segment)
           /\ Len(committed) <= Len(committed)'
           /\ \A q \in DOMAIN committed' :
                  committed'[q] \in Segment /\ q \in Files(committed'[q])
           /\ Durable(e) => e.q <= Len(committed)'
<1>1. committed \in Seq(Segment) /\ e.s \in Segment /\ e.q \in Nat /\ e.q \in Files(e.s)
  BY DEF SpoolInv, TypeOK, Event, OnDisk
<1>2. /\ Len(committed) \in Nat
      /\ \A q \in DOMAIN committed :
             committed[q] \in Segment /\ q \in Files(committed[q])
  BY <1>1 DEF SpoolInv, CommittedInv
<1>3. CASE row # "offline" /\ Follows(e)
  <2>1. committed' = Append(committed, e.s) /\ e.q = Len(committed) + 1
    BY <1>3 DEF CommitHostEvent, Follows
  <2>2. /\ committed' \in Seq(Segment) /\ Len(committed)' = Len(committed) + 1
        /\ \A q \in 1..Len(committed) : committed'[q] = committed[q]
        /\ committed'[e.q] = e.s
        /\ DOMAIN committed' = 1..(Len(committed) + 1)
    BY <1>1, <2>1
  <2>3. \A q \in DOMAIN committed' : q \in DOMAIN committed \/ q = e.q
    BY <1>1, <1>2, <2>1, <2>2
  <2>4. \A q \in DOMAIN committed : committed'[q] = committed[q]
    BY <1>1, <2>2
  <2> QED
    BY <1>1, <1>2, <2>1, <2>2, <2>3, <2>4
<1>4. CASE ~ (row # "offline" /\ Follows(e))
  <2>1. committed' = committed
    BY <1>4 DEF CommitHostEvent
  <2> QED
    BY <1>1, <1>2, <1>4, <2>1 DEF Durable, Known
<1> QED
  BY <1>3, <1>4

\* The handler commits an event that is on disk, and answers the truth.
LEMMA CommitKept ==
    ASSUME SpoolInv, NEW e \in Event, OnDisk(e), CommitHostEvent(e), TypeOK',
           UNCHANGED <<files, pub, sequence, appending>>,
           stale' \subseteq stale,
           \A r \in Proc : wire'[r] \subseteq wire[r],
           \A r \in Proc : \A a \in answer'[r] :
               a \in answer[r] \/ a = [e |-> e, durable |-> Durable(e)]
    PROVE  SpoolInv'
<1>1. /\ committed' \in Seq(Segment)
      /\ Len(committed) <= Len(committed)'
      /\ \A q \in DOMAIN committed' :
             committed'[q] \in Segment /\ q \in Files(committed'[q])
      /\ Durable(e) => e.q <= Len(committed)'
  BY CommitShape
<1>2. \A s \in Segment : Files(s)' = Files(s)
  BY DEF files, Files
<1>3. SequenceInv'
  BY <1>2, SequenceKept DEF SpoolInv
<1>4. CommittedInv'
  BY <1>1, <1>2 DEF CommittedInv
<1>5. Len(committed) \in Nat /\ Len(committed)' \in Nat
  BY <1>1, CommittedIsOnDisk
<1>6. \A r \in Proc : pub[r] \in Call /\ CallInv(r)
  BY TypeParts DEF SpoolInv, MemoryType
<1>7. ASSUME NEW r \in Proc
      PROVE  CallInv(r)'
  <2>1. /\ pub[r].last \in Nat /\ \A m \in pub[r].sent : m.q \in Nat
        /\ \A m \in pub[r].pending \cup pub[r].sent : m.s \in Segment
    BY <1>6 DEF Call, Event
  <2>2. pub[r].last <= Len(committed)'
    BY <1>1, <1>5, <1>6, <2>1 DEF CallInv
  <2>3. pub[r].pc \in {"link", "remove"} =>
            \A m \in pub[r].sent : m.q <= Len(committed)' /\ pub[r].sent = {m}
    BY <1>1, <1>5, <1>6, <2>1 DEF CallInv
  <2>4. UNCHANGED <<pub, live, arch>>
    BY DEF files
  <2>5. \A m \in pub[r].pending \cup pub[r].sent : OnDisk(m)'
    BY <1>2, <1>6, <2>1 DEF CallInv, OnDisk
  <2> QED
    BY <1>6, <2>2, <2>3, <2>4, <2>5 DEF CallInv
<1>8. /\ published' <= Len(committed)'
      /\ \A s \in Segment : /\ acked'[s] <= Len(committed)'
                            /\ \A q \in arch'[s] : q <= Len(committed)'
  <2>1. published \in Nat /\ \A s \in Segment : acked[s] \in Nat /\ arch[s] \subseteq Nat
    BY TypeParts DEF SpoolInv, FilesType
  <2> QED
    BY <1>1, <1>5, <2>1 DEF SpoolInv, CursorInv, files
<1>9. \A r \in Proc : \A a \in answer'[r] :
          a \in answer[r] \/ (a.durable => a.e.q <= Len(committed)')
  BY <1>1
<1> QED
  BY <1>1, <1>2, <1>3, <1>4, <1>7, <1>8, <1>9, Kept DEF files

\* A step of the coordinator that commits nothing and answers nothing: the
\* sockets of the processes may be cut, and their events become stale.
LEMMA CoordinatorKept ==
    ASSUME SpoolInv, MemoryType', SocketType', HandlerType',
           UNCHANGED <<files, cancelled, sequence, appending, eventReady, publisher, pub,
                       committed>>,
           current' \in Proc \cup {NoProc}, bound' \in Proc \cup {NoProc},
           row' \in {"offline", "reconciling", "ready"}, claimed' \subseteq Segment,
           \A e \in stale' : e \in stale \/ \E r \in Proc : e \in wire[r],
           \A r \in Proc : wire'[r] \subseteq wire[r] /\ answer'[r] \subseteq answer[r]
    PROVE  SpoolInv'
<1>1. FilesType /\ LedgerType
  BY TypeParts DEF SpoolInv
<1>2. FilesType' /\ LedgerType'
  BY <1>1 DEF FilesType, LedgerType, files
<1>3. TypeOK'
  BY <1>2 DEF TypeOK, FilesType, MemoryType, SocketType, HandlerType, LedgerType, Call
<1>4. /\ dirs \subseteq dirs'
      /\ UNCHANGED <<live, arch, acked, published, pub, sequence, appending, committed>>
  BY DEF files
<1> QED
  BY <1>3, <1>4, QuietKept

\* A hello, the end of the replay, claims, launches, closed connections and a
\* restart of the coordinator.
LEMMA ServerKept ==
    ASSUME SpoolInv,
           \/ \E p \in Proc :
                \/ Register(p) \/ FinishReconcile(p) \/ EndSession(p) \/ LoseSession(p)
                \/ \E s \in Segment : Launch(p, s)
           \/ \E s \in Segment : Claim(s)
           \/ \E e \in stale : DropStale(e)
           \/ RestartCoordinator
    PROVE  SpoolInv'
<1>1. MemoryType /\ SocketType /\ HandlerType /\ LedgerType
  BY TypeParts DEF SpoolInv
<1>2. ASSUME NEW p \in Proc, Register(p)
      PROVE  SpoolInv'
  <2>1. /\ phase' = [phase EXCEPT ![p] = "replay"]
        /\ conn' = [conn EXCEPT ![p] = "up"]
        /\ handler' = [handler EXCEPT ![p] = "replay"]
        /\ current' = p /\ bound' = p /\ row' = "reconciling"
        /\ UNCHANGED <<files, cancelled, sequence, appending, eventReady, publisher,
                       pub, wire, answer, stale, claimed, granted, committed>>
    BY <1>2 DEF Register
  <2>2. MemoryType' /\ SocketType' /\ HandlerType'
    BY <1>1, <2>1 DEF MemoryType, SocketType, HandlerType
  <2> QED
    BY <1>1, <2>1, <2>2, CoordinatorKept DEF LedgerType
<1>3. ASSUME NEW p \in Proc, FinishReconcile(p)
      PROVE  SpoolInv'
  <2>1. MemoryType' /\ SocketType' /\ HandlerType'
    BY <1>1, <1>3 DEF FinishReconcile, MemoryType, SocketType, HandlerType, memory, socket
  <2> QED
    BY <1>1, <1>3, <2>1, CoordinatorKept
       DEF FinishReconcile, LedgerType, memory, socket
<1>4. ASSUME NEW p \in Proc, EndSession(p)
      PROVE  SpoolInv'
  <2>1. /\ wire' = [wire EXCEPT ![p] = {}] /\ stale' = stale \cup wire[p]
        /\ conn' = [conn EXCEPT ![p] = "cut"] /\ UNCHANGED answer
        /\ handler' = [handler EXCEPT ![p] = "none"]
        /\ current' = IF current = p THEN NoProc ELSE current
        /\ row' = IF current = p /\ row = "ready" THEN "offline" ELSE row
        /\ UNCHANGED <<files, memory, bound, claimed, granted, committed>>
    BY <1>4 DEF EndSession, Cleanup
  <2>2. MemoryType' /\ SocketType' /\ HandlerType'
    BY <1>1, <2>1 DEF MemoryType, SocketType, HandlerType, memory
  <2>3. /\ \A e \in stale' : e \in stale \/ \E r \in Proc : e \in wire[r]
        /\ \A r \in Proc : wire'[r] \subseteq wire[r] /\ answer'[r] \subseteq answer[r]
    BY <1>1, <2>1 DEF SocketType
  <2> QED
    BY <1>1, <2>1, <2>2, <2>3, CoordinatorKept DEF LedgerType, memory
<1>5. ASSUME NEW p \in Proc, LoseSession(p)
      PROVE  SpoolInv'
  <2>1. /\ handler' = [handler EXCEPT ![p] = "none"]
        /\ current' = IF current = p THEN NoProc ELSE current
        /\ row' = IF current = p /\ row = "ready" THEN "offline" ELSE row
        /\ UNCHANGED <<files, memory, socket, bound, claimed, granted, committed>>
    BY <1>5 DEF LoseSession, Cleanup
  <2>2. MemoryType' /\ SocketType' /\ HandlerType'
    BY <1>1, <2>1 DEF MemoryType, SocketType, HandlerType, memory, socket
  <2> QED
    BY <1>1, <2>1, <2>2, CoordinatorKept DEF LedgerType, memory, socket
<1>6. ASSUME NEW p \in Proc, NEW s \in Segment, Launch(p, s)
      PROVE  SpoolInv'
  <2>1. MemoryType' /\ SocketType' /\ HandlerType'
    BY <1>1, <1>6 DEF Launch, MemoryType, SocketType, HandlerType, memory, socket, server
  <2> QED
    BY <1>1, <1>6, <2>1, CoordinatorKept DEF Launch, LedgerType, memory, socket, server
<1>7. ASSUME NEW s \in Segment, Claim(s)
      PROVE  SpoolInv'
  <2>1. MemoryType' /\ SocketType' /\ HandlerType'
    BY <1>1, <1>7 DEF Claim, MemoryType, SocketType, HandlerType, memory, socket
  <2> QED
    BY <1>1, <1>7, <2>1, CoordinatorKept DEF Claim, LedgerType, memory, socket
<1>8. ASSUME NEW e \in stale, DropStale(e)
      PROVE  SpoolInv'
  <2>1. MemoryType' /\ SocketType' /\ HandlerType'
    BY <1>1, <1>8 DEF DropStale, MemoryType, SocketType, HandlerType, memory, server
  <2> QED
    BY <1>1, <1>8, <2>1, CoordinatorKept DEF DropStale, LedgerType, memory, server
<1>9. CASE RestartCoordinator
  <2>1. /\ conn' = [r \in Proc |-> IF conn[r] = "up" THEN "cut" ELSE conn[r]]
        /\ wire' = [r \in Proc |-> {}] /\ stale' = {}
        /\ handler' = [r \in Proc |-> "none"]
        /\ current' = NoProc /\ row' = "offline"
        /\ UNCHANGED <<files, memory, answer, bound, claimed, granted, committed>>
    BY <1>9 DEF RestartCoordinator
  <2>2. MemoryType' /\ SocketType' /\ HandlerType'
    BY <1>1, <2>1 DEF MemoryType, SocketType, HandlerType, memory
  <2> QED
    BY <1>1, <2>1, <2>2, CoordinatorKept DEF LedgerType, memory
<1> QED
  BY <1>2, <1>3, <1>4, <1>5, <1>6, <1>7, <1>8, <1>9

\* An event read from a socket, or left over from one that is gone, is on
\* disk.
LEMMA MessageOnDisk ==
    ASSUME SpoolInv, NEW e, e \in stale \/ \E p \in Proc : e \in wire[p]
    PROVE  e \in Event /\ OnDisk(e)
BY DEF SpoolInv, TypeOK, MessagesInv

\* The handler commits or refuses an event, for a process or for nobody.
LEMMA EventHandled ==
    ASSUME SpoolInv,
           \/ \E p \in Proc : \E e \in wire[p] : Commit(p, e) \/ Refuse(p, e)
           \/ \E e \in stale : CommitStale(e)
    PROVE  SpoolInv'
<1>1. FilesType /\ MemoryType /\ SocketType /\ HandlerType /\ LedgerType
  BY TypeParts DEF SpoolInv
<1>2. ASSUME NEW p \in Proc, NEW e \in wire[p], NEW d \in BOOLEAN,
             wire' = [wire EXCEPT ![p] = @ \ {e}],
             answer' = [answer EXCEPT ![p] = @ \cup {[e |-> e, durable |-> d]}],
             UNCHANGED <<files, memory, conn, stale, server, granted>>,
             committed' \in Seq(Segment)
      PROVE  /\ TypeOK'
             /\ UNCHANGED <<files, pub, sequence, appending>> /\ stale' \subseteq stale
             /\ \A r \in Proc : wire'[r] \subseteq wire[r]
             /\ \A r \in Proc : \A a \in answer'[r] :
                    a \in answer[r] \/ a = [e |-> e, durable |-> d]
  <2>1. e \in Event
    BY MessageOnDisk
  <2>2. SocketType'
    <3>1. [e |-> e, durable |-> d] \in [e : Event, durable : BOOLEAN]
      BY <2>1
    <3> QED
      BY <1>1, <1>2, <3>1 DEF SocketType
  <2>3. FilesType' /\ MemoryType' /\ HandlerType' /\ LedgerType'
    BY <1>1, <1>2 DEF FilesType, MemoryType, HandlerType, LedgerType, files, memory, server
  <2>4. TypeOK'
    BY <2>2, <2>3
       DEF TypeOK, FilesType, MemoryType, SocketType, HandlerType, LedgerType, Call
  <2> QED
    BY <1>1, <1>2, <2>4 DEF SocketType, memory
<1>3. ASSUME NEW p \in Proc, NEW e \in wire[p], Commit(p, e)
      PROVE  SpoolInv'
  <2>1. e \in Event /\ OnDisk(e)
    BY MessageOnDisk
  <2>2. /\ CommitHostEvent(e)
        /\ wire' = [wire EXCEPT ![p] = @ \ {e}]
        /\ answer' = [answer EXCEPT ![p] = @ \cup {[e |-> e, durable |-> Durable(e)]}]
        /\ UNCHANGED <<files, memory, conn, stale, server, granted>>
    BY <1>3 DEF Commit
  <2>3. committed' \in Seq(Segment)
    BY <2>1, <2>2, CommitShape
  <2>4. Durable(e) \in BOOLEAN
    BY DEF Durable, Known, Follows
  <2> QED
    BY <1>2, <2>1, <2>2, <2>3, <2>4, CommitKept
<1>4. ASSUME NEW p \in Proc, NEW e \in wire[p], Refuse(p, e)
      PROVE  SpoolInv'
  <2>1. /\ wire' = [wire EXCEPT ![p] = @ \ {e}]
        /\ answer' = [answer EXCEPT ![p] = @ \cup {[e |-> e, durable |-> FALSE]}]
        /\ UNCHANGED <<files, memory, conn, stale, server, granted, committed>>
    BY <1>4 DEF Refuse
  <2>2. /\ TypeOK'
        /\ UNCHANGED <<files, pub, sequence, appending>> /\ stale' \subseteq stale
        /\ \A r \in Proc : wire'[r] \subseteq wire[r]
        /\ \A r \in Proc : \A a \in answer'[r] :
               a \in answer[r] \/ a = [e |-> e, durable |-> FALSE]
    BY <1>1, <1>2, <2>1 DEF LedgerType
  <2>3. \A r \in Proc : \A a \in answer'[r] :
            a \in answer[r] \/ (a.durable => a.e.q <= Len(committed)')
    BY <2>2
  <2>4. \A s \in Segment : Files(s)' = Files(s)
    BY <2>1 DEF files, Files
  <2>5. SequenceInv'
    BY <2>2, <2>4, SequenceKept DEF SpoolInv
  <2>6. CommittedInv' /\ Len(committed) <= Len(committed)'
    BY <1>1, <2>1, <2>4, CommittedIsOnDisk DEF SpoolInv, CommittedInv, LedgerType
  <2>7. \A r \in Proc : CallInv(r)'
    BY <2>1, <2>2, <2>4 DEF SpoolInv, CallInv, OnDisk, files, Files
  <2>8. /\ published' <= Len(committed)'
        /\ \A s \in Segment : /\ acked'[s] <= Len(committed)'
                              /\ \A q \in arch'[s] : q <= Len(committed)'
    BY <2>1 DEF SpoolInv, CursorInv, files
  <2> QED
    BY <2>1, <2>2, <2>3, <2>4, <2>5, <2>6, <2>7, <2>8, Kept DEF files
<1>5. ASSUME NEW e \in stale, CommitStale(e)
      PROVE  SpoolInv'
  <2>1. e \in Event /\ OnDisk(e)
    BY MessageOnDisk
  <2>2. /\ CommitHostEvent(e) /\ stale' = stale \ {e}
        /\ UNCHANGED <<files, memory, conn, wire, answer, server, granted>>
    BY <1>5 DEF CommitStale
  <2>3. committed' \in Seq(Segment)
    BY <2>1, <2>2, CommitShape
  <2>4. FilesType' /\ MemoryType' /\ SocketType' /\ HandlerType' /\ LedgerType'
    BY <1>1, <2>2, <2>3
       DEF FilesType, MemoryType, SocketType, HandlerType, LedgerType, files, memory, server
  <2>5. TypeOK'
    BY <2>4 DEF TypeOK, FilesType, MemoryType, SocketType, HandlerType, LedgerType, Call
  <2> QED
    BY <2>1, <2>2, <2>5, CommitKept DEF memory
<1> QED
  BY <1>3, <1>4, <1>5

-----------------------------------------------------------------------------
(* The invariant *)

\* Nothing is on disk, in memory or on a socket at the start.
LEMMA SpoolInit ==
    ASSUME Init
    PROVE  SpoolInv
<1>1. \A s \in Segment : Files(s) = {}
  BY DEF Init, Files
<1>2. Numbers = {} /\ Newest = 0
  <2>1. Numbers = {}
    BY <1>1 DEF Numbers
  <2>2. Max({0}) = 0
    BY MaxIs
  <2>3. Newest = Max({0})
    BY <2>1 DEF Newest
  <2> QED
    BY <2>1, <2>2, <2>3
<1>3. committed = << >> /\ committed \in Seq(Segment) /\ Len(committed) = 0
  BY DEF Init
<1>4. TypeOK
  <2>1. FilesType
    BY DEF Init, FilesType
  <2>2. MemoryType
    BY NoCallType DEF Init, MemoryType
  <2>3. SocketType /\ HandlerType /\ LedgerType
    BY DEF Init, SocketType, HandlerType, LedgerType
  <2> QED
    BY <2>1, <2>2, <2>3, TypeParts
<1>5. DiskInv
  BY <1>1, <1>2 DEF DiskInv
<1>6. SequenceInv
  BY DEF Init, SequenceInv
<1>7. MessagesInv /\ CommittedInv
  BY <1>3 DEF Init, MessagesInv, CommittedInv
<1>8. CursorInv
  BY <1>3 DEF Init, CursorInv
<1>9. \A p \in Proc : CallInv(p)
  BY <1>3 DEF Init, CallInv, NoCall
<1> QED
  BY <1>4, <1>5, <1>6, <1>7, <1>8, <1>9 DEF SpoolInv

\* Only a process that runs takes a step, and it leaves the memory of the
\* others alone.
LEMMA RunningSteps ==
    ASSUME MemoryType, HandlerType, RestInv, NEW p \in Proc,
           \/ HostStep(p) \/ Crash(p) \/ Terminate(p) \/ Leave(p)
           \/ \E s \in Segment : OpenSpool(p, s) \/ LinkEvent(p, s)
    PROVE  /\ phase[p] # "down"
           /\ \A r \in Proc \ {p} :
                  UNCHANGED <<pub[r], sequence[r], appending[r], granted[r], publisher[r],
                              phase[r]>>
           /\ phase'[p] = "down" => Resting(p)'
<1> DEFINE Goal ==
      /\ phase[p] # "down"
      /\ \A r \in Proc \ {p} :
             UNCHANGED <<pub[r], sequence[r], appending[r], granted[r], publisher[r],
                         phase[r]>>
      /\ phase'[p] = "down" => Resting(p)'
<1>1. phase[p] = "down" => /\ pub[p] = NoCall /\ sequence[p] = -1 /\ appending[p] = {}
                           /\ granted[p] = {} /\ publisher[p] = "off"
  BY DEF RestInv, Resting
<1>2. NoCall.pc = "idle"
  BY DEF NoCall
<1>3. ASSUME phase[p] # "down", Ends(p)
      PROVE  Goal
  BY <1>3 DEF Ends, Resting, MemoryType, HandlerType
<1>4. ASSUME pub[p].pc # "idle", NEW c, Inside(p, c)
      PROVE  Goal
  BY <1>1, <1>2, <1>4 DEF Inside, MemoryType, HandlerType
<1>5. ASSUME pub[p].pc # "idle", NEW ok, NEW left, Returns(p, ok, left)
      PROVE  Goal
  <2>1. phase[p] # "down"
    BY <1>1, <1>2, <1>5
  <2>2. CASE Ends(p)
    BY <1>3, <2>1, <2>2
  <2>3. CASE /\ phase' = [phase EXCEPT ![p] = "serving"]
             /\ publisher' = [publisher EXCEPT ![p] = "on"]
             /\ pub' = [pub EXCEPT ![p] = NoCall]
             /\ UNCHANGED <<sequence, appending, granted>>
    BY <2>1, <2>3 DEF MemoryType
  <2>4. CASE /\ publisher' = [publisher EXCEPT ![p] = IF ok THEN @ ELSE "failed"]
             /\ pub' = [pub EXCEPT ![p] = NoCall]
             /\ UNCHANGED <<phase, sequence, appending, granted>>
    BY <2>1, <2>4 DEF MemoryType
  <2>5. CASE /\ phase' = [phase EXCEPT ![p] = "exiting"]
             /\ pub' = [pub EXCEPT ![p] = NoCall]
             /\ UNCHANGED <<publisher, sequence, appending, granted>>
    BY <2>1, <2>5 DEF MemoryType
  <2> QED
    BY <1>5, <2>2, <2>3, <2>4, <2>5 DEF Returns
<1>6. ASSUME NEW by, BeginPublish(p, by)
      PROVE  Goal
  <2>1. phase[p] # "down"
    BY <1>1, <1>6 DEF BeginPublish, Calls
  <2>2. \E c : pub' = [pub EXCEPT ![p] = c]
    BY <1>6 DEF BeginPublish
  <2> QED
    BY <1>6, <2>1, <2>2 DEF BeginPublish, MemoryType, HandlerType
<1> HIDE DEF Goal
<1>7. CASE PublishStep(p)
  <2>1. CASE ReadSpool(p)
    BY <1>4, <2>1 DEF ReadSpool, Goal
  <2>2. CASE SendEvent(p)
    BY <1>4, <1>5, <2>2 DEF SendEvent, Goal
  <2>3. CASE TakeAnswer(p)
    BY <1>4, <1>5, <2>3 DEF TakeAnswer, Goal
  <2>4. CASE Abandon(p)
    BY <1>5, <2>4 DEF Abandon, Goal
  <2>5. CASE Confirmed(p)
    BY <1>4, <1>5, <2>5 DEF Confirmed, Goal
  <2>6. CASE AckThrough(p)
    BY <1>4, <1>5, <2>6 DEF AckThrough, Goal
  <2>7. CASE LinkArchive(p)
    BY <1>4, <2>7 DEF LinkArchive, Goal
  <2>8. CASE RemoveArchived(p)
    BY <1>4, <2>8 DEF RemoveArchived, Goal
  <2>9. CASE WritePublished(p)
    BY <1>5, <2>9 DEF WritePublished, Goal
  <2> QED
    BY <1>6, <1>7, <2>1, <2>2, <2>3, <2>4, <2>5, <2>6, <2>7, <2>8, <2>9
       DEF PublishStep, Goal
<1>8. CASE Crash(p)
  BY <1>3, <1>8 DEF Crash, Goal
<1>9. CASE Exit(p)
  BY <1>3, <1>9 DEF Exit, Goal
<1>10. CASE Terminate(p)
  BY <1>10 DEF Terminate, MemoryType, Goal
<1>11. CASE Leave(p) \/ Notice(p)
  BY <1>11 DEF Leave, Notice, Flush, MemoryType, Goal
<1>12. CASE StopPublisher(p)
  BY <1>1, <1>12 DEF StopPublisher, MemoryType, Goal
<1>13. CASE FinishAppend(p)
  BY <1>1, <1>13 DEF FinishAppend, MemoryType, Goal
<1>14. ASSUME NEW s \in Segment, OpenSpool(p, s)
       PROVE  Goal
  BY <1>1, <1>14 DEF OpenSpool, memory, Goal
<1>15. ASSUME NEW s \in Segment, LinkEvent(p, s)
       PROVE  Goal
  BY <1>1, <1>15 DEF LinkEvent, MemoryType, Goal
<1> QED
  BY <1>7, <1>8, <1>9, <1>10, <1>11, <1>12, <1>13, <1>14, <1>15 DEF HostStep, Goal

\* The process that takes a step is alone, and rests when it is gone.
LEMMA AloneAndResting ==
    ASSUME MemoryType, HandlerType, RestInv, OneAtATime, NEW p \in Proc,
           \/ HostStep(p) \/ Crash(p) \/ Terminate(p) \/ Leave(p)
           \/ \E s \in Segment : OpenSpool(p, s) \/ LinkEvent(p, s)
    PROVE  Alone(p) /\ RestInv'
<1>1. /\ phase[p] # "down"
      /\ \A r \in Proc \ {p} :
             UNCHANGED <<pub[r], sequence[r], appending[r], granted[r], publisher[r],
                         phase[r]>>
      /\ phase'[p] = "down" => Resting(p)'
  BY RunningSteps
<1>2. \A r \in Proc \ {p} : phase[r] = "down" /\ Resting(r)
  BY <1>1 DEF OneAtATime, RestInv
<1>3. \A r \in Proc \ {p} : Resting(r)'
  BY <1>1, <1>2 DEF Resting
<1> QED
  BY <1>1, <1>2, <1>3 DEF Alone, RestInv, Resting

\* The coordinator gives work only to a process that serves.
LEMMA ServerRests ==
    ASSUME MemoryType, HandlerType, RestInv,
           \/ \E p \in Proc :
                \/ ServerStep(p) \/ Register(p) \/ EndSession(p)
                \/ \E s \in Segment : Launch(p, s)
                \/ \E e \in wire[p] : Refuse(p, e)
           \/ \E s \in Segment : Claim(s)
           \/ \E e \in stale : CommitStale(e) \/ DropStale(e)
           \/ RestartCoordinator
           \/ UNCHANGED vars
    PROVE  RestInv'
<1>1. ASSUME UNCHANGED <<memory, granted>>
      PROVE  RestInv'
  BY <1>1 DEF RestInv, Resting, memory
<1>2. ASSUME NEW p \in Proc, Register(p)
      PROVE  RestInv'
  BY <1>2 DEF Register, MemoryType, RestInv, Resting
<1>3. ASSUME NEW p \in Proc, NEW s \in Segment, Launch(p, s)
      PROVE  RestInv'
  BY <1>3 DEF Launch, HandlerType, RestInv, Resting, memory
<1>4. ASSUME NEW p \in Proc, ServerStep(p)
      PROVE  RestInv'
  BY <1>1, <1>4 DEF ServerStep, FinishReconcile, LoseSession, Cleanup, Commit
<1>5. ASSUME NEW p \in Proc, EndSession(p)
      PROVE  RestInv'
  BY <1>1, <1>5 DEF EndSession, Cleanup
<1>6. ASSUME NEW p \in Proc, NEW e \in wire[p], Refuse(p, e)
      PROVE  RestInv'
  BY <1>1, <1>6 DEF Refuse
<1>7. ASSUME NEW s \in Segment, Claim(s)
      PROVE  RestInv'
  BY <1>1, <1>7 DEF Claim
<1>8. ASSUME NEW e \in stale, CommitStale(e) \/ DropStale(e)
      PROVE  RestInv'
  BY <1>1, <1>8 DEF CommitStale, DropStale
<1>9. CASE RestartCoordinator
  BY <1>1, <1>9 DEF RestartCoordinator
<1>10. CASE UNCHANGED vars
  BY <1>1, <1>10 DEF vars
<1> QED
  BY <1>2, <1>3, <1>4, <1>5, <1>6, <1>7, <1>8, <1>9, <1>10

\* Every step keeps the invariant, while one process runs at a time.
LEMMA SpoolStep ==
    ASSUME SpoolInv, RestInv, OneAtATime, [Next]_vars
    PROVE  SpoolInv' /\ RestInv'
<1> DEFINE Goal == SpoolInv' /\ RestInv'
<1>0. MemoryType /\ HandlerType
  BY TypeParts DEF SpoolInv
<1>1. CASE UNCHANGED vars
  <2>1. UNCHANGED <<files, memory, socket, server, granted, committed>>
    BY <1>1 DEF vars
  <2>2. TypeOK'
    <3>1. FilesType /\ MemoryType /\ SocketType /\ HandlerType /\ LedgerType
      BY TypeParts DEF SpoolInv
    <3>2. FilesType' /\ MemoryType' /\ SocketType' /\ HandlerType' /\ LedgerType'
      BY <2>1, <3>1 DEF FilesType, MemoryType, SocketType, HandlerType, LedgerType, files,
         memory, socket, server
    <3> QED
      BY <3>2 DEF TypeOK, FilesType, MemoryType, SocketType, HandlerType, LedgerType, Call
  <2>3. /\ dirs \subseteq dirs'
        /\ UNCHANGED <<live, arch, acked, published, pub, sequence, appending, committed,
                       wire, answer, stale>>
    BY <2>1 DEF files, memory, socket
  <2>4. SpoolInv'
    BY <2>2, <2>3, QuietKept
  <2> QED
    BY <1>0, <1>1, <2>4, ServerRests
<1> HIDE DEF Goal
<1>2. ASSUME NEW p \in Proc, HostStep(p)
      PROVE  Goal
  <2>1. Alone(p) /\ RestInv'
    BY <1>0, <1>2, AloneAndResting
  <2>2. SpoolInv'
    BY <1>2, <2>1, PublishStepKept, FinishAppendKept, ProcessKept DEF HostStep
  <2> QED
    BY <2>1, <2>2 DEF Goal
<1>3. ASSUME NEW p \in Proc, ServerStep(p)
      PROVE  Goal
  BY <1>0, <1>3, ServerKept, EventHandled, ServerRests DEF ServerStep, Goal
<1>4. ASSUME NEW p \in Proc, Register(p) \/ EndSession(p)
      PROVE  Goal
  BY <1>0, <1>4, ServerKept, ServerRests DEF Goal
<1>5. ASSUME NEW p \in Proc, Crash(p) \/ Terminate(p) \/ Leave(p)
      PROVE  Goal
  BY <1>0, <1>5, AloneAndResting, ProcessKept DEF Goal
<1>6. ASSUME NEW p \in Proc, NEW s \in Segment, OpenSpool(p, s) \/ LinkEvent(p, s)
      PROVE  Goal
  BY <1>0, <1>6, AloneAndResting, ProcessKept, LinkEventKept DEF Goal
<1>7. ASSUME NEW p \in Proc, NEW s \in Segment, Launch(p, s)
      PROVE  Goal
  BY <1>0, <1>7, ServerKept, ServerRests DEF Goal
<1>8. ASSUME NEW p \in Proc, NEW e \in wire[p], Refuse(p, e)
      PROVE  Goal
  BY <1>0, <1>8, EventHandled, ServerRests DEF Goal
<1>9. ASSUME \/ \E s \in Segment : Claim(s)
             \/ \E e \in stale : CommitStale(e) \/ DropStale(e)
             \/ RestartCoordinator
      PROVE  Goal
  BY <1>0, <1>9, ServerKept, EventHandled, ServerRests DEF Goal
<1> QED
  BY <1>1, <1>2, <1>3, <1>4, <1>5, <1>6, <1>7, <1>8, <1>9 DEF Next, Goal

\* No process has been started.
LEMMA RestInit ==
    ASSUME Init
    PROVE  RestInv
BY DEF Init, RestInv, Resting

\* The invariant holds as long as processes follow one another.
LEMMA Invariant == Spec /\ []OneAtATime => [](SpoolInv /\ RestInv)
<1>1. Init => SpoolInv /\ RestInv
  BY SpoolInit, RestInit
<1>2. (SpoolInv /\ RestInv) /\ OneAtATime /\ [Next]_vars => (SpoolInv /\ RestInv)'
  BY SpoolStep
<1> QED
  BY <1>1, <1>2, PTL DEF Spec

-----------------------------------------------------------------------------
(* Theorems *)

\* Every state the processes reach, one after another, is of the declared
\* type: cursors and numbers are counted from one, calls of PublishAll hold
\* events, the ledger is a sequence of segments.
THEOREM TypeCorrect == Spec /\ []OneAtATime => []TypeOK
<1>1. SpoolInv => TypeOK
  BY DEF SpoolInv
<1> QED
  BY <1>1, Invariant, PTL

\* AckThrough, archiveThrough and writePublished never pass an event that the
\* coordinator does not have: what is not committed is still a file of its
\* spool, ahead of both cursors, for the next PublishAll to send.
THEOREM EventsAreNotForgotten == Spec /\ []OneAtATime => []NothingForgotten
<1>1. SpoolInv => NothingForgotten
  <2> SUFFICES ASSUME SpoolInv, NEW s \in Segment, NEW q \in Files(s)
               PROVE  \/ q <= Len(committed) /\ committed[q] = s
                      \/ q > published /\ q > acked[s] /\ q \in live[s]
    BY DEF NothingForgotten
  <2>1. /\ q \in Nat \ {0} /\ published \in Nat /\ acked[s] \in Nat
        /\ committed \in Seq(Segment)
    BY TypeParts DEF SpoolInv, FilesType, LedgerType, Files
  <2>2. Len(committed) \in Nat
    BY <2>1
  <2>3. CASE q <= Len(committed)
    <3>1. q \in DOMAIN committed /\ committed[q] \in Segment
      BY <2>1, <2>2, <2>3
    <3>2. q \in Files(committed[q])
      BY <3>1 DEF SpoolInv, CommittedInv
    <3>3. committed[q] = s
      BY <3>1, <3>2 DEF SpoolInv, DiskInv
    <3> QED
      BY <2>3, <3>3
  <2>4. CASE q > Len(committed)
    <3>1. published <= Len(committed) /\ acked[s] <= Len(committed) /\ q \notin arch[s]
      BY <2>1, <2>2, <2>4 DEF SpoolInv, CursorInv
    <3> QED
      BY <2>1, <2>2, <2>4, <3>1 DEF Files
  <2> QED
    BY <2>1, <2>2, <2>3, <2>4
<1> QED
  BY <1>1, Invariant, PTL

-----------------------------------------------------------------------------
(* The spools and the coordinator implement the event log *)

\* The events of the host in the order of their numbers: one segment for each
\* number, the one that has the event.
Ordered ==
    /\ Newest \in Nat
    /\ Produced \in [1..Newest -> Segment]
    /\ \A s \in Segment : \A q \in Files(s) : q \in 1..Newest /\ Produced[q] = s
    /\ \A q \in 1..Newest : q \in Files(Produced[q])

\* Produced gives them in this order.
LEMMA ProducedOrder == SpoolInv => Ordered
<1> SUFFICES ASSUME SpoolInv PROVE Ordered
  OBVIOUS
<1>1. /\ Newest \in Nat /\ Numbers = 1..Newest
      /\ \A r, s \in Segment : \A q \in Files(r) \cap Files(s) : r = s
  BY DEF SpoolInv, DiskInv
<1> DEFINE at(q) == CHOOSE s \in Segment : q \in Files(s)
<1>2. \A q \in 1..Newest : at(q) \in Segment /\ q \in Files(at(q))
  BY <1>1 DEF Numbers
<1>3. Produced = [q \in 1..Newest |-> IF q \in Numbers THEN at(q) ELSE 0]
  BY DEF Produced, Newest, Numbers
<1> HIDE DEF at
<1>4. \A q \in 1..Newest : Produced[q] = at(q)
  BY <1>1, <1>3
<1>5. Produced \in [1..Newest -> Segment]
  <2>1. \A q \in 1..Newest : (IF q \in Numbers THEN at(q) ELSE 0) \in Segment
    BY <1>1, <1>2
  <2> QED
    BY <1>3, <2>1
<1>6. \A s \in Segment : \A q \in Files(s) : q \in 1..Newest
  BY <1>1 DEF Numbers
<1> QED
  BY <1>1, <1>2, <1>4, <1>5, <1>6 DEF Ordered

\* Without a new event the order stays as it is.
LEMMA ProducedKept ==
    ASSUME \A s \in Segment : Files(s)' = Files(s)
    PROVE  Produced' = Produced
<1>1. (UNION {Files(s) : s \in Segment})' = UNION {Files(s) : s \in Segment}
  OBVIOUS
<1>2. \A q : (CHOOSE s \in Segment : q \in Files(s))' = CHOOSE s \in Segment : q \in Files(s)
  OBVIOUS
<1> QED
  BY <1>1, <1>2 DEF Produced

\* A linked event is produced.
LEMMA LinkProduces ==
    ASSUME SpoolInv, SpoolInv', NEW p \in Proc, NEW s \in Segment, LinkEvent(p, s)
    PROVE  Log!Produce(s)
<1>1. /\ Newest \in Nat
      /\ Produced \in [1..Newest -> Segment]
      /\ \A r \in Segment : \A q \in Files(r) : q \in 1..Newest /\ Produced[q] = r
      /\ \A q \in 1..Newest : q \in Files(Produced[q])
  BY ProducedOrder DEF Ordered
<1>2. /\ Newest' \in Nat
      /\ Produced' \in [1..Newest' -> Segment]
      /\ \A r \in Segment : \A q \in Files(r)' : q \in 1..Newest' /\ Produced'[q] = r
  <2>1. Ordered'
    BY ProducedOrder, PTL
  <2> QED
    BY <2>1 DEF Ordered
<1>3. /\ Files(s)' = Files(s) \cup {Newest + 1}
      /\ \A r \in Segment : r # s => Files(r)' = Files(r)
      /\ Newest' = Newest + 1
  BY LinkGrows
<1>4. Produced'[Newest + 1] = s
  BY <1>2, <1>3
<1>5. \A q \in 1..Newest : Produced'[q] = Produced[q]
  BY <1>1, <1>2, <1>3
<1>6. PICK n \in Nat : n = Newest
  BY <1>1
<1>7. Produced \in Seq(Segment) /\ Len(Produced) = n
  BY <1>1, <1>6
<1> DEFINE longer == Append(Produced, s)
<1>8. Produced' = Append(Produced, s)
  <2>1. longer \in Seq(Segment) /\ Len(longer) = n + 1
    BY <1>7
  <2>2. \A q \in 1..n : longer[q] = Produced[q]
    BY <1>7
  <2>3. longer[n + 1] = s
    BY <1>7
  <2> HIDE DEF longer
  <2>4. longer \in [1..(n + 1) -> Segment]
    BY <2>1
  <2>5. /\ Produced' \in [1..(n + 1) -> Segment]
        /\ \A q \in 1..(n + 1) : q \in 1..n \/ q = n + 1
    BY <1>2, <1>3, <1>6
  <2>6. \A q \in 1..(n + 1) : Produced'[q] = longer[q]
    BY <1>4, <1>5, <1>6, <2>2, <2>3, <2>5
  <2>7. Produced' = longer
    BY <2>4, <2>5, <2>6
  <2> QED
    BY <2>7 DEF longer
<1>9. committed' = committed
  BY DEF LinkEvent
<1> QED
  BY <1>8, <1>9 DEF Log!Produce

\* An event that follows the last one is the next produced.
LEMMA CommitCommits ==
    ASSUME SpoolInv, NEW e \in Event, OnDisk(e), CommitHostEvent(e),
           \A s \in Segment : Files(s)' = Files(s)
    PROVE  Log!Commit \/ UNCHANGED <<Produced, committed>>
<1>1. /\ Newest \in Nat
      /\ Produced \in [1..Newest -> Segment]
      /\ \A r \in Segment : \A q \in Files(r) : q \in 1..Newest /\ Produced[q] = r
  BY ProducedOrder DEF Ordered
<1>2. Produced' = Produced
  BY ProducedKept
<1>3. e.q \in 1..Newest /\ Produced[e.q] = e.s
  BY <1>1 DEF Event, OnDisk
<1>4. Len(Produced) = Newest
  BY <1>1
<1>5. Len(committed) \in Nat
  BY CommittedIsOnDisk
<1>6. CASE row # "offline" /\ Follows(e)
  <2>1. e.q = Len(committed) + 1 /\ committed' = Append(committed, e.s)
    BY <1>6 DEF CommitHostEvent, Follows
  <2>2. Len(committed) < Len(Produced)
    BY <1>1, <1>3, <1>4, <1>5, <2>1
  <2>3. committed' = Append(committed, Produced[Len(committed) + 1])
    BY <1>3, <2>1
  <2> QED
    BY <1>2, <2>2, <2>3 DEF Log!Commit
<1>7. CASE ~ (row # "offline" /\ Follows(e))
  BY <1>2, <1>7 DEF CommitHostEvent
<1> QED
  BY <1>6, <1>7

\* PublishAll, the processes and the coordinator leave what is produced and
\* what is committed alone, but for LinkEvent and the commits.
LEMMA StepKinds ==
    ASSUME SpoolInv, RestInv, OneAtATime, [Next]_vars
    PROVE  \/ committed' = committed /\ \A s \in Segment : Files(s)' = Files(s)
           \/ \E p \in Proc, s \in Segment : LinkEvent(p, s)
           \/ /\ \E e \in Event : OnDisk(e) /\ CommitHostEvent(e)
              /\ \A s \in Segment : Files(s)' = Files(s)
<1> DEFINE Quiet == committed' = committed /\ \A s \in Segment : Files(s)' = Files(s)
           Link == \E p \in Proc, s \in Segment : LinkEvent(p, s)
           Handle == /\ \E e \in Event : OnDisk(e) /\ CommitHostEvent(e)
                     /\ \A s \in Segment : Files(s)' = Files(s)
<1>0. MemoryType /\ HandlerType
  BY TypeParts DEF SpoolInv
<1>1. ASSUME UNCHANGED <<live, arch, committed>>
      PROVE  Quiet
  BY <1>1 DEF Files
<1>2. ASSUME UNCHANGED <<live, arch>>, NEW e \in Event, OnDisk(e), CommitHostEvent(e)
      PROVE  Handle
  BY <1>2 DEF Files
<1> HIDE DEF Quiet, Link, Handle
<1>3. ASSUME NEW p \in Proc, PublishStep(p)
      PROVE  Quiet
  <2>1. Alone(p)
    BY <1>0, <1>3, AloneAndResting DEF HostStep
  <2>2. CASE LinkArchive(p) \/ RemoveArchived(p)
    BY <2>1, <2>2, LinkKept, RemoveKept DEF LinkArchive, RemoveArchived, Coordinator, Quiet
  <2>3. CASE \E by \in Caller : BeginPublish(p, by)
    BY <1>1, <2>3 DEF BeginPublish, files, Coordinator
  <2>4. CASE ReadSpool(p) \/ SendEvent(p) \/ TakeAnswer(p) \/ Abandon(p) \/ Confirmed(p)
    BY <1>1, <2>4
       DEF ReadSpool, SendEvent, TakeAnswer, Abandon, Confirmed, files, Coordinator
  <2>5. CASE AckThrough(p) \/ WritePublished(p)
    BY <1>1, <2>5 DEF AckThrough, WritePublished, files, Coordinator
  <2> QED
    BY <1>3, <2>2, <2>3, <2>4, <2>5 DEF PublishStep
<1>4. ASSUME NEW p \in Proc,
             \/ FinishAppend(p) \/ Notice(p) \/ StopPublisher(p) \/ Exit(p)
             \/ Crash(p) \/ Terminate(p) \/ Leave(p)
      PROVE  Quiet
  BY <1>1, <1>4
     DEF FinishAppend, Notice, Leave, Flush, StopPublisher, Exit, Crash, Terminate, files
<1>5. ASSUME NEW p \in Proc,
             \/ Register(p) \/ FinishReconcile(p) \/ LoseSession(p) \/ EndSession(p)
             \/ \E s \in Segment : OpenSpool(p, s) \/ Launch(p, s)
             \/ \E e \in wire[p] : Refuse(p, e)
      PROVE  Quiet
  BY <1>1, <1>5
     DEF Register, FinishReconcile, LoseSession, EndSession, Cleanup, OpenSpool, Launch,
         Refuse, files
<1>6. ASSUME \/ \E s \in Segment : Claim(s)
             \/ \E e \in stale : DropStale(e)
             \/ RestartCoordinator
             \/ UNCHANGED vars
      PROVE  Quiet
  BY <1>1, <1>6 DEF Claim, DropStale, RestartCoordinator, vars, files
<1>7. ASSUME NEW p \in Proc, NEW e \in wire[p], Commit(p, e)
      PROVE  Handle
  <2>1. e \in Event /\ OnDisk(e)
    BY MessageOnDisk
  <2> QED
    BY <1>2, <1>7, <2>1 DEF Commit, files
<1>8. ASSUME NEW e \in stale, CommitStale(e)
      PROVE  Handle
  <2>1. e \in Event /\ OnDisk(e)
    BY MessageOnDisk
  <2> QED
    BY <1>2, <1>8, <2>1 DEF CommitStale, files
<1>9. Quiet \/ Link \/ Handle
  <2>1. ASSUME NEW p \in Proc, NEW s \in Segment, LinkEvent(p, s)
        PROVE  Link
    BY <2>1 DEF Link
  <2> QED
    BY <1>3, <1>4, <1>5, <1>6, <1>7, <1>8, <2>1 DEF Next, HostStep, ServerStep
<1> QED
  BY <1>9 DEF Quiet, Link, Handle

\* Through crashes, reconnections, repeated and late messages, each event of
\* the spools is committed once and in order: PublishAll with CommitHostEvent
\* implements the event log.
THEOREM SpoolImplementsEventLog == Spec /\ []OneAtATime => ImplementsEventLog
<1>1. Init => Log!Init
  <2> SUFFICES ASSUME Init PROVE Log!Init
    OBVIOUS
  <2>1. SpoolInv /\ committed = << >>
    BY SpoolInit DEF Init
  <2>2. \A s \in Segment : Files(s) = {}
    BY DEF Init, Files
  <2>3. Newest \in Nat /\ Newest = 0
    <3>1. Numbers = {}
      BY <2>2 DEF Numbers
    <3>2. Numbers = 1..Newest /\ Newest \in Nat
      BY <2>1 DEF SpoolInv, DiskInv
    <3> QED
      BY <3>1, <3>2
  <2>4. Produced \in [1..0 -> Segment]
    BY <2>1, <2>3, ProducedOrder DEF Ordered
  <2>5. Produced = << >>
    BY <2>4
  <2> QED
    BY <2>1, <2>5 DEF Log!Init
<1>2. /\ SpoolInv /\ RestInv /\ SpoolInv'
      /\ OneAtATime
      /\ [Next]_vars
      => [Log!Next]_<<Produced, committed>>
  <2> SUFFICES ASSUME SpoolInv, RestInv, SpoolInv', OneAtATime, [Next]_vars
               PROVE  Log!Next \/ UNCHANGED <<Produced, committed>>
    OBVIOUS
  <2>1. CASE committed' = committed /\ \A s \in Segment : Files(s)' = Files(s)
    BY <2>1, ProducedKept
  <2>2. ASSUME NEW p \in Proc, NEW s \in Segment, LinkEvent(p, s)
        PROVE  Log!Next
    BY <2>2, LinkProduces DEF Log!Next
  <2>3. ASSUME NEW e \in Event, OnDisk(e), CommitHostEvent(e),
               \A s \in Segment : Files(s)' = Files(s)
        PROVE  Log!Next \/ UNCHANGED <<Produced, committed>>
    BY <2>3, CommitCommits DEF Log!Next
  <2> QED
    BY <2>1, <2>2, <2>3, StepKinds
<1> QED
  BY <1>1, <1>2, Invariant, PTL DEF Spec, ImplementsEventLog, Log!Spec

=============================================================================
