------------------------- MODULE NativeDeliveryProofs -------------------------
(***************************************************************************)
(* Proofs about NativeDelivery, for any number of processes, launches,     *)
(* events and owner epochs.                                                *)
(***************************************************************************)
EXTENDS NativeDelivery, FiniteSetTheorems, TLAPS

-----------------------------------------------------------------------------
(* What a page of events is *)

\* A non-empty set of numbers has a least element.
LEMMA LeastElement ==
    ASSUME NEW S \in SUBSET Nat, S # {}
    PROVE  \E m \in S : \A n \in S : m <= n
<1>1. PICK m \in S : \A n \in S : ~(<<n, m>> \in OpToRel(<, Nat))
  BY NatLessThanWellFounded, WFMin
<1>2. \A n \in S : ~(n < m)
  BY <1>1 DEF OpToRel
<1> QED
  BY <1>2

\* A non-empty set of numbers up to b has a greatest element.
LEMMA GreatestElement ==
    ASSUME NEW b \in Nat, NEW S \in SUBSET (0 .. b), S # {}
    PROVE  \E m \in S : \A n \in S : n <= m
<1> DEFINE T == {b - n : n \in S}
<1>0. PICK x \in S : TRUE
  OBVIOUS
<1>1. T \in SUBSET Nat /\ T # {}
  <2>1. b - x \in T
    BY <1>0
  <2>2. \A n \in S : b - n \in Nat
    OBVIOUS
  <2> QED
    BY <2>1, <2>2
<1>2. PICK k \in T : \A n \in T : k <= n
  BY <1>1, LeastElement
<1>3. PICK m \in S : k = b - m
  OBVIOUS
<1>4. \A n \in S : b - n \in T
  OBVIOUS
<1>5. \A n \in S : b - m <= b - n
  BY <1>2, <1>3, <1>4
<1> QED
  BY <1>3, <1>5

\* A set of events is finite.
LEMMA EventsFinite ==
    ASSUME NEW s \in SUBSET Event
    PROVE  IsFiniteSet(s) /\ Cardinality(s) \in Nat
<1>1. IsFiniteSet(Event)
  BY FS_Interval, DeliveryAssumption DEF Event
<1> QED
  BY <1>1, FS_Subset, FS_CardinalityType

\* CollectPending never returns an empty page of a non-empty list, and never
\* more than PageSize events: what a process claims is a delivery.
LEMMA PageBounded ==
    ASSUME NEW s \in SUBSET Event, s # {}
    PROVE  First(s) \in SUBSET s /\ Cardinality(First(s)) \in 1 .. PageSize
<1> DEFINE upTo(e) == {f \in s : f <= e}
<1>0. Events \in Nat /\ PageSize \in Nat /\ PageSize >= 1
  BY DeliveryAssumption
<1>1. s \in SUBSET Nat /\ s \in SUBSET (0 .. Events)
  BY <1>0 DEF Event
<1>2. First(s) \in SUBSET s
  BY DEF First
<1>3. First(s) # {}
  <2>1. PICK m \in s : \A n \in s : m <= n
    BY <1>1, LeastElement
  <2>2. upTo(m) = {m}
    <3>1. \A f \in s : f <= m => f = m
      BY <1>1, <2>1
    <3>2. m <= m
      BY <1>1
    <3> QED
      BY <3>1, <3>2
  <2>3. Cardinality(upTo(m)) = 1
    BY <2>2, FS_Singleton
  <2>4. Cardinality({f \in s : f <= m}) <= PageSize
    BY <1>0, <2>3
  <2> QED
    BY <2>4 DEF First
<1>4. PICK g \in First(s) : \A n \in First(s) : n <= g
  BY <1>0, <1>1, <1>2, <1>3, GreatestElement
<1>5. First(s) \in SUBSET upTo(g)
  BY <1>2, <1>4
<1>6. Cardinality(upTo(g)) <= PageSize
  BY <1>4 DEF First
<1>7. IsFiniteSet(upTo(g)) /\ Cardinality(upTo(g)) \in Nat
  BY EventsFinite
<1>8. /\ IsFiniteSet(First(s)) /\ Cardinality(First(s)) \in Nat
      /\ Cardinality(First(s)) <= Cardinality(upTo(g))
  BY <1>5, <1>7, FS_Subset, FS_CardinalityType
<1>9. Cardinality(First(s)) # 0
  BY <1>3, <1>8, FS_EmptySet
<1> QED
  BY <1>0, <1>2, <1>6, <1>7, <1>8, <1>9

\* A page of the events of a live owner is a delivery.
LEMMA PageIsDelivery ==
    ASSUME NEW s \in SUBSET Event, s # {}, NEW e \in Epoch
    PROVE  [epoch |-> e, events |-> First(s)] \in Delivery
BY PageBounded DEF Delivery

\* The cursor of the next page is one of an event.
LEMMA CursorType ==
    ASSUME TypeOK, NEW c \in 0 .. Events, Page(c) # {}
    PROVE  NextOf(c) \in 0 .. Events
<1>1. Events \in Nat /\ born \in 0 .. Events
  BY DeliveryAssumption DEF TypeOK
<1>2. Page(c) \in SUBSET (0 .. Events)
  BY <1>1 DEF Page, First, Pending
<1>3. PICK m \in Page(c) : \A n \in Page(c) : n <= m
  BY <1>1, <1>2, GreatestElement
<1>4. \A n \in Page(c) : m >= n
  BY <1>1, <1>2, <1>3
<1>5. Max(Page(c)) \in Page(c)
  BY <1>4 DEF Max
<1> QED
  BY <1>1, <1>2, <1>5 DEF NextOf

-----------------------------------------------------------------------------
(* The inductive invariant *)

\* Program points at which a process has a delivery.
Holding == {"claim", "claimed", "sending", "attached", "wired", "recover", "reconcile",
            "reading", "proved", "deciding", "replay", "acking", "acked"}

\* A running process has attached under some epoch, and holds a delivery where
\* the code has one.
Equipped ==
    \A w \in Worker :
        /\ pc[w] # "off" => att[w] \in Epoch
        /\ pc[w] \in Holding => cur[w] \in Delivery

Unsent(d) == turns[d] = <<>> /\ \A w \in Worker : <<w, d>> \notin inflight

Sending(w) == pc[w] \in {"sending", "attached"}

\* The right to send: nothing is written before the status says so, and a
\* process that has the right and has not used it is alone with it.
RightToSend ==
    /\ \A d \in Delivery : batch[d].state \in {NoneYet, "pending"} =>
           /\ Unsent(d)
           /\ \A w \in Worker : pc[w] \in {"sending", "attached", "wired"} => cur[w] # d
    /\ \A w \in Worker : Sending(w) => Unsent(cur[w])
    /\ \A v, w \in Worker : Sending(v) /\ Sending(w) /\ cur[v] = cur[w] => v = w

\* A delivery has one request on the wire or one turn.
OneTurn ==
    /\ \A v, w \in Worker, d \in Delivery :
           <<v, d>> \in inflight /\ <<w, d>> \in inflight => v = w
    /\ \A w \in Worker, d \in Delivery : <<w, d>> \in inflight => turns[d] = <<>>
    /\ \A d \in Delivery : Len(turns[d]) <= 1

OneBlocking ==
    \A d, e \in Delivery :
        batch[d].state \in Blocking /\ batch[e].state \in Blocking => d = e

\* What a process has read of the history stays true until it confirms it.
ReadIsTrue ==
    \A w \in Worker : pc[w] = "proved" => turn[w] \in CompletedTurns(cur[w])

Settled == {"history_confirmed", "controller_acked"}

\* A process that acknowledges does so for a confirmed delivery and with the
\* decision of the request file.
AckInOrder ==
    \A w \in Worker :
        /\ pc[w] \in {"deciding", "replay", "acking", "acked"} =>
               batch[cur[w]].state \in Settled
        /\ pc[w] \in {"acking", "acked"} => request[cur[w]] \in Decision

DeliveryInv ==
    /\ TypeOK /\ Equipped /\ RightToSend /\ OneTurn /\ OneBlocking
    /\ ReadIsTrue /\ ConfirmedIsTrue /\ AckInOrder /\ AckIsBacked

\* Initially nothing is sent, confirmed or acknowledged.
LEMMA InvInit == Init => DeliveryInv
<1> SUFFICES ASSUME Init PROVE DeliveryInv
  OBVIOUS
<1>1. TypeOK
  BY DeliveryAssumption DEF Init, TypeOK, BatchState, Point
<1>2. Equipped /\ RightToSend /\ OneTurn
  BY DEF Init, Equipped, Holding, RightToSend, Unsent, Sending, OneTurn
<1>3. OneBlocking /\ ReadIsTrue /\ ConfirmedIsTrue /\ AckInOrder /\ AckIsBacked
  BY DEF Init, OneBlocking, Blocking, ReadIsTrue, ConfirmedIsTrue, AckInOrder, AckIsBacked, NoneYet
<1> QED
  BY <1>1, <1>2, <1>3 DEF DeliveryInv

\* A step of one process that leaves the ledger and the thread alone, and takes
\* it to a point where it has no right to send; what it claims to have read or
\* to acknowledge is so.
LEMMA InvQuiet ==
    ASSUME DeliveryInv, TypeOK', Equipped', NEW w \in Worker, NEW to \in Point,
           UNCHANGED <<batch, request, receipts, turns, inflight>>,
           pc' = [pc EXCEPT ![w] = to],
           \A v \in Worker \ {w} : cur'[v] = cur[v] /\ turn'[v] = turn[v],
           to \notin {"sending", "attached", "wired"},
           to = "proved" => turn'[w] \in CompletedTurns(cur'[w]),
           to \in {"deciding", "replay", "acking", "acked"} => batch[cur'[w]].state \in Settled,
           to \in {"acking", "acked"} => request[cur'[w]] \in Decision
    PROVE  DeliveryInv'
<1>1. \A v \in Worker : pc'[v] = IF v = w THEN to ELSE pc[v]
  BY DEF DeliveryInv, TypeOK
<1>2. RightToSend'
  BY <1>1 DEF DeliveryInv, RightToSend, Unsent, Sending
<1>3. OneTurn' /\ OneBlocking' /\ ConfirmedIsTrue' /\ AckIsBacked'
  BY DEF DeliveryInv, OneTurn, OneBlocking, ConfirmedIsTrue, AckIsBacked
<1>4. ReadIsTrue' /\ AckInOrder'
  BY <1>1 DEF DeliveryInv, ReadIsTrue, AckInOrder, CompletedTurns
<1> QED
  BY <1>2, <1>3, <1>4 DEF DeliveryInv

\* What no process moves: nothing but the environment's part and counters.
LEMMA InvIdle ==
    ASSUME DeliveryInv, TypeOK',
           UNCHANGED <<batch, request, receipts, turns, inflight, pc, cur, turn, att>>
    PROVE  DeliveryInv'
BY DEF DeliveryInv, Equipped, RightToSend, Unsent, Sending, OneTurn, OneBlocking,
       ConfirmedIsTrue, AckIsBacked, ReadIsTrue, AckInOrder, CompletedTurns

\* Launching and binding: the process has no delivery yet.
LEMMA InvAttaching ==
    ASSUME DeliveryInv, NEW w \in Worker, Launching(w) \/ Attaching(w)
    PROVE  DeliveryInv'
<1> USE DEF Goto, storeVars, ledgerVars, nativeVars, localVars
<1>1. CASE Attaches(w)
  <2>1. TypeOK'
    <3>1. pc' \in [Worker -> Point]
      BY <1>1 DEF Attaches, DeliveryInv, TypeOK, Point
    <3>2. att' \in [Worker -> Epoch \cup {0}]
      BY <1>1 DEF Attaches, DeliveryInv, TypeOK
    <3>3. launches' \in 0 .. Launches
      BY <1>1, DeliveryAssumption DEF Attaches, DeliveryInv, TypeOK
    <3> QED
      BY <1>1, <3>1, <3>2, <3>3 DEF Attaches, DeliveryInv, TypeOK
  <2>2. Equipped'
    BY <1>1 DEF Attaches, DeliveryInv, TypeOK, Equipped, Holding
  <2> QED
    BY <1>1, <2>1, <2>2, InvQuiet DEF Attaches, Point
<1>2. CASE LaunchRefused(w)
  <2>1. TypeOK'
    BY <1>2, DeliveryAssumption DEF LaunchRefused, DeliveryInv, TypeOK
  <2> QED
    BY <1>2, <2>1, InvIdle DEF LaunchRefused
<1>3. CASE BindGeneration(w)
  <2>1. TypeOK'
    <3>1. pc' \in [Worker -> Point]
      BY <1>3 DEF BindGeneration, DeliveryInv, TypeOK, Point
    <3>2. caps' \in [current : Nat, files : SUBSET Nat]
      <4>1. caps \in [current : Nat, files : SUBSET Nat]
        BY DEF DeliveryInv, TypeOK
      <4>2. caps' = [caps EXCEPT !.files = @ \cup {caps.current + 1}]
        BY <1>3 DEF BindGeneration
      <4>3. caps.files \cup {caps.current + 1} \in SUBSET Nat
        BY <4>1
      <4> QED
        BY <4>1, <4>2, <4>3
    <3> QED
      BY <1>3, <3>1, <3>2 DEF BindGeneration, DeliveryInv, TypeOK
  <2>2. Equipped'
    BY <1>3 DEF BindGeneration, DeliveryInv, TypeOK, Equipped, Holding
  <2> QED
    BY <1>3, <2>1, <2>2, InvQuiet DEF BindGeneration, Point
<1>4. CASE BindCurrent(w)
  <2>1. TypeOK'
    <3>1. pc' \in [Worker -> Point]
      BY <1>4 DEF BindCurrent, DeliveryInv, TypeOK, Point
    <3>2. caps' \in [current : Nat, files : SUBSET Nat]
      <4>1. caps \in [current : Nat, files : SUBSET Nat]
        BY DEF DeliveryInv, TypeOK
      <4>2. caps' = [caps EXCEPT !.current = @ + 1]
        BY <1>4 DEF BindCurrent
      <4> QED
        BY <4>1, <4>2
    <3> QED
      BY <1>4, <3>1, <3>2 DEF BindCurrent, DeliveryInv, TypeOK
  <2>2. Equipped'
    BY <1>4 DEF BindCurrent, DeliveryInv, TypeOK, Equipped, Holding
  <2> QED
    BY <1>4, <2>1, <2>2, InvQuiet DEF BindCurrent, Point
<1>5. CASE Submits(w)
  <2>1. TypeOK'
    BY <1>5 DEF Submits, DeliveryInv, TypeOK, Point
  <2>2. Equipped'
    BY <1>5 DEF Submits, DeliveryInv, TypeOK, Equipped, Holding
  <2> QED
    BY <1>5, <2>1, <2>2, InvQuiet DEF Submits, Point
<1> QED
  BY <1>1, <1>2, <1>3, <1>4, <1>5 DEF Launching, LaunchHelper, LaunchDriver, Attaching

\* A process that ends holds nothing.
LEMMA GoneTypes ==
    ASSUME TypeOK, NEW w \in Worker, Gone(w)
    PROVE  /\ pc' \in [Worker -> Point] /\ pc' = [pc EXCEPT ![w] = "off"]
           /\ att' \in [Worker -> Epoch \cup {0}]
           /\ cur' \in [Worker -> Delivery \cup {NoDelivery}]
           /\ cursor' \in [Worker -> 0 .. Events] /\ next' \in [Worker -> 0 .. Events]
           /\ turn' \in [Worker -> Nat] /\ reply' \in [Worker -> Nat]
           /\ \A v \in Worker \ {w} : cur'[v] = cur[v] /\ turn'[v] = turn[v] /\ att'[v] = att[v]
<1>1. pc' \in [Worker -> Point] /\ pc' = [pc EXCEPT ![w] = "off"]
  BY DEF TypeOK, Gone, Goto, Point
<1>2. 0 \in 0 .. Events
  BY DeliveryAssumption
<1> QED
  BY <1>1, <1>2 DEF TypeOK, Gone

\* A process that ends leaves the others as equipped as they were.
LEMMA GoneEquipped ==
    ASSUME TypeOK, Equipped, NEW w \in Worker, Gone(w)
    PROVE  Equipped'
<1>1. \A v \in Worker : pc'[v] = IF v = w THEN "off" ELSE pc[v]
  BY DEF TypeOK, Gone, Goto
<1>2. \A v \in Worker \ {w} : cur'[v] = cur[v] /\ att'[v] = att[v]
  BY GoneTypes
<1> QED
  BY <1>1, <1>2 DEF Equipped, Holding

\* The events that wait for a decision are events.
LEMMA PendingEvents ==
    ASSUME TypeOK
    PROVE  Pending \in SUBSET Event
BY DeliveryAssumption DEF TypeOK, Pending, Event

\* A process that claims a page of events holds a delivery of its epoch.
LEMMA InvClaiming ==
    ASSUME DeliveryInv, NEW w \in Worker, pc[w] # "off",
           NEW s \in SUBSET Event, s # {}, Claiming(w, First(s)),
           next' \in [Worker -> 0 .. Events],
           UNCHANGED <<storeVars, ledgerVars, caps, nativeVars, turn, reply, att, cursor,
                       launches>>
    PROVE  DeliveryInv'
<1> USE DEF Goto, storeVars, ledgerVars, nativeVars
<1> DEFINE d == [epoch |-> att[w], events |-> First(s)]
<1>1. d \in Delivery
  BY PageIsDelivery DEF DeliveryInv, Equipped
<1> HIDE DEF d
<1>2. cur' = [cur EXCEPT ![w] = d] /\ pc' = [pc EXCEPT ![w] = "claim"]
  BY DEF Claiming, d
<1>3. cur' \in [Worker -> Delivery \cup {NoDelivery}]
  BY <1>1, <1>2 DEF DeliveryInv, TypeOK
<1>4. pc' \in [Worker -> Point]
  BY <1>2 DEF DeliveryInv, TypeOK, Point
<1>5. TypeOK'
  BY <1>3, <1>4 DEF DeliveryInv, TypeOK
<1>6. Equipped'
  BY <1>1, <1>2 DEF DeliveryInv, TypeOK, Equipped
<1> QED
  BY <1>2, <1>5, <1>6, InvQuiet DEF DeliveryInv, TypeOK, Point

\* Choosing a batch: nothing is sent yet, and a batch becomes undetermined only
\* while no other is.
LEMMA InvChoosing ==
    ASSUME DeliveryInv, NEW w \in Worker, Choosing(w)
    PROVE  DeliveryInv'
<1> USE DEF Goto, storeVars, ledgerVars, nativeVars, localVars
<1>1. CASE HelperScan(w)
  <2>1. PICK to \in {"collect", "deciding", "replay"} :
          /\ pc' = [pc EXCEPT ![w] = to]
          /\ to = "collect" => cur' = cur
          /\ to # "collect" => \E d \in Confirmed : cur' = [cur EXCEPT ![w] = d]
    BY <1>1 DEF HelperScan
  <2>2. pc' \in [Worker -> Point] /\ to \in Point
    BY <2>1 DEF DeliveryInv, TypeOK, Point
  <2>3. /\ cur' \in [Worker -> Delivery \cup {NoDelivery}]
        /\ \A v \in Worker \ {w} : cur'[v] = cur[v]
        /\ to # "collect" => cur'[w] \in Confirmed
    <3>1. CASE to = "collect"
      BY <2>1, <3>1 DEF DeliveryInv, TypeOK
    <3>2. CASE to # "collect"
      <4>1. PICK d \in Confirmed : cur' = [cur EXCEPT ![w] = d]
        BY <2>1, <3>2
      <4> QED
        BY <4>1 DEF DeliveryInv, TypeOK, Confirmed
    <3> QED
      BY <3>1, <3>2
  <2>4. TypeOK'
    BY <1>1, <2>2, <2>3 DEF HelperScan, DeliveryInv, TypeOK
  <2>5. Equipped'
    BY <1>1, <2>1, <2>3 DEF HelperScan, DeliveryInv, TypeOK, Equipped, Holding, Confirmed
  <2> QED
    BY <1>1, <2>1, <2>2, <2>3, <2>4, <2>5, InvQuiet DEF HelperScan, Confirmed, Settled
<1>2. CASE HelperCollect(w)
  BY <1>2, InvClaiming, PendingEvents DEF HelperCollect, DeliveryInv, TypeOK
<1>3. CASE DriverWait(w)
  <2>1. cursor[w] \in 0 .. Events
    BY DEF DeliveryInv, TypeOK
  <2>2. NextOf(cursor[w]) \in 0 .. Events
    BY <1>3, <2>1, CursorType DEF DriverWait, DeliveryInv
  <2>3. next' \in [Worker -> 0 .. Events]
    BY <1>3, <2>2 DEF DriverWait, DeliveryInv, TypeOK
  <2> DEFINE s == {e \in Pending : e > cursor[w]}
  <2>4. s \in SUBSET Event
    BY PendingEvents DEF DeliveryInv
  <2>5. Page(cursor[w]) = First(s)
    BY DEF Page
  <2>6. s # {}
    BY <1>3, <2>5 DEF DriverWait, First
  <2> QED
    BY <1>3, <2>3, <2>4, <2>5, <2>6, InvClaiming DEF DriverWait
<1>4. CASE Prepare(w)
  <2> DEFINE d == cur[w]
  <2>0. /\ pc[w] = "claim" /\ d \in Delivery
        /\ UNCHANGED <<storeVars, request, caps, nativeVars, launches>>
    BY <1>4 DEF Prepare, DeliveryInv, Equipped, Holding
  <2>1. CASE /\ Goto(w, WithBatch(w, batch[d].state))
             /\ UNCHANGED <<batch, stage, cur, turn, reply, localVars>>
    <3> DEFINE to == WithBatch(w, batch[d].state)
    <3>1. to \in {"claimed", "recover", "reconcile"}
      BY DEF WithBatch
    <3> HIDE DEF to
    <3>2. pc' = [pc EXCEPT ![w] = to]
      BY <2>1 DEF to
    <3>3. pc' \in [Worker -> Point] /\ to \in Point
      BY <3>1, <3>2 DEF DeliveryInv, TypeOK, Point
    <3>4. TypeOK'
      BY <2>0, <2>1, <3>3 DEF DeliveryInv, TypeOK
    <3>5. Equipped'
      BY <2>0, <2>1, <3>1, <3>2 DEF DeliveryInv, TypeOK, Equipped, Holding
    <3> QED
      BY <2>0, <2>1, <3>1, <3>2, <3>3, <3>4, <3>5, InvQuiet
  <2>2. CASE /\ batch[d].state = NoneYet /\ SlotFree /\ d \notin stage
             /\ batch' = [batch EXCEPT ![d].state = "pending"]
             /\ Goto(w, "claimed")
             /\ UNCHANGED <<stage, cur, turn, reply, localVars>>
    <3> HIDE DEF d
    <3>1. \A e \in Delivery : batch'[e] = IF e = d THEN [batch[d] EXCEPT !.state = "pending"]
                                                  ELSE batch[e]
      BY <2>0, <2>2 DEF DeliveryInv, TypeOK
    <3>2. \A v \in Worker : pc'[v] = IF v = w THEN "claimed" ELSE pc[v]
      BY <2>2 DEF DeliveryInv, TypeOK
    <3>3. batch[d] \in [state : BatchState, turn : Nat]
      BY <2>0 DEF DeliveryInv, TypeOK
    <3>4. batch'[d].state = "pending" /\ batch'[d].turn = batch[d].turn
      BY <2>0, <3>1, <3>3
    <3>5. TypeOK'
      <4>1. batch' \in [Delivery -> [state : BatchState, turn : Nat]]
        <5>1. [batch[d] EXCEPT !.state = "pending"] \in [state : BatchState, turn : Nat]
          BY <3>3 DEF BatchState, Blocking
        <5> QED
          BY <2>0, <2>2, <5>1 DEF DeliveryInv, TypeOK
      <4>2. pc' \in [Worker -> Point]
        BY <2>2 DEF DeliveryInv, TypeOK, Point
      <4> QED
        BY <2>0, <2>2, <4>1, <4>2 DEF DeliveryInv, TypeOK
    <3>6. Equipped'
      BY <2>0, <2>2, <3>2 DEF DeliveryInv, Equipped, Holding
    <3>7. RightToSend'
      BY <2>0, <2>2, <3>1, <3>2, <3>4 DEF DeliveryInv, RightToSend, Unsent, Sending
    <3>8. OneTurn'
      BY <2>0 DEF DeliveryInv, OneTurn
    <3>9. OneBlocking'
      BY <2>2, <3>1 DEF OneBlocking, SlotFree
    <3>10. ReadIsTrue'
      BY <2>0, <2>2, <3>2 DEF DeliveryInv, ReadIsTrue, CompletedTurns
    <3>11. ConfirmedIsTrue' /\ AckIsBacked'
      BY <2>0, <2>2, <3>1, <3>4 DEF DeliveryInv, ConfirmedIsTrue, AckIsBacked, NoneYet
    <3>12. AckInOrder'
      BY <2>0, <2>2, <3>1, <3>2, <3>4 DEF DeliveryInv, AckInOrder, Settled, Equipped, Holding, NoneYet
    <3> QED
      BY <3>5, <3>6, <3>7, <3>8, <3>9, <3>10, <3>11, <3>12 DEF DeliveryInv
  <2>3. CASE stage' = stage \ {d} /\ Gone(w) /\ UNCHANGED batch
    <3>1. TypeOK'
      BY <2>0, <2>3, GoneTypes DEF DeliveryInv, TypeOK
    <3>2. Equipped'
      BY <2>3, GoneEquipped DEF DeliveryInv
    <3> QED
      BY <2>0, <2>3, <3>1, <3>2, GoneTypes, InvQuiet DEF DeliveryInv, Point
  <2> QED
    BY <1>4, <2>1, <2>2, <2>3 DEF Prepare
<1> QED
  BY <1>1, <1>2, <1>3, <1>4 DEF Choosing

\* What _transition and the step around it change.
LEMMA LedgerFacts ==
    ASSUME TypeOK, Equipped, NEW w \in Worker, pc[w] \in Holding,
           NEW allowed, NEW state \in BatchState, NEW t \in Nat, NEW to \in Holding,
           LedgerStep(w, allowed, state, t, to)
    PROVE  /\ TypeOK' /\ Equipped'
           /\ batch[cur[w]].state \in allowed
           /\ UNCHANGED <<request, receipts, turns, inflight, cur, turn>>
           /\ \A e \in Delivery : e # cur[w] => batch'[e] = batch[e]
           /\ batch'[cur[w]] = [state |-> state, turn |-> t]
           /\ \A v \in Worker : pc'[v] = IF v = w THEN to ELSE pc[v]
<1> USE DEF LedgerStep, Transition, Goto, storeVars, nativeVars, localVars
<1>1. cur[w] \in Delivery
  BY DEF Equipped
<1>2. batch' \in [Delivery -> [state : BatchState, turn : Nat]]
  BY <1>1 DEF TypeOK
<1>3. pc' \in [Worker -> Point]
  BY DEF TypeOK, Point, Holding
<1>4. TypeOK'
  BY <1>2, <1>3 DEF TypeOK
<1>5. \A v \in Worker : pc'[v] = IF v = w THEN to ELSE pc[v]
  BY DEF TypeOK
<1>6. Equipped'
  BY <1>1, <1>5 DEF Equipped, Holding
<1>7. /\ \A e \in Delivery : e # cur[w] => batch'[e] = batch[e]
      /\ batch'[cur[w]] = [state |-> state, turn |-> t]
  BY <1>1 DEF TypeOK
<1> QED
  BY <1>4, <1>5, <1>6, <1>7

\* mark_sending gives the right to send to one process, which has not sent.
LEMMA InvMarkSending ==
    ASSUME DeliveryInv, NEW w \in Worker, MarkSending(w)
    PROVE  DeliveryInv'
<1>0. pc[w] = "claimed"
  BY DEF MarkSending
<1>b. LedgerStep(w, {"pending"}, "sending", 0, "sending")
  BY DEF MarkSending
<1>a. /\ TypeOK /\ Equipped /\ pc[w] \in Holding
      /\ "sending" \in Holding /\ "sending" \in BatchState
  BY <1>0 DEF DeliveryInv, BatchState, Blocking, Holding
<1>1. /\ TypeOK' /\ Equipped' /\ batch[cur[w]].state = "pending"
      /\ UNCHANGED <<request, receipts, turns, inflight, cur, turn>>
      /\ \A e \in Delivery : e # cur[w] => batch'[e] = batch[e]
      /\ batch'[cur[w]] = [state |-> "sending", turn |-> 0]
      /\ \A v \in Worker : pc'[v] = IF v = w THEN "sending" ELSE pc[v]
  BY <1>a, <1>b, LedgerFacts
<1> DEFINE d == cur[w]
<1>2. d \in Delivery
  BY <1>0 DEF DeliveryInv, Equipped, Holding
<1> HIDE DEF d
<1>3. RightToSend'
  <2>1. Unsent(d) /\ \A v \in Worker : pc[v] \in {"sending", "attached", "wired"} => cur[v] # d
    BY <1>1, <1>2 DEF DeliveryInv, RightToSend, d
  <2>2. \A e \in Delivery : Unsent(e)' <=> Unsent(e)
    BY <1>1 DEF Unsent
  <2>3. (\A e \in Delivery : batch[e].state \in {NoneYet, "pending"} =>
           /\ Unsent(e)
           /\ \A v \in Worker : pc[v] \in {"sending", "attached", "wired"} => cur[v] # e)'
    BY <1>1, <2>2 DEF DeliveryInv, RightToSend, d, NoneYet
  <2>4. (\A v \in Worker : Sending(v) => Unsent(cur[v]))'
    BY <1>1, <2>1 DEF DeliveryInv, RightToSend, d, Sending, Unsent
  <2>5. (\A u, v \in Worker : Sending(u) /\ Sending(v) /\ cur[u] = cur[v] => u = v)'
    BY <1>1, <2>1 DEF DeliveryInv, RightToSend, d, Sending
  <2> QED
    BY <2>3, <2>4, <2>5 DEF RightToSend
<1>4. OneTurn'
  BY <1>1 DEF DeliveryInv, OneTurn
<1>5. OneBlocking'
  BY <1>1, <1>2 DEF DeliveryInv, OneBlocking, Blocking
<1>6. ReadIsTrue'
  BY <1>1 DEF DeliveryInv, ReadIsTrue, CompletedTurns
<1>7. ConfirmedIsTrue' /\ AckIsBacked'
  BY <1>1, <1>2 DEF DeliveryInv, ConfirmedIsTrue, AckIsBacked
<1>8. AckInOrder'
  BY <1>1, <1>2 DEF DeliveryInv, AckInOrder, Settled, Equipped, Holding
<1> QED
  BY <1>1, <1>3, <1>4, <1>5, <1>6, <1>7, <1>8 DEF DeliveryInv

\* A status written for an undetermined batch that stays undetermined.
LEMMA InvUndetermined ==
    ASSUME DeliveryInv, TypeOK', Equipped', NEW w \in Worker, NEW d \in Delivery, NEW to \in Point,
           UNCHANGED <<request, receipts, turns, inflight>>,
           \A v \in Worker \ {w} : cur'[v] = cur[v] /\ turn'[v] = turn[v],
           \A e \in Delivery : e # d => batch'[e] = batch[e],
           batch[d].state \in Sent, batch'[d].state \in Sent,
           \A v \in Worker : pc'[v] = IF v = w THEN to ELSE pc[v],
           to \in {"reading", "reconcile", "off"}
    PROVE  DeliveryInv'
<1>1. RightToSend'
  BY DEF DeliveryInv, RightToSend, Unsent, Sending, Sent, NoneYet
<1>2. OneTurn'
  BY DEF DeliveryInv, OneTurn
<1>3. OneBlocking'
  BY DEF DeliveryInv, OneBlocking, Blocking, Sent
<1>4. ReadIsTrue'
  BY DEF DeliveryInv, ReadIsTrue, CompletedTurns
<1>5. ConfirmedIsTrue' /\ AckIsBacked'
  BY DEF DeliveryInv, ConfirmedIsTrue, AckIsBacked, Sent
<1>6. AckInOrder'
  BY DEF DeliveryInv, AckInOrder, Settled, Sent, Equipped, Holding
<1> QED
  BY <1>1, <1>2, <1>3, <1>4, <1>5, <1>6 DEF DeliveryInv

\* A turn is read as confirmed only when it is completed in the history.
LEMMA InvConfirmHistory ==
    ASSUME DeliveryInv, NEW w \in Worker, ConfirmHistory(w)
    PROVE  DeliveryInv'
<1>0. pc[w] = "proved"
  BY DEF ConfirmHistory
<1>b. LedgerStep(w, Sent, "history_confirmed", turn[w], "deciding")
  BY DEF ConfirmHistory
<1>t. turn[w] \in Nat
  BY DEF DeliveryInv, TypeOK
<1>a. /\ TypeOK /\ Equipped /\ pc[w] \in Holding
      /\ "deciding" \in Holding /\ "history_confirmed" \in BatchState
  BY <1>0 DEF DeliveryInv, BatchState, Holding
<1>c. /\ TypeOK' /\ Equipped' /\ batch[cur[w]].state \in Sent
      /\ UNCHANGED <<request, receipts, turns, inflight, cur, turn>>
  BY <1>a, <1>b, <1>t, LedgerFacts
<1>d. \A e \in Delivery : e # cur[w] => batch'[e] = batch[e]
  BY <1>a, <1>b, <1>t, LedgerFacts
<1>e. batch'[cur[w]] = [state |-> "history_confirmed", turn |-> turn[w]]
  BY <1>a, <1>b DEF LedgerStep, Transition, TypeOK, Equipped
<1>f. \A v \in Worker : pc'[v] = IF v = w THEN "deciding" ELSE pc[v]
  BY <1>a, <1>b DEF LedgerStep, Goto, TypeOK
<1>1. /\ TypeOK' /\ Equipped' /\ batch[cur[w]].state \in Sent
      /\ UNCHANGED <<request, receipts, turns, inflight, cur, turn>>
      /\ \A e \in Delivery : e # cur[w] => batch'[e] = batch[e]
      /\ batch'[cur[w]] = [state |-> "history_confirmed", turn |-> turn[w]]
      /\ \A v \in Worker : pc'[v] = IF v = w THEN "deciding" ELSE pc[v]
  BY <1>c, <1>d, <1>e, <1>f
<1> DEFINE d == cur[w]
           t == turn[w]
<1>2. d \in Delivery /\ t \in CompletedTurns(d)
  BY <1>0 DEF DeliveryInv, Equipped, Holding, ReadIsTrue
<1> HIDE DEF d, t
<1>3. RightToSend'
  BY <1>1, <1>2 DEF DeliveryInv, RightToSend, Unsent, Sending, Sent, NoneYet
<1>4. OneTurn'
  BY <1>1 DEF DeliveryInv, OneTurn
<1>5. OneBlocking'
  BY <1>1, <1>2 DEF DeliveryInv, OneBlocking, Blocking
<1>6. ReadIsTrue'
  BY <1>1 DEF DeliveryInv, ReadIsTrue, CompletedTurns
<1>7. ConfirmedIsTrue' /\ AckIsBacked'
  BY <1>1, <1>2 DEF DeliveryInv, ConfirmedIsTrue, AckIsBacked, CompletedTurns, Sent, d, t
<1>8. AckInOrder'
  BY <1>1, <1>2 DEF DeliveryInv, AckInOrder, Settled, Equipped, Holding, d
<1> QED
  BY <1>1, <1>3, <1>4, <1>5, <1>6, <1>7, <1>8 DEF DeliveryInv

\* Writing the turn/start uses up the right to send.
LEMMA InvSend ==
    ASSUME DeliveryInv, NEW w \in Worker, Send(w)
    PROVE  DeliveryInv'
<1> USE DEF Goto, storeVars, ledgerVars, localVars
<1> DEFINE d == cur[w]
<1>0. /\ pc[w] = "attached" /\ inflight' = inflight \cup {<<w, d>>}
      /\ UNCHANGED <<storeVars, ledgerVars, caps, owner, turns, cur, turn, reply, localVars,
                     launches>>
  BY DEF Send
<1>1. \A v \in Worker : pc'[v] = IF v = w THEN "wired" ELSE pc[v]
  BY DEF DeliveryInv, TypeOK, Send
<1>2. d \in Delivery /\ Unsent(d) /\ batch[d].state \notin {NoneYet, "pending"}
  BY <1>0 DEF DeliveryInv, Equipped, Holding, RightToSend, Sending
<1>3. TypeOK'
  <2>1. inflight' \subseteq Worker \X Delivery
    BY <1>0, <1>2 DEF DeliveryInv, TypeOK
  <2>2. pc' \in [Worker -> Point]
    BY DEF DeliveryInv, TypeOK, Send, Point
  <2> QED
    BY <1>0, <2>1, <2>2 DEF DeliveryInv, TypeOK
<1>4. Equipped'
  BY <1>0, <1>1 DEF DeliveryInv, Equipped, Holding
<1>5. \A e \in Delivery : e # d => (Unsent(e)' <=> Unsent(e))
  BY <1>0 DEF Unsent
<1>6. RightToSend'
  <2>1. \A v \in Worker : v # w /\ Sending(v) => cur[v] # d
    BY <1>0 DEF DeliveryInv, RightToSend, Sending
  <2>2. (\A e \in Delivery : batch[e].state \in {NoneYet, "pending"} =>
           /\ Unsent(e)
           /\ \A v \in Worker : pc[v] \in {"sending", "attached", "wired"} => cur[v] # e)'
    BY <1>0, <1>1, <1>2, <1>5 DEF DeliveryInv, RightToSend
  <2>3. (\A v \in Worker : Sending(v) => Unsent(cur[v]))'
    <3>1. \A v \in Worker : Sending(v) => cur[v] \in Delivery
      BY DEF DeliveryInv, Equipped, Holding, Sending
    <3> QED
      BY <1>0, <1>1, <1>5, <2>1, <3>1 DEF DeliveryInv, RightToSend, Sending
  <2>4. (\A u, v \in Worker : Sending(u) /\ Sending(v) /\ cur[u] = cur[v] => u = v)'
    BY <1>0, <1>1 DEF DeliveryInv, RightToSend, Sending
  <2> QED
    BY <2>2, <2>3, <2>4 DEF RightToSend
<1>7. OneTurn'
  BY <1>0, <1>2 DEF DeliveryInv, OneTurn, Unsent
<1>8. OneBlocking' /\ ConfirmedIsTrue' /\ AckIsBacked'
  BY <1>0 DEF DeliveryInv, OneBlocking, ConfirmedIsTrue, AckIsBacked
<1>9. ReadIsTrue' /\ AckInOrder'
  BY <1>0, <1>1 DEF DeliveryInv, ReadIsTrue, AckInOrder, CompletedTurns
<1> QED
  BY <1>3, <1>4, <1>6, <1>7, <1>8, <1>9 DEF DeliveryInv

\* Sending, and looking for what was sent.
LEMMA InvTransporting ==
    ASSUME DeliveryInv, NEW w \in Worker, Transporting(w)
    PROVE  DeliveryInv'
<1> USE DEF Goto, storeVars, ledgerVars, nativeVars, localVars
<1>1. CASE AttachClaim(w)
  <2>0. \A v \in Worker : pc'[v] = IF v = w THEN "attached" ELSE pc[v]
    BY <1>1 DEF AttachClaim, DeliveryInv, TypeOK
  <2>1. TypeOK'
    BY <1>1 DEF AttachClaim, DeliveryInv, TypeOK, Point
  <2>2. Equipped' /\ RightToSend'
    BY <1>1, <2>0 DEF AttachClaim, DeliveryInv, Equipped, Holding, RightToSend, Unsent, Sending
  <2>3. OneTurn' /\ OneBlocking' /\ ConfirmedIsTrue' /\ AckIsBacked'
    BY <1>1 DEF AttachClaim, DeliveryInv, OneTurn, OneBlocking, ConfirmedIsTrue, AckIsBacked
  <2>4. ReadIsTrue' /\ AckInOrder'
    BY <1>1, <2>0 DEF AttachClaim, DeliveryInv, ReadIsTrue, AckInOrder, CompletedTurns
  <2> QED
    BY <2>1, <2>2, <2>3, <2>4 DEF DeliveryInv
<1>2. CASE MarkAccepted(w)
  <2>1. reply[w] \in Nat /\ pc[w] = "wired"
    BY <1>2 DEF MarkAccepted, DeliveryInv, TypeOK
  <2>2. /\ TypeOK /\ Equipped /\ pc[w] \in Holding /\ cur[w] \in Delivery
        /\ "reading" \in Holding /\ "transport_accepted" \in BatchState
    BY <2>1 DEF DeliveryInv, BatchState, Blocking, Holding, Equipped
  <2>3. LedgerStep(w, {"sending"}, "transport_accepted", reply[w], "reading")
    BY <1>2 DEF MarkAccepted
  <2>4. /\ TypeOK' /\ Equipped' /\ batch[cur[w]].state = "sending"
        /\ UNCHANGED <<request, receipts, turns, inflight, cur, turn>>
        /\ \A e \in Delivery : e # cur[w] => batch'[e] = batch[e]
        /\ batch'[cur[w]] = [state |-> "transport_accepted", turn |-> reply[w]]
        /\ \A v \in Worker : pc'[v] = IF v = w THEN "reading" ELSE pc[v]
    BY <2>1, <2>2, <2>3, LedgerFacts
  <2> QED
    BY <2>2, <2>4, InvUndetermined DEF Sent, Point
<1>3. CASE MarkUncertain(w)
  <2>0. pc[w] = "recover"
    BY <1>3 DEF MarkUncertain
  <2>1. /\ TypeOK /\ Equipped /\ pc[w] \in Holding /\ cur[w] \in Delivery
        /\ "reconcile" \in Holding /\ "delivery_uncertain" \in BatchState
    BY <2>0 DEF DeliveryInv, BatchState, Blocking, Holding, Equipped
  <2>2. batch[cur[w]].turn \in Nat
    BY <2>1 DEF TypeOK
  <2>3. LedgerStep(w, Sent, "delivery_uncertain", batch[cur[w]].turn, "reconcile")
    BY <1>3 DEF MarkUncertain
  <2>4. /\ TypeOK' /\ Equipped' /\ batch[cur[w]].state \in Sent
        /\ UNCHANGED <<request, receipts, turns, inflight, cur, turn>>
        /\ \A e \in Delivery : e # cur[w] => batch'[e] = batch[e]
        /\ batch'[cur[w]] = [state |-> "delivery_uncertain", turn |-> batch[cur[w]].turn]
        /\ \A v \in Worker : pc'[v] = IF v = w THEN "reconcile" ELSE pc[v]
    BY <2>1, <2>2, <2>3, LedgerFacts
  <2> QED
    BY <2>1, <2>4, InvUndetermined DEF Sent, Point
<1>4. CASE Reconcile(w)
  <2>1. TypeOK'
    BY <1>4 DEF Reconcile, DeliveryInv, TypeOK, Point
  <2>2. Equipped'
    BY <1>4 DEF Reconcile, DeliveryInv, TypeOK, Equipped, Holding
  <2> QED
    BY <1>4, <2>1, <2>2, InvQuiet DEF Reconcile, Point
<1>5. CASE ReadHistory(w)
  <2>1. PICK n \in CompletedTurns(cur[w]) : turn' = [turn EXCEPT ![w] = n]
    BY <1>5 DEF ReadHistory
  <2>2. /\ turn' \in [Worker -> Nat] /\ turn'[w] = n
        /\ \A v \in Worker \ {w} : turn'[v] = turn[v]
    BY <2>1 DEF DeliveryInv, TypeOK, CompletedTurns
  <2>3. TypeOK'
    <3>1. pc' \in [Worker -> Point]
      BY <1>5 DEF ReadHistory, DeliveryInv, TypeOK, Point
    <3> QED
      BY <1>5, <2>2, <3>1 DEF ReadHistory, DeliveryInv, TypeOK
  <2>4. Equipped'
    BY <1>5 DEF ReadHistory, DeliveryInv, TypeOK, Equipped, Holding
  <2>5. turn'[w] \in CompletedTurns(cur'[w])
    BY <1>5, <2>1, <2>2 DEF ReadHistory
  <2>6. /\ UNCHANGED <<batch, request, receipts, turns, inflight, cur>>
        /\ pc' = [pc EXCEPT ![w] = "proved"] /\ "proved" \in Point
    BY <1>5 DEF ReadHistory, Point
  <2> QED
    BY <2>2, <2>3, <2>4, <2>5, <2>6, InvQuiet
<1> QED
  BY <1>1, <1>2, <1>3, <1>4, <1>5, InvMarkSending, InvSend, InvConfirmHistory DEF Transporting

-----------------------------------------------------------------------------
(* Acknowledging, failures and the environment *)

\* The request file of a delivery is written once: with the decision, or torn
\* by the death of the process that writes it.
LEMMA InvRequest ==
    ASSUME DeliveryInv, TypeOK', Equipped', NEW w \in Worker, NEW d \in Delivery,
           NEW to \in {"acking", "off"}, NEW c, c # NoneYet,
           UNCHANGED <<batch, receipts, turns, inflight>>,
           \A v \in Worker \ {w} : cur'[v] = cur[v] /\ turn'[v] = turn[v],
           \A v \in Worker : pc'[v] = IF v = w THEN to ELSE pc[v],
           request[d] \in {NoneYet, c}, request' = [request EXCEPT ![d] = c],
           to = "acking" => cur'[w] = d /\ c \in Decision /\ batch[d].state \in Settled
    PROVE  DeliveryInv'
<1>1. \A e \in Delivery : request'[e] = IF e = d THEN c ELSE request[e]
  BY DEF DeliveryInv, TypeOK
<1>2. RightToSend'
  BY DEF DeliveryInv, RightToSend, Unsent, Sending
<1>3. OneTurn' /\ OneBlocking' /\ ConfirmedIsTrue'
  BY DEF DeliveryInv, OneTurn, OneBlocking, ConfirmedIsTrue
<1>4. ReadIsTrue'
  BY DEF DeliveryInv, ReadIsTrue, CompletedTurns
<1>5. AckIsBacked'
  BY <1>1 DEF DeliveryInv, AckIsBacked
<1>6. AckInOrder'
  BY <1>1, DeliveryAssumption DEF DeliveryInv, AckInOrder, Equipped, Holding
<1> QED
  BY <1>2, <1>3, <1>4, <1>5, <1>6 DEF DeliveryInv

\* The decision is written to the request file, then acknowledged, then the
\* batch is closed.
LEMMA InvAcknowledging ==
    ASSUME DeliveryInv, NEW w \in Worker, Acknowledging(w)
    PROVE  DeliveryInv'
<1> USE DEF Goto, storeVars, ledgerVars, nativeVars, localVars
<1>1. CASE Decide(w)
  <2>1. PICK c \in Decision : /\ request[cur[w]] \in {NoneYet, c}
                              /\ request' = [request EXCEPT ![cur[w]] = c]
    BY <1>1 DEF Decide
  <2>2. cur[w] \in Delivery /\ batch[cur[w]].state \in Settled
    BY <1>1 DEF Decide, DeliveryInv, Equipped, Holding, AckInOrder
  <2>3. \A v \in Worker : pc'[v] = IF v = w THEN "acking" ELSE pc[v]
    BY <1>1 DEF Decide, DeliveryInv, TypeOK
  <2>4. TypeOK'
    <3>1. pc' \in [Worker -> Point]
      BY <1>1 DEF Decide, DeliveryInv, TypeOK, Point
    <3>2. request' \in [Delivery -> Decision \cup {NoneYet, "torn"}]
      BY <2>1 DEF DeliveryInv, TypeOK
    <3> QED
      BY <1>1, <3>1, <3>2 DEF Decide, DeliveryInv, TypeOK
  <2>5. Equipped'
    BY <1>1, <2>2, <2>3 DEF Decide, DeliveryInv, Equipped, Holding
  <2>6. c # NoneYet
    BY DeliveryAssumption
  <2>7. UNCHANGED <<batch, receipts, turns, inflight, cur, turn>>
    BY <1>1 DEF Decide
  <2> QED
    BY <2>1, <2>2, <2>3, <2>4, <2>5, <2>6, <2>7, InvRequest
<1>2. CASE ReplayAck(w)
  <2>1. TypeOK'
    BY <1>2 DEF ReplayAck, DeliveryInv, TypeOK, Point
  <2>2. Equipped'
    BY <1>2 DEF ReplayAck, DeliveryInv, TypeOK, Equipped, Holding
  <2> QED
    BY <1>2, <2>1, <2>2, InvQuiet DEF ReplayAck, Point, Settled
<1>3. CASE ControlAck(w)
  <2> DEFINE d == cur[w]
             c == request[d]
  <2>1. /\ pc[w] = "acking" /\ receipts' = [receipts EXCEPT ![d] = c]
        /\ verdict' = [e \in Event |-> IF e \in d.events THEN c ELSE verdict[e]]
        /\ UNCHANGED <<born, ledgerVars, caps, nativeVars, cur, turn, reply, localVars, launches>>
    BY <1>3 DEF ControlAck
  <2>2. d \in Delivery /\ batch[d].state \in Settled /\ c \in Decision
    BY <2>1 DEF DeliveryInv, Equipped, Holding, AckInOrder
  <2>3. \A v \in Worker : pc'[v] = IF v = w THEN "acked" ELSE pc[v]
    BY <1>3 DEF ControlAck, DeliveryInv, TypeOK
  <2>4. TypeOK'
    <3>1. pc' \in [Worker -> Point]
      BY <1>3 DEF ControlAck, DeliveryInv, TypeOK, Point
    <3>2. receipts' \in [Delivery -> Decision \cup {NoneYet}]
      BY <2>1, <2>2 DEF DeliveryInv, TypeOK
    <3>3. verdict' \in [Event -> Decision \cup {NoneYet}]
      BY <2>1, <2>2 DEF DeliveryInv, TypeOK
    <3> QED
      BY <2>1, <3>1, <3>2, <3>3 DEF DeliveryInv, TypeOK
  <2>5. Equipped' /\ RightToSend'
    BY <2>1, <2>3 DEF DeliveryInv, Equipped, Holding, RightToSend, Unsent, Sending
  <2>6. OneTurn' /\ OneBlocking' /\ ConfirmedIsTrue'
    BY <2>1 DEF DeliveryInv, OneTurn, OneBlocking, ConfirmedIsTrue
  <2>7. ReadIsTrue' /\ AckInOrder'
    BY <2>1, <2>2, <2>3 DEF DeliveryInv, ReadIsTrue, AckInOrder, CompletedTurns
  <2>8. AckIsBacked'
    <3>1. \A e \in Delivery : receipts'[e] = IF e = d THEN c ELSE receipts[e]
      BY <2>1 DEF DeliveryInv, TypeOK
    <3> QED
      BY <2>1, <2>2, <3>1 DEF DeliveryInv, AckIsBacked, Settled
  <2> QED
    BY <2>4, <2>5, <2>6, <2>7, <2>8 DEF DeliveryInv
<1>4. CASE MarkAcked(w)
  <2> DEFINE d == cur[w]
  <2>1. /\ pc[w] = "acked" /\ batch[d].state = "history_confirmed"
        /\ batch' = [batch EXCEPT ![d] = [state |-> "controller_acked", turn |-> batch[d].turn]]
        /\ UNCHANGED <<storeVars, stage, request, caps, nativeVars, launches>>
    BY <1>4 DEF MarkAcked, Transition
  <2>2. d \in Delivery /\ batch[d].turn \in Nat
    BY <2>1 DEF DeliveryInv, TypeOK, Equipped, Holding
  <2>3. PICK to \in {"ready", "off"} :
          /\ pc' \in [Worker -> Point] /\ pc' = [pc EXCEPT ![w] = to]
          /\ att' \in [Worker -> Epoch \cup {0}] /\ (to = "ready" => att' = att)
          /\ cur' \in [Worker -> Delivery \cup {NoDelivery}]
          /\ cursor' \in [Worker -> 0 .. Events] /\ next' \in [Worker -> 0 .. Events]
          /\ turn' \in [Worker -> Nat] /\ reply' \in [Worker -> Nat]
          /\ \A v \in Worker \ {w} : cur'[v] = cur[v] /\ turn'[v] = turn[v] /\ att'[v] = att[v]
    <3>1. CASE Gone(w)
      BY <3>1, GoneTypes DEF DeliveryInv
    <3>2. CASE /\ Goto(w, "ready")
               /\ cursor' = [cursor EXCEPT ![w] = next[w]]
               /\ cur' = [cur EXCEPT ![w] = NoDelivery]
               /\ turn' = [turn EXCEPT ![w] = 0]
               /\ reply' = [reply EXCEPT ![w] = 0]
               /\ UNCHANGED <<att, next>>
      <4>1. pc' \in [Worker -> Point]
        BY <3>2 DEF DeliveryInv, TypeOK, Point
      <4>2. cursor' \in [Worker -> 0 .. Events] /\ next' \in [Worker -> 0 .. Events]
        BY <3>2 DEF DeliveryInv, TypeOK
      <4> QED
        BY <3>2, <4>1, <4>2 DEF DeliveryInv, TypeOK
    <3> QED
      BY <1>4, <3>1, <3>2 DEF MarkAcked
  <2>4. TypeOK'
    <3>1. batch' \in [Delivery -> [state : BatchState, turn : Nat]]
      BY <2>1, <2>2 DEF DeliveryInv, TypeOK, BatchState
    <3> QED
      BY <2>1, <2>3, <3>1 DEF DeliveryInv, TypeOK
  <2>5. \A v \in Worker : pc'[v] = IF v = w THEN to ELSE pc[v]
    BY <2>3 DEF DeliveryInv, TypeOK
  <2>6. Equipped'
    BY <2>1, <2>3, <2>5 DEF DeliveryInv, Equipped, Holding
  <2>7. /\ \A e \in Delivery : e # d => batch'[e] = batch[e]
        /\ batch'[d] = [state |-> "controller_acked", turn |-> batch[d].turn]
    BY <2>1, <2>2 DEF DeliveryInv, TypeOK
  <2>a. batch[d].state = "history_confirmed" /\ UNCHANGED <<request, receipts, turns, inflight>>
    BY <2>1
  <2>b. \A v \in Worker \ {w} : cur'[v] = cur[v] /\ turn'[v] = turn[v]
    BY <2>3
  <2> HIDE DEF d
  <2>8. RightToSend'
    BY <2>a, <2>2, <2>b, <2>5, <2>7 DEF DeliveryInv, RightToSend, Unsent, Sending, NoneYet
  <2>9. OneTurn' /\ OneBlocking'
    BY <2>a, <2>2, <2>7 DEF DeliveryInv, OneTurn, OneBlocking, Blocking
  <2>10. ReadIsTrue'
    BY <2>a, <2>b, <2>5 DEF DeliveryInv, ReadIsTrue, CompletedTurns
  <2>11. ConfirmedIsTrue' /\ AckIsBacked'
    BY <2>a, <2>2, <2>7 DEF DeliveryInv, ConfirmedIsTrue, AckIsBacked
  <2>12. AckInOrder'
    BY <2>a, <2>2, <2>b, <2>5, <2>7 DEF DeliveryInv, AckInOrder, Settled, Equipped, Holding
  <2> QED
    BY <2>4, <2>6, <2>8, <2>9, <2>10, <2>11, <2>12 DEF DeliveryInv
<1> QED
  BY <1>1, <1>2, <1>3, <1>4 DEF Acknowledging

\* A process that fails marks at most its own undetermined batch uncertain; one
\* that is killed leaves at most a stage directory or a torn request.
LEMMA InvEnding ==
    ASSUME DeliveryInv, NEW w \in Worker, Fail(w) \/ Crash(w)
    PROVE  DeliveryInv'
<1> USE DEF storeVars, nativeVars
<1>1. Gone(w) /\ UNCHANGED <<storeVars, caps, nativeVars, launches>> /\ pc[w] # "off"
  BY DEF Fail, Crash
<1>2. /\ pc' \in [Worker -> Point] /\ pc' = [pc EXCEPT ![w] = "off"]
      /\ \A v \in Worker \ {w} : cur'[v] = cur[v] /\ turn'[v] = turn[v] /\ att'[v] = att[v]
  BY <1>1, GoneTypes DEF DeliveryInv
<1>3. Equipped'
  BY <1>1, GoneEquipped DEF DeliveryInv
<1>4. ASSUME batch' \in [Delivery -> [state : BatchState, turn : Nat]],
             stage' \subseteq Delivery,
             request' \in [Delivery -> Decision \cup {NoneYet, "torn"}]
      PROVE  TypeOK'
  BY <1>1, <1>4, GoneTypes DEF DeliveryInv, TypeOK
<1>5. CASE UNCHANGED <<batch, request>> /\ stage' \subseteq Delivery
  <2>1. TypeOK'
    BY <1>4, <1>5 DEF DeliveryInv, TypeOK
  <2> QED
    BY <1>1, <1>2, <1>3, <1>5, <2>1, InvQuiet DEF Point
<1>6. \A v \in Worker : pc'[v] = IF v = w THEN "off" ELSE pc[v]
  BY <1>2 DEF DeliveryInv, TypeOK
<1>7. CASE Fail(w)
  <2>0. UNCHANGED <<stage, request>> /\ batch' = AfterFailure(w)
    BY <1>7 DEF Fail
  <2>1. CASE batch' = batch
    BY <1>5, <2>0, <2>1 DEF DeliveryInv, TypeOK
  <2>2. CASE batch' # batch
    <3> DEFINE d == cur[w]
    <3>1. /\ d # NoDelivery /\ batch[d].state \in {"sending", "transport_accepted"}
          /\ batch' = [batch EXCEPT ![d].state = "delivery_uncertain"]
      BY <2>0, <2>2 DEF AfterFailure
    <3>2. d \in Delivery
      BY <3>1 DEF DeliveryInv, TypeOK
    <3>3. batch[d] \in [state : BatchState, turn : Nat]
      BY <3>2 DEF DeliveryInv, TypeOK
    <3>4. [batch[d] EXCEPT !.state = "delivery_uncertain"] \in [state : BatchState, turn : Nat]
      BY <3>3 DEF BatchState, Blocking
    <3>5. batch' \in [Delivery -> [state : BatchState, turn : Nat]]
      BY <3>1, <3>2, <3>4 DEF DeliveryInv, TypeOK
    <3>6. TypeOK'
      BY <1>4, <2>0, <3>5 DEF DeliveryInv, TypeOK
    <3>7. /\ \A e \in Delivery : e # d => batch'[e] = batch[e]
          /\ batch'[d].state = "delivery_uncertain"
      BY <3>1, <3>2, <3>3 DEF DeliveryInv, TypeOK
    <3>8. batch[d].state \in Sent /\ batch'[d].state \in Sent
      BY <3>1, <3>7 DEF Sent
    <3> HIDE DEF d
    <3> QED
      BY <1>1, <1>2, <1>3, <1>6, <2>0, <3>2, <3>6, <3>7, <3>8, InvUndetermined DEF Point
  <2> QED
    BY <2>1, <2>2
<1>8. CASE Crash(w)
  <2>0. UNCHANGED batch
    BY <1>8 DEF Crash
  <2>1. CASE UNCHANGED <<stage, request>>
    BY <1>5, <2>0, <2>1 DEF DeliveryInv, TypeOK
  <2>2. CASE pc[w] = "claim" /\ stage' = stage \cup {cur[w]} /\ UNCHANGED request
    <3>1. stage' \subseteq Delivery
      BY <2>2 DEF DeliveryInv, TypeOK, Equipped, Holding
    <3> QED
      BY <1>5, <2>0, <2>2, <3>1
  <2>3. CASE /\ pc[w] = "deciding" /\ request[cur[w]] = NoneYet
             /\ request' = [request EXCEPT ![cur[w]] = "torn"] /\ UNCHANGED stage
    <3>1. cur[w] \in Delivery
      BY <2>3 DEF DeliveryInv, Equipped, Holding
    <3>2. request' \in [Delivery -> Decision \cup {NoneYet, "torn"}]
      BY <2>3, <3>1 DEF DeliveryInv, TypeOK
    <3>3. TypeOK'
      BY <1>4, <2>0, <2>3, <3>2 DEF DeliveryInv, TypeOK
    <3>4. "torn" # NoneYet
      BY DEF NoneYet
    <3> QED
      BY <1>1, <1>2, <1>3, <1>6, <2>0, <2>3, <3>1, <3>3, <3>4, InvRequest
  <2> QED
    BY <1>8, <2>1, <2>2, <2>3 DEF Crash
<1> QED
  BY <1>7, <1>8

\* The app-server starts one turn for the request on the wire, or loses it.
LEMMA InvTurnStarts ==
    ASSUME DeliveryInv, NEW w \in Worker, NEW d \in Delivery, TurnStarts(w, d)
    PROVE  DeliveryInv'
<1> USE DEF storeVars, ledgerVars, localVars
<1>1. /\ <<w, d>> \in inflight /\ inflight' = inflight \ {<<w, d>>}
      /\ UNCHANGED <<storeVars, ledgerVars, caps, owner, pc, cur, turn, localVars, launches>>
  BY DEF TurnStarts
<1>2. turns[d] = <<>> /\ ~Unsent(d)
  BY <1>1 DEF DeliveryInv, OneTurn, Unsent
<1>3. \A v \in Worker : <<v, d>> \notin inflight'
  BY <1>1 DEF DeliveryInv, OneTurn
<1>4. /\ turns' \in [Delivery -> Seq({"inProgress", "completed", "failed"})]
      /\ \A e \in Delivery : e # d => turns'[e] = turns[e]
      /\ Len(turns'[d]) <= 1
  <2>1. CASE UNCHANGED turns
    BY <1>2, <2>1 DEF DeliveryInv, TypeOK
  <2>2. CASE turns' = [turns EXCEPT ![d] = Append(@, "inProgress")]
    <3>1. Append(turns[d], "inProgress") \in Seq({"inProgress", "completed", "failed"})
      BY DEF DeliveryInv, TypeOK
    <3>2. Len(Append(turns[d], "inProgress")) = 1
      BY <1>2
    <3> QED
      BY <2>2, <3>1, <3>2 DEF DeliveryInv, TypeOK
  <2> QED
    BY <2>1, <2>2 DEF TurnStarts
<1>5. TypeOK'
  <2>1. inflight' \subseteq Worker \X Delivery
    BY <1>1 DEF DeliveryInv, TypeOK
  <2>2. reply' \in [Worker -> Nat]
    <3>1. Len(turns[d]) + 1 \in Nat
      BY <1>2
    <3>2. reply' = reply \/ reply' = [reply EXCEPT ![w] = Len(turns[d]) + 1]
      BY DEF TurnStarts
    <3> QED
      BY <3>1, <3>2 DEF DeliveryInv, TypeOK
  <2> QED
    BY <1>1, <1>4, <2>1, <2>2 DEF DeliveryInv, TypeOK
<1>6. \A e \in Delivery : e # d /\ Unsent(e) => Unsent(e)'
  BY <1>1, <1>4 DEF Unsent
<1>7. RightToSend'
  <2>1. (\A e \in Delivery : batch[e].state \in {NoneYet, "pending"} =>
           /\ Unsent(e)
           /\ \A v \in Worker : pc[v] \in {"sending", "attached", "wired"} => cur[v] # e)'
    BY <1>1, <1>2, <1>6 DEF DeliveryInv, RightToSend
  <2>2. (\A v \in Worker : Sending(v) => Unsent(cur[v]))'
    <3>1. \A v \in Worker : Sending(v) => cur[v] \in Delivery
      BY DEF DeliveryInv, Equipped, Holding, Sending
    <3> QED
      BY <1>1, <1>2, <1>6, <3>1 DEF DeliveryInv, RightToSend, Sending
  <2>3. (\A u, v \in Worker : Sending(u) /\ Sending(v) /\ cur[u] = cur[v] => u = v)'
    BY <1>1 DEF DeliveryInv, RightToSend, Sending
  <2> QED
    BY <2>1, <2>2, <2>3 DEF RightToSend
<1>8. OneTurn'
  BY <1>1, <1>3, <1>4 DEF DeliveryInv, OneTurn
<1>9. CompletedTurns(d) = {}
  BY <1>2 DEF CompletedTurns
<1>10. \A e \in Delivery : e # d => CompletedTurns(e)' = CompletedTurns(e)
  BY <1>4 DEF CompletedTurns
<1>11. ReadIsTrue'
  <2>1. \A v \in Worker : pc[v] = "proved" => cur[v] \in Delivery /\ cur[v] # d
    BY <1>9 DEF DeliveryInv, ReadIsTrue, Equipped, Holding
  <2> QED
    BY <1>1, <1>10, <2>1 DEF DeliveryInv, ReadIsTrue
<1>12. ConfirmedIsTrue'
  <2>1. batch[d].state \notin {"history_confirmed", "controller_acked"}
    BY <1>2 DEF DeliveryInv, ConfirmedIsTrue
  <2> QED
    BY <1>1, <1>4, <2>1 DEF DeliveryInv, ConfirmedIsTrue
<1>13. Equipped' /\ OneBlocking' /\ AckInOrder' /\ AckIsBacked'
  BY <1>1 DEF DeliveryInv, Equipped, OneBlocking, AckInOrder, AckIsBacked
<1> QED
  BY <1>5, <1>7, <1>8, <1>11, <1>12, <1>13 DEF DeliveryInv

\* A turn ends; what was completed stays completed.
LEMMA InvTurnEnds ==
    ASSUME DeliveryInv, NEW d \in Delivery, TurnEnds(d)
    PROVE  DeliveryInv'
<1> USE DEF storeVars, ledgerVars, localVars
<1>1. PICK n \in 1 .. Len(turns[d]), s \in {"completed", "failed"} :
        turns[d][n] = "inProgress" /\ turns' = [turns EXCEPT ![d][n] = s]
  BY DEF TurnEnds
<1>2. UNCHANGED <<storeVars, ledgerVars, caps, owner, inflight, pc, cur, turn, reply, localVars,
                  launches>>
  BY DEF TurnEnds
<1>3. turns[d] \in Seq({"inProgress", "completed", "failed"})
  BY DEF DeliveryInv, TypeOK
<1>4. /\ turns' \in [Delivery -> Seq({"inProgress", "completed", "failed"})]
      /\ \A e \in Delivery : e # d => turns'[e] = turns[e]
      /\ turns'[d] = [turns[d] EXCEPT ![n] = s]
  <2>1. [turns[d] EXCEPT ![n] = s] \in Seq({"inProgress", "completed", "failed"})
    BY <1>1, <1>3
  <2> QED
    BY <1>1, <2>1 DEF DeliveryInv, TypeOK
<1>5. /\ Len(turns'[d]) = Len(turns[d])
      /\ \A m \in 1 .. Len(turns[d]) : turns[d][m] = "completed" => turns'[d][m] = "completed"
  BY <1>1, <1>3, <1>4
<1>6. \A e \in Delivery :
        /\ Len(turns'[e]) = Len(turns[e])
        /\ \A m \in 1 .. Len(turns[e]) : turns[e][m] = "completed" => turns'[e][m] = "completed"
  BY <1>4, <1>5
<1>7. \A e \in Delivery : turns[e] = <<>> => turns'[e] = <<>>
  BY <1>1, <1>4
<1>8. TypeOK'
  BY <1>2, <1>4 DEF DeliveryInv, TypeOK
<1>9. RightToSend'
  <2>1. \A e \in Delivery : Unsent(e) => Unsent(e)'
    BY <1>2, <1>7 DEF Unsent
  <2>2. \A v \in Worker : Sending(v) => cur[v] \in Delivery
    BY DEF DeliveryInv, Equipped, Holding, Sending
  <2> QED
    BY <1>2, <2>1, <2>2 DEF DeliveryInv, RightToSend, Sending
<1>10. OneTurn'
  BY <1>2, <1>6, <1>7 DEF DeliveryInv, OneTurn
<1>11. ReadIsTrue'
  <2>1. \A v \in Worker : pc[v] = "proved" => cur[v] \in Delivery
    BY DEF DeliveryInv, Equipped, Holding
  <2> QED
    BY <1>2, <1>6, <2>1 DEF DeliveryInv, ReadIsTrue, CompletedTurns
<1>12. ConfirmedIsTrue'
  BY <1>2, <1>6 DEF DeliveryInv, ConfirmedIsTrue
<1>13. Equipped' /\ OneBlocking' /\ AckInOrder' /\ AckIsBacked'
  BY <1>2 DEF DeliveryInv, Equipped, OneBlocking, AckInOrder, AckIsBacked
<1> QED
  BY <1>8, <1>9, <1>10, <1>11, <1>12, <1>13 DEF DeliveryInv

\* Every step of the system keeps the invariant.
LEMMA InvNext == DeliveryInv /\ [Next]_vars => DeliveryInv'
<1> SUFFICES ASSUME DeliveryInv, [Next]_vars PROVE DeliveryInv'
  OBVIOUS
<1>1. CASE \E w \in Worker :
             \/ Launching(w) \/ Fail(w) \/ Crash(w)
             \/ Attaching(w) \/ Choosing(w) \/ Transporting(w) \/ Acknowledging(w)
  BY <1>1, InvAttaching, InvEnding, InvChoosing, InvTransporting, InvAcknowledging
<1>2. CASE \E w \in Worker, d \in Delivery : TurnStarts(w, d)
  BY <1>2, InvTurnStarts
<1>3. CASE \E d \in Delivery : TurnEnds(d)
  BY <1>3, InvTurnEnds
<1>4. CASE EventBorn
  <2>1. born' \in 0 .. Events
    BY <1>4, DeliveryAssumption DEF EventBorn, DeliveryInv, TypeOK
  <2>2. UNCHANGED <<verdict, receipts, ledgerVars, caps, nativeVars, pc, cur, turn, reply,
                    localVars, launches>>
    BY <1>4 DEF EventBorn
  <2>3. TypeOK'
    BY <2>1, <2>2 DEF DeliveryInv, TypeOK, ledgerVars, nativeVars, localVars
  <2> QED
    BY <2>2, <2>3, InvIdle DEF ledgerVars, nativeVars, localVars
<1>5. CASE OwnerChanges
  <2>1. TypeOK'
    BY <1>5 DEF OwnerChanges, DeliveryInv, TypeOK, storeVars, ledgerVars, localVars
  <2> QED
    BY <1>5, <2>1, InvIdle DEF OwnerChanges, storeVars, ledgerVars, localVars
<1>6. CASE UNCHANGED vars
  <2>1. TypeOK'
    BY <1>6 DEF vars, storeVars, ledgerVars, nativeVars, localVars, DeliveryInv, TypeOK
  <2> QED
    BY <1>6, <2>1, InvIdle DEF vars, storeVars, ledgerVars, nativeVars, localVars
<1> QED
  BY <1>1, <1>2, <1>3, <1>4, <1>5, <1>6 DEF Next

-----------------------------------------------------------------------------
(* What the ledger, the adapter and the acknowledgement guarantee *)

\* A set with no two different elements has at most one.
LEMMA AtMostOne ==
    ASSUME NEW S, \A x, y \in S : x = y
    PROVE  IsFiniteSet(S) /\ Cardinality(S) \in {0, 1}
<1>1. CASE S = {}
  BY <1>1, FS_EmptySet
<1>2. CASE S # {}
  <2>1. PICK x \in S : TRUE
    BY <1>2
  <2>2. S = {x}
    BY <2>1
  <2> QED
    BY <2>2, FS_Singleton
<1> QED
  BY <1>1, <1>2

\* The invariant holds in every reachable state.
LEMMA DeliveryInvariant == Spec => []DeliveryInv
BY InvInit, InvNext, PTL DEF Spec

\* Ledger, capability store, control plane, thread and processes keep their
\* types, however many processes run.
THEOREM TypeCorrect == Spec => []TypeOK
<1>1. DeliveryInv => TypeOK
  BY DEF DeliveryInv
<1> QED
  BY <1>1, DeliveryInvariant, PTL

\* However many bridge processes run, fail, are killed and are launched again,
\* send_tool_output_once writes a delivery to the owner thread at most once.
THEOREM DeliveredAtMostOnce == Spec => []SentOnce
<1>1. DeliveryInv => SentOnce
  <2> SUFFICES ASSUME DeliveryInv, NEW d \in Delivery
               PROVE  Len(turns[d]) + Cardinality({m \in inflight : m[2] = d}) <= 1
    BY DEF SentOnce
  <2> DEFINE S == {m \in inflight : m[2] = d}
  <2>1. \A m \in S : m[1] \in Worker /\ m = <<m[1], d>>
    BY DEF DeliveryInv, TypeOK
  <2>2. \A x, y \in S : x = y
    BY <2>1 DEF DeliveryInv, OneTurn
  <2>3. Cardinality(S) \in {0, 1}
    BY <2>2, AtMostOne
  <2>4. Len(turns[d]) \in Nat /\ Len(turns[d]) <= 1
    BY DEF DeliveryInv, TypeOK, OneTurn
  <2>5. CASE S = {}
    <3>1. Cardinality(S) = 0
      BY <2>5, FS_EmptySet
    <3> QED
      BY <2>4, <3>1
  <2>6. CASE S # {}
    <3>1. turns[d] = <<>>
      BY <2>1, <2>6 DEF DeliveryInv, OneTurn
    <3>2. Len(turns[d]) = 0
      BY <3>1
    <3> QED
      BY <2>3, <3>2
  <2> QED
    BY <2>5, <2>6
<1> QED
  BY <1>1, DeliveryInvariant, PTL

\* prepare_and_claim lets at most one delivery of the thread be undetermined,
\* although every process scans the ledger and claims on its own.
THEOREM OneUndeterminedDelivery == Spec => []OneUndetermined
<1>1. DeliveryInv => OneUndetermined
  <2> SUFFICES ASSUME DeliveryInv
               PROVE  Cardinality({d \in Delivery : batch[d].state \in Blocking}) <= 1
    BY DEF OneUndetermined
  <2> DEFINE S == {d \in Delivery : batch[d].state \in Blocking}
  <2>1. \A x, y \in S : x = y
    BY DEF DeliveryInv, OneBlocking
  <2>2. Cardinality(S) \in {0, 1}
    BY <2>1, AtMostOne
  <2> QED
    BY <2>2
<1> QED
  BY <1>1, DeliveryInvariant, PTL

\* A batch the ledger calls confirmed is in the thread, in the completed turn
\* the ledger names, whichever process sent it and whichever found it.
THEOREM ConfirmationIsTrue == Spec => []ConfirmedIsTrue
<1>1. DeliveryInv => ConfirmedIsTrue
  BY DEF DeliveryInv
<1> QED
  BY <1>1, DeliveryInvariant, PTL

\* AckDecisions is never given a decision the ledger could lose or contradict.
THEOREM AcknowledgementIsBacked == Spec => []AckIsBacked
<1>1. DeliveryInv => AckIsBacked
  BY DEF DeliveryInv
<1> QED
  BY <1>1, DeliveryInvariant, PTL

\* No step takes a confirmed batch back: _transition and the except clause of
\* run_helper write the status only from the states they name.
THEOREM TransportForwardOnly == Spec => ForwardOnly
<1> DEFINE Forward ==
      \A d \in Delivery :
         batch[d].state \in {"history_confirmed", "controller_acked"} =>
            batch'[d].state \in {batch[d].state, "controller_acked"}
<1>1. DeliveryInv /\ [Next]_vars => [Forward]_vars
  <2> SUFFICES ASSUME DeliveryInv, Next PROVE Forward
    OBVIOUS
  <2>0. batch \in [Delivery -> [state : BatchState, turn : Nat]]
    BY DEF DeliveryInv, TypeOK
  <2>1. ASSUME NEW c \in Delivery, NEW st, batch' = [batch EXCEPT ![c].state = st],
               batch[c].state \notin {"history_confirmed", "controller_acked"}
        PROVE  Forward
    BY <2>0, <2>1
  <2>2. ASSUME NEW c \in Delivery, NEW allowed, NEW st, NEW t, Transition(c, allowed, st, t),
               \/ allowed \cap {"history_confirmed", "controller_acked"} = {}
               \/ st = "controller_acked"
        PROVE  Forward
    BY <2>0, <2>2 DEF Transition
  <2>3. ASSUME UNCHANGED batch PROVE Forward
    BY <2>3
  <2> HIDE DEF Forward
  <2>4. ASSUME NEW w \in Worker, Launching(w) \/ Attaching(w) PROVE Forward
    BY <2>3, <2>4 DEF Launching, LaunchHelper, LaunchDriver, Attaches, LaunchRefused, Attaching,
       BindGeneration, BindCurrent, Submits, ledgerVars
  <2>5. ASSUME NEW w \in Worker, Fail(w) \/ Crash(w) PROVE Forward
    <3>1. CASE Crash(w)
      BY <2>3, <3>1 DEF Crash
    <3>2. CASE Fail(w)
      <4>1. cur[w] # NoDelivery => cur[w] \in Delivery
        BY DEF DeliveryInv, TypeOK
      <4>2. \/ batch' = batch
            \/ /\ cur[w] # NoDelivery /\ batch[cur[w]].state \in {"sending", "transport_accepted"}
               /\ batch' = [batch EXCEPT ![cur[w]].state = "delivery_uncertain"]
        BY <3>2 DEF Fail, AfterFailure
      <4> QED
        BY <2>1, <2>3, <4>1, <4>2
    <3> QED
      BY <2>5, <3>1, <3>2
  <2>6. ASSUME NEW w \in Worker, Choosing(w) PROVE Forward
    <3>1. CASE HelperScan(w) \/ HelperCollect(w) \/ DriverWait(w)
      BY <2>3, <3>1 DEF HelperScan, HelperCollect, DriverWait, ledgerVars
    <3>2. CASE Prepare(w)
      <4>1. cur[w] \in Delivery
        BY <3>2 DEF Prepare, DeliveryInv, Equipped, Holding
      <4>2. \/ batch' = batch
            \/ /\ batch[cur[w]].state = NoneYet
               /\ batch' = [batch EXCEPT ![cur[w]].state = "pending"]
        BY <3>2 DEF Prepare
      <4> QED
        BY <2>1, <2>3, <4>1, <4>2 DEF NoneYet
    <3> QED
      BY <2>6, <3>1, <3>2 DEF Choosing
  <2>7. ASSUME NEW w \in Worker, Transporting(w) PROVE Forward
    <3>1. CASE AttachClaim(w) \/ Send(w) \/ Reconcile(w) \/ ReadHistory(w)
      BY <2>3, <3>1 DEF AttachClaim, Send, Reconcile, ReadHistory, ledgerVars
    <3>2. CASE MarkSending(w) \/ MarkAccepted(w) \/ MarkUncertain(w) \/ ConfirmHistory(w)
      <4>1. cur[w] \in Delivery
        BY <3>2 DEF MarkSending, MarkAccepted, MarkUncertain, ConfirmHistory, DeliveryInv,
           Equipped, Holding
      <4>2. PICK c \in Delivery : \E st, t : Transition(c, Sent \cup {"pending"}, st, t)
        BY <3>2, <4>1 DEF MarkSending, MarkAccepted, MarkUncertain, ConfirmHistory, LedgerStep,
           Transition, Sent
      <4> QED
        BY <2>2, <4>2 DEF Sent
    <3> QED
      BY <2>7, <3>1, <3>2 DEF Transporting
  <2>8. ASSUME NEW w \in Worker, Acknowledging(w) PROVE Forward
    <3>1. CASE Decide(w) \/ ReplayAck(w) \/ ControlAck(w)
      BY <2>3, <3>1 DEF Decide, ReplayAck, ControlAck, ledgerVars
    <3>2. CASE MarkAcked(w)
      <4>1. cur[w] \in Delivery
        BY <3>2 DEF MarkAcked, DeliveryInv, Equipped, Holding
      <4> QED
        BY <2>2, <3>2, <4>1 DEF MarkAcked
    <3> QED
      BY <2>8, <3>1, <3>2 DEF Acknowledging
  <2>9. ASSUME \/ \E w \in Worker, d \in Delivery : TurnStarts(w, d)
               \/ \E d \in Delivery : TurnEnds(d)
               \/ EventBorn \/ OwnerChanges
        PROVE  Forward
    BY <2>3, <2>9 DEF TurnStarts, TurnEnds, EventBorn, OwnerChanges, ledgerVars
  <2> QED
    BY <2>4, <2>5, <2>6, <2>7, <2>8, <2>9 DEF Next
<1> QED
  BY <1>1, DeliveryInvariant, PTL DEF Spec, ForwardOnly
=============================================================================
