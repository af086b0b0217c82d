---------------------------- MODULE NativeDelivery ----------------------------
(***************************************************************************)
(* Delivery of control-plane events into the native owner thread.  Bridge  *)
(* processes (native-product-bridge.py, as one-shot "helper" or as looping *)
(* "driver") attach to the live owner, claim a batch in the DeliveryLedger *)
(* (native_bridge/bridge.py), send it once as a turn/start through the     *)
(* DeliveryAdapter (delivery_adapter.py), look for it in the thread's      *)
(* history (delivery_audit.py) and acknowledge it to the control plane.    *)
(*                                                                         *)
(* Every ledger operation runs under one flock, so it is one action; a     *)
(* process may fail (its except clause runs) or be killed (nothing runs)   *)
(* between any two.  The ledger, the capability store and the control      *)
(* plane are durable.  A delivery id is the hash of thread, epoch, task    *)
(* and events: here the pair of epoch and events, for one thread and task. *)
(***************************************************************************)
EXTENDS Naturals, Sequences, FiniteSets, FiniteSetsExt, TLC

CONSTANTS
    Worker,     \* bridge processes that may run at the same time
    Driver,     \* the workers launched as drivers; the others are helpers
    Events,     \* the number of events the task produces
    PageSize,   \* events one page or one batch carries (8 in the code)
    Epoch,      \* the owner epochs that occur
    Decision,   \* what the controller may decide for a batch
    Launches,   \* how many processes are launched in all (bound)
    NoDelivery

Event == 1 .. Events

\* No decision, no batch, no request yet.
NoneYet == "none"

ASSUME DeliveryAssumption ==
    /\ Driver \subseteq Worker /\ Events \in Nat /\ PageSize \in Nat \ {0}
    /\ Epoch \subseteq Nat \ {0} /\ Launches \in Nat
    /\ Decision \cap {NoneYet, "torn"} = {}

\* _project_events and the seed of prepare_and_claim.
Delivery == [epoch : Epoch, events : {s \in SUBSET Event : Cardinality(s) \in 1 .. PageSize}]

Blocking == {"pending", "sending", "transport_accepted", "delivery_uncertain"}
Sent     == {"sending", "transport_accepted", "delivery_uncertain"}
BatchState == Blocking \cup {NoneYet, "history_confirmed", "controller_acked"}

\* Where a process is, between two operations.
Point == {"off", "attach", "cap", "bound", "ready", "collect", "claim", "claimed",
          "sending", "attached", "wired", "recover", "reconcile", "reading", "proved",
          "deciding", "replay", "acking", "acked"}

VARIABLES
    born,      \* events the task has produced: 1 .. born
    verdict,   \* runtime_decisions: the decision of each acknowledged event
    receipts,  \* delivery_receipts: the decision acknowledged per delivery
    owner,     \* epoch of the live owner lease, 0 while nobody is attached
    batch,     \* batch-status.json of each delivery directory
    stage,     \* stage directories a killed prepare left behind
    request,   \* controller-ack-request.json
    caps,      \* owner capability store: current.json and generation files
    turns,     \* the native turns started for each delivery
    inflight,  \* turn/start requests written and not yet processed
    launches,  \* processes launched so far
    pc, att, cur, cursor, next, turn, reply  \* per worker

storeVars  == <<born, verdict, receipts>>
ledgerVars == <<batch, stage, request>>
nativeVars == <<owner, turns, inflight>>
localVars  == <<att, cursor, next>>
vars == <<storeVars, ledgerVars, caps, nativeVars, launches, pc, cur, turn, reply,
          localVars>>

TypeOK ==
    /\ born \in 0 .. Events
    /\ verdict \in [Event -> Decision \cup {NoneYet}]
    /\ receipts \in [Delivery -> Decision \cup {NoneYet}]
    /\ owner \in Epoch \cup {0}
    /\ batch \in [Delivery -> [state : BatchState, turn : Nat]]
    /\ stage \subseteq Delivery
    /\ request \in [Delivery -> Decision \cup {NoneYet, "torn"}]
    /\ caps \in [current : Nat, files : SUBSET Nat]
    /\ turns \in [Delivery -> Seq({"inProgress", "completed", "failed"})]
    /\ inflight \subseteq Worker \X Delivery
    /\ pc \in [Worker -> Point]
    /\ launches \in 0 .. Launches
    /\ att \in [Worker -> Epoch \cup {0}]
    /\ cur \in [Worker -> Delivery \cup {NoDelivery}]
    /\ cursor \in [Worker -> 0 .. Events] /\ next \in [Worker -> 0 .. Events]
    /\ turn \in [Worker -> Nat] /\ reply \in [Worker -> Nat]

Init ==
    /\ born = 0
    /\ verdict = [e \in Event |-> NoneYet]
    /\ receipts = [d \in Delivery |-> NoneYet]
    /\ owner \in Epoch
    /\ batch = [d \in Delivery |-> [state |-> NoneYet, turn |-> 0]]
    /\ stage = {}
    /\ request = [d \in Delivery |-> NoneYet]
    /\ caps = [current |-> 0, files |-> {}]
    /\ turns = [d \in Delivery |-> <<>>]
    /\ inflight = {}
    /\ pc = [w \in Worker |-> "off"]
    /\ launches = 0
    /\ att = [w \in Worker |-> 0]
    /\ cur = [w \in Worker |-> NoDelivery]
    /\ cursor = [w \in Worker |-> 0]
    /\ next = [w \in Worker |-> 0]
    /\ turn = [w \in Worker |-> 0]
    /\ reply = [w \in Worker |-> 0]

------------------------------------------------------------------------------
(* Processes *)

Goto(w, where) == pc' = [pc EXCEPT ![w] = where]

\* The process is gone: what it held in memory goes with it.
Gone(w) ==
    /\ Goto(w, "off")
    /\ cur' = [cur EXCEPT ![w] = NoDelivery]
    /\ att' = [att EXCEPT ![w] = 0]
    /\ cursor' = [cursor EXCEPT ![w] = 0]
    /\ next' = [next EXCEPT ![w] = 0]
    /\ turn' = [turn EXCEPT ![w] = 0]
    /\ reply' = [reply EXCEPT ![w] = 0]

\* A process attaches under the owner lease that is live now.
Attaches(w) ==
    /\ pc[w] = "off" /\ launches < Launches /\ owner # 0
    /\ Goto(w, "attach")
    /\ launches' = launches + 1
    /\ att' = [att EXCEPT ![w] = owner]
    /\ UNCHANGED <<storeVars, ledgerVars, caps, nativeVars, cur, turn, reply, cursor, next>>

\* run_helper up to its attachment: it is granted by its controller, and checks
\* manifest, grant and itself before it connects.
LaunchHelper(w) == w \notin Driver /\ Attaches(w)

\* run_driver up to its attachment: it writes its own grant from the lease.
LaunchDriver(w) == w \in Driver /\ Attaches(w)

\* validate_runtime refuses: a pinned file of the package or of the runtime is
\* not what its hash says.  The process ends before it touches anything.
LaunchRefused(w) ==
    /\ pc[w] = "off" /\ launches < Launches
    /\ launches' = launches + 1
    /\ UNCHANGED <<storeVars, ledgerVars, caps, nativeVars, pc, cur, turn, reply, localVars>>

\* Mutant: whatever was claimed is reported uncertain.
AfterAnyFailure(w) ==
    IF w \notin Driver /\ cur[w] # NoDelivery /\ pc[w] # "claim"
      THEN [batch EXCEPT ![cur[w]].state = "delivery_uncertain"]
      ELSE batch

\* What the except clause of run_helper does to the batch it had claimed; a
\* driver records only its own status.
AfterFailure(w) ==
    IF /\ w \notin Driver /\ cur[w] # NoDelivery /\ pc[w] # "claim"
       /\ batch[cur[w]].state \in {"sending", "transport_accepted"}
      THEN [batch EXCEPT ![cur[w]].state = "delivery_uncertain"]
      ELSE batch

\* A step raised: a timeout, an end-of-file, a rejected RPC, a changed file.
Fail(w) ==
    /\ pc[w] # "off"
    /\ batch' = AfterFailure(w)
    /\ Gone(w)
    /\ UNCHANGED <<storeVars, stage, request, caps, nativeVars, launches>>

\* The process is killed; a file it was creating exclusively stays, incomplete
\* for the request, as a stage directory for a batch.
Crash(w) ==
    /\ pc[w] # "off"
    /\ \/ UNCHANGED <<stage, request>>
       \/ /\ pc[w] = "claim" /\ batch[cur[w]].state = NoneYet
          /\ \A d \in Delivery : batch[d].state \notin Blocking
          /\ stage' = stage \cup {cur[w]} /\ UNCHANGED request
       \/ /\ pc[w] = "deciding" /\ request[cur[w]] = NoneYet
          /\ request' = [request EXCEPT ![cur[w]] = "torn"] /\ UNCHANGED stage
    /\ Gone(w)
    /\ UNCHANGED <<storeVars, batch, caps, nativeVars, launches>>

------------------------------------------------------------------------------
(* Attaching to the owner *)

\* from_service_receipts: the live processes are still those of the lease.
AttachmentLive(w) == owner = att[w]

\* OwnerCapabilityStore.bind under its lock: the next generation's file is
\* created exclusively, then current.json is replaced.
BindGeneration(w) ==
    /\ pc[w] = "attach" /\ AttachmentLive(w)
    /\ \A v \in Worker : pc[v] # "cap"
    /\ caps.current + 1 \notin caps.files
    /\ caps' = [caps EXCEPT !.files = @ \cup {caps.current + 1}]
    /\ Goto(w, "cap")
    /\ UNCHANGED <<storeVars, ledgerVars, nativeVars, cur, turn, reply, localVars, launches>>

BindCurrent(w) ==
    /\ pc[w] = "cap"
    /\ caps' = [caps EXCEPT !.current = @ + 1]
    /\ Goto(w, IF w \in Driver THEN "bound" ELSE "ready")
    /\ UNCHANGED <<storeVars, ledgerVars, nativeVars, cur, turn, reply, localVars, launches>>

\* A driver initializes its connection and submits its tasks, or rebinds to the
\* tasks of an earlier one, under the capability it has just bound.
Submits(w) ==
    /\ pc[w] = "bound"
    /\ Goto(w, "ready")
    /\ UNCHANGED <<storeVars, ledgerVars, caps, nativeVars, cur, turn, reply,
                   localVars, launches>>

------------------------------------------------------------------------------
(* Choosing a batch *)

Pending == {e \in 1 .. born : verdict[e] = NoneYet}

\* CollectPending: the first events behind a cursor, and the cursor of the rest.
First(s)     == {e \in s : Cardinality({f \in s : f <= e}) <= PageSize}
Page(c)      == First({e \in Pending : e > c})
NextOf(c)    == IF Page(c) = {e \in Pending : e > c} THEN 0 ELSE Max(Page(c))

\* open_batches: the confirmed and not yet acknowledged deliveries.
Confirmed == {d \in Delivery : batch[d].state = "history_confirmed"}

Claiming(w, evs) ==
    /\ cur' = [cur EXCEPT ![w] = [epoch |-> att[w], events |-> evs]]
    /\ Goto(w, "claim")

\* run_helper looks for a confirmed batch before it collects anything.
HelperScan(w) ==
    /\ w \notin Driver /\ pc[w] = "ready"
    /\ \/ Confirmed = {} /\ Goto(w, "collect") /\ UNCHANGED cur
       \/ \E d \in Confirmed :
            /\ Confirmed = {d}
            /\ cur' = [cur EXCEPT ![w] = d]
            /\ Goto(w, IF request[d] = NoneYet THEN "deciding" ELSE "replay")
    /\ UNCHANGED <<storeVars, ledgerVars, caps, nativeVars, turn, reply, localVars, launches>>

HelperCollect(w) ==
    /\ pc[w] = "collect" /\ Pending # {}
    /\ Claiming(w, First(Pending))
    /\ UNCHANGED <<storeVars, ledgerVars, caps, nativeVars, turn, reply, localVars, launches>>

\* wait_actionable_events: the owner is checked before and after the wait.
DriverWait(w) ==
    /\ w \in Driver /\ pc[w] = "ready" /\ AttachmentLive(w)
    /\ Page(cursor[w]) # {}
    /\ next' = [next EXCEPT ![w] = NextOf(cursor[w])]
    /\ Claiming(w, Page(cursor[w]))
    /\ UNCHANGED <<storeVars, ledgerVars, caps, nativeVars, turn, reply,
                   att, cursor, launches>>

\* Mutant: only a delivery being sent holds the thread.
SlotFreeOfSending == \A d \in Delivery : batch[d].state \notin {"pending", "sending"}

\* No other delivery of the thread has an undetermined transport.
SlotFree == \A d \in Delivery : batch[d].state \notin Blocking

\* Where a process goes with the batch prepare_and_claim returned.
WithBatch(w, state) ==
    IF state = "pending" \/ w \in Driver THEN "claimed"
    ELSE IF state = "sending" THEN "recover" ELSE "reconcile"

\* prepare_and_claim: an existing directory is returned as it is; a leftover
\* stage makes the attempt fail but is swept by its except clause.
Prepare(w) ==
    LET d == cur[w] IN
        /\ pc[w] = "claim"
        /\ \/ /\ batch[d].state # NoneYet
              /\ Goto(w, WithBatch(w, batch[d].state))
              /\ UNCHANGED <<batch, stage, cur, turn, reply, localVars>>
           \/ /\ batch[d].state = NoneYet /\ SlotFree /\ d \notin stage
              /\ batch' = [batch EXCEPT ![d].state = "pending"]
              /\ Goto(w, "claimed")
              /\ UNCHANGED <<stage, cur, turn, reply, localVars>>
           \/ /\ batch[d].state = NoneYet /\ SlotFree /\ d \in stage
              /\ stage' = stage \ {d}
              /\ Gone(w)
              /\ UNCHANGED batch
        /\ UNCHANGED <<storeVars, request, caps, nativeVars, launches>>

------------------------------------------------------------------------------
(* Sending once, and looking for what was sent *)

\* DeliveryLedger._transition: the status is replaced only from these states.
Transition(d, allowed, state, t) ==
    /\ batch[d].state \in allowed
    /\ batch' = [batch EXCEPT ![d] = [state |-> state, turn |-> t]]

LedgerStep(w, allowed, state, t, where) ==
    /\ Transition(cur[w], allowed, state, t)
    /\ Goto(w, where)
    /\ UNCHANGED <<storeVars, stage, request, caps, nativeVars, cur, turn,
                   reply, localVars, launches>>

\* Mutant: an undetermined batch is sent again.
MarkSendingAgain(w) ==
    pc[w] = "claimed" /\ LedgerStep(w, {"pending"} \cup Sent, "sending", 0, "sending")

\* mark_sending: the one claim of the right to send.
MarkSending(w) ==
    pc[w] = "claimed" /\ LedgerStep(w, {"pending"}, "sending", 0, "sending")

\* attach_external_claim and _external_status: the claim is still "sending".
AttachClaim(w) ==
    /\ pc[w] = "sending" /\ batch[cur[w]].state = "sending"
    /\ Goto(w, "attached")
    /\ UNCHANGED <<storeVars, ledgerVars, caps, nativeVars, cur, turn, reply,
                   localVars, launches>>

\* send_tool_output_once writes the turn/start.
Send(w) ==
    /\ pc[w] = "attached"
    /\ inflight' = inflight \cup {<<w, cur[w]>>}
    /\ Goto(w, "wired")
    /\ UNCHANGED <<storeVars, ledgerVars, caps, owner, turns, cur, turn,
                   reply, localVars, launches>>

MarkAccepted(w) ==
    /\ pc[w] = "wired" /\ reply[w] # 0
    /\ LedgerStep(w, {"sending"}, "transport_accepted", reply[w], "reading")

\* A batch found "sending" belongs to a process that is gone or still at work.
MarkUncertain(w) ==
    /\ pc[w] = "recover"
    /\ LedgerStep(w, Sent, "delivery_uncertain", batch[cur[w]].turn, "reconcile")

\* reconcile_external_claim: history only, this capability never sends.
Reconcile(w) ==
    /\ pc[w] = "reconcile" /\ batch[cur[w]].state \in Sent
    /\ Goto(w, "reading")
    /\ UNCHANGED <<storeVars, ledgerVars, caps, nativeVars, cur, turn, reply,
                   localVars, launches>>

\* Mutant: a turn that carries the envelope counts before it is completed.
StartedTurns(d) == 1 .. Len(turns[d])

\* audit and exact_history: the exact envelope in exactly one completed turn.
CompletedTurns(d) == {n \in 1 .. Len(turns[d]) : turns[d][n] = "completed"}

ReadHistory(w) ==
    /\ pc[w] = "reading"
    /\ \E n \in CompletedTurns(cur[w]) :
         /\ CompletedTurns(cur[w]) = {n}
         /\ turn' = [turn EXCEPT ![w] = n]
    /\ Goto(w, "proved")
    /\ UNCHANGED <<storeVars, ledgerVars, caps, nativeVars, cur, reply, localVars, launches>>

ConfirmHistory(w) ==
    /\ pc[w] = "proved"
    /\ batch[cur[w]].turn \in {0, turn[w]}
    /\ LedgerStep(w, Sent, "history_confirmed", turn[w], "deciding")

------------------------------------------------------------------------------
(* Acknowledging *)

\* Mutant: a later request replaces the first.
DecideAnew(w) ==
    /\ pc[w] = "deciding"
    /\ \E c \in Decision : request' = [request EXCEPT ![cur[w]] = c]
    /\ Goto(w, "acking")
    /\ UNCHANGED <<storeVars, batch, stage, caps, nativeVars, cur, turn,
                   reply, localVars, launches>>

\* wait_decision: a driver waits for a decision only while its owner lives.
DecisionComes(w) == w \in Driver => AttachmentLive(w)

\* The controller's decision arrives; the request file is created once and a
\* later request must be the same.
Decide(w) ==
    LET d == cur[w] IN
        /\ pc[w] = "deciding"
        /\ DecisionComes(w)
        /\ \E c \in Decision :
             /\ request[d] \in {NoneYet, c}
             /\ request' = [request EXCEPT ![d] = c]
        /\ Goto(w, "acking")
        /\ UNCHANGED <<storeVars, batch, stage, caps, nativeVars, cur, turn,
                       reply, localVars, launches>>

ReplayAck(w) ==
    /\ pc[w] = "replay" /\ batch[cur[w]].state = "history_confirmed"
    /\ request[cur[w]] \in Decision
    /\ Goto(w, "acking")
    /\ UNCHANGED <<storeVars, ledgerVars, caps, nativeVars, cur, turn, reply,
                   localVars, launches>>

\* AckDecisions in one transaction: a receipt of the same decision is repeated,
\* an event decided otherwise is a conflict.
ControlAck(w) ==
    LET d == cur[w]
        c == request[d]
    IN  /\ pc[w] = "acking"
        /\ receipts[d] \in {NoneYet, c}
        /\ receipts[d] = NoneYet => \A e \in d.events : verdict[e] \in {NoneYet, c}
        /\ receipts' = [receipts EXCEPT ![d] = c]
        /\ verdict' = [e \in Event |-> IF e \in d.events THEN c ELSE verdict[e]]
        /\ Goto(w, "acked")
        /\ UNCHANGED <<born, ledgerVars, caps, nativeVars, cur, turn, reply,
                       localVars, launches>>

\* mark_controller_acked; a helper ends, a driver goes on behind its cursor or
\* ends when the task is terminal and no page is left.
MarkAcked(w) ==
    /\ pc[w] = "acked"
    /\ Transition(cur[w], {"history_confirmed"}, "controller_acked", batch[cur[w]].turn)
    /\ \/ /\ w \in Driver
          /\ Goto(w, "ready")
          /\ cursor' = [cursor EXCEPT ![w] = next[w]]
          /\ cur' = [cur EXCEPT ![w] = NoDelivery]
          /\ turn' = [turn EXCEPT ![w] = 0]
          /\ reply' = [reply EXCEPT ![w] = 0]
          /\ UNCHANGED <<att, next>>
       \/ (w \in Driver => next[w] = 0) /\ Gone(w)
    /\ UNCHANGED <<storeVars, stage, request, caps, nativeVars, launches>>

------------------------------------------------------------------------------
(* Environment: task, owner and app-server *)

EventBorn ==
    /\ born < Events
    /\ born' = born + 1
    /\ UNCHANGED <<verdict, receipts, ledgerVars, caps, nativeVars, pc, cur,
                   turn, reply, localVars, launches>>

\* The owner process ends, or a new lease of the same thread is attached.
OwnerChanges ==
    /\ \E e \in Epoch \cup {0} : owner' = e
    /\ UNCHANGED <<storeVars, ledgerVars, caps, turns, inflight, pc, cur,
                   turn, reply, localVars, launches>>

\* The app-server processes a request, or the connection is lost before it.
TurnStarts(w, d) ==
    /\ <<w, d>> \in inflight
    /\ inflight' = inflight \ {<<w, d>>}
    /\ \/ UNCHANGED <<turns, reply>>
       \/ /\ turns' = [turns EXCEPT ![d] = Append(@, "inProgress")]
          /\ reply' = IF pc[w] = "wired" /\ cur[w] = d
                        THEN [reply EXCEPT ![w] = Len(turns[d]) + 1] ELSE reply
    /\ UNCHANGED <<storeVars, ledgerVars, caps, owner, pc, cur, turn, localVars, launches>>

TurnEnds(d) ==
    /\ \E n \in 1 .. Len(turns[d]), s \in {"completed", "failed"} :
         /\ turns[d][n] = "inProgress"
         /\ turns' = [turns EXCEPT ![d][n] = s]
    /\ UNCHANGED <<storeVars, ledgerVars, caps, owner, inflight, pc, cur,
                   turn, reply, localVars, launches>>

Launching(w)    == LaunchHelper(w) \/ LaunchDriver(w) \/ LaunchRefused(w)
Attaching(w)    == BindGeneration(w) \/ BindCurrent(w) \/ Submits(w)
Choosing(w)     == HelperScan(w) \/ HelperCollect(w) \/ DriverWait(w) \/ Prepare(w)
Transporting(w) ==
    \/ MarkSending(w) \/ AttachClaim(w) \/ Send(w) \/ MarkAccepted(w)
    \/ MarkUncertain(w) \/ Reconcile(w) \/ ReadHistory(w) \/ ConfirmHistory(w)
Acknowledging(w) == Decide(w) \/ ReplayAck(w) \/ ControlAck(w) \/ MarkAcked(w)

Next ==
    \/ \E w \in Worker :
         \/ Launching(w) \/ Fail(w) \/ Crash(w)
         \/ Attaching(w) \/ Choosing(w) \/ Transporting(w) \/ Acknowledging(w)
    \/ \E w \in Worker, d \in Delivery : TurnStarts(w, d)
    \/ \E d \in Delivery : TurnEnds(d)
    \/ EventBorn \/ OwnerChanges

Spec == Init /\ [][Next]_vars

\* No step tells one decision from another.
Symmetry == Permutations(Decision)

------------------------------------------------------------------------------
(* Properties *)

\* However often bridge processes fail, are killed, are launched again or work
\* side by side, a delivery is written to the owner thread at most once.
SentOnce ==
    \A d \in Delivery :
        Len(turns[d]) + Cardinality({m \in inflight : m[2] = d}) <= 1

\* One delivery of the thread at a time has an undetermined transport, although
\* each process scans the ledger, and claims, on its own.
OneUndetermined ==
    Cardinality({d \in Delivery : batch[d].state \in Blocking}) <= 1

\* A confirmed batch is really in the thread: the turn the ledger names carries
\* it and is completed, also when another process found it than the one that
\* sent it.
ConfirmedIsTrue ==
    \A d \in Delivery :
        batch[d].state \in {"history_confirmed", "controller_acked"} =>
            /\ batch[d].turn \in 1 .. Len(turns[d])
            /\ turns[d][batch[d].turn] = "completed"

\* The control plane never learns of a decision the ledger could lose or
\* contradict: an acknowledged delivery is confirmed, and its request file
\* holds that decision.
AckIsBacked ==
    \A d \in Delivery :
        receipts[d] # NoneYet =>
            /\ batch[d].state \in {"history_confirmed", "controller_acked"}
            /\ request[d] = receipts[d]

\* The transport state of a batch only moves forward: what is confirmed is
\* never undetermined again, whichever process writes the status last.
ForwardOnly ==
    [][\A d \in Delivery :
         batch[d].state \in {"history_confirmed", "controller_acked"} =>
            batch'[d].state \in {batch[d].state, "controller_acked"}]_vars
=============================================================================
