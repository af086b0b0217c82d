------------------------- MODULE NativeServiceProofs -------------------------
(***************************************************************************)
(* Proofs about NativeService, for any sets of owners, helpers and         *)
(* profiles and any map of grants to them.                                 *)
(***************************************************************************)
EXTENDS NativeService, TLAPS

-----------------------------------------------------------------------------
(* The inductive invariant *)

\* An owner's task before GuardedChild.spawn has returned or raised.
Waiting  == {"idle", "data", "lock"}
Spawning == {"spawn", "spawnCancelled", "spawnLost"}

\* An owner's task inside the scope of its profile lock.
Held == Spawning \cup {"poll", "pollCancelled", "relay", "release", "close",
                     "stop", "abandoned"}

\* Before the spawn there is no process, and inside the scope there is a record.
Fresh ==
    \A o \in Owner :
        /\ pc[o] \in Waiting \cup Spawning => child[o] = "none" /\ final[o] = "none"
        /\ pc[o] \in Waiting => rec[o] = NoRecord
        /\ pc[o] \in Held => rec[o].state # "none"
        /\ rec[o].stopped => pc[o] = "done"

\* The guardian's final receipt reports what it has reaped.
FinalIsTrue == \A o \in Owner : final[o] \in {"stopped", "failed"} => child[o] = "gone"

\* Inside its scope a task holds the lock of its profile; a task whose finally
\* block was interrupted has dropped it, but then nobody can take it any more.
LockHeld ==
    /\ \A o \in Owner : pc[o] \in Held => lock[ProfileOf[o]] = o
    /\ \A o \in Owner : pc[o] = "truncated" => service \in {"cancelled", "closed", "dead"}
    /\ \A o, q \in Owner : pc[o] = "truncated" /\ o # q /\ ProfileOf[o] = ProfileOf[q]
           => pc[q] \notin Held \cup {"truncated"}
    /\ service \in {"cancelled", "closed"} => \A c \in Conn : pc[c] \notin {"data", "lock"}

\* A running backend is in the scope of its lock, or its clean-up has failed.
AliveIsHeld ==
    \A o \in Owner : child[o] = "alive" =>
        pc[o] \in Held \cup {"truncated"} \/ CleanUpFailed(o)

\* The lease of q is over for good: its task, its backend and its relays.
Retired(q) ==
    /\ pc[q] = "done" /\ child[q] = "gone"
    /\ \A h \in Helper : HelperOf[h] = q => pc[h] # "relay"

\* What a resume grant was admitted for stays true while its task waits for the
\* lock, and from its launch on.
ResumeKept ==
    \A o \in Owner :
        /\ pc[o] \in {"data", "lock"} => admitted[o] # NoGrant
        /\ pc[o] = "lock" /\ admitted[o] = Resume => Retired(ResumeOf[o])
        /\ grant[o] = Resume /\ rec[o].state # "none" => Retired(ResumeOf[o])

\* The helper rows of a cleaned-up record are true, and stay so.
HelpersStayClosed ==
    \A o \in Owner :
        rec[o].stopped /\ rec[o].state = "closed" /\ rec[o].helpersClosed =>
            \A h \in Helper : HelperOf[h] = o => pc[h] # "relay"

\* A guardian was started with its child.
Guarded == \A o \in Owner : guardian[o] # "none" => child[o] # "none"

ServiceInv ==
    /\ TypeOK /\ Fresh /\ FinalIsTrue /\ StoppedIsTrue /\ LockHeld /\ AliveIsHeld
    /\ ResumeKept /\ HelpersStayClosed

-----------------------------------------------------------------------------
(* Types *)

Place == Active \cup Ended

RecordStates == {"none", "starting", "connected", "closing", "failed", "closed"}

Record == [state : RecordStates, stopped : BOOLEAN, removed : BOOLEAN,
           failure : BOOLEAN, helpersClosed : BOOLEAN]

Receipt == ({"connected", "ready", "backend"} \X Owner) \cup ({"helper"} \X Helper)
               \cup ({"startup-failure", "activation"} \X {NoConn})

\* Before a record is made it says nothing.
LEMMA NoRecordType == NoRecord \in Record
BY DEF NoRecord, Record, RecordStates

\* A record stays one whatever state is written to it.
LEMMA RecordState ==
    ASSUME NEW r \in Record, NEW st \in RecordStates
    PROVE  /\ [r EXCEPT !.state = st] \in Record
           /\ [r EXCEPT !.state = st].state = st
           /\ [r EXCEPT !.state = st].stopped = r.stopped
           /\ [r EXCEPT !.state = st].failure = r.failure
BY DEF Record

\* TypeOK with its sets named.
LEMMA TypeParts ==
    TypeOK <=>
        /\ service \in {"starting", "activated", "serving", "closing", "cancelled", "closed", "dead"}
        /\ pc \in [Conn -> Place]
        /\ grant \in [Conn -> {NoGrant, Plain, Resume}]
        /\ admitted \in [Conn -> {NoGrant, Plain, Resume}]
        /\ lock \in [Profile -> Owner \cup {NoConn}]
        /\ rec \in [Owner -> Record]
        /\ lease \in [Owner -> {"none", "open", "closed"}]
        /\ gated \in [Helper -> BOOLEAN]
        /\ link \in [Helper -> {"none", "listed", "late", "closed"}]
        /\ receipts \subseteq Receipt
        /\ policy \in BOOLEAN /\ captureFailed \in BOOLEAN
        /\ child \in [Owner -> {"none", "alive", "gone"}]
        /\ channel \in [Owner -> {"none", "open", "terminate", "closed"}]
        /\ guardian \in [Owner -> {"none", "watching", "exited", "killed"}]
        /\ final \in [Owner -> {"none", "stopped", "failed", "unreaped"}]
BY DEF TypeOK, Place, Record, RecordStates, Receipt

\* A task moves between its suspension points.
LEMMA MoveType ==
    ASSUME TypeOK, NEW c \in Conn, NEW to \in Place, pc' = [pc EXCEPT ![c] = to]
    PROVE  /\ pc' \in [Conn -> Place] /\ pc'[c] = to
           /\ \A d \in Conn : d # c => pc'[d] = pc[d]
BY TypeParts

\* What Launch changes.
LEMMA LaunchFacts ==
    ASSUME TypeOK, NEW o \in Owner, Launch(o), pc[o] \in Waiting, rec[o] = NoRecord
    PROVE  /\ pc' \in [Conn -> Place] /\ rec' \in [Owner -> Record] /\ receipts' \subseteq Receipt
           /\ lock' \in [Profile -> Owner \cup {NoConn}]
           /\ \A d \in Conn : d # o => pc'[d] = pc[d]
           /\ \A q \in Owner : q # o => rec'[q] = rec[q]
           /\ \/ pc'[o] = "done" /\ rec'[o] = NoRecord /\ lock' = lock
              \/ /\ pc'[o] = "done" /\ rec'[o].state = "failed" /\ rec'[o].stopped /\ lock' = lock
                 /\ Admits(o)
              \/ /\ pc'[o] = "spawn" /\ rec'[o].state = "starting" /\ ~rec'[o].stopped
                 /\ lock' = [lock EXCEPT ![ProfileOf[o]] = o] /\ Admits(o)
<1>0. o \in Conn /\ ProfileOf[o] \in Profile /\ {"done", "spawn"} \subseteq Place
  BY DEF Conn, Profile, Place, Active, Ended
<1>1. CASE LaunchFails(o) /\ Admits(o)
  <2> DEFINE r == [NoRecord EXCEPT !.state = "failed", !.stopped = TRUE,
                                   !.removed = TRUE, !.helpersClosed = TRUE]
  <2>1. r \in Record /\ r.state = "failed" /\ r.stopped
    BY DEF NoRecord, Record, RecordStates
  <2> HIDE DEF r
  <2>2. /\ rec' = [rec EXCEPT ![o] = r] /\ receipts' = receipts \cup {<<"backend", o>>}
        /\ pc' = [pc EXCEPT ![o] = "done"] /\ lock' = lock
    BY <1>1 DEF LaunchFails, Publish, r
  <2>3. /\ rec' \in [Owner -> Record] /\ rec'[o] = r
        /\ \A q \in Owner : q # o => rec'[q] = rec[q]
    BY <2>1, <2>2, TypeParts
  <2>4. receipts' \subseteq Receipt
    BY <2>2, TypeParts DEF Receipt
  <2>5. lock' \in [Profile -> Owner \cup {NoConn}]
    BY <2>2, TypeParts
  <2>6. /\ pc' \in [Conn -> Place] /\ pc'[o] = "done"
        /\ \A d \in Conn : d # o => pc'[d] = pc[d]
    BY <1>0, <2>2, MoveType
  <2> QED
    BY <1>1, <2>1, <2>2, <2>3, <2>4, <2>5, <2>6
<1>2. CASE /\ lock' = [lock EXCEPT ![ProfileOf[o]] = o]
           /\ rec' = [rec EXCEPT ![o].state = "starting"]
           /\ pc' = [pc EXCEPT ![o] = "spawn"]
           /\ UNCHANGED receipts /\ Admits(o)
  <2> DEFINE r == [rec[o] EXCEPT !.state = "starting"]
  <2>1. r \in Record /\ r.state = "starting" /\ ~r.stopped
    <3>1. rec[o] \in Record /\ ~rec[o].stopped
      BY NoRecordType DEF NoRecord
    <3> QED
      BY <3>1, RecordState DEF RecordStates
  <2> HIDE DEF r
  <2>2. rec' = [rec EXCEPT ![o] = r]
    BY <1>2, TypeParts DEF r
  <2>3. /\ rec' \in [Owner -> Record] /\ rec'[o] = r
        /\ \A q \in Owner : q # o => rec'[q] = rec[q]
    BY <2>1, <2>2, TypeParts
  <2>4. receipts' \subseteq Receipt
    BY <1>2, TypeParts
  <2>5. lock' \in [Profile -> Owner \cup {NoConn}]
    BY <1>0, <1>2, TypeParts
  <2>6. /\ pc' \in [Conn -> Place] /\ pc'[o] = "spawn"
        /\ \A d \in Conn : d # o => pc'[d] = pc[d]
    BY <1>0, <1>2, MoveType
  <2> QED
    BY <1>2, <2>1, <2>3, <2>4, <2>5, <2>6
<1>3. CASE pc' = [pc EXCEPT ![o] = "done"] /\ UNCHANGED <<lock, rec, receipts>>
  <2>1. /\ pc' \in [Conn -> Place] /\ pc'[o] = "done"
        /\ \A d \in Conn : d # o => pc'[d] = pc[d]
    BY <1>0, <1>3, MoveType
  <2> QED
    BY <1>3, <2>1, TypeParts
<1> QED
  BY <1>1, <1>2, <1>3 DEF Launch

\* What writing the state of a record changes.
LEMMA StateFacts ==
    ASSUME TypeOK, NEW o \in Owner, NEW st \in RecordStates, rec' = [rec EXCEPT ![o].state = st]
    PROVE  /\ rec' \in [Owner -> Record] /\ rec'[o].state = st
           /\ rec'[o].stopped = rec[o].stopped
           /\ \A q \in Owner : q # o => rec'[q] = rec[q]
<1> DEFINE r == [rec[o] EXCEPT !.state = st]
<1>1. r \in Record /\ r.state = st /\ r.stopped = rec[o].stopped
  <2>1. rec[o] \in Record
    BY TypeParts
  <2> QED
    BY <2>1, RecordState
<1> HIDE DEF r
<1>2. rec' = [rec EXCEPT ![o] = r]
  BY TypeParts DEF r
<1>3. /\ rec' \in [Owner -> Record] /\ rec'[o] = r
      /\ \A q \in Owner : q # o => rec'[q] = rec[q]
  BY <1>1, <1>2, TypeParts
<1> QED
  BY <1>1, <1>3

\* What the beginning of the stop changes.
LEMMA BeginStopFacts ==
    ASSUME TypeOK, NEW o \in Owner, BeginStop(o)
    PROVE  /\ pc' \in [Conn -> Place] /\ pc'[o] = "stop"
           /\ \A d \in Conn : d # o => pc'[d] = pc[d]
           /\ admitted' \in [Conn -> {NoGrant, Plain, Resume}]
           /\ \A q \in Owner : admitted'[q] = admitted[q]
           /\ channel' \in [Owner -> {"none", "open", "terminate", "closed"}]
<1>0. o \in Conn /\ "stop" \in Place /\ \A q \in Owner : q \in Conn /\ q \notin Helper
  BY ConnAssumption DEF Conn, Place, Active
<1>1. /\ pc' \in [Conn -> Place] /\ pc'[o] = "stop"
      /\ \A d \in Conn : d # o => pc'[d] = pc[d]
  BY <1>0, MoveType DEF BeginStop
<1>2. admitted' \in [Conn -> {NoGrant, Plain, Resume}]
  BY TypeParts DEF BeginStop
<1>3. \A q \in Owner : admitted'[q] = admitted[q]
  BY <1>0, TypeParts DEF BeginStop
<1>4. channel' \in [Owner -> {"none", "open", "terminate", "closed"}]
  BY TypeParts DEF BeginStop, TellToStop
<1> QED
  BY <1>1, <1>2, <1>3, <1>4

\* What closing the next helper connection changes, or, after the last one, the
\* beginning of the stop.
LEMMA CloseNextFacts ==
    ASSUME TypeOK, NEW o \in Owner, CloseNext(o)
    PROVE  /\ pc' \in [Conn -> Place] /\ pc'[o] \in {"close", "stop"}
           /\ \A d \in Conn : d # o => pc'[d] = pc[d]
           /\ admitted' \in [Conn -> {NoGrant, Plain, Resume}]
           /\ \A q \in Owner : admitted'[q] = admitted[q]
           /\ channel' \in [Owner -> {"none", "open", "terminate", "closed"}]
           /\ link' \in [Helper -> {"none", "listed", "late", "closed"}]
<1>0. o \in Conn /\ "close" \in Place
  BY DEF Conn, Place, Active
<1>1. CASE /\ \E h \in Helper : CloseLink(h)
           /\ pc' = [pc EXCEPT ![o] = "close"]
           /\ UNCHANGED <<admitted, channel>>
  <2>1. /\ pc' \in [Conn -> Place] /\ pc'[o] = "close"
        /\ \A d \in Conn : d # o => pc'[d] = pc[d]
    BY <1>0, <1>1, MoveType
  <2>2. link' \in [Helper -> {"none", "listed", "late", "closed"}]
    BY <1>1, TypeParts DEF CloseLink
  <2> QED
    BY <1>1, <2>1, <2>2, TypeParts
<1>2. CASE BeginStop(o) /\ UNCHANGED link
  BY <1>2, BeginStopFacts, TypeParts
<1> QED
  BY <1>1, <1>2 DEF CloseNext

-----------------------------------------------------------------------------
(* The steps keep the invariant *)

\* Initially there is no task, no lease and no process.
LEMMA InvInit == Init => ServiceInv
<1> SUFFICES ASSUME Init PROVE ServiceInv
  OBVIOUS
<1>1. TypeOK
  <2>1. NoRecord \in Record /\ "idle" \in Place
    BY NoRecordType DEF Place, Ended
  <2> QED
    BY <2>1, TypeParts DEF Init
<1>2. FinalIsTrue /\ StoppedIsTrue /\ AliveIsHeld /\ HelpersStayClosed
  BY DEF Init, FinalIsTrue, StoppedIsTrue, AliveIsHeld, HelpersStayClosed, NoRecord
<1>3. \A c \in Conn : pc[c] = "idle"
  BY DEF Init
<1>5. Fresh
  BY <1>3 DEF Init, Fresh, Held, Spawning, NoRecord, Conn
<1>4. LockHeld /\ ResumeKept
  BY <1>3 DEF Init, LockHeld, Held, Spawning, ResumeKept, NoRecord, Conn
<1> QED
  BY <1>1, <1>2, <1>4, <1>5 DEF ServiceInv

\* The service itself, the pinned files or a guardian's death: the tasks, the
\* leases and the backends are as they were.
LEMMA InvService ==
    ASSUME ServiceInv, TypeOK', UNCHANGED <<pc, grant, admitted, lock, rec, child, final>>,
           service' \in {"cancelled", "closed"} => service \in {"cancelled", "closed"},
           service \in {"cancelled", "closed", "dead"} => service' \in {"cancelled", "closed", "dead"}
    PROVE  ServiceInv'
<1>1. LockHeld'
  BY DEF ServiceInv, LockHeld
<1>2. Fresh' /\ FinalIsTrue' /\ StoppedIsTrue' /\ AliveIsHeld'
  BY DEF ServiceInv, Fresh, FinalIsTrue, StoppedIsTrue, AliveIsHeld, CleanUpFailed
<1>3. ResumeKept' /\ HelpersStayClosed'
  BY DEF ServiceInv, ResumeKept, Retired, HelpersStayClosed
<1> QED
  BY <1>1, <1>2, <1>3 DEF ServiceInv

\* A backend ends and its guardian may report it; or the guardian gives up.
LEMMA InvChild ==
    ASSUME ServiceInv, TypeOK', NEW o \in Owner,
           UNCHANGED <<pc, grant, admitted, lock, rec, service>>,
           \A q \in Owner : q # o => child'[q] = child[q] /\ final'[q] = final[q],
           child[o] # "none",
           child'[o] = "gone" \/ (child'[o] = child[o] /\ final'[o] = "unreaped")
    PROVE  ServiceInv'
<1>1. Fresh' /\ LockHeld'
  BY DEF ServiceInv, Fresh, LockHeld
<1>2. FinalIsTrue' /\ StoppedIsTrue' /\ AliveIsHeld'
  BY DEF ServiceInv, FinalIsTrue, StoppedIsTrue, AliveIsHeld, CleanUpFailed
<1>3. \A q \in Owner : Retired(q) => Retired(q)'
  BY DEF Retired
<1>4. ResumeKept'
  BY <1>3, ConnAssumption DEF ServiceInv, ResumeKept
<1>5. HelpersStayClosed'
  BY DEF ServiceInv, HelpersStayClosed
<1> QED
  BY <1>1, <1>2, <1>4, <1>5 DEF ServiceInv

\* A task moves and no lease, lock or process does.
LEMMA InvMove ==
    ASSUME ServiceInv, TypeOK', NEW c \in Conn, pc[c] # "done",
           UNCHANGED <<service, grant, lock, rec, child, final>>,
           \A d \in Conn : d # c => pc'[d] = pc[d] /\ admitted'[d] = admitted[d],
           admitted[c] = NoGrant \/ admitted'[c] = admitted[c],
           pc'[c] \notin {"lock", "truncated"},
           pc'[c] = "data" => admitted'[c] # NoGrant /\ service = "serving",
           c \in Owner => \/ pc[c] \in Waiting \cup {"opening"} /\ pc'[c] \in {"data", "done"}
                          \/ pc[c] \in {"data"} /\ pc'[c] = "idle"
                          \/ pc[c] \in Spawning /\ pc'[c] \in Spawning
                          \/ pc[c] = "relay" /\ pc'[c] \in {"relay", "release"},
           c \in Owner /\ pc'[c] = "data" => pc[c] = "idle",
           c \in Helper /\ pc'[c] = "relay" => pc[c] = "relay" \/ child[HelperOf[c]] = "alive"
    PROVE  ServiceInv'
<1>0. Owner \subseteq Conn /\ Helper \subseteq Conn /\ Owner \cap Helper = {}
  BY ConnAssumption DEF Conn
<1>1. Fresh'
  BY <1>0 DEF ServiceInv, Fresh, Waiting, Spawning, Held
<1>2. FinalIsTrue' /\ StoppedIsTrue'
  BY DEF ServiceInv, FinalIsTrue, StoppedIsTrue
<1>3. LockHeld'
  BY <1>0 DEF ServiceInv, LockHeld, Held, Spawning, Waiting
<1>4. AliveIsHeld'
  BY <1>0 DEF ServiceInv, AliveIsHeld, CleanUpFailed, Held, Spawning, Waiting
<1>5. \A q \in Owner : Retired(q) => Retired(q)'
  BY <1>0, ConnAssumption DEF Retired
<1>6. ResumeKept'
  <2>1. \A o \in Owner : ResumeOf[o] \in Owner
    BY ConnAssumption
  <2> QED
    BY <1>0, <1>5, <2>1 DEF ServiceInv, ResumeKept
<1>7. HelpersStayClosed'
  BY <1>0, ConnAssumption DEF ServiceInv, HelpersStayClosed, StoppedIsTrue
<1> QED
  BY <1>1, <1>2, <1>3, <1>4, <1>6, <1>7 DEF ServiceInv

\* A step inside the scope of the profile lock: the backend may start when the
\* spawn returns, and the record's state is written.
LEMMA InvScope ==
    ASSUME ServiceInv, TypeOK', NEW o \in Owner, pc[o] \in Held, pc'[o] \in Held,
           pc'[o] \in Spawning => pc[o] \in Spawning /\ child'[o] = child[o],
           UNCHANGED <<service, grant, lock, final>>,
           \A d \in Conn : d # o => pc'[d] = pc[d],
           \A q \in Owner : admitted'[q] = admitted[q],
           \A q \in Owner : q # o => rec'[q] = rec[q] /\ child'[q] = child[q],
           rec'[o].stopped = rec[o].stopped,
           child'[o] = child[o] \/ (pc[o] \in Spawning /\ child'[o] = "alive"),
           rec'[o].state # "none"
    PROVE  ServiceInv'
<1>0. Owner \subseteq Conn /\ Helper \subseteq Conn /\ Owner \cap Helper = {}
  BY ConnAssumption DEF Conn
<1>1. /\ pc[o] # "done" /\ pc'[o] # "done" /\ ~rec[o].stopped /\ ~rec'[o].stopped
      /\ rec[o].state # "none"
  BY DEF ServiceInv, Fresh, Held, Spawning
<1>2. Fresh'
  BY <1>0, <1>1 DEF ServiceInv, Fresh, Waiting, Spawning, Held
<1>3. FinalIsTrue' /\ StoppedIsTrue'
  BY <1>1 DEF ServiceInv, FinalIsTrue, StoppedIsTrue, Fresh
<1>4. LockHeld'
  BY <1>0 DEF ServiceInv, LockHeld, Held, Spawning
<1>5. AliveIsHeld'
  BY <1>0 DEF ServiceInv, AliveIsHeld, CleanUpFailed
<1>6. \A q \in Owner : Retired(q) => Retired(q)'
  BY <1>0, <1>1 DEF Retired
<1>7. ResumeKept'
  <2>1. \A q \in Owner : ResumeOf[q] \in Owner
    BY ConnAssumption
  <2> QED
    BY <1>0, <1>1, <1>6, <2>1 DEF ServiceInv, ResumeKept, Held, Spawning
<1>8. HelpersStayClosed'
  BY <1>0, <1>1 DEF ServiceInv, HelpersStayClosed
<1> QED
  BY <1>2, <1>3, <1>4, <1>5, <1>7, <1>8 DEF ServiceInv

\* A grant is rewritten while its task waits: the record of the first admission
\* decides what a later launch may use.
LEMMA InvRegrant ==
    ASSUME ServiceInv, NEW c \in Conn, Regrant(c)
    PROVE  ServiceInv'
<1> USE DEF serviceVars, leaseVars, guardVars
<1>1. PICK g \in {Plain, Resume} : grant' = [grant EXCEPT ![c] = g]
  BY DEF Regrant
<1>2. /\ pc[c] \in Waiting
      /\ UNCHANGED <<service, receipts, policy, captureFailed, pc, admitted, lock, gated, link,
                     rec, lease, child, channel, guardian, final>>
  BY DEF Regrant, Waiting
<1>3. grant' \in [Conn -> {NoGrant, Plain, Resume}] /\ \A d \in Conn : d # c => grant'[d] = grant[d]
  BY <1>1, TypeParts DEF ServiceInv
<1>4. TypeOK'
  BY <1>2, <1>3 DEF ServiceInv, TypeOK
<1>5. c \in Owner => rec[c].state = "none"
  BY <1>2 DEF ServiceInv, Fresh, NoRecord
<1>6. ResumeKept'
  BY <1>2, <1>3, <1>5 DEF ServiceInv, ResumeKept, Retired, Conn
<1>7. Fresh' /\ FinalIsTrue' /\ StoppedIsTrue' /\ AliveIsHeld'
  BY <1>2 DEF ServiceInv, Fresh, FinalIsTrue, StoppedIsTrue, AliveIsHeld, CleanUpFailed
<1>8. LockHeld' /\ HelpersStayClosed'
  BY <1>2 DEF ServiceInv, LockHeld, HelpersStayClosed
<1> QED
  BY <1>4, <1>6, <1>7, <1>8 DEF ServiceInv

\* A launch: the lock was free, and a resume grant was admitted with its proof.
LEMMA InvLaunch ==
    ASSUME ServiceInv, NEW o \in Owner, pc[o] \in {"data", "lock"}, Running, Launch(o),
           lock[ProfileOf[o]] = NoConn,
           grant[o] = admitted[o] /\ admitted[o] = Resume => Retired(ResumeOf[o]),
           UNCHANGED <<service, policy, captureFailed, grant, admitted, gated, link, lease, guardVars>>
    PROVE  ServiceInv'
<1> USE DEF guardVars
<1>0. /\ Owner \subseteq Conn /\ Helper \subseteq Conn /\ Owner \cap Helper = {}
      /\ NoConn \notin Conn /\ \A q \in Owner : ResumeOf[q] \in Owner /\ ProfileOf[q] \in Profile
  BY ConnAssumption DEF Conn, Profile
<1>1. pc[o] \in Waiting /\ rec[o] = NoRecord /\ child[o] = "none" /\ final[o] = "none"
  BY DEF ServiceInv, Fresh, Waiting
<1>2. /\ pc' \in [Conn -> Place] /\ rec' \in [Owner -> Record] /\ receipts' \subseteq Receipt
      /\ lock' \in [Profile -> Owner \cup {NoConn}]
      /\ \A d \in Conn : d # o => pc'[d] = pc[d]
      /\ \A q \in Owner : q # o => rec'[q] = rec[q]
  BY <1>1, LaunchFacts DEF ServiceInv
<1>3. \/ pc'[o] = "done" /\ rec'[o] = NoRecord /\ lock' = lock
      \/ pc'[o] = "done" /\ rec'[o].state = "failed" /\ rec'[o].stopped /\ lock' = lock /\ Admits(o)
      \/ /\ pc'[o] = "spawn" /\ rec'[o].state = "starting" /\ ~rec'[o].stopped
         /\ lock' = [lock EXCEPT ![ProfileOf[o]] = o] /\ Admits(o)
  BY <1>1, LaunchFacts DEF ServiceInv
<1>4. TypeOK'
  BY <1>2, TypeParts DEF ServiceInv, TypeOK, Place, Record, RecordStates, Receipt
<1>5. Fresh'
  BY <1>0, <1>1, <1>2, <1>3 DEF ServiceInv, Fresh, Waiting, Spawning, Held, NoRecord
<1>6. FinalIsTrue' /\ StoppedIsTrue'
  BY <1>1, <1>2 DEF ServiceInv, FinalIsTrue, StoppedIsTrue
<1>7. AliveIsHeld'
  BY <1>0, <1>1, <1>2 DEF ServiceInv, AliveIsHeld, CleanUpFailed
<1>8. service \notin {"cancelled", "closed", "dead"}
  BY <1>0 DEF ServiceInv, LockHeld, Running
<1>9. LockHeld'
  <2>1. \A q \in Owner : ProfileOf[q] = ProfileOf[o] => pc[q] \notin Held
    BY <1>0 DEF ServiceInv, LockHeld
  <2>2. \A q \in Owner : pc'[q] # "truncated"
    BY <1>0, <1>2, <1>3, <1>8 DEF ServiceInv, LockHeld
  <2>3. \A q \in Owner : pc'[q] \in Held => lock'[ProfileOf[q]] = q
    <3> SUFFICES ASSUME NEW q \in Owner, pc'[q] \in Held PROVE lock'[ProfileOf[q]] = q
      OBVIOUS
    <3>1. CASE q = o
      BY <1>0, <1>3, <3>1, TypeParts DEF ServiceInv, Held, Spawning
    <3>2. CASE q # o
      <4>1. pc[q] \in Held /\ lock[ProfileOf[q]] = q
        BY <1>0, <1>2, <3>2 DEF ServiceInv, LockHeld
      <4>2. ProfileOf[q] # ProfileOf[o]
        BY <2>1, <4>1
      <4> QED
        BY <1>0, <1>3, <4>1, <4>2, TypeParts DEF ServiceInv
    <3> QED
      BY <3>1, <3>2
  <2> QED
    BY <1>8, <2>2, <2>3 DEF LockHeld
<1>10. \A q \in Owner : Retired(q) => Retired(q)'
  BY <1>0, <1>1, <1>2 DEF Retired, Waiting
<1>11. ResumeKept'
  <2>1. rec'[o].state # "none" => Admits(o)
    BY <1>3 DEF NoRecord
  <2>2. admitted[o] # NoGrant
    BY DEF ServiceInv, ResumeKept
  <2>3. grant[o] = Resume /\ rec'[o].state # "none" => Retired(ResumeOf[o])
    BY <2>1, <2>2 DEF Admits, NotRemapped
  <2>4. pc'[o] \notin {"data", "lock"}
    BY <1>3
  <2> QED
    BY <1>0, <1>2, <1>10, <2>3, <2>4 DEF ServiceInv, ResumeKept
<1>12. HelpersStayClosed'
  BY <1>0, <1>2, <1>3 DEF ServiceInv, HelpersStayClosed, NoRecord
<1> QED
  BY <1>4, <1>5, <1>6, <1>7, <1>9, <1>11, <1>12 DEF ServiceInv

\* Leaving the scope: the lock is freed with a record that is true.
LEMMA InvLeave ==
    ASSUME ServiceInv, TypeOK', NEW o \in Owner, pc[o] \in Held, pc'[o] = "done",
           UNCHANGED <<service, grant, admitted, final>>,
           \A d \in Conn : d # o => pc'[d] = pc[d],
           \A q \in Owner : q # o => rec'[q] = rec[q] /\ child'[q] = child[q],
           lock' = [lock EXCEPT ![ProfileOf[o]] = NoConn],
           child'[o] = child[o] \/ (child'[o] = "alive" /\ final[o] = "none"),
           rec'[o].stopped => final[o] \in {"stopped", "failed"},
           rec'[o].stopped /\ rec'[o].helpersClosed => HelpersClosed(o),
           rec'[o].failure \/ final[o] = "stopped"
    PROVE  ServiceInv'
<1>0. /\ Owner \subseteq Conn /\ Helper \subseteq Conn /\ Owner \cap Helper = {}
      /\ \A q \in Owner : ResumeOf[q] \in Owner /\ ProfileOf[q] \in Profile
  BY ConnAssumption DEF Conn, Profile
<1>1. pc[o] # "done" /\ rec[o].state # "none"
  BY DEF ServiceInv, Fresh, Held, Spawning
<1>2. Fresh'
  BY <1>0 DEF ServiceInv, Fresh, Waiting, Spawning, Held
<1>3. FinalIsTrue' /\ StoppedIsTrue'
  BY DEF ServiceInv, FinalIsTrue, StoppedIsTrue
<1>4. AliveIsHeld'
  BY <1>0 DEF ServiceInv, AliveIsHeld, CleanUpFailed, FinalIsTrue
<1>5. LockHeld'
  <2>1. lock \in [Profile -> Owner \cup {NoConn}]
    BY TypeParts DEF ServiceInv
  <2>2. \A q \in Owner : q # o /\ pc[q] \in Held => ProfileOf[q] # ProfileOf[o]
    BY DEF ServiceInv, LockHeld
  <2>3. \A q \in Owner : pc'[q] \in Held => q # o /\ pc[q] \in Held
    BY <1>0 DEF Held, Spawning
  <2>4. \A q \in Owner : pc'[q] \in Held => lock'[ProfileOf[q]] = q
    BY <1>0, <2>1, <2>2, <2>3 DEF ServiceInv, LockHeld
  <2> QED
    BY <1>0, <2>3, <2>4 DEF ServiceInv, LockHeld
<1>6. \A q \in Owner : Retired(q) => Retired(q)'
  BY <1>0, <1>1 DEF Retired
<1>7. ResumeKept'
  BY <1>0, <1>1, <1>6 DEF ServiceInv, ResumeKept
<1>8. HelpersStayClosed'
  BY <1>0 DEF ServiceInv, HelpersStayClosed, HelpersClosed
<1> QED
  BY <1>2, <1>3, <1>4, <1>5, <1>7, <1>8 DEF ServiceInv

\* The clean-up of an owner, or of a helper, is cut off: the lock is free, the
\* backend may run on.
LEMMA InvCloseRaises ==
    ASSUME ServiceInv, NEW c \in Conn, CloseRaises(c)
    PROVE  ServiceInv'
<1> USE DEF serviceVars, leaseVars, guardVars
<1>0. /\ Owner \subseteq Conn /\ Helper \subseteq Conn /\ Owner \cap Helper = {}
      /\ NoConn \notin Conn /\ \A q \in Owner : ResumeOf[q] \in Owner /\ ProfileOf[q] \in Profile
      /\ "lost" \in Place
  BY ConnAssumption DEF Conn, Profile, Place, Ended
<1>1. /\ pc[c] = "close" /\ pc' = [pc EXCEPT ![c] = "lost"]
      /\ \A p \in Profile : lock'[p] = IF lock[p] = c THEN NoConn ELSE lock[p]
      /\ UNCHANGED <<service, receipts, policy, captureFailed, grant, admitted, gated, link, rec,
                     lease, child, channel, guardian, final>>
  BY DEF CloseRaises
<1>2. /\ pc' \in [Conn -> Place] /\ pc'[c] = "lost"
      /\ \A d \in Conn : d # c => pc'[d] = pc[d]
  BY <1>0, <1>1, MoveType DEF ServiceInv
<1>3. TypeOK'
  <2>1. lock' \in [Profile -> Owner \cup {NoConn}]
    BY TypeParts DEF CloseRaises, ServiceInv
  <2> QED
    BY <1>1, <1>2, <2>1 DEF ServiceInv, TypeOK, Place
<1>4. Fresh'
  BY <1>0, <1>1, <1>2 DEF ServiceInv, Fresh, Waiting, Spawning, Held
<1>5. FinalIsTrue' /\ StoppedIsTrue'
  BY <1>1 DEF ServiceInv, FinalIsTrue, StoppedIsTrue
<1>6. AliveIsHeld'
  BY <1>0, <1>1, <1>2 DEF ServiceInv, AliveIsHeld, CleanUpFailed
<1>7. LockHeld'
  <2>1. \A q \in Owner : pc'[q] \in Held => q # c /\ pc[q] \in Held
    BY <1>0, <1>2 DEF Held, Spawning
  <2>2. \A q \in Owner : pc'[q] \in Held => lock'[ProfileOf[q]] = q
    BY <1>0, <1>1, <2>1 DEF ServiceInv, LockHeld
  <2> QED
    BY <1>0, <1>1, <1>2, <2>1, <2>2 DEF ServiceInv, LockHeld
<1>8. \A q \in Owner : Retired(q) => Retired(q)'
  BY <1>0, <1>1, <1>2 DEF Retired
<1>9. ResumeKept'
  BY <1>0, <1>1, <1>2, <1>8 DEF ServiceInv, ResumeKept
<1>10. HelpersStayClosed'
  BY <1>0, <1>1, <1>2 DEF ServiceInv, HelpersStayClosed
<1> QED
  BY <1>3, <1>4, <1>5, <1>6, <1>7, <1>9, <1>10 DEF ServiceInv

\* ProxyServer.close cancels every task at once, those in their clean-up too.
LEMMA InvCancelTasks ==
    ASSUME ServiceInv, CancelTasks
    PROVE  ServiceInv'
<1> USE DEF leaseVars
<1>0. /\ Owner \subseteq Conn /\ Helper \subseteq Conn /\ Owner \cap Helper = {}
      /\ NoConn \notin Conn /\ \A q \in Owner : ResumeOf[q] \in Owner /\ ProfileOf[q] \in Profile
  BY ConnAssumption DEF Conn, Profile
<1>1. /\ service = "closing" /\ service' = "cancelled"
      /\ \A c \in Conn : pc'[c] = Cancelled(pc[c])
      /\ UNCHANGED <<receipts, policy, captureFailed, grant, admitted, gated, link, rec, lease, child,
                     guardian, final>>
  BY DEF CancelTasks
<1>2. \A p \in Profile :
        lock'[p] = IF lock[p] # NoConn /\ pc[lock[p]] \in {"close", "stop"}
                     THEN NoConn ELSE lock[p]
  BY DEF CancelTasks
<1>3. \A c \in Conn : pc[c] \in Place
  BY TypeParts DEF ServiceInv
<1>4. \A c \in Conn :
        /\ Cancelled(pc[c]) \in Place \ {"data", "lock", "close", "stop"}
        /\ Cancelled(pc[c]) = "relay" => pc[c] = "relay"
        /\ Cancelled(pc[c]) \in Waiting => pc[c] = "idle"
        /\ Cancelled(pc[c]) \in Spawning => pc[c] \in Spawning
        /\ Cancelled(pc[c]) \in Held => pc[c] \in Held \ {"close", "stop"}
        /\ Cancelled(pc[c]) = "truncated" => pc[c] \in {"stop", "truncated"}
        /\ Cancelled(pc[c]) = "done" => pc[c] \in {"data", "lock", "opening", "done"}
        /\ pc[c] \in Held => Cancelled(pc[c]) \in Held \cup {"truncated", "lost"}
        /\ pc[c] = "lost" => Cancelled(pc[c]) = "lost"
        /\ pc[c] = "done" => Cancelled(pc[c]) = "done"
        /\ pc[c] = "truncated" => Cancelled(pc[c]) = "truncated"
  <2> SUFFICES ASSUME NEW c \in Conn
               PROVE  <1>4!(c)
    OBVIOUS
  <2>1. CASE pc[c] \in {"data", "lock", "opening"}
    BY <2>1 DEF Cancelled, Place, Ended, Waiting, Spawning, Held
  <2>2. CASE pc[c] \in {"spawn", "spawnCancelled", "spawnLost", "poll", "pollCancelled"}
    BY <2>2 DEF Cancelled, Place, Active, Waiting, Spawning, Held
  <2>3. CASE pc[c] \in {"relay", "release", "close", "stop"}
    BY <2>3 DEF Cancelled, Place, Active, Ended, Waiting, Spawning, Held
  <2>4. CASE pc[c] \in Ended
    BY <2>4 DEF Cancelled, Place, Ended, Waiting, Spawning, Held
  <2> QED
    BY <1>3, <2>1, <2>2, <2>3, <2>4 DEF Place, Active
<1>5. TypeOK'
  <2>1. pc' \in [Conn -> Place]
    BY <1>4 DEF CancelTasks
  <2>2. lock' \in [Profile -> Owner \cup {NoConn}]
    BY TypeParts DEF CancelTasks, ServiceInv
  <2>3. channel' \in [Owner -> {"none", "open", "terminate", "closed"}]
    BY TypeParts DEF CancelTasks, ServiceInv
  <2> QED
    BY <1>1, <2>1, <2>2, <2>3 DEF ServiceInv, TypeOK, Place
<1>6. Fresh'
  BY <1>0, <1>1, <1>4 DEF ServiceInv, Fresh, Waiting
<1>7. FinalIsTrue' /\ StoppedIsTrue'
  BY <1>1 DEF ServiceInv, FinalIsTrue, StoppedIsTrue
<1>8. AliveIsHeld'
  BY <1>0, <1>1, <1>4 DEF ServiceInv, AliveIsHeld, CleanUpFailed
<1>9. LockHeld'
  <2>1. \A o \in Owner : pc'[o] \in Held => lock'[ProfileOf[o]] = o
    <3> SUFFICES ASSUME NEW o \in Owner, pc'[o] \in Held PROVE lock'[ProfileOf[o]] = o
      OBVIOUS
    <3>1. pc[o] \in Held \ {"close", "stop"} /\ lock[ProfileOf[o]] = o
      BY <1>0, <1>1, <1>4 DEF ServiceInv, LockHeld
    <3> QED
      BY <1>0, <1>2, <3>1
  <2>2. \A o \in Owner : pc[o] # "truncated"
    BY <1>1 DEF ServiceInv, LockHeld
  <2>3. \A o \in Owner : pc'[o] = "truncated" => pc[o] = "stop" /\ pc[o] \in Held
    BY <1>0, <1>1, <1>4, <2>2 DEF Held
  <2>4. \A o, q \in Owner : pc[o] \in Held /\ pc[q] \in Held /\ ProfileOf[o] = ProfileOf[q] => o = q
    BY DEF ServiceInv, LockHeld
  <2>5. \A o, q \in Owner : pc'[o] = "truncated" /\ o # q /\ ProfileOf[o] = ProfileOf[q]
           => pc'[q] \notin Held \cup {"truncated"}
    BY <1>0, <1>1, <1>4, <2>3, <2>4
  <2>6. \A c \in Conn : pc'[c] \notin {"data", "lock"}
    BY <1>1, <1>4
  <2> QED
    BY <1>1, <2>1, <2>5, <2>6 DEF LockHeld
<1>10. \A q \in Owner : Retired(q) => Retired(q)'
  BY <1>0, <1>1, <1>4 DEF Retired
<1>11. ResumeKept'
  BY <1>0, <1>1, <1>4, <1>10 DEF ServiceInv, ResumeKept
<1>12. HelpersStayClosed'
  BY <1>0, <1>1, <1>4 DEF ServiceInv, HelpersStayClosed
<1> QED
  BY <1>5, <1>6, <1>7, <1>8, <1>9, <1>11, <1>12 DEF ServiceInv

\* One connection's task, outside the scope of a lease.
LEMMA InvConnStep ==
    ASSUME ServiceInv, NEW c \in Conn, ConnStep(c)
    PROVE  ServiceInv'
<1> USE DEF serviceVars, connVars, leaseVars, guardVars
<1>0. {"done", "data", "idle", "release", "lost"} \subseteq Place
  BY DEF Place, Active, Ended
<1>1. ASSUME NEW to \in Place, pc' = [pc EXCEPT ![c] = to],
             UNCHANGED <<service, receipts, policy, captureFailed, grant, lock, gated, link, rec,
                         lease, guardVars>>,
             admitted' \in [Conn -> {NoGrant, Plain, Resume}]
      PROVE  /\ TypeOK' /\ pc'[c] = to
             /\ \A d \in Conn : d # c => pc'[d] = pc[d]
  <2>1. pc' \in [Conn -> Place]
    BY <1>1, TypeParts DEF ServiceInv
  <2> QED
    BY <1>1, <2>1, MoveType DEF ServiceInv, TypeOK, Place
<1>2. CASE TurnedAway(c)
  <2>1. TypeOK' /\ pc'[c] = "done" /\ \A d \in Conn : d # c => pc'[d] = pc[d]
    BY <1>0, <1>1, <1>2, TypeParts DEF TurnedAway, ServiceInv
  <2> QED
    BY <1>2, <2>1, InvMove DEF TurnedAway, Waiting
<1>3. CASE Accept(c)
  <2>1. PICK to \in {"data", "done"} : pc' = [pc EXCEPT ![c] = to] /\ (to = "data" => Admits(c))
    BY <1>3 DEF Accept
  <2>2. /\ admitted' \in [Conn -> {NoGrant, Plain, Resume}]
        /\ \A d \in Conn : d # c => admitted'[d] = admitted[d]
        /\ admitted[c] = NoGrant \/ admitted'[c] = admitted[c]
        /\ Admits(c) => admitted'[c] # NoGrant
    <3>1. /\ admitted \in [Conn -> {NoGrant, Plain, Resume}]
          /\ grant \in [Conn -> {NoGrant, Plain, Resume}]
      BY TypeParts DEF ServiceInv
    <3>2. admitted' = [admitted EXCEPT ![c] =
                         IF @ # NoGrant \/ (c \in Helper /\ ~Admits(c)) THEN @ ELSE grant[c]]
      BY <1>3 DEF Accept, AdmitRecords
    <3>3. Admits(c) => grant[c] # NoGrant
      BY DEF Admits
    <3> QED
      BY <3>1, <3>2, <3>3
  <2>3. TypeOK' /\ pc'[c] = to /\ \A d \in Conn : d # c => pc'[d] = pc[d]
    BY <1>0, <1>1, <1>3, <2>1, <2>2 DEF Accept
  <2>4. /\ pc[c] = "idle" /\ service = "serving"
        /\ UNCHANGED <<service, grant, lock, rec, child, final>>
    BY <1>3 DEF Accept
  <2> QED
    BY <2>1, <2>2, <2>3, <2>4, InvMove DEF Waiting
<1>4. CASE EmptyProbe(c)
  <2>1. TypeOK' /\ pc'[c] = "idle" /\ \A d \in Conn : d # c => pc'[d] = pc[d]
    BY <1>0, <1>1, <1>4, TypeParts DEF EmptyProbe, ServiceInv
  <2> QED
    BY <1>4, <2>1, InvMove DEF EmptyProbe
<1>5. CASE StartTimeout(c)
  <2>1. TypeOK' /\ pc'[c] = "done" /\ \A d \in Conn : d # c => pc'[d] = pc[d]
    BY <1>0, <1>1, <1>5, TypeParts DEF StartTimeout, ServiceInv
  <2> QED
    BY <1>5, <2>1, InvMove DEF StartTimeout, Waiting
<1>6. CASE EndRelay(c)
  <2>1. TypeOK' /\ pc'[c] = "release" /\ \A d \in Conn : d # c => pc'[d] = pc[d]
    BY <1>0, <1>1, <1>6, TypeParts DEF EndRelay, ServiceInv
  <2> QED
    BY <1>6, <2>1, InvMove DEF EndRelay
<1>7. CASE CloseRaises(c)
  BY <1>7, InvCloseRaises
<1> QED
  BY <1>2, <1>3, <1>4, <1>5, <1>6, <1>7 DEF ConnStep

\* One helper's task: it is relayed only to a backend that runs.
LEMMA InvHelperStep ==
    ASSUME ServiceInv, NEW h \in Helper, HelperStep(h)
    PROVE  ServiceInv'
<1> USE DEF serviceVars, connVars, leaseVars, guardVars
<1> USE DEF HelperStep, HelperData, HelperOpened, HelperRefused, ReleaseHelper, HelperCloseReturns
<1>0. /\ {"done", "opening", "relay", "release", "close"} \subseteq Place
      /\ h \in Conn /\ h \notin Owner /\ HelperOf[h] \in Owner
  BY ConnAssumption DEF Place, Active, Ended, Conn
<1>1. PICK to \in {"done", "opening", "relay", "release", "close"} :
        /\ pc' = [pc EXCEPT ![h] = to]
        /\ to = "relay" => child[HelperOf[h]] = "alive"
  BY DEF AfterConnect, BackendAnswers
<1>2. /\ pc[h] # "done"
      /\ UNCHANGED <<service, policy, captureFailed, grant, admitted, lock, rec, lease, child, channel,
                     guardian, final>>
  OBVIOUS
<1>3. /\ receipts' \subseteq Receipt /\ gated' \in [Helper -> BOOLEAN]
      /\ link' \in [Helper -> {"none", "listed", "late", "closed"}]
  <2>1. gated' = gated \/ gated' = [gated EXCEPT ![h] = GateFor(h)]
    OBVIOUS
  <2>2. receipts' = receipts \/ receipts' = receipts \cup {<<"helper", h>>}
    BY DEF Publish
  <2>3. gated' \in [Helper -> BOOLEAN]
    BY <2>1, TypeParts DEF ServiceInv, GateFor
  <2>4. link' = link \/ \E l \in {"listed", "late", "closed"} : link' = [link EXCEPT ![h] = l]
    BY DEF CloseLink, Listed
  <2>5. link' \in [Helper -> {"none", "listed", "late", "closed"}]
    BY <2>4, TypeParts DEF ServiceInv
  <2> QED
    BY <2>2, <2>3, <2>5, TypeParts DEF ServiceInv, Receipt
<1>4. /\ pc' \in [Conn -> Place] /\ pc'[h] = to
      /\ \A d \in Conn : d # h => pc'[d] = pc[d]
  BY <1>0, <1>1, MoveType DEF ServiceInv
<1>5. TypeOK'
  BY <1>2, <1>3, <1>4 DEF ServiceInv, TypeOK, Place, Receipt
<1> QED
  BY <1>0, <1>1, <1>2, <1>4, <1>5, InvMove

\* One owner's task: waiting, spawning, relaying, cleaning up.
LEMMA InvOwnerStep ==
    ASSUME ServiceInv, NEW o \in Owner, OwnerStep(o)
    PROVE  ServiceInv'
<1> USE DEF serviceVars, leaseVars, guardVars
<1>0. /\ o \in Conn /\ o \notin Helper /\ ProfileOf[o] \in Profile /\ ResumeOf[o] \in Owner
      /\ {"done", "lock", "spawnCancelled", "poll", "relay", "release"} \subseteq Place
      /\ TypeOK /\ rec[o] \in Record /\ pc[o] \in Place
  BY ConnAssumption, TypeParts DEF Conn, Profile, Place, Active, Ended, ServiceInv
<1>1. CASE OwnerData(o)
  <2>0. /\ Running /\ pc[o] = "data"
        /\ UNCHANGED <<service, policy, captureFailed, grant, admitted, gated, link, lease, guardVars>>
    BY <1>1 DEF OwnerData
  <2>1. CASE pc' = [pc EXCEPT ![o] = "done"] /\ UNCHANGED <<lock, rec, receipts>>
    <3>1. /\ pc' \in [Conn -> Place] /\ pc'[o] = "done"
          /\ \A d \in Conn : d # o => pc'[d] = pc[d]
      BY <1>0, <2>1, MoveType
    <3>2. TypeOK'
      BY <1>0, <2>0, <2>1, <3>1 DEF TypeOK, Place
    <3> QED
      BY <1>0, <2>0, <2>1, <3>1, <3>2, InvMove DEF Waiting
  <2>2. ResumeProof(o) => Retired(ResumeOf[o])
    BY <1>0 DEF ResumeProof, ProcessGone, Retired, ServiceInv, HelpersStayClosed
  <2>3. CASE Launch(o) /\ lock[ProfileOf[o]] = NoConn /\ (grant[o] = Resume => ResumeProof(o))
    BY <2>0, <2>2, <2>3, InvLaunch
  <2>4. CASE /\ pc' = [pc EXCEPT ![o] = "lock"] /\ UNCHANGED <<lock, rec, receipts>>
             /\ grant[o] = admitted[o] /\ (grant[o] = Resume => ResumeProof(o))
    <3>1. /\ pc' \in [Conn -> Place] /\ pc'[o] = "lock"
          /\ \A d \in Conn : d # o => pc'[d] = pc[d]
      BY <1>0, <2>4, MoveType
    <3>2. TypeOK'
      BY <1>0, <2>0, <2>4, <3>1 DEF TypeOK, Place
    <3>a. Owner \subseteq Conn /\ Helper \subseteq Conn /\ \A q \in Owner : ResumeOf[q] \in Owner
      BY ConnAssumption DEF Conn
    <3>3. Fresh' /\ FinalIsTrue' /\ StoppedIsTrue' /\ AliveIsHeld'
      BY <2>0, <2>4, <3>1, <3>a DEF ServiceInv, Fresh, Waiting, Spawning, Held, FinalIsTrue,
         StoppedIsTrue, AliveIsHeld, CleanUpFailed
    <3>4. LockHeld'
      BY <1>0, <2>0, <2>4, <3>1, <3>a DEF ServiceInv, LockHeld, Held, Spawning, Running
    <3>5. \A q \in Owner : Retired(q) => Retired(q)'
      BY <1>0, <2>0, <3>1, <3>a DEF Retired
    <3>6. ResumeKept'
      BY <2>0, <2>2, <2>4, <3>1, <3>5, <3>a DEF ServiceInv, ResumeKept
    <3>7. HelpersStayClosed'
      BY <1>0, <2>4, <3>1, <3>a DEF ServiceInv, HelpersStayClosed
    <3> QED
      BY <3>2, <3>3, <3>4, <3>6, <3>7 DEF ServiceInv
  <2> QED
    BY <1>1, <2>1, <2>3, <2>4 DEF OwnerData
<1>2. CASE AcquireLock(o)
  <2>1. admitted[o] = Resume => Retired(ResumeOf[o])
    BY <1>2 DEF AcquireLock, ServiceInv, ResumeKept
  <2> QED
    BY <1>2, <2>1, InvLaunch DEF AcquireLock
<1>3. CASE SpawnReturns(o)
  <2>0. /\ pc[o] \in Spawning
        /\ child' = [child EXCEPT ![o] = "alive"] /\ guardian' = [guardian EXCEPT ![o] = "watching"]
        /\ UNCHANGED <<serviceVars, grant, lock, gated, link, lease, final>>
    BY <1>3 DEF SpawnReturns, Spawning
  <2>1. /\ child' \in [Owner -> {"none", "alive", "gone"}] /\ child'[o] = "alive"
        /\ \A q \in Owner : q # o => child'[q] = child[q]
        /\ guardian' \in [Owner -> {"none", "watching", "exited", "killed"}]
    BY <1>0, <2>0, TypeParts
  <2>2. /\ channel' \in [Owner -> {"none", "open", "terminate", "closed"}]
        /\ pc' \in [Conn -> Place] /\ pc'[o] \in {"poll", "stop"}
        /\ \A d \in Conn : d # o => pc'[d] = pc[d]
        /\ rec' \in [Owner -> Record] /\ rec'[o].state # "none" /\ rec'[o].stopped = rec[o].stopped
        /\ \A q \in Owner : q # o => rec'[q] = rec[q]
        /\ admitted' \in [Conn -> {NoGrant, Plain, Resume}]
        /\ \A q \in Owner : admitted'[q] = admitted[q]
        /\ lease' \in [Owner -> {"none", "open", "closed"}]
    <3>1. CASE /\ pc' = [pc EXCEPT ![o] = "poll"] /\ channel' = [channel EXCEPT ![o] = "open"]
               /\ UNCHANGED <<admitted, lease, rec>>
      <4>1. rec[o].state # "none"
        BY <2>0 DEF ServiceInv, Fresh, Held
      <4>2. channel' \in [Owner -> {"none", "open", "terminate", "closed"}]
        BY <1>0, <3>1, TypeParts
      <4>3. /\ pc' \in [Conn -> Place] /\ pc'[o] = "poll"
            /\ \A d \in Conn : d # o => pc'[d] = pc[d]
        BY <1>0, <3>1, MoveType
      <4> QED
        BY <1>0, <3>1, <4>1, <4>2, <4>3, TypeParts
    <3>2. CASE /\ \E st \in {"closing", "failed"} : rec' = [rec EXCEPT ![o].state = st]
               /\ BeginStop(o) /\ UNCHANGED lease
      <4>1. /\ rec' \in [Owner -> Record] /\ rec'[o].state # "none"
            /\ rec'[o].stopped = rec[o].stopped
            /\ \A q \in Owner : q # o => rec'[q] = rec[q]
        BY <1>0, <3>2, StateFacts DEF RecordStates
      <4> QED
        BY <1>0, <3>2, <4>1, BeginStopFacts, TypeParts
    <3> QED
      BY <1>3, <3>1, <3>2 DEF SpawnReturns
  <2>3. TypeOK'
    BY <1>0, <2>0, <2>1, <2>2 DEF TypeOK, Place, Record, RecordStates
  <2> QED
    BY <2>0, <2>1, <2>2, <2>3, InvScope DEF Held, Spawning
<1>4. CASE SpawnFails(o)
  <2>0. /\ pc[o] \in Spawning /\ pc[o] \in Held /\ final[o] = "none"
        /\ UNCHANGED <<service, policy, captureFailed, grant, admitted, gated, link, lease, final>>
    BY <1>4 DEF SpawnFails, Spawning, Held, ServiceInv, Fresh
  <2>1. /\ child' \in [Owner -> {"none", "alive", "gone"}]
        /\ child'[o] = child[o] \/ child'[o] = "alive"
        /\ \A q \in Owner : q # o => child'[q] = child[q]
        /\ guardian' \in [Owner -> {"none", "watching", "exited", "killed"}]
        /\ channel' \in [Owner -> {"none", "open", "terminate", "closed"}]
    <3>1. CASE UNCHANGED <<child, channel, guardian>>
      BY <1>0, <3>1, TypeParts
    <3>2. CASE /\ child' = [child EXCEPT ![o] = "alive"]
               /\ channel' = [channel EXCEPT ![o] = "closed"]
               /\ guardian' = [guardian EXCEPT ![o] = "watching"]
      BY <1>0, <3>2, TypeParts
    <3> QED
      BY <1>4, <3>1, <3>2 DEF SpawnFails
  <2>2. PICK removed \in BOOLEAN :
          rec' = [rec EXCEPT ![o] =
                [state   |-> IF pc[o] = "spawnLost" THEN "closed" ELSE "failed",
                 stopped |-> FALSE, removed |-> removed, failure |-> TRUE,
                 helpersClosed |-> TRUE]]
    BY <1>4 DEF SpawnFails
  <2>3. /\ rec' \in [Owner -> Record] /\ ~rec'[o].stopped /\ rec'[o].failure
        /\ \A q \in Owner : q # o => rec'[q] = rec[q]
    BY <1>0, <2>2, TypeParts DEF Record, RecordStates
  <2>4. receipts' \subseteq Receipt
    BY <1>0, <1>4, TypeParts DEF SpawnFails, Publish, Receipt
  <2>5. lock' = [lock EXCEPT ![ProfileOf[o]] = NoConn] /\ lock' \in [Profile -> Owner \cup {NoConn}]
    BY <1>0, <1>4, TypeParts DEF SpawnFails
  <2>6. /\ pc' \in [Conn -> Place] /\ pc'[o] = "done"
        /\ \A d \in Conn : d # o => pc'[d] = pc[d]
    BY <1>0, <1>4, MoveType DEF SpawnFails
  <2>7. TypeOK'
    BY <1>0, <2>0, <2>1, <2>3, <2>4, <2>5, <2>6 DEF TypeOK, Place, Record, RecordStates, Receipt
  <2> QED
    BY <2>0, <2>1, <2>3, <2>5, <2>6, <2>7, InvLeave, ZenonT(60)
<1>5. CASE SpawnTimeout(o)
  <2>1. /\ pc' \in [Conn -> Place] /\ pc'[o] = "spawnCancelled"
        /\ \A d \in Conn : d # o => pc'[d] = pc[d]
    BY <1>0, <1>5, MoveType DEF SpawnTimeout
  <2>2. TypeOK'
    BY <1>0, <1>5, <2>1 DEF SpawnTimeout, TypeOK, Place
  <2> QED
    BY <1>0, <1>5, <2>1, <2>2, InvMove DEF SpawnTimeout, Spawning
<1>6. CASE Connected(o)
  <2>0. /\ pc[o] = "poll" /\ rec' = [rec EXCEPT ![o].state = "connected"]
        /\ receipts' = receipts \cup {<<"connected", o>>}
        /\ pc' = [pc EXCEPT ![o] = AfterConnect]
        /\ UNCHANGED <<service, policy, captureFailed, grant, admitted, lock, gated, link, lease,
                       guardVars>>
    BY <1>6 DEF Connected, Publish
  <2>1. AfterConnect \in {"release", "relay"}
    BY DEF AfterConnect
  <2>2. /\ pc' \in [Conn -> Place] /\ pc'[o] \in {"release", "relay"}
        /\ \A d \in Conn : d # o => pc'[d] = pc[d]
    BY <1>0, <2>0, <2>1, MoveType
  <2> DEFINE r == [rec[o] EXCEPT !.state = "connected"]
  <2>3. r \in Record /\ r.state = "connected" /\ r.stopped = rec[o].stopped
    BY <1>0, RecordState DEF RecordStates
  <2> HIDE DEF r
  <2>4. rec' = [rec EXCEPT ![o] = r]
    BY <1>0, <2>0, TypeParts DEF r
  <2>5. rec' \in [Owner -> Record] /\ rec'[o] = r /\ \A q \in Owner : q # o => rec'[q] = rec[q]
    BY <1>0, <2>3, <2>4, TypeParts
  <2>6. receipts' \subseteq Receipt
    BY <1>0, <2>0, TypeParts DEF Receipt
  <2>7. TypeOK'
    BY <1>0, <2>0, <2>2, <2>5, <2>6 DEF TypeOK, Place, Record, RecordStates, Receipt
  <2> QED
    BY <2>0, <2>2, <2>3, <2>5, <2>7, InvScope DEF Held, Spawning
<1>7. CASE PollEnds(o)
  <2>0. /\ pc[o] \in Held \ Spawning /\ BeginStop(o)
        /\ UNCHANGED <<serviceVars, grant, lock, gated, link, lease, child, guardian, final>>
    BY <1>7 DEF PollEnds, Held, Spawning
  <2>1. /\ rec' \in [Owner -> Record] /\ rec'[o].state # "none"
        /\ rec'[o].stopped = rec[o].stopped
        /\ \A q \in Owner : q # o => rec'[q] = rec[q]
    <3>1. PICK st \in {"closing", "failed"} : rec' = [rec EXCEPT ![o].state = st]
      BY <1>7 DEF PollEnds
    <3> QED
      BY <1>0, <3>1, StateFacts DEF RecordStates
  <2>2. /\ pc' \in [Conn -> Place] /\ pc'[o] = "stop"
        /\ \A d \in Conn : d # o => pc'[d] = pc[d]
        /\ admitted' \in [Conn -> {NoGrant, Plain, Resume}]
        /\ \A q \in Owner : admitted'[q] = admitted[q]
        /\ channel' \in [Owner -> {"none", "open", "terminate", "closed"}]
    BY <1>0, <2>0, BeginStopFacts
  <2>3. TypeOK'
    BY <1>0, <2>0, <2>1, <2>2 DEF TypeOK, Place, Record, RecordStates
  <2> QED
    BY <2>0, <2>1, <2>2, <2>3, InvScope DEF Held, Spawning
<1>10. CASE ReleaseOwner(o) \/ OwnerCloseReturns(o)
  <2>0. /\ pc[o] \in Held \ Spawning /\ CloseNext(o)
        /\ UNCHANGED <<serviceVars, grant, lock, gated, rec, child, guardian, final>>
    BY <1>10 DEF ReleaseOwner, OwnerCloseReturns, Held, Spawning
  <2>1. rec[o].state # "none"
    BY <2>0 DEF ServiceInv, Fresh
  <2>2. lease' \in [Owner -> {"none", "open", "closed"}]
    BY <1>0, <1>10, TypeParts DEF ReleaseOwner, OwnerCloseReturns
  <2>3. /\ pc' \in [Conn -> Place] /\ pc'[o] \in {"close", "stop"}
        /\ \A d \in Conn : d # o => pc'[d] = pc[d]
        /\ admitted' \in [Conn -> {NoGrant, Plain, Resume}]
        /\ \A q \in Owner : admitted'[q] = admitted[q]
        /\ channel' \in [Owner -> {"none", "open", "terminate", "closed"}]
        /\ link' \in [Helper -> {"none", "listed", "late", "closed"}]
    BY <1>0, <2>0, CloseNextFacts
  <2>4. TypeOK'
    BY <1>0, <2>0, <2>2, <2>3 DEF TypeOK, Place
  <2> QED
    BY <2>0, <2>1, <2>3, <2>4, InvScope DEF Held, Spawning
<1>8. CASE PublishReady(o)
  <2>0. /\ pc[o] = "relay"
        /\ UNCHANGED <<service, policy, grant, admitted, lock, gated, link, rec, guardVars>>
    BY <1>8 DEF PublishReady
  <2>1. /\ pc' \in [Conn -> Place] /\ pc'[o] \in {"relay", "release"}
        /\ \A d \in Conn : d # o => pc'[d] = pc[d]
    <3>1. CASE pc' = pc
      BY <1>0, <2>0, <3>1, TypeParts
    <3>2. CASE pc' = [pc EXCEPT ![o] = "release"]
      BY <1>0, <3>2, MoveType
    <3> QED
      BY <1>8, <3>1, <3>2 DEF PublishReady
  <2>2. receipts' \subseteq Receipt
    BY <1>0, <1>8, TypeParts DEF PublishReady, Publish, Receipt
  <2>3. lease' \in [Owner -> {"none", "open", "closed"}] /\ captureFailed' \in BOOLEAN
    BY <1>0, <1>8, TypeParts DEF PublishReady
  <2>4. TypeOK'
    BY <1>0, <2>0, <2>1, <2>2, <2>3 DEF TypeOK, Place, Receipt
  <2> QED
    BY <1>0, <2>0, <2>1, <2>4, InvMove
<1>9. CASE Stopped(o)
  <2>0. /\ pc[o] = "stop" /\ pc[o] \in Held
        /\ channel' = [channel EXCEPT ![o] = "closed"]
        /\ receipts' = receipts \cup {<<"backend", o>>}
        /\ lock' = [lock EXCEPT ![ProfileOf[o]] = NoConn]
        /\ pc' = [pc EXCEPT ![o] = "done"]
        /\ UNCHANGED <<service, policy, captureFailed, grant, admitted, gated, link,
                       lease, child, guardian, final>>
    BY <1>9 DEF Stopped, Publish, Held
  <2>1. PICK removed \in BOOLEAN :
          rec' = [rec EXCEPT ![o] =
                [state   |-> IF @.state = "failed" THEN "failed" ELSE "closed",
                 stopped |-> Outcome(o).stopped,
                 removed |-> removed,
                 failure |-> Outcome(o).failure,
                 helpersClosed |-> HelpersClosed(o)]]
    BY <1>9 DEF Stopped
  <2> DEFINE r == [state   |-> IF rec[o].state = "failed" THEN "failed" ELSE "closed",
                   stopped |-> Outcome(o).stopped,
                   removed |-> removed,
                   failure |-> Outcome(o).failure,
                   helpersClosed |-> HelpersClosed(o)]
  <2>2. /\ r \in Record
        /\ r.stopped = (final[o] \in {"stopped", "failed"})
        /\ r.failure = (final[o] # "stopped")
        /\ r.helpersClosed = HelpersClosed(o)
    BY DEF Record, RecordStates, Outcome, HelpersClosed
  <2>3. rec' = [rec EXCEPT ![o] = r]
    BY <1>0, <2>1, TypeParts
  <2> HIDE DEF r
  <2>4. rec' \in [Owner -> Record] /\ rec'[o] = r /\ \A q \in Owner : q # o => rec'[q] = rec[q]
    BY <1>0, <2>2, <2>3, TypeParts
  <2>5. /\ receipts' \subseteq Receipt /\ lock' \in [Profile -> Owner \cup {NoConn}]
        /\ channel' \in [Owner -> {"none", "open", "terminate", "closed"}]
    BY <1>0, <2>0, TypeParts DEF Receipt
  <2>6. /\ pc' \in [Conn -> Place] /\ pc'[o] = "done"
        /\ \A d \in Conn : d # o => pc'[d] = pc[d]
    BY <1>0, <2>0, MoveType
  <2>7. TypeOK'
    BY <1>0, <2>0, <2>4, <2>5, <2>6 DEF TypeOK, Place, Record, RecordStates, Receipt
  <2> QED
    BY <2>0, <2>2, <2>4, <2>6, <2>7, InvLeave
<1> QED
  BY <1>1, <1>2, <1>3, <1>4, <1>5, <1>6, <1>7, <1>8, <1>9, <1>10 DEF OwnerStep

\* No step makes a guardian without a child, or a child that never was.
LEMMA GuardedNext == TypeOK /\ Guarded /\ [Next]_vars => Guarded'
<1> SUFFICES ASSUME TypeOK, Guarded, [Next]_vars PROVE Guarded'
  OBVIOUS
<1> USE DEF serviceVars, connVars, leaseVars, guardVars
<1>1. ASSUME UNCHANGED <<child, guardian>> PROVE Guarded'
  BY <1>1 DEF Guarded
<1>2. ASSUME NEW c \in Conn, ConnStep(c) \/ Regrant(c) PROVE Guarded'
  BY <1>1, <1>2 DEF ConnStep, TurnedAway, Accept, EmptyProbe, StartTimeout, EndRelay,
     CloseRaises, Regrant
<1>3. ASSUME NEW h \in Helper, HelperStep(h) PROVE Guarded'
  BY <1>1, <1>3 DEF HelperStep, HelperData, HelperOpened, HelperRefused, ReleaseHelper,
     HelperCloseReturns
<1>4. ASSUME NEW o \in Owner, OwnerStep(o) PROVE Guarded'
  <2>1. CASE SpawnReturns(o)
    BY <2>1 DEF SpawnReturns, Guarded, TypeOK
  <2>2. CASE SpawnFails(o)
    <3>1. CASE UNCHANGED <<child, channel, guardian>>
      BY <1>1, <3>1
    <3>2. CASE child' = [child EXCEPT ![o] = "alive"] /\ guardian' = [guardian EXCEPT ![o] = "watching"]
      BY <3>2 DEF Guarded, TypeOK
    <3> QED
      BY <2>2, <3>1, <3>2 DEF SpawnFails
  <2>3. CASE ~SpawnReturns(o) /\ ~SpawnFails(o)
    <3>1. UNCHANGED <<child, guardian>>
      BY <1>4, <2>3 DEF OwnerStep, OwnerData, AcquireLock, SpawnTimeout, Connected, PollEnds,
         PublishReady, ReleaseOwner, OwnerCloseReturns, Stopped
    <3> QED
      BY <1>1, <3>1
  <2> QED
    BY <2>1, <2>2, <2>3
<1>5. ASSUME NEW o \in Owner,
             GuardianStops(o) \/ ChildExits(o) \/ GuardianKilled(o) \/ HandleCollected(o)
      PROVE  Guarded'
  BY <1>5 DEF HandleCollected, GuardianStops, ChildExits, GuardianKilled, Guarded, TypeOK
<1>6. CASE ActivateListener \/ Start \/ StartFails \/ Close \/ CancelTasks \/ FinishClose \/ Exit
           \/ PolicyChanges
  BY <1>1, <1>6 DEF ActivateListener, Start, StartFails, Close, CancelTasks, FinishClose, Exit,
     PolicyChanges
<1> QED
  BY <1>1, <1>2, <1>3, <1>4, <1>5, <1>6 DEF Next, Environment, vars

\* Every step of the service and of its surroundings keeps the invariant.
LEMMA InvNext == ServiceInv /\ Guarded /\ [Next]_vars => ServiceInv'
<1> SUFFICES ASSUME ServiceInv, Guarded, [Next]_vars PROVE ServiceInv'
  OBVIOUS
<1> USE DEF serviceVars, connVars, leaseVars, guardVars
<1>1. CASE \E c \in Conn : ConnStep(c)
  BY <1>1, InvConnStep
<1>2. CASE \E o \in Owner : OwnerStep(o)
  BY <1>2, InvOwnerStep
<1>3. CASE \E h \in Helper : HelperStep(h)
  BY <1>3, InvHelperStep
<1>4. CASE ActivateListener \/ Start \/ StartFails \/ Close \/ FinishClose
  <2>1. /\ UNCHANGED <<policy, captureFailed, connVars, leaseVars, guardVars>>
        /\ service \notin {"closed", "dead"} /\ (service = "cancelled" <=> service' = "closed")
        /\ service' \in {"activated", "serving", "closing", "closed"}
    BY <1>4 DEF ActivateListener, Start, StartFails, Close, FinishClose
  <2>2. receipts' \subseteq Receipt
    BY <1>4, TypeParts DEF ActivateListener, Start, StartFails, Close, FinishClose, Publish, Receipt,
       ServiceInv
  <2>3. TypeOK'
    BY <2>1, <2>2 DEF ServiceInv, TypeOK, Receipt
  <2> QED
    BY <2>1, <2>3, InvService
<1>5. CASE CancelTasks
  BY <1>5, InvCancelTasks
<1>6. CASE Exit
  <2>1. channel' \in [Owner -> {"none", "open", "terminate", "closed"}]
    BY <1>6, TypeParts DEF Exit, ServiceInv
  <2>2. TypeOK'
    BY <1>6, <2>1 DEF Exit, ServiceInv, TypeOK
  <2> QED
    BY <1>6, <2>2, InvService DEF Exit
<1>7. CASE PolicyChanges
  <2>1. TypeOK'
    BY <1>7 DEF PolicyChanges, ServiceInv, TypeOK
  <2> QED
    BY <1>7, <2>1, InvService DEF PolicyChanges
<1>8. CASE \E c \in Conn : Regrant(c)
  BY <1>8, InvRegrant
<1>9. ASSUME NEW o \in Owner, GuardianStops(o)
      PROVE  ServiceInv'
  <2>0. /\ guardian' = [guardian EXCEPT ![o] = "exited"]
        /\ UNCHANGED <<serviceVars, connVars, leaseVars, channel>>
    BY <1>9 DEF GuardianStops
  <2>1. guardian' \in [Owner -> {"none", "watching", "exited", "killed"}]
    BY <2>0, TypeParts DEF ServiceInv
  <2>2. /\ child' \in [Owner -> {"none", "alive", "gone"}]
        /\ final' \in [Owner -> {"none", "stopped", "failed", "unreaped"}]
        /\ \A q \in Owner : q # o => child'[q] = child[q] /\ final'[q] = final[q]
        /\ child'[o] = "gone" \/ (child'[o] = child[o] /\ final'[o] = "unreaped")
    <3>1. CASE \E f \in {"stopped", "failed"} :
                 child' = [child EXCEPT ![o] = "gone"] /\ final' = [final EXCEPT ![o] = f]
      BY <3>1, TypeParts DEF ServiceInv
    <3>2. CASE final' = [final EXCEPT ![o] = "unreaped"] /\ UNCHANGED child
      BY <3>2, TypeParts DEF ServiceInv
    <3> QED
      BY <1>9, <3>1, <3>2 DEF GuardianStops
  <2>3. TypeOK'
    BY <2>0, <2>1, <2>2 DEF ServiceInv, TypeOK
  <2>4. child[o] # "none"
    BY <1>9 DEF GuardianStops, Guarded
  <2> QED
    BY <2>0, <2>2, <2>3, <2>4, InvChild
<1>10. ASSUME NEW o \in Owner, ChildExits(o)
       PROVE  ServiceInv'
  <2>1. /\ child' \in [Owner -> {"none", "alive", "gone"}]
        /\ child'[o] = "gone" /\ \A q \in Owner : q # o => child'[q] = child[q]
    BY <1>10, TypeParts DEF ChildExits, ServiceInv
  <2>2. TypeOK'
    BY <1>10, <2>1 DEF ChildExits, ServiceInv, TypeOK
  <2> QED
    BY <1>10, <2>1, <2>2, InvChild DEF ChildExits
<1>11. ASSUME NEW o \in Owner, GuardianKilled(o)
       PROVE  ServiceInv'
  <2>1. guardian' \in [Owner -> {"none", "watching", "exited", "killed"}]
    BY <1>11, TypeParts DEF GuardianKilled, ServiceInv
  <2>2. TypeOK'
    BY <1>11, <2>1 DEF GuardianKilled, ServiceInv, TypeOK
  <2> QED
    BY <1>11, <2>2, InvService DEF GuardianKilled
<1>12. CASE UNCHANGED vars
  <2>1. TypeOK'
    BY <1>12 DEF vars, ServiceInv, TypeOK
  <2> QED
    BY <1>12, <2>1, InvService DEF vars
<1>13. ASSUME NEW o \in Owner, HandleCollected(o)
       PROVE  ServiceInv'
  <2>1. channel' \in [Owner -> {"none", "open", "terminate", "closed"}]
    BY <1>13, TypeParts DEF HandleCollected, ServiceInv
  <2>2. TypeOK'
    BY <1>13, <2>1 DEF HandleCollected, ServiceInv, TypeOK
  <2> QED
    BY <1>13, <2>2, InvService DEF HandleCollected
<1> QED
  BY <1>1, <1>2, <1>3, <1>4, <1>5, <1>6, <1>7, <1>8, <1>9, <1>10, <1>11, <1>12, <1>13
     DEF Next, Environment

-----------------------------------------------------------------------------
(* What the locks, the guardians and the resume proof guarantee *)

\* The invariant holds in every reachable state.
LEMMA ServiceInvariant == Spec => []ServiceInv
<1>1. Init => Guarded
  BY DEF Init, Guarded
<1>2. ServiceInv => TypeOK
  BY DEF ServiceInv
<1> QED
  BY <1>1, <1>2, InvInit, InvNext, GuardedNext, PTL DEF Spec

\* The tables of the service, its files and its processes keep their types.
THEOREM TypeCorrect == Spec => []TypeOK
<1>1. ServiceInv => TypeOK
  BY DEF ServiceInv
<1> QED
  BY <1>1, ServiceInvariant, PTL

\* GuardedChild.outcome: a record that says process_stopped is true, however
\* the start, the cancellation and the guardian interleave.
THEOREM StoppedRecordsAreTrue == Spec => []StoppedIsTrue
<1>1. ServiceInv => StoppedIsTrue
  BY DEF ServiceInv
<1> QED
  BY <1>1, ServiceInvariant, PTL

\* _profile_locks: two backends of one profile run together only when the
\* clean-up of one of them failed, whether that is on its record or was cut off
\* before there was a record, also through cancellation.
THEOREM ProfileIsExclusive == Spec => []ProfileExclusive
<1>1. ServiceInv => ProfileExclusive
  BY DEF ServiceInv, ProfileExclusive, AliveIsHeld, LockHeld
<1> QED
  BY <1>1, ServiceInvariant, PTL

\* _resume_owner_proof: what it proved of the thread's previous owner still
\* holds when the lock has been waited for and the backend runs.
THEOREM ThreadOwnedOnce == Spec => []ThreadHasOneOwner
<1>1. ServiceInv => ThreadHasOneOwner
  BY DEF ServiceInv, ThreadHasOneOwner, ResumeKept, Retired
<1> QED
  BY <1>1, ServiceInvariant, PTL
=============================================================================
