--------------------------- MODULE MCWireEvidence ---------------------------
(* The connections share nothing but the length of the observer's queue, so   *)
(* a behaviour follows one of them and lets the others only add rows.         *)
EXTENDS WireEvidence

CONSTANT Helper

VARIABLE focus  \* the connection a behaviour follows

OtherRows == rows < MaxEvents - 1 /\ Observed(1) /\ UNCHANGED <<ev, past, helperVars, odd>>

MCInit == Init /\ focus \in Owner \cup {Helper}

MCNext ==
    /\ UNCHANGED focus
    /\ \/ OtherRows
       \/ focus = Helper /\ HelperStep
       \/ \E o \in Owner : focus = o /\ OwnerStep(o)

MCSpec == MCInit /\ [][MCNext]_<<vars, focus>>
=============================================================================
