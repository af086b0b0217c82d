------------------------------ MODULE EventLog ------------------------------
(***************************************************************************)
(* What a source host promises the ledger about its events: the host       *)
(* produces a sequence of events, the coordinator commits them one by one, *)
(* each exactly once and in the order in which they were produced.         *)
(* Crashes, lost connections and repeated messages are invisible here.     *)
(***************************************************************************)
EXTENDS Naturals, Sequences

CONSTANT Segment     \* the segments of one host, each with its own spool

VARIABLES produced,  \* the segments of the host's events, in their order
          committed  \* the segments of the events in runtime_events

Init ==
    /\ produced = << >>
    /\ committed = << >>

\* A worker of segment s has an event durably recorded.
Produce(s) ==
    /\ produced' = Append(produced, s)
    /\ UNCHANGED committed

\* The next event becomes part of the ledger.
Commit ==
    /\ Len(committed) < Len(produced)
    /\ committed' = Append(committed, produced[Len(committed) + 1])
    /\ UNCHANGED produced

Next == Commit \/ \E s \in Segment : Produce(s)

Spec == Init /\ [][Next]_<<produced, committed>>

=============================================================================
