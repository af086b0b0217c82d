----------------------------- MODULE MCTaskStore -----------------------------
(***************************************************************************)
(* Small instances of TaskStore for TLC: values of its constants, and      *)
(* action constraints that keep a run to the part of the interface its     *)
(* question is about.                                                      *)
(***************************************************************************)
EXTENDS TaskStore, TLC

\* A chain 1 <- 2 <- 3.
ChainDeps == [t \in Task |-> IF t \in {2, 3} THEN {t - 1} ELSE {}]
NoDeps == [t \in Task |-> {}]

\* A plan may list its tasks in another order than the scan.
Reversed == [t \in Task |-> 10 - t]

One == [t \in Task |-> 1]
Two == [t \in Task |-> 2]
Three == [t \in Task |-> 3]
TwoThenThree == [t \in Task |-> t + 1]
TwoThenOne == [t \in Task |-> 3 - t]
\* A negative report and one beyond every grant are settled as the grant.
OddReports == {-1, 1, 4}
OwnLaunch == [t \in Task |-> IF t = 1 THEN "l1" ELSE "l2"]
SameLaunch == [t \in Task |-> CHOOSE l \in Launch : TRUE]
OwnGroup == [t \in Task |-> t]
OneGroup == [t \in Task |-> CHOOSE g \in Group : TRUE]
Reviewed == [t \in Task |-> "owner_review"]
Mixed == [t \in Task |-> CASE t = 1 -> "artifact"
                            [] t = 2 -> "exit_success_fixture"
                            [] OTHER -> "owner_review"]
NoKeys == [t \in Task |-> << {} >>]
TwoSlots == {[global |-> 2, cap |-> [r \in Resource |-> 0]]}

\* A task's first payload uses both resources, its fallback only the second.
TwoPayloads == [t \in Task |-> << {"r1", "r2"}, {"r2"} >>]
\* One limit leaves the slots to the resources, the other tightens them.
FleetLimits == {[global |-> 2, cap |-> [r \in Resource |-> IF r = "r1" THEN 1 ELSE 2]],
                [global |-> 1, cap |-> [r \in Resource |-> 0]]}

\* A host process has no name but its own.
ProcSymmetry == Permutations(Proc)

\* Bound: hosts register once, stay connected and are not retired.
StableHosts ==
    /\ \A l \in Launch : host'[l] # host[l] => host[l] = "none"
    /\ retiring' = {}

\* Bound: a host's worker reports nothing between its launch and its outcome.
SilentWorkers ==
    \A s \in Segment :
        /\ seg'[s].st \notin {"prepared", "spawned", "running"}
        /\ ~ seg'[s].session
        /\ seg'[s].cap = 0

\* Bound: workers ask no questions.
NoQuestions == \A s \in Segment : question'[s].st = "none"

\* Bound: nobody stops a worker, and none is lost track of.
NoStops == \A s \in Segment : seg'[s].stop = "none" /\ seg'[s].st # "unknown"

\* Bound: exit is the last event of a segment, and it has one outcome event
\* besides a requested stop.
OrderlyWorkers ==
    /\ \A s \in Segment : seg[s].st = "exited" => seg'[s] = seg[s]
    /\ \A e \in events' \ events :
           /\ seg[e[1]].st # "exited"
           /\ seg[e[1]].outcome \in {"none", "stopped"}
           /\ \A f \in events : f[1] # e[1]
=============================================================================
