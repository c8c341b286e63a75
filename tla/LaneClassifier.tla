--------------------------- MODULE LaneClassifier ---------------------------
(***************************************************************************)
(* lane_classifier.py: the two gates in front of an automatic merge.       *)
(* classify_lane is modelled as the compute_disposition path calls it,     *)
(* with the observed world supplied.                                       *)
(***************************************************************************)
EXTENDS DependencyEvaluator

\* _evaluate_open_dependencies: positive confirmation of every declaration.
NoOpenDependency(item, world) ==
    /\ UnrepresentedGateLabels(item) = {}
    /\ \A d \in Declared(item) : EvaluateDependency(d, world) = "satisfied"

\* _evaluate_gate_a: an observation that is None fails its check.
GateA(item, world) ==
    /\ item.change.condition # "draft"
    /\ NoOpenDependency(item, world)
    /\ item.change.mergeable = TRUE
    /\ item.change.ci_green = TRUE
    /\ item.change.security_threads = 0

\* _match_lane: exactly one lane label.
MatchLane(item) == \E lane \in LaneLabels : item.labels \cap LaneLabels = {lane}

ClassifyLane_AbsenceIsClean(item, world) ==   \* mutant: "not red" taken for green
    /\ item.change # None
    /\ item.change.condition # "draft"
    /\ NoOpenDependency(item, world)
    /\ item.change.mergeable # FALSE
    /\ item.change.ci_green # FALSE
    /\ item.change.security_threads = 0
    /\ MatchLane(item)

\* classify_lane(...).eligible
ClassifyLane(item, world) ==
    /\ item.change # None
    /\ GateA(item, world)
    /\ MatchLane(item)

=============================================================================
