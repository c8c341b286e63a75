------------------------------ MODULE Admission ------------------------------
(***************************************************************************)
(* admission.py: the gate in front of opening a change for an item.        *)
(***************************************************************************)
EXTENDS DependencyEvaluator

CONSTANT WipCeiling

\* The gates of can_admit, by the reason they deny with.
DenialReasons == {"carries_change", "stage", "wip", "blocked"}

ASSUME CeilingAssumption ==
    /\ WipCeiling \in Nat \ {0}
    /\ None \notin DenialReasons

\* A change is charged once, to the record that carries it.
InFlight(items) ==
    {i \in DOMAIN items : items[i].stage = "in_flight" /\ items[i].change # None}

CurrentWip(items) == Cardinality(InFlight(items))

CanAdmit_NoCeiling(items, world, id) ==   \* mutant: the WIP gate dropped
    CASE items[id].change # None                    -> "carries_change"
      [] items[id].stage \notin PreChangeStages     -> "stage"
      [] IsItemBlocked(items[id], world)            -> "blocked"
      [] OTHER                                      -> None

\* can_admit: the reason for denying, or None.  The conditions are tried in
\* this order.
CanAdmit(items, world, id) ==
    IF items[id].change # None THEN "carries_change"
    ELSE IF items[id].stage \notin PreChangeStages THEN "stage"
    ELSE IF CurrentWip(items) >= WipCeiling THEN "wip"
    ELSE IF IsItemBlocked(items[id], world) THEN "blocked"
    ELSE None

=============================================================================
