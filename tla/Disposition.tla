----------------------------- MODULE Disposition -----------------------------
(***************************************************************************)
(* disposition.py: compute_disposition, the total function from an item,   *)
(* the graph it belongs to and the observed world to its verdict.          *)
(***************************************************************************)
EXTENDS Stage, LaneClassifier

\* The actions that obligations name for a missed deadline.
Reverts == {v.revert_action : v \in Obligations}

\* The change conditions, reached only in flight and unblocked.
DispositionOfChange(item, world) ==
    CASE item.change.condition = "conflicted" -> Act("resolve_conflicts")
      [] item.change.condition = "ci_red"     -> Act("fix_ci")
      [] item.change.condition = "draft"      -> Act("advance_draft")
      [] item.change.condition = "ci_pending" -> Terminal
      [] OTHER -> IF ClassifyLane(item, world) THEN Act("automerge") ELSE Terminal

BlockedOn(items, world, id) == Blocked(Chain(items, world, id))

DispositionPreChange(items, world, id) ==
    IF IsItemBlocked(items[id], world) THEN BlockedOn(items, world, id)
    ELSE Act("create_pr")

\* An item that only names its change defers to the record that carries it.
DispositionInFlight_ConditionFirst(items, world, id) ==   \* mutant: chain checked last
    IF items[id].change # None
    THEN DispositionOfChange(items[id], world)
    ELSE IF IsItemBlocked(items[id], world) THEN BlockedOn(items, world, id)
    ELSE Terminal

DispositionInFlight(items, world, id) ==
    IF IsItemBlocked(items[id], world) THEN BlockedOn(items, world, id)
    ELSE IF items[id].change = None THEN Terminal
    ELSE DispositionOfChange(items[id], world)

\* An obligation that still waits names its own predicate; past its deadline
\* the action it names for that is due.
DispositionMerged(item, world) ==
    IF \/ EvaluateVerification(item, world) = "undecidable"
       \/ DeadlinePassed(item, world) = None
    THEN Undecidable
    ELSE IF DeadlinePassed(item, world) THEN Act(item.verification.revert_action)
    ELSE Blocked(<<item.verification.predicate>>)

\* _STAGE_DISPATCH, over the effective stage.
DispatchOnStage(items, world, id) ==
    LET stage == EffectiveStage(items, world, id)
    IN  CASE stage \in PreChangeStages -> DispositionPreChange(items, world, id)
          [] stage = "in_flight"       -> DispositionInFlight(items, world, id)
          [] stage = "merged"          -> DispositionMerged(items[id], world)
          [] OTHER                     -> Terminal

\* compute_disposition.  The order of the rules is the code's: ownership and
\* exclusion first, honest degradation before any stage logic.
ComputeDisposition(items, world, id) ==
    LET item == items[id]
    IN  IF item.human_owned \/ item.do_not_groom \/ item.stage \in TerminalStages
        THEN Terminal
        ELSE IF \/ item.additional_refs
                \/ InState(item, world, "undecidable") # {}
                \/ UnrepresentedGateLabels(item) # {}
        THEN Undecidable
        ELSE DispatchOnStage(items, world, id)

=============================================================================
