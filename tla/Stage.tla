-------------------------------- MODULE Stage --------------------------------
(***************************************************************************)
(* stage.py: where an item actually is.  ready and verified are derived    *)
(* from the world, never trusted as recorded.                              *)
(***************************************************************************)
EXTENDS DependencyGraph

EvaluateVerification(item, world) ==
    IF item.verification = None THEN None
    ELSE EvaluateDependency(item.verification.predicate, world)

\* None when there is no obligation or the world reported no date.
DeadlinePassed(item, world) ==
    IF item.verification = None \/ world.today = None THEN None
    ELSE world.today >= item.verification.deadline

ClosureUndecidable(items, world, id) ==
    \E d \in ReachableDeps(items, id) : EvaluateDependency(d, world) = "undecidable"

EffectiveStage_OwnOnly(items, world, id) ==   \* mutant: only definite blockers looked at
    LET item == items[id]
    IN  CASE item.stage \in PreChangeStages ->
               IF IsItemBlocked(item, world) THEN "proposed" ELSE "ready"
          [] item.stage = "merged" ->
               IF EvaluateVerification(item, world) \in {None, "satisfied"}
               THEN "verified" ELSE "merged"
          [] OTHER -> item.stage

\* effective_stage.  Called only where closure_state did not raise, and then
\* "the blocking chain is not empty" is IsItemBlocked (BlockedIsOwn of
\* GraphProofs).
EffectiveStage(items, world, id) ==
    LET item == items[id]
    IN  CASE item.stage \in PreChangeStages ->
               IF \/ ClosureUndecidable(items, world, id)
                  \/ IsItemBlocked(item, world)
               THEN "proposed" ELSE "ready"
          [] item.stage = "merged" ->
               IF EvaluateVerification(item, world) \in {None, "satisfied"}
               THEN "verified" ELSE "merged"
          [] OTHER -> item.stage

=============================================================================
