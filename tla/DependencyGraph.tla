--------------------------- MODULE DependencyGraph ---------------------------
(***************************************************************************)
(* dependency_graph.py: the walks over item-pointing dependencies.         *)
(*                                                                         *)
(* items is a function from the carried ids to items.  The two walks are   *)
(* recursive functions of the path walked so far, exactly as the code      *)
(* carries it; a walk that raises DependencyCycleError has the value       *)
(* Cycle.  The second half states what the walks compute without walking:  *)
(* the reconciler is built on it.                                          *)
(***************************************************************************)
EXTENDS DependencyEvaluator, SequencesExt

CONSTANT Cycle   \* DependencyCycleError

Entry(dep, world) == [dep |-> dep, state |-> EvaluateDependency(dep, world)]

Entries == [dep : Declarable, state : DepStates]

\* A raised error is neither a chain nor a closure.
ASSUME CycleAssumption ==
    /\ Cycle \notin Seq(Declarable)
    /\ \A S \in SUBSET Entries : Cycle # S

ItemPointingKinds == {"issue_terminal", "pr_terminal"}

Points(dep, items) == dep.kind \in ItemPointingKinds /\ dep.target \in DOMAIN items

FirstBlocker_OrUndecidable(item, world) ==   \* mutant: undecidable blocks too
    SelectInSeq(item.deps,
                LAMBDA d : EvaluateDependency(d, world) # "satisfied")

FirstBlocker(item, world) ==
    SelectInSeq(item.deps,
                LAMBDA d : EvaluateDependency(d, world) = "unsatisfied")

Chain_OneHop(items, world, id) ==   \* mutant: names the first hop, not the root cause
    LET n == FirstBlocker(items[id], world)
    IN  IF n = 0 THEN <<>> ELSE <<items[id].deps[n]>>

\* The walked paths: from the item asked about to the one being looked at.
Paths(items) == Seq(DOMAIN items) \ {<<>>}

\* _chain: the first definite blocker in declaration order, then, when it is
\* a carried item, the chain of that item.
ChainStep(chain, items, world, path) ==
    LET item == items[Last(path)]
        n    == FirstBlocker(item, world)
        dep  == item.deps[n]
        sub  == chain[Append(path, dep.target)]
    IN  CASE n = 0 -> <<>>
          [] n > 0 /\ ~Points(dep, items) -> <<dep>>
          [] n > 0 /\ Points(dep, items) /\ Contains(path, dep.target) -> Cycle
          [] OTHER -> IF sub = Cycle THEN Cycle ELSE <<dep>> \o sub

Chain(items, world, id) ==
    LET chain[path \in Paths(items)] == ChainStep(chain, items, world, path)
    IN  chain[<<id>>]

\* What a walk makes of the declarations followed and of the walks below.
ClosureStep(walk, items, world, path, followed) ==
    LET targets == {d.target : d \in {e \in followed : Points(e, items)}}
        below   == {walk[Append(path, t)] : t \in targets \ Range(path)}
    IN  IF targets \cap Range(path) # {} \/ Cycle \in below THEN Cycle
        ELSE {Entry(d, world) : d \in Declared(items[Last(path)])} \cup UNION below

WalkClosure_OnlyUnsatisfied(items, world, id) ==   \* mutant: stops at satisfied edges
    LET walk[path \in Paths(items)] ==
          ClosureStep(walk, items, world, path,
                      InState(items[Last(path)], world, "unsatisfied"))
    IN  walk[<<id>>]

WalkClosure_OnlySatisfied(items, world, id) ==   \* mutant: stops at blockers
    LET walk[path \in Paths(items)] ==
          ClosureStep(walk, items, world, path,
                      InState(items[Last(path)], world, "satisfied"))
    IN  walk[<<id>>]

\* _walk_closure: every declared dependency, followed whether or not it is
\* satisfied.  An edge back into the path raises and discards the walk, so
\* the order of the declarations does not matter here.
WalkClosure(items, world, id) ==
    LET walk[path \in Paths(items)] ==
          ClosureStep(walk, items, world, path, Declared(items[Last(path)]))
    IN  walk[<<id>>]

-----------------------------------------------------------------------------
(* The same, without walking.                                               *)

PointsTo(items, id) ==
    {d.target : d \in {e \in Declared(items[id]) : Points(e, items)}}

Closed(items, S) == \A j \in S : PointsTo(items, j) \subseteq S

\* The least closed set of carried items that contains id.
Reachable(items, id) ==
    {j \in DOMAIN items :
        \A S \in SUBSET DOMAIN items : id \in S /\ Closed(items, S) => j \in S}

\* Some item reachable from id reaches itself.
CycleReachable(items, id) ==
    \E j \in Reachable(items, id) :
        \E k \in PointsTo(items, j) : j \in Reachable(items, k)

ReachableDeps(items, id) ==
    UNION {Declared(items[j]) : j \in Reachable(items, id)}

ClosureState_OwnOnly(items, world, id) ==   \* mutant: only the item's own declarations
    {Entry(d, world) : d \in Declared(items[id])}

\* What closure_state returns when it does not raise.
ClosureState(items, world, id) ==
    {Entry(d, world) : d \in ReachableDeps(items, id)}

=============================================================================
