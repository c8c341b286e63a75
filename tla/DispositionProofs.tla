-------------------------- MODULE DispositionProofs --------------------------
(***************************************************************************)
(* What compute_disposition guarantees for every graph, world and choice   *)
(* of the constants: it is total, its terminal and acting verdicts have    *)
(* the causes the documentation names, and honest degradation holds.       *)
(***************************************************************************)
EXTENDS DispositionProperties, GraphProofs

\* effective_stage answers with a stage.
LEMMA StageType ==
    ASSUME NEW items, NEW world, NEW id, items[id].stage \in ItemStages
    PROVE  EffectiveStage(items, world, id) \in ItemStages
<1>1. {"proposed", "ready", "verified", "merged"} \subseteq ItemStages
  BY DEF ItemStages, STAGE_ORDER, Range
<1> QED
  BY <1>1 DEF EffectiveStage, PreChangeStages

\* The kinds of the stage handlers' verdicts.
LEMMA HandlerKinds ==
    ASSUME NEW items, NEW world, NEW id
    PROVE  /\ DispositionOfChange(items[id], world).kind \in {"act", "terminal"}
           /\ DispositionPreChange(items, world, id).kind \in {"act", "blocked"}
           /\ DispositionInFlight(items, world, id).kind
                 \in {"act", "blocked", "terminal"}
           /\ DispositionMerged(items[id], world).kind
                 \in {"act", "blocked", "undecidable"}
<1>1. DispositionOfChange(items[id], world).kind \in {"act", "terminal"}
  BY DEF DispositionOfChange, Act, Terminal
<1>2. DispositionPreChange(items, world, id).kind \in {"act", "blocked"}
  BY DEF DispositionPreChange, BlockedOn, Act, Blocked
<1>3. DispositionInFlight(items, world, id).kind \in {"act", "blocked", "terminal"}
  BY <1>1 DEF DispositionInFlight, BlockedOn, Blocked, Terminal
<1>4. DispositionMerged(items[id], world).kind \in {"act", "blocked", "undecidable"}
  BY DEF DispositionMerged, Act, Blocked, Undecidable
<1> QED
  BY <1>1, <1>2, <1>3, <1>4

LEMMA DispatchKind ==
    ASSUME NEW items, NEW world, NEW id
    PROVE  DispatchOnStage(items, world, id).kind \in DispositionKinds
BY HandlerKinds DEF DispatchOnStage, DispositionKinds, Terminal

\* compute_disposition is total: whatever the item, the graph and the world, the
\* verdict has one of the four kinds (§5.1).
THEOREM DispositionIsTotal ==
    ASSUME NEW items, NEW world, NEW id
    PROVE  ComputeDisposition(items, world, id).kind \in DispositionKinds
BY DispatchKind DEF ComputeDisposition, DispositionKinds, Terminal, Undecidable

\* Rules 1 to 3: ownership, exclusion and terminal stages need nothing evaluated.
LEMMA CarvedOutIsTerminal ==
    ASSUME NEW items, NEW world, NEW id,
           \/ items[id].human_owned
           \/ items[id].do_not_groom
           \/ items[id].stage \in TerminalStages
    PROVE  ComputeDisposition(items, world, id) = Terminal
BY DEF ComputeDisposition

-----------------------------------------------------------------------------
(* Acting needs every declared condition.                                   *)

LEMMA UnblockedIsSatisfied ==
    ASSUME NEW item, NEW world,
           InState(item, world, "undecidable") = {},
           ~IsItemBlocked(item, world)
    PROVE  \A d \in Declared(item) : EvaluateDependency(d, world) = "satisfied"
BY EvaluationType DEF InState, IsItemBlocked, DepStates

\* Only what an obligation names for a missed deadline may be emitted while a
\* declared dependency is open, and no action at all under an undeclared gate label.
LEMMA ActIsUnblocked ==
    ASSUME NEW items, NEW world, NEW id, items[id] \in Items,
           ComputeDisposition(items, world, id).kind = "act",
           ComputeDisposition(items, world, id).action \notin Reverts
    PROVE  /\ \A d \in Declared(items[id]) :
                 EvaluateDependency(d, world) = "satisfied"
           /\ UnrepresentedGateLabels(items[id]) = {}
<1> DEFINE dispatched == DispatchOnStage(items, world, id)
<1>1. /\ ComputeDisposition(items, world, id) = dispatched
      /\ InState(items[id], world, "undecidable") = {}
      /\ UnrepresentedGateLabels(items[id]) = {}
  BY DEF ComputeDisposition, Terminal, Undecidable
<1>2. ~IsItemBlocked(items[id], world)
  <2> SUFFICES ASSUME IsItemBlocked(items[id], world)
               PROVE  dispatched.kind # "act" \/ dispatched.action \in Reverts
    BY <1>1
  <2>1. DispositionPreChange(items, world, id).kind = "blocked"
    BY DEF DispositionPreChange, BlockedOn, Blocked
  <2>2. DispositionInFlight(items, world, id).kind = "blocked"
    BY DEF DispositionInFlight, BlockedOn, Blocked
  <2>3. \/ DispositionMerged(items[id], world).kind # "act"
        \/ DispositionMerged(items[id], world).action \in Reverts
    <3>1. \/ items[id].verification = None
          \/ items[id].verification.revert_action \in Reverts
      BY DEF Items, Reverts
    <3> QED
      BY <3>1 DEF DispositionMerged, DeadlinePassed, Act, Blocked, Undecidable
  <2> QED
    BY <2>1, <2>2, <2>3 DEF DispatchOnStage, Terminal
<1> QED
  BY <1>1, <1>2, UnblockedIsSatisfied

-----------------------------------------------------------------------------
(* Honest degradation.                                                      *)

LEMMA SurfaceType == \A k \in DependencyKinds : SurfaceOf[k] \in Surfaces
BY DEF DependencyKinds, SurfaceOf, Surfaces

\* What a dark world decides about a dependency, the revealed world decides too.
LEMMA DecidedIsStable ==
    ASSUME NEW v, NEW w, Reveals(v, w),
           NEW dep, dep.kind \in DependencyKinds,
           EvaluateDependency(dep, v) # "undecidable"
    PROVE  EvaluateDependency(dep, w) = EvaluateDependency(dep, v)
<1> DEFINE s == SurfaceOf[dep.kind]
<1>1. s \in Surfaces
  BY SurfaceType
<1>2. v[s] # None /\ w[s] = v[s]
  BY <1>1 DEF Reveals, EvaluateDependency
<1>3. dep.kind = "date" => s = "today"
  BY DEF SurfaceOf
<1>4. Holds(dep, w) = Holds(dep, v)
  BY <1>2, <1>3 DEF Holds
<1> QED
  BY <1>2, <1>4 DEF EvaluateDependency

LEMMA DecidedItemIsStable ==
    ASSUME NEW v, NEW w, Reveals(v, w),
           NEW item, \A d \in Declared(item) : d.kind \in DependencyKinds,
           InState(item, v, "undecidable") = {}
    PROVE  /\ InState(item, w, "undecidable") = {}
           /\ IsItemBlocked(item, w) = IsItemBlocked(item, v)
<1>1. \A d \in Declared(item) :
          /\ EvaluateDependency(d, v) # "undecidable"
          /\ EvaluateDependency(d, w) = EvaluateDependency(d, v)
  BY DecidedIsStable DEF InState
<1>2. InState(item, w, "undecidable") = InState(item, v, "undecidable")
  BY <1>1 DEF InState
<1>3. InState(item, w, "unsatisfied") = InState(item, v, "unsatisfied")
  BY <1>1 DEF InState
<1> QED
  BY <1>2, <1>3 DEF IsItemBlocked

\* A merged item's verdict, once it is not UNDECIDABLE, and its stage are decided
\* by the surfaces of the predicate and the clock alone.
LEMMA MergedIsStable ==
    ASSUME NEW v, NEW w, Reveals(v, w),
           NEW item \in Items,
           item.verification # None,
           EvaluateVerification(item, v) # "undecidable"
    PROVE  /\ EvaluateVerification(item, w) = EvaluateVerification(item, v)
           /\ DeadlinePassed(item, v) # None =>
                 DeadlinePassed(item, w) = DeadlinePassed(item, v)
<1>1. item.verification \in Obligations
  BY DEF Items
<1>2. item.verification.predicate.kind \in DependencyKinds
  BY <1>1, VocabularyAssumption DEF IsObligation, IsDependency
<1>3. EvaluateVerification(item, w) = EvaluateVerification(item, v)
  BY <1>2, DecidedIsStable DEF EvaluateVerification
<1>4. v.today # None => w.today = v.today
  BY DEF Reveals, Surfaces
<1> QED
  BY <1>3, <1>4 DEF DeadlinePassed

\* Honest degradation, for every graph and every pair of worlds: a verdict other
\* than UNDECIDABLE is the verdict of every world that reports more.
THEOREM DarknessIsHonest ==
    ASSUME NEW items, NEW world, NEW id, items[id] \in Items
    PROVE  DarknessNeverDecides(items, world, id)
<1> DEFINE item == items[id]
           dark == ComputeDisposition(items, world, id)
<1> SUFFICES ASSUME NEW w \in Worlds, Reveals(world, w), dark.kind # "undecidable"
             PROVE  SameVerdict(dark, ComputeDisposition(items, w, id))
  BY DEF DarknessNeverDecides
<1>1. CASE item.human_owned \/ item.do_not_groom \/ item.stage \in TerminalStages
  BY <1>1, CarvedOutIsTerminal DEF SameVerdict
<1>2. CASE ~(item.human_owned \/ item.do_not_groom \/ item.stage \in TerminalStages)
  <2>1. /\ ~item.additional_refs
        /\ InState(item, world, "undecidable") = {}
        /\ UnrepresentedGateLabels(item) = {}
        /\ dark = DispatchOnStage(items, world, id)
    BY <1>2 DEF ComputeDisposition, Undecidable
  <2>2. /\ InState(item, w, "undecidable") = {}
        /\ IsItemBlocked(item, w) = IsItemBlocked(item, world)
    BY <2>1, DeclaredKinds, DecidedItemIsStable
  <2>3. ComputeDisposition(items, w, id) = DispatchOnStage(items, w, id)
    BY <1>2, <2>1, <2>2 DEF ComputeDisposition
  <2>4. \A d \in Declared(item) :
           /\ EvaluateDependency(d, world) # "undecidable"
           /\ EvaluateDependency(d, w) = EvaluateDependency(d, world)
    BY <2>1, DeclaredKinds, DecidedIsStable DEF InState
  <2>5. CASE item.stage \in PreChangeStages
    <3>1. \A u : DispatchOnStage(items, u, id) = DispositionPreChange(items, u, id)
      BY <2>5 DEF DispatchOnStage, EffectiveStage, PreChangeStages
    <3> QED
      BY <3>1, <2>1, <2>2, <2>3
      DEF SameVerdict, DispositionPreChange, BlockedOn, Blocked, Act
  <2>6. CASE item.stage = "in_flight"
    <3>1. \A u : DispatchOnStage(items, u, id) = DispositionInFlight(items, u, id)
      BY <2>6 DEF DispatchOnStage, EffectiveStage, PreChangeStages
    <3>2. ClassifyLane(item, w) = ClassifyLane(item, world)
      BY <2>4 DEF ClassifyLane, GateA, NoOpenDependency
    <3>3. DispositionOfChange(item, w) = DispositionOfChange(item, world)
      BY <3>2 DEF DispositionOfChange
    <3> QED
      BY <3>1, <3>3, <2>1, <2>2, <2>3
      DEF SameVerdict, DispositionInFlight, BlockedOn, Blocked
  <2>7. CASE item.stage = "merged"
    <3>1. \A u : EffectiveStage(items, u, id) =
                   IF EvaluateVerification(item, u) \in {None, "satisfied"}
                   THEN "verified" ELSE "merged"
      BY <2>7 DEF EffectiveStage, PreChangeStages
    <3>2. CASE item.verification = None
      <4>1. \A u : EvaluateVerification(item, u) = None
        BY <3>2 DEF EvaluateVerification
      <4>2. \A u : EffectiveStage(items, u, id) = "verified"
        BY <4>1, <3>1
      <4> QED
        BY <4>2, <2>1, <2>3 DEF DispatchOnStage, PreChangeStages, SameVerdict
    <3>3. CASE item.verification # None
      <4>1. CASE EffectiveStage(items, world, id) = "verified"
        <5>1. EvaluateVerification(item, world) = "satisfied"
                 \/ EvaluateVerification(item, world) = None
          BY <4>1, <3>1
        <5>2. EvaluateVerification(item, world) # "undecidable"
          BY <5>1, WorldAssumption DEF DepStates
        <5>3. EffectiveStage(items, w, id) = "verified"
          BY <5>1, <5>2, <3>1, <3>3, MergedIsStable
        <5> QED
          BY <4>1, <5>3, <2>1, <2>3 DEF DispatchOnStage, PreChangeStages, SameVerdict
      <4>2. CASE EffectiveStage(items, world, id) = "merged"
        <5>1. dark = DispositionMerged(item, world)
          BY <4>2, <2>1 DEF DispatchOnStage, PreChangeStages
        <5>2. /\ EvaluateVerification(item, world) # "undecidable"
              /\ DeadlinePassed(item, world) # None
          BY <5>1 DEF DispositionMerged, Undecidable
        <5>3. /\ EvaluateVerification(item, w) = EvaluateVerification(item, world)
              /\ DeadlinePassed(item, w) = DeadlinePassed(item, world)
          BY <5>2, <3>3, MergedIsStable
        <5>4. EffectiveStage(items, w, id) = "merged"
          BY <4>2, <5>3, <3>1
        <5>5. DispatchOnStage(items, w, id) = DispositionMerged(item, w)
          BY <5>4 DEF DispatchOnStage, PreChangeStages
        <5> QED
          BY <5>1, <5>3, <5>5, <2>3 DEF SameVerdict, DispositionMerged
      <4> QED
        BY <4>1, <4>2, <3>1
    <3> QED
      BY <3>2, <3>3
  <2>8. CASE item.stage \notin PreChangeStages \cup {"in_flight", "merged"}
    <3>1. \A u : DispatchOnStage(items, u, id) = Terminal
      BY <2>8 DEF DispatchOnStage, EffectiveStage
    <3> QED
      BY <3>1, <2>1, <2>3 DEF SameVerdict
  <2> QED
    BY <2>5, <2>6, <2>7, <2>8
<1> QED
  BY <1>1, <1>2

-----------------------------------------------------------------------------
(* Positive confirmation.                                                   *)

\* An item reported ready is ready in every world that reports more, whatever
\* the graph behind it: the closure that made it so is decided.
THEOREM ReadinessIsHonest ==
    ASSUME NEW items, NEW world, NEW id,
           id \in DOMAIN items,
           \A j \in DOMAIN items : items[j] \in Items
    PROVE  ReadyIsEstablished(items, world, id)
<1> DEFINE item == items[id]
<1> SUFFICES ASSUME NEW w \in Worlds, Reveals(world, w),
                    item.stage \in PreChangeStages,
                    EffectiveStage(items, world, id) = "ready"
             PROVE  EffectiveStage(items, w, id) = "ready"
  BY DEF ReadyIsEstablished
<1>1. ~ClosureUndecidable(items, world, id) /\ ~IsItemBlocked(item, world)
  BY DEF EffectiveStage
<1>2. /\ \A d \in ReachableDeps(items, id) : d.kind \in DependencyKinds
      /\ Declared(item) \subseteq ReachableDeps(items, id)
  BY DeclaredKinds DEF ReachableDeps, Reachable
<1>3. \A d \in ReachableDeps(items, id) :
          /\ EvaluateDependency(d, world) # "undecidable"
          /\ EvaluateDependency(d, w) = EvaluateDependency(d, world)
  BY <1>1, <1>2, DecidedIsStable DEF ClosureUndecidable
<1>4. ~ClosureUndecidable(items, w, id)
  BY <1>3 DEF ClosureUndecidable
<1>5. ~IsItemBlocked(item, w)
  BY <1>1, <1>2, <1>3 DEF IsItemBlocked, InState
<1> QED
  BY <1>4, <1>5 DEF EffectiveStage

\* Only the handler of a clean change ever merges, but for an obligation that says so.
LEMMA MergeComesFromClean ==
    ASSUME NEW items, NEW world, NEW id, items[id] \in Items,
           ComputeDisposition(items, world, id) = Act("automerge"),
           items[id].stage # "merged"
    PROVE  items[id].change.condition = "clean" /\ ClassifyLane(items[id], world)
<1> DEFINE item == items[id]
<1>1. DispatchOnStage(items, world, id) = Act("automerge")
  BY DEF ComputeDisposition, Act, Terminal, Undecidable
<1>2. /\ DispositionPreChange(items, world, id) # Act("automerge")
      /\ EffectiveStage(items, world, id) # "merged"
  BY DEF DispositionPreChange, BlockedOn, Blocked, Act, EffectiveStage, PreChangeStages
<1>3. DispositionInFlight(items, world, id) = Act("automerge")
  BY <1>1, <1>2 DEF DispatchOnStage, Act, Terminal
<1>4. item.change # None /\ DispositionOfChange(item, world) = Act("automerge")
  BY <1>3 DEF DispositionInFlight, BlockedOn, Blocked, Act, Terminal
<1>5. item.change.condition \in ChangeConditions
  BY <1>4, VocabularyAssumption DEF Items, IsChange
<1>6. /\ item.change.condition \notin {"conflicted", "ci_red", "draft", "ci_pending"}
      /\ ClassifyLane(item, world)
  BY <1>4 DEF DispositionOfChange, Act, Terminal
<1> QED
  BY <1>5, <1>6 DEF ChangeConditions

\* Every automatic merge rests on positive confirmation, for every item, graph
\* and world (lane_classifier.py: Gates A and B).
THEOREM AutomergeNeedsConfirmation ==
    ASSUME NEW items, NEW world, NEW id, items[id] \in Items
    PROVE  AutomergeIsConfirmed(items, world, id)
<1> DEFINE item == items[id]
<1> SUFFICES ASSUME ComputeDisposition(items, world, id) = Act("automerge"),
                    item.stage # "merged"
             PROVE  /\ item.change.condition = "clean"
                    /\ item.change.mergeable = TRUE
                    /\ item.change.ci_green = TRUE
                    /\ item.change.security_threads = 0
                    /\ Cardinality(item.labels \cap LaneLabels) = 1
                    /\ item.labels \cap GateLabels # {} => item.deps # <<>>
                    /\ InState(item, world, "satisfied") = Declared(item)
  BY DEF AutomergeIsConfirmed
<1>1. item.change.condition = "clean" /\ GateA(item, world) /\ MatchLane(item)
  BY MergeComesFromClean DEF ClassifyLane
<1>2. Cardinality(item.labels \cap LaneLabels) = 1
  BY <1>1, FS_Singleton DEF MatchLane
<1>3. item.labels \cap GateLabels # {} => item.deps # <<>>
  BY <1>1 DEF GateA, NoOpenDependency, UnrepresentedGateLabels, Declared, Range
<1>4. InState(item, world, "satisfied") = Declared(item)
  BY <1>1 DEF GateA, NoOpenDependency, InState
<1> QED
  BY <1>1, <1>2, <1>3, <1>4 DEF GateA

=============================================================================
