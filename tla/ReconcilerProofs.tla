--------------------------- MODULE ReconcilerProofs ---------------------------
(***************************************************************************)
(* The reconciler's promises, for every set of items, every declaration    *)
(* graph, every world and any number of passes.                            *)
(***************************************************************************)
EXTENDS ReconcilerProperties, DispositionProofs

-----------------------------------------------------------------------------
(* What one item of the loop produces.                                      *)

LEMMA ReachableFacts ==
    ASSUME NEW i \in DOMAIN items
    PROVE  /\ i \in Reachable(items, i)
           /\ Reachable(items, i) \subseteq DOMAIN items
           /\ Declared(items[i]) \subseteq ReachableDeps(items, i)
<1>1. i \in Reachable(items, i) /\ Reachable(items, i) \subseteq DOMAIN items
  BY DEF Reachable
<1> QED
  BY <1>1 DEF ReachableDeps

LEMMA ClosureType ==
    ASSUME TypeOK, NEW i \in DOMAIN items
    PROVE  ClosureOf(i) \in (SUBSET Entries) \cup {None}
<1>1. \A j \in Reachable(items, i) : Declared(items[j]) \subseteq Declarable
  BY ReachableFacts, DeclaredKinds DEF TypeOK
<1>2. ReachableDeps(items, i) \subseteq Declarable
  BY <1>1 DEF ReachableDeps
<1>3. \A d \in ReachableDeps(items, i) : Entry(d, world) \in Entries
  BY <1>2, EvaluationType DEF Entry, Entries
<1>4. ClosureState(items, world, i) \subseteq Entries
  BY <1>3 DEF ClosureState
<1> QED
  BY <1>4 DEF ClosureOf

LEMMA VerdictType ==
    ASSUME TypeOK, NEW i \in DOMAIN items
    PROVE  /\ FinalVerdict(i).kind \in DispositionKinds
           /\ Given(i).kind \in DispositionKinds
<1>1. Fresh(i).kind \in DispositionKinds
  BY DispositionIsTotal DEF Fresh
<1>2. Replayed(i) => store[i].verdict.kind \in DispositionKinds
  BY DEF Replayed, ShouldSkip, TypeOK, IsRecord
<1>3. VerdictOf(i).kind \in DispositionKinds
  BY <1>1, <1>2 DEF VerdictOf, Undecidable, DispositionKinds
<1>4. FinalVerdict(i).kind \in DispositionKinds
  BY <1>1, <1>3 DEF FinalVerdict
<1>5. Given(i) = FinalVerdict(i) \/ Given(i).kind = "blocked"
  BY DEF Given, Blocked
<1> QED
  BY <1>4, <1>5 DEF DispositionKinds

LEMMA StageOfType ==
    ASSUME TypeOK, NEW i \in DOMAIN items
    PROVE  StageOf(i) \in ItemStages
<1>1. items[i].stage \in ItemStages
  BY DEF TypeOK, Items
<1> QED
  BY <1>1, StageType DEF StageOf

LEMMA DenialType ==
    ASSUME NEW i PROVE Denial(i) \in DenialReasons \cup {None}
BY DEF Denial, CanAdmit, DenialReasons

\* A stamp map only ever grows by entries that carry the time of this pass.
LEMMA SetDefaultType ==
    ASSUME NEW f, IsStamps(f), NEW keys, NEW t \in Times
    PROVE  IsStamps(SetDefault(f, keys, t))
BY DEF IsStamps, SetDefault

LEMMA RecordType ==
    ASSUME TypeOK, NEW i \in DOMAIN items
    PROVE  IsRecord(RecordOf(i, items[i], store, generation, ClosureOf(i),
                             VerdictToRecord(i), StageOf(i), observed_at))
<1> DEFINE r == RecordOf(i, items[i], store, generation, ClosureOf(i),
                         VerdictToRecord(i), StageOf(i), observed_at)
<1>1. r.generation \in Nat
  BY DEF TypeOK, RecordOf
<1>2. r.fingerprint.closure \in (SUBSET Entries) \cup {None}
  BY ClosureType DEF RecordOf, Fingerprint
<1>3. r.verdict.kind \in DispositionKinds
  BY VerdictType DEF RecordOf, VerdictToRecord
<1>4. r.stage \in ItemStages
  BY StageOfType DEF RecordOf
<1>5. IsStamps(<<>>)
  BY DEF IsStamps
<1>6. IsStamps(r.satisfied_at)
  <2>1. i \in DOMAIN store => IsStamps(store[i].satisfied_at)
    BY DEF TypeOK, IsRecord
  <2>2. observed_at # None => observed_at \in Times
    BY DEF TypeOK
  <2>3. IsStamps(SatisfiedAt(i, store, ClosureOf(i), observed_at))
    BY <2>1, <2>2, <1>5, SetDefaultType DEF SatisfiedAt
  <2> QED
    BY <2>3 DEF RecordOf
<1>7. IsStamps(r.stage_entered_at)
  <2>1. i \in DOMAIN store => IsStamps(store[i].stage_entered_at)
    BY DEF TypeOK, IsRecord
  <2>2. observed_at # None => observed_at \in Times
    BY DEF TypeOK
  <2>3. IsStamps(StageEnteredAt(i, store, StageOf(i), observed_at))
    BY <2>1, <2>2, <1>5, SetDefaultType DEF StageEnteredAt
  <2> QED
    BY <2>3 DEF RecordOf
<1> QED
  BY <1>1, <1>2, <1>3, <1>4, <1>6, <1>7 DEF IsRecord

-----------------------------------------------------------------------------
(* Type correctness.                                                        *)

LEMMA NoResults == DOMAIN <<>> = {}
OBVIOUS

LEMMA InitType == Init => TypeOK
<1> SUFFICES ASSUME Init PROVE TypeOK
  OBVIOUS
<1>1. PICK carried \in SUBSET ItemIds :
          /\ items \in [carried -> InitItems]
          /\ store = [i \in LegacyIds \cap carried |-> LegacyRecord(items[i])]
  BY DEF Init
<1>2. /\ items \in [DOMAIN items -> Items]
      /\ DOMAIN items \subseteq ItemIds
      /\ \A i \in DOMAIN items : CheckStageInvariants(items[i])
  BY <1>1, ReconcilerAssumption
<1>3. \A i \in DOMAIN store : IsRecord(store[i])
  BY <1>1 DEF LegacyRecord, Fingerprint, IsRecord, IsStamps
<1>4. cycle \in 0..MaxCycles /\ generation \in 0..cycle
  BY ReconcilerAssumption DEF Init
<1>5. /\ world \in Worlds /\ running = FALSE /\ interrupted = FALSE
      /\ observed_at = None /\ todo = {} /\ results = <<>>
  BY DEF Init
<1> QED
  BY <1>2, <1>3, <1>4, <1>5, NoResults DEF TypeOK

LEMMA ReconcileItemType ==
    ASSUME TypeOK, NEW i \in DOMAIN items, ReconcileItem(i)
    PROVE  TypeOK'
<1>1. UNCHANGED <<items, world, running, interrupted, cycle, generation, observed_at>>
  BY DEF ReconcileItem, tracker, config
<1>2. running /\ i \in todo /\ todo' = todo \ {i}
  BY DEF ReconcileItem
<1>3. \A j \in DOMAIN store' : IsRecord(store'[j])
  BY RecordType DEF ReconcileItem, Put, TypeOK
<1>4. IsResult(ResultOf(i))
  <2>1. Skipped(i) \in BOOLEAN
    BY DEF Skipped, Replayed
  <2> QED
    BY <2>1, VerdictType, StageOfType, DenialType DEF IsResult, ResultOf
<1>5. \A j \in DOMAIN results' : IsResult(results'[j])
  BY <1>4 DEF ReconcileItem, EmitResult, Put, TypeOK
<1>6. DOMAIN results' = DOMAIN items' \ todo'
  <2>1. DOMAIN results = DOMAIN items \ todo
    BY <1>2 DEF TypeOK
  <2>2. DOMAIN results' = DOMAIN results \cup {i}
    BY DEF ReconcileItem, EmitResult, Put
  <2> QED
    BY <1>1, <1>2, <2>1, <2>2
<1> QED
  BY <1>1, <1>2, <1>3, <1>5, <1>6 DEF TypeOK

\* Every edit of the tracker leaves an item that could have been constructed.
LEMMA EditType ==
    ASSUME TypeOK, NEW i \in DOMAIN items, NEW kind, NEW item \in Items,
           CheckStageInvariants(item), Edit(kind, i, item)
    PROVE  TypeOK'
<1>1. /\ UNCHANGED <<world, store, running, interrupted, cycle, generation,
                     observed_at, todo, results>>
      /\ ~running
      /\ items' = [items EXCEPT ![i] = item]
  BY DEF Edit, config
<1>2. /\ items' \in [DOMAIN items' -> Items]
      /\ DOMAIN items' \subseteq ItemIds
      /\ \A j \in DOMAIN items' : CheckStageInvariants(items'[j])
  BY <1>1 DEF TypeOK
<1> QED
  BY <1>1, <1>2 DEF TypeOK

LEMMA StageNames ==
    /\ {"proposed", "ready", "in_flight", "merged", "done", "abandoned"}
          \subseteq ItemStages
    /\ TerminalStages \cap (PreChangeStages \cup {"in_flight"}) = {}
<1>1. STAGE_ORDER[1] = "proposed" /\ STAGE_ORDER[2] = "ready"
      /\ STAGE_ORDER[3] = "in_flight" /\ STAGE_ORDER[4] = "merged"
      /\ STAGE_ORDER[6] = "done" /\ 1..6 = DOMAIN STAGE_ORDER
  BY DEF STAGE_ORDER
<1> QED
  BY <1>1 DEF ItemStages, Range, TerminalStages, PreChangeStages

LEMMA EditItemType ==
    ASSUME TypeOK, NEW i \in DOMAIN items, EditItem(i)
    PROVE  TypeOK'
<1>0. items[i] \in Items /\ CheckStageInvariants(items[i])
  BY DEF TypeOK
<1>1. CASE Relabel(i)
  <2>1. PICK labels \in SUBSET (GateLabels \cup LaneLabels) :
            Edit("labels", i, [items[i] EXCEPT !.labels = labels])
    BY <1>1 DEF Relabel
  <2>2. [items[i] EXCEPT !.labels = labels] \in Items
    BY <1>0 DEF Items
  <2>3. CheckStageInvariants([items[i] EXCEPT !.labels = labels])
    BY <1>0 DEF Items, CheckStageInvariants
  <2> QED
    BY <2>1, <2>2, <2>3, EditType
<1>2. CASE Redeclare(i)
  <2>1. PICK deps \in DepLists : Edit("deps", i, [items[i] EXCEPT !.deps = deps])
    BY <1>2 DEF Redeclare
  <2>2. [items[i] EXCEPT !.deps = deps] \in Items
    BY <1>0, ReconcilerAssumption DEF Items
  <2>3. CheckStageInvariants([items[i] EXCEPT !.deps = deps])
    BY <1>0 DEF Items, CheckStageInvariants
  <2> QED
    BY <2>1, <2>2, <2>3, EditType
<1>3. CASE Reown(i)
  <2>1. Edit("owner", i, [items[i] EXCEPT !.human_owned = ~items[i].human_owned])
    BY <1>3 DEF Reown
  <2>2. [items[i] EXCEPT !.human_owned = ~items[i].human_owned] \in Items
    BY <1>0 DEF Items
  <2>3. CheckStageInvariants(
            [items[i] EXCEPT !.human_owned = ~items[i].human_owned])
    BY <1>0 DEF Items, CheckStageInvariants
  <2> QED
    BY <2>1, <2>2, <2>3, EditType
<1>4. CASE Exclude(i)
  <2>1. Edit("exclude", i, [items[i] EXCEPT !.do_not_groom = ~items[i].do_not_groom])
    BY <1>4 DEF Exclude
  <2>2. [items[i] EXCEPT !.do_not_groom = ~items[i].do_not_groom] \in Items
    BY <1>0 DEF Items
  <2>3. CheckStageInvariants(
            [items[i] EXCEPT !.do_not_groom = ~items[i].do_not_groom])
    BY <1>0 DEF Items, CheckStageInvariants
  <2> QED
    BY <2>1, <2>2, <2>3, EditType
<1>5. CASE OpenChange(i)
  <2>1. PICK change \in Changes \cup {None} :
            Edit("lifecycle", i, [items[i] EXCEPT !.stage = "in_flight",
                                                  !.change = change, !.ref = TRUE])
    BY <1>5 DEF OpenChange
  <2> DEFINE item == [items[i] EXCEPT !.stage = "in_flight",
                                      !.change = change, !.ref = TRUE]
  <2>2. item \in Items
    BY <1>0, StageNames DEF Items
  <2>3. CheckStageInvariants(item)
    BY <1>0 DEF Items, CheckStageInvariants, PreChangeStages
  <2> QED
    BY <2>1, <2>2, <2>3, EditType
<1>6. CASE MoveChange(i)
  <2>1. PICK change \in Changes :
            Edit("change", i, [items[i] EXCEPT !.change = change])
    BY <1>6 DEF MoveChange
  <2>2. [items[i] EXCEPT !.change = change] \in Items
    BY <1>0 DEF Items
  <2>3. CheckStageInvariants([items[i] EXCEPT !.change = change])
    BY <1>0, <1>6 DEF MoveChange, Items, CheckStageInvariants, PreChangeStages
  <2> QED
    BY <2>1, <2>2, <2>3, EditType
<1>7. CASE Duplicate(i)
  <2>1. Edit("identity", i,
             [items[i] EXCEPT !.additional_refs = ~items[i].additional_refs])
    BY <1>7 DEF Duplicate
  <2>2. [items[i] EXCEPT !.additional_refs = ~items[i].additional_refs] \in Items
    BY <1>0 DEF Items
  <2>3. CheckStageInvariants(
            [items[i] EXCEPT !.additional_refs = ~items[i].additional_refs])
    BY <1>0 DEF Items, CheckStageInvariants
  <2> QED
    BY <2>1, <2>2, <2>3, EditType
<1>8. CASE CloseChange(i)
  <2> DEFINE item == [items[i] EXCEPT !.stage = "proposed", !.change = None,
                                      !.ref = FALSE, !.additional_refs = FALSE]
  <2>1. Edit("lifecycle", i, item)
    BY <1>8 DEF CloseChange
  <2>2. item \in Items
    BY <1>0, StageNames DEF Items
  <2>3. CheckStageInvariants(item)
    BY <1>0 DEF Items, CheckStageInvariants
  <2> QED
    BY <2>1, <2>2, <2>3, EditType
<1>9. CASE Merge(i)
  <2>1. PICK v \in Obligations \cup {None} :
            Edit("lifecycle", i, [items[i] EXCEPT !.stage = "merged",
                                                  !.verification = v,
                                                  !.additional_refs = FALSE])
    BY <1>9 DEF Merge
  <2> DEFINE item == [items[i] EXCEPT !.stage = "merged", !.verification = v,
                                      !.additional_refs = FALSE]
  <2>2. item \in Items
    BY <1>0, StageNames DEF Items
  <2>3. CheckStageInvariants(item)
    BY <1>0 DEF Items, CheckStageInvariants, PreChangeStages
  <2> QED
    BY <2>1, <2>2, <2>3, EditType
<1>10. CASE Close(i)
  <2>1. PICK stage \in TerminalStages :
            Edit("lifecycle", i, [items[i] EXCEPT !.stage = stage])
    BY <1>10 DEF Close
  <2>2. [items[i] EXCEPT !.stage = stage] \in Items
    BY <1>0, StageNames DEF Items, TerminalStages
  <2>3. CheckStageInvariants([items[i] EXCEPT !.stage = stage])
    BY <1>0 DEF Items, CheckStageInvariants, PreChangeStages, TerminalStages
  <2> QED
    BY <2>1, <2>2, <2>3, EditType
<1>11. CASE Reopen(i)
  <2> DEFINE item == [items[i] EXCEPT !.stage = "proposed", !.change = None,
                                      !.ref = FALSE, !.additional_refs = FALSE,
                                      !.verification = None]
  <2>1. Edit("lifecycle", i, item)
    BY <1>11 DEF Reopen
  <2>2. item \in Items
    BY <1>0, StageNames DEF Items
  <2>3. CheckStageInvariants(item)
    BY <1>0 DEF Items, CheckStageInvariants
  <2> QED
    BY <2>1, <2>2, <2>3, EditType
<1>12. CASE Drop(i)
  <2>1. /\ UNCHANGED <<world, store, running, interrupted, cycle, generation,
                       observed_at, todo, results>>
        /\ ~running
        /\ items' = Restrict(items, DOMAIN items \ {i})
    BY <1>12 DEF Drop, config
  <2>2. /\ items' \in [DOMAIN items' -> Items]
        /\ DOMAIN items' \subseteq ItemIds
        /\ \A j \in DOMAIN items' : CheckStageInvariants(items'[j])
    BY <2>1 DEF TypeOK, Restrict
  <2> QED
    BY <2>1, <2>2 DEF TypeOK
<1> QED
  BY <1>1, <1>2, <1>3, <1>4, <1>5, <1>6, <1>7, <1>8, <1>9, <1>10, <1>11, <1>12
  DEF EditItem

LEMMA CarryType ==
    ASSUME TypeOK, NEW i \in ItemIds, Carry(i)
    PROVE  TypeOK'
<1>1. PICK item \in InitItems : items' = Put(items, i, item)
  BY DEF Carry
<1>2. /\ UNCHANGED <<world, store, running, interrupted, cycle, generation,
                     observed_at, todo, results>>
      /\ ~running
  BY DEF Carry, config
<1>3. item \in Items /\ CheckStageInvariants(item)
  BY ReconcilerAssumption
<1>4. /\ items' \in [DOMAIN items' -> Items]
      /\ DOMAIN items' \subseteq ItemIds
      /\ \A j \in DOMAIN items' : CheckStageInvariants(items'[j])
  BY <1>1, <1>3 DEF TypeOK, Put
<1> QED
  BY <1>2, <1>4 DEF TypeOK

LEMMA DieType ==
    ASSUME TypeOK, Die PROVE TypeOK'
<1>1. /\ UNCHANGED <<items, world, store, cycle, generation>>
      /\ running' = FALSE /\ interrupted' = TRUE /\ observed_at' = None
      /\ todo' = {} /\ results' = <<>>
  BY DEF Die, tracker
<1> QED
  BY <1>1, NoResults DEF TypeOK

LEMMA StartPassType ==
    ASSUME TypeOK, StartPass PROVE TypeOK'
<1>1. cycle' \in Times /\ cycle' \in 0..MaxCycles /\ generation' \in 0..cycle'
  BY ReconcilerAssumption DEF StartPass, TypeOK, Times
<1>2. observed_at' \in Times \cup {None}
  BY <1>1 DEF StartPass
<1>3. /\ UNCHANGED <<items, world, store>>
      /\ running' = TRUE /\ interrupted' = FALSE
      /\ todo' = DOMAIN items /\ results' = <<>>
  BY DEF StartPass, tracker
<1> QED
  BY <1>1, <1>2, <1>3, NoResults DEF TypeOK

LEMMA FinishPassType ==
    ASSUME TypeOK, FinishPass PROVE TypeOK'
<1>1. /\ UNCHANGED <<items, world, store, interrupted, cycle, generation, todo>>
      /\ running' = FALSE /\ observed_at' = None /\ results' = <<>> /\ todo = {}
  BY DEF FinishPass, tracker
<1> QED
  BY <1>1, NoResults DEF TypeOK

LEMMA TypeStep ==
    ASSUME TypeOK, [Next]_vars PROVE TypeOK'
<1>1. CASE StartPass
  BY <1>1, StartPassType
<1>2. CASE FinishPass
  BY <1>2, FinishPassType
<1>3. CASE InterruptPass
  BY <1>3, DieType DEF InterruptPass
<1>4. ASSUME NEW i \in DOMAIN items, ReconcileItem(i) PROVE TypeOK'
  BY <1>4, ReconcileItemType
<1>5. ASSUME NEW i \in DOMAIN items, AbortPass(i) PROVE TypeOK'
  BY <1>5, DieType DEF AbortPass
<1>6. CASE Observe
  BY <1>6 DEF Observe, TypeOK, config
<1>7. ASSUME NEW i \in DOMAIN items, EditItem(i) PROVE TypeOK'
  BY <1>7, EditItemType
<1>8. ASSUME NEW i \in ItemIds, Carry(i) PROVE TypeOK'
  BY <1>8, CarryType
<1>9. CASE UNCHANGED vars
  BY <1>9 DEF TypeOK, vars
<1> QED
  BY <1>1, <1>2, <1>3, <1>4, <1>5, <1>6, <1>7, <1>8, <1>9
  DEF Next, Pass, Tracker

\* Every reachable state is well formed: items that could have been constructed,
\* records and verdicts of the documented shapes, and one result for every item
\* the running pass has reached (reconciler.py: no silent drops).
THEOREM TypeCorrect == Spec => []TypeOK
<1>1. Init => TypeOK
  BY InitType
<1>2. TypeOK /\ [Next]_vars => TypeOK'
  BY TypeStep
<1> QED
  BY <1>1, <1>2, PTL DEF Spec

-----------------------------------------------------------------------------
(* The steps that evaluate nothing.                                         *)

LEMMA EditFrame ==
    ASSUME NEW i \in DOMAIN items, EditItem(i)
    PROVE  /\ ~running
           /\ UNCHANGED <<world, store, running, interrupted, cycle, generation,
                          observed_at, todo, results>>
<1>1. ASSUME NEW kind, NEW item, Edit(kind, i, item)
      PROVE  /\ ~running
             /\ UNCHANGED <<world, store, running, interrupted, cycle, generation,
                            observed_at, todo, results>>
  BY <1>1 DEF Edit, config
<1>2. Drop(i) => /\ ~running
                 /\ UNCHANGED <<world, store, running, interrupted, cycle,
                                generation, observed_at, todo, results>>
  BY DEF Drop, config
<1> QED
  BY <1>1, <1>2 DEF EditItem, Relabel, Redeclare, Reown, Exclude, OpenChange,
                    MoveChange, Duplicate, CloseChange, Merge, Close, Reopen

LEMMA QuietStep ==
    ASSUME TypeOK, [Next]_vars, \A i \in DOMAIN items : ~ReconcileItem(i)
    PROVE  /\ store' = store
           /\ results' = <<>> \/ UNCHANGED vars
<1>1. CASE StartPass
  BY <1>1 DEF StartPass
<1>2. CASE FinishPass
  BY <1>2 DEF FinishPass
<1>3. CASE InterruptPass
  BY <1>3 DEF InterruptPass, Die
<1>4. ASSUME NEW i \in DOMAIN items, AbortPass(i)
      PROVE  store' = store /\ results' = <<>>
  BY <1>4 DEF AbortPass, Die
<1>5. CASE Observe
  BY <1>5 DEF Observe, TypeOK
<1>6. ASSUME NEW i \in DOMAIN items, EditItem(i)
      PROVE  store' = store /\ results' = <<>>
  BY <1>6, EditFrame DEF TypeOK
<1>7. ASSUME NEW i \in ItemIds, Carry(i)
      PROVE  store' = store /\ results' = <<>>
  BY <1>7 DEF Carry, TypeOK
<1>8. CASE UNCHANGED vars
  BY <1>8 DEF vars
<1> QED
  BY <1>1, <1>2, <1>3, <1>4, <1>5, <1>6, <1>7, <1>8 DEF Next, Pass, Tracker

\* What ReconcileItem adds to the results is judged against an unmoved snapshot.
LEMMA OneResult ==
    ASSUME NEW i \in DOMAIN items, ReconcileItem(i)
    PROVE  /\ UNCHANGED <<items, world, generation, running, observed_at>>
           /\ running /\ i \in todo
           /\ DOMAIN results' = DOMAIN results \cup {i}
           /\ results'[i].verdict = Given(i)
           /\ \A j \in DOMAIN results \ {i} : results'[j] = results[j]
BY DEF ReconcileItem, EmitResult, ResultOf, Put, tracker, config

LEMMA OneRecord ==
    ASSUME NEW i \in DOMAIN items, ReconcileItem(i)
    PROVE  /\ DOMAIN store' = DOMAIN store \cup {i}
           /\ store'[i] = RecordOf(i, items[i], store, generation, ClosureOf(i),
                                   VerdictToRecord(i), StageOf(i), observed_at)
           /\ \A j \in DOMAIN store \ {i} : store'[j] = store[j]
BY DEF ReconcileItem, Put

LEMMA RecordFields ==
    ASSUME NEW i \in DOMAIN items, ReconcileItem(i)
    PROVE  /\ store'[i].generation = generation
           /\ store'[i].fingerprint = Fingerprint(items[i], ClosureOf(i))
           /\ store'[i].verdict = FinalVerdict(i)
           /\ store'[i].satisfied_at =
                 SatisfiedAt(i, store, ClosureOf(i), observed_at)
<1> DEFINE r == RecordOf(i, items[i], store, generation, ClosureOf(i),
                         VerdictToRecord(i), StageOf(i), observed_at)
<1>1. store'[i] = r
  BY OneRecord
<1>2. /\ r.generation = generation
      /\ r.fingerprint = Fingerprint(items[i], ClosureOf(i))
      /\ r.verdict = FinalVerdict(i)
      /\ r.satisfied_at = SatisfiedAt(i, store, ClosureOf(i), observed_at)
  BY DEF RecordOf, VerdictToRecord
<1> QED
  BY <1>1, <1>2

-----------------------------------------------------------------------------
(* Terminal items.                                                          *)

LEMMA TerminalVerdict ==
    ASSUME NEW i, items[i].stage \in TerminalStages
    PROVE  Given(i).kind = "terminal"
<1>1. Fresh(i) = Terminal
  BY CarvedOutIsTerminal DEF Fresh
<1>2. FinalVerdict(i).kind = "terminal"
  BY <1>1 DEF FinalVerdict, Regresses, Terminal
<1>3. Denial(i) = None
  BY <1>2 DEF Denial, Act
<1> QED
  BY <1>2, <1>3 DEF Given

\* An item at a terminal stage is TERMINAL in every pass, whatever the store
\* replays and whether or not its dependencies are cyclic (reconciler.py, the
\* terminal guard behind the replay and cycle branches).
THEOREM TerminalItems == Spec => []TerminalNeverRegresses
<1>1. Init => TerminalNeverRegresses
  BY NoResults DEF Init, TerminalNeverRegresses
<1>2. ASSUME TypeOK, TerminalNeverRegresses, [Next]_vars
      PROVE  TerminalNeverRegresses'
  <2>1. ASSUME NEW i \in DOMAIN items, ReconcileItem(i)
        PROVE  TerminalNeverRegresses'
    <3>1. /\ items' = items
          /\ DOMAIN results' = DOMAIN results \cup {i}
          /\ \A j \in DOMAIN results \ {i} : results'[j] = results[j]
      BY <2>1, OneResult
    <3>2. items[i].stage \in TerminalStages => results'[i].verdict.kind = "terminal"
      BY <2>1, OneResult, TerminalVerdict
    <3> QED
      BY <1>2, <3>1, <3>2 DEF TerminalNeverRegresses
  <2>2. CASE \A i \in DOMAIN items : ~ReconcileItem(i)
    <3>1. results' = <<>> \/ UNCHANGED vars
      BY <1>2, <2>2, QuietStep
    <3> QED
      BY <1>2, <3>1, NoResults DEF TerminalNeverRegresses, vars
  <2> QED
    BY <2>1, <2>2
<1> QED
  BY <1>1, <1>2, TypeCorrect, PTL DEF Spec

-----------------------------------------------------------------------------
(* Admission.                                                               *)

LEMMA AdmittedUnderCeiling ==
    ASSUME NEW i, CurrentWip(items) >= WipCeiling, Given(i) = Act("create_pr")
    PROVE  items[i].change # None
<1> SUFFICES ASSUME items[i].change = None PROVE FALSE
  OBVIOUS
<1>1. FinalVerdict(i) = Act("create_pr") /\ Denial(i) = None
  BY DEF Given, Blocked, Act
<1>2. CanAdmit(items, world, i) = None
  BY <1>1 DEF Denial
<1> QED
  BY <1>2, CeilingAssumption DEF CanAdmit, DenialReasons

\* At the ceiling no change is opened, by a fresh verdict or by a replayed one:
\* the admission gate comes after the replay (reconciler.py, steps 3 and 4).
THEOREM Saturation == Spec => []SaturatedAdmitsNothing
<1>1. Init => SaturatedAdmitsNothing
  BY NoResults DEF Init, SaturatedAdmitsNothing
<1>2. ASSUME TypeOK, SaturatedAdmitsNothing, [Next]_vars
      PROVE  SaturatedAdmitsNothing'
  <2>1. ASSUME NEW i \in DOMAIN items, ReconcileItem(i)
        PROVE  SaturatedAdmitsNothing'
    <3>1. (CurrentWip(items) >= WipCeiling)' <=> CurrentWip(items) >= WipCeiling
      BY <2>1, OneResult DEF CurrentWip, InFlight
    <3>2. /\ items' = items
          /\ DOMAIN results' = DOMAIN results \cup {i}
          /\ \A j \in DOMAIN results \ {i} : results'[j] = results[j]
      BY <2>1, OneResult
    <3>3. /\ CurrentWip(items) >= WipCeiling
          /\ results'[i].verdict = Act("create_pr")
          => items[i].change # None
      BY <2>1, OneResult, AdmittedUnderCeiling
    <3> QED
      BY <1>2, <2>1, <3>1, <3>2, <3>3 DEF SaturatedAdmitsNothing
  <2>2. CASE \A i \in DOMAIN items : ~ReconcileItem(i)
    <3>1. store' = store /\ (results' = <<>> \/ UNCHANGED vars)
      BY <1>2, <2>2, QuietStep
    <3>2. CASE results' = <<>>
      BY <3>2, NoResults DEF SaturatedAdmitsNothing
    <3>3. CASE UNCHANGED vars
      BY <1>2, <3>3 DEF SaturatedAdmitsNothing, vars, CurrentWip, InFlight
    <3> QED
      BY <3>1, <3>2, <3>3
  <2> QED
    BY <2>1, <2>2
<1> QED
  BY <1>1, <1>2, TypeCorrect, PTL DEF Spec

-----------------------------------------------------------------------------
(* Stamps.                                                                  *)

LEMMA SetDefaultExtends ==
    ASSUME NEW f, NEW keys, NEW t
    PROVE  Extends(f, SetDefault(f, keys, t))
BY DEF Extends, SetDefault

LEMMA RecordKeepsStamps ==
    ASSUME NEW i \in DOMAIN store, NEW item, NEW closure, NEW verdict, NEW stage
    PROVE  LET r == RecordOf(i, item, store, generation, closure, verdict, stage,
                             observed_at)
           IN  /\ Extends(store[i].satisfied_at, r.satisfied_at)
               /\ Extends(store[i].stage_entered_at, r.stage_entered_at)
<1>1. \A f : Extends(f, f)
  BY DEF Extends
<1>2. Extends(store[i].satisfied_at, SatisfiedAt(i, store, closure, observed_at))
  BY <1>1, SetDefaultExtends DEF SatisfiedAt
<1>3. Extends(store[i].stage_entered_at, StageEnteredAt(i, store, stage, observed_at))
  BY <1>1, SetDefaultExtends DEF StageEnteredAt
<1> QED
  BY <1>2, <1>3 DEF RecordOf

\* A stamp, once written, keeps its time and its place in the store in every
\* behaviour: through skips, regressions, cycles, dead and undated passes
\* (observed_gen.py: setdefault, never assignment).
THEOREM StampsAreStable == Spec => StampsNeverMove
<1> DEFINE Kept ==
        \A i \in DOMAIN store :
            /\ i \in DOMAIN store'
            /\ Extends(store[i].satisfied_at, store'[i].satisfied_at)
            /\ Extends(store[i].stage_entered_at, store'[i].stage_entered_at)
<1>1. ASSUME TypeOK, [Next]_vars PROVE Kept
  <2>1. CASE store' = store
    BY <2>1 DEF Extends
  <2>2. ASSUME NEW i \in DOMAIN items, ReconcileItem(i) PROVE Kept
    <3>1. /\ DOMAIN store' = DOMAIN store \cup {i}
          /\ \A j \in DOMAIN store \ {i} : store'[j] = store[j]
      BY <2>2, OneRecord
    <3>2. i \in DOMAIN store =>
            /\ Extends(store[i].satisfied_at, store'[i].satisfied_at)
            /\ Extends(store[i].stage_entered_at, store'[i].stage_entered_at)
      BY <2>2, OneRecord, RecordKeepsStamps
    <3>3. \A f : Extends(f, f)
      BY DEF Extends
    <3> QED
      BY <3>1, <3>2, <3>3
  <2> QED
    BY <1>1, <2>1, <2>2, QuietStep
<1>2. TypeOK /\ [Next]_vars => [Kept]_vars
  BY <1>1
<1>3. [][Kept]_vars <=> StampsNeverMove
  BY DEF StampsNeverMove
<1> QED
  BY <1>2, <1>3, TypeCorrect, PTL DEF Spec

LEMMA FingerprintDomain ==
    ASSUME NEW item, NEW closure
    PROVE  /\ DOMAIN Fingerprint(item, closure).deps = Declared(item)
           /\ Fingerprint(item, closure).labels = item.labels
           /\ Fingerprint(item, closure).closure = closure
BY DEF Fingerprint, DepsHash, LabelSetHash

LEMMA NewStampsOfItem ==
    ASSUME NEW i \in DOMAIN items, ReconcileItem(i), NEW d \in NewStamps(i)
    PROVE  /\ i \in DOMAIN store
           /\ store[i].fingerprint.closure # None
           /\ d \notin SatisfiedTokens(store[i].fingerprint.closure)
           /\ d \in SatisfiedTokens(store'[i].fingerprint.closure)
<1> DEFINE carried == IF i \in DOMAIN store THEN store[i].satisfied_at ELSE <<>>
           flipped == NewlySatisfied(ClosureOf(i), store, i)
<1>1. store'[i].satisfied_at = SatisfiedAt(i, store, ClosureOf(i), observed_at)
  BY RecordFields
<1>2. d \notin DOMAIN carried
  BY NoResults DEF NewStamps
<1>3. DOMAIN SetDefault(carried, flipped, observed_at) = DOMAIN carried \cup flipped
  BY DEF SetDefault
<1>4. d \in flipped
  <2>1. \/ SatisfiedAt(i, store, ClosureOf(i), observed_at) = carried
        \/ SatisfiedAt(i, store, ClosureOf(i), observed_at) =
              SetDefault(carried, flipped, observed_at)
    BY DEF SatisfiedAt
  <2>2. d \in DOMAIN store'[i].satisfied_at
    BY DEF NewStamps
  <2> QED
    BY <1>1, <1>2, <1>3, <2>1, <2>2
<1>5. store'[i].fingerprint.closure = ClosureOf(i)
  BY RecordFields, FingerprintDomain
<1> QED
  BY <1>4, <1>5 DEF NewlySatisfied

\* A satisfaction is dated only against an earlier evaluation of the item that
\* had a closure and did not find the dependency satisfied (newly_satisfied).
THEOREM FlipsAreWitnessed == Spec => StampsNeedABefore
<1> DEFINE Witnessed ==
        \A i \in DOMAIN store' : \A d \in NewStamps(i) :
            /\ i \in DOMAIN store
            /\ store[i].fingerprint.closure # None
            /\ d \notin SatisfiedTokens(store[i].fingerprint.closure)
            /\ d \in SatisfiedTokens(store'[i].fingerprint.closure)
<1>1. ASSUME TypeOK, [Next]_vars PROVE Witnessed
  <2>1. CASE store' = store
    <3>1. \A i \in DOMAIN store' : NewStamps(i) = {}
      BY <2>1 DEF NewStamps
    <3> QED
      BY <3>1
  <2>2. ASSUME NEW i \in DOMAIN items, ReconcileItem(i) PROVE Witnessed
    <3>1. \A j \in DOMAIN store' \ {i} : NewStamps(j) = {}
      BY <2>2, OneRecord DEF NewStamps
    <3> QED
      BY <2>2, <3>1, NewStampsOfItem
  <2> QED
    BY <1>1, <2>1, <2>2, QuietStep
<1>2. TypeOK /\ [Next]_vars => [Witnessed]_vars
  BY <1>1
<1>3. [][Witnessed]_vars <=> StampsNeedABefore
  BY DEF StampsNeedABefore
<1> QED
  BY <1>2, <1>3, TypeCorrect, PTL DEF Spec

-----------------------------------------------------------------------------
(* Generations.                                                             *)

\* Every pass runs under a positive generation, and no record is newer.
GenerationInv ==
    /\ running \/ interrupted => generation > 0
    /\ \A i \in DOMAIN store : store[i].generation <= generation

LEMMA GenerationInit == Init => GenerationInv
BY DEF Init, GenerationInv, LegacyRecord

LEMMA GenerationStep ==
    ASSUME TypeOK, GenerationInv, [Next]_vars
    PROVE  GenerationInv'
<1> USE DEF GenerationInv
<1>0. generation \in Nat /\ \A i \in DOMAIN store : store[i].generation \in Nat
  BY DEF TypeOK, IsRecord
<1>1. CASE StartPass
  BY <1>0, <1>1 DEF StartPass
<1>2. CASE FinishPass
  BY <1>2 DEF FinishPass
<1>3. CASE InterruptPass
  BY <1>3 DEF InterruptPass, Die
<1>4. ASSUME NEW i \in DOMAIN items, ReconcileItem(i) PROVE GenerationInv'
  <2>1. /\ UNCHANGED <<running, interrupted, generation>>
        /\ DOMAIN store' = DOMAIN store \cup {i}
        /\ store'[i].generation = generation
        /\ \A j \in DOMAIN store \ {i} : store'[j] = store[j]
    BY <1>4, OneRecord, RecordFields DEF ReconcileItem, config
  <2> QED
    BY <1>0, <2>1
<1>5. ASSUME NEW i \in DOMAIN items, AbortPass(i) PROVE GenerationInv'
  BY <1>5 DEF AbortPass, Die
<1>6. CASE Observe
  BY <1>6 DEF Observe, config
<1>7. ASSUME NEW i \in DOMAIN items, EditItem(i) PROVE GenerationInv'
  BY <1>7, EditFrame
<1>8. ASSUME NEW i \in ItemIds, Carry(i) PROVE GenerationInv'
  BY <1>8 DEF Carry, config
<1>9. CASE UNCHANGED vars
  BY <1>9 DEF vars
<1> QED
  BY <1>1, <1>2, <1>3, <1>4, <1>5, <1>6, <1>7, <1>8, <1>9 DEF Next, Pass, Tracker

\* A pass runs under a positive generation, and the store holds no record of a
\* generation still to come (should_skip compares generations for equality).
THEOREM GenerationsGrow == Spec => []GenerationInv
BY GenerationInit, GenerationStep, TypeCorrect, PTL DEF Spec

\* Evaluating an item twice in one generation records one verdict, also when the
\* first pass died and the tracker moved before the retry (observed_gen.py: a
\* crash and restart in the same generation is idempotent).
THEOREM SameGenerationSameVerdict == Spec => IdempotentInGeneration
<1> DEFINE Same ==
        \A i \in DOMAIN store :
            LET old == store[i]
                new == store'[i]
            IN  /\ new.generation = old.generation
                /\ old.verdict # None
                /\ items[i].stage \notin TerminalStages
                /\ ~Cyclic(i)
                => new.verdict = old.verdict
<1>1. ASSUME TypeOK, GenerationInv, [Next]_vars PROVE Same
  <2>1. CASE store' = store
    BY <2>1
  <2>2. ASSUME NEW i \in DOMAIN items, ReconcileItem(i) PROVE Same
    <3>1. \A j \in DOMAIN store \ {i} : store'[j] = store[j]
      BY <2>2, OneRecord
    <3>2. /\ store'[i].generation = generation
          /\ store'[i].verdict = FinalVerdict(i)
      BY <2>2, RecordFields
    <3>3. ASSUME i \in DOMAIN store, store[i].generation = generation,
                 store[i].verdict # None, ~Cyclic(i),
                 items[i].stage \notin TerminalStages
          PROVE  FinalVerdict(i) = store[i].verdict
      <4>1. generation > 0
        BY <2>2, <1>1 DEF ReconcileItem, GenerationInv
      <4>2. Replayed(i)
        BY <3>3, <4>1 DEF Replayed, ShouldSkip
      <4> QED
        BY <3>3, <4>2 DEF FinalVerdict, Regresses, VerdictOf
    <3> QED
      BY <3>1, <3>2, <3>3
  <2> QED
    BY <1>1, <2>1, <2>2, QuietStep
<1>2. TypeOK /\ GenerationInv /\ [Next]_vars => [Same]_vars
  BY <1>1
<1>3. [][Same]_vars <=> IdempotentInGeneration
  BY DEF IdempotentInGeneration
<1> QED
  BY <1>2, <1>3, TypeCorrect, GenerationsGrow, PTL DEF Spec

-----------------------------------------------------------------------------
(* Acting.  A record that acts attests the conditions of its item: its     *)
(* fingerprint holds every declaration as satisfied.  A replay that passes *)
(* the fingerprint therefore acts on conditions that hold now; a replay by *)
(* generation alone never happens when every pass has its own generation.  *)

RecordUnblocked(r) ==
    /\ r.fingerprint.closure # None
    /\ r.verdict # None
    /\ r.verdict.kind = "act"
    /\ r.verdict.action \notin Reverts
    => /\ \A d \in DOMAIN r.fingerprint.deps :
              [dep |-> d, state |-> "satisfied"] \in r.fingerprint.closure
       /\ DOMAIN r.fingerprint.deps = {} =>
              r.fingerprint.labels \cap GateLabels = {}

RecordsUnblocked == \A i \in DOMAIN store : RecordUnblocked(store[i])

\* What this pass has not reached was recorded by an earlier generation.
TodoIsOlder ==
    /\ \A i \in DOMAIN store : store[i].generation <= generation
    /\ \A i \in todo \cap DOMAIN store : store[i].generation < generation

LEMMA TodoStep ==
    ASSUME MayRetry = FALSE, TypeOK, TodoIsOlder, [Next]_vars
    PROVE  TodoIsOlder'
<1> USE DEF TodoIsOlder
<1>0. generation \in Nat /\ \A i \in DOMAIN store : store[i].generation \in Nat
  BY DEF TypeOK, IsRecord
<1>1. CASE StartPass
  BY <1>0, <1>1 DEF StartPass
<1>2. CASE FinishPass
  BY <1>2 DEF FinishPass
<1>3. CASE InterruptPass
  BY <1>3 DEF InterruptPass, Die
<1>4. ASSUME NEW i \in DOMAIN items, ReconcileItem(i) PROVE TodoIsOlder'
  <2>1. /\ generation' = generation /\ todo' = todo \ {i}
        /\ DOMAIN store' = DOMAIN store \cup {i}
        /\ store'[i].generation = generation
        /\ \A j \in DOMAIN store \ {i} : store'[j] = store[j]
    BY <1>4, OneRecord, RecordFields DEF ReconcileItem, config
  <2> QED
    BY <1>0, <2>1
<1>5. ASSUME NEW i \in DOMAIN items, AbortPass(i) PROVE TodoIsOlder'
  BY <1>5 DEF AbortPass, Die
<1>6. CASE Observe
  BY <1>6 DEF Observe, config
<1>7. ASSUME NEW i \in DOMAIN items, EditItem(i) PROVE TodoIsOlder'
  BY <1>7, EditFrame
<1>8. ASSUME NEW i \in ItemIds, Carry(i) PROVE TodoIsOlder'
  BY <1>8 DEF Carry, config
<1>9. CASE UNCHANGED vars
  BY <1>9 DEF vars
<1> QED
  BY <1>1, <1>2, <1>3, <1>4, <1>5, <1>6, <1>7, <1>8, <1>9 DEF Next, Pass, Tracker

Unblocked(i) ==
    /\ \A d \in Declared(items[i]) : EvaluateDependency(d, world) = "satisfied"
    /\ UnrepresentedGateLabels(items[i]) = {}

LEMMA NothingDeclared ==
    ASSUME NEW item \in Items
    PROVE  Declared(item) = {} <=> item.deps = <<>>
<1>1. item.deps \in Seq(Declarable)
  BY DEF Items
<1>2. DOMAIN item.deps = 1..Len(item.deps) /\ Len(item.deps) \in Nat
  BY <1>1
<1>3. Len(item.deps) = 0 <=> item.deps = <<>>
  BY <1>1
<1>4. DOMAIN item.deps = {} <=> Len(item.deps) = 0
  <2>1. Len(item.deps) # 0 => 1 \in DOMAIN item.deps
    BY <1>2
  <2>2. Len(item.deps) = 0 => \A n \in DOMAIN item.deps : FALSE
    BY <1>2
  <2> QED
    BY <2>1, <2>2
<1> QED
  BY <1>3, <1>4 DEF Declared, Range

\* A record whose fingerprint matches acts only on conditions that hold now.
LEMMA ReplayIsUnblocked ==
    ASSUME TypeOK, NEW i \in DOMAIN items, i \in DOMAIN store, ~Cyclic(i),
           RecordUnblocked(store[i]),
           Matches(Fingerprint(items[i], ClosureOf(i)), store[i].fingerprint),
           store[i].verdict # None, store[i].verdict.kind = "act",
           store[i].verdict.action \notin Reverts
    PROVE  Unblocked(i)
<1> DEFINE fp == Fingerprint(items[i], ClosureOf(i))
<1>1. fp = store[i].fingerprint /\ fp.closure # None
  BY DEF Matches
<1>2. /\ \A d \in DOMAIN fp.deps : [dep |-> d, state |-> "satisfied"] \in fp.closure
      /\ DOMAIN fp.deps = {} => fp.labels \cap GateLabels = {}
  BY <1>1 DEF RecordUnblocked
<1>3. /\ \A d \in Declared(items[i]) :
            [dep |-> d, state |-> "satisfied"] \in ClosureState(items, world, i)
      /\ Declared(items[i]) = {} => items[i].labels \cap GateLabels = {}
  BY <1>2, FingerprintDomain DEF ClosureOf
<1>4. \A d \in Declared(items[i]) : EvaluateDependency(d, world) = "satisfied"
  BY <1>3 DEF ClosureState, Entry
<1>5. items[i].deps = <<>> => Declared(items[i]) = {}
  BY NothingDeclared DEF TypeOK
<1> QED
  BY <1>3, <1>4, <1>5 DEF Unblocked, UnrepresentedGateLabels

\* Any action but a due obligation's, computed or replayed, has its conditions satisfied.
LEMMA ActingIsUnblocked ==
    ASSUME TypeOK, RecordsUnblocked, NEW i \in DOMAIN items,
           i \in DOMAIN store => store[i].generation # generation,
           FinalVerdict(i).kind = "act", FinalVerdict(i).action \notin Reverts
    PROVE  Unblocked(i)
<1>1. CASE FinalVerdict(i) = Fresh(i)
  BY <1>1, ActIsUnblocked DEF Fresh, Unblocked, TypeOK
<1>2. CASE FinalVerdict(i) # Fresh(i)
  <2>1. Replayed(i) /\ ~Cyclic(i) /\ FinalVerdict(i) = store[i].verdict
    BY <1>2 DEF FinalVerdict, VerdictOf, Undecidable
  <2>2. /\ i \in DOMAIN store /\ store[i].verdict # None
        /\ Matches(Fingerprint(items[i], ClosureOf(i)), store[i].fingerprint)
    BY <2>1 DEF Replayed, ShouldSkip
  <2> QED
    BY <2>1, <2>2, ReplayIsUnblocked DEF RecordsUnblocked
<1> QED
  BY <1>1, <1>2

\* The record of an evaluation that acts attests its conditions.
LEMMA NewRecordUnblocked ==
    ASSUME TypeOK, NEW i \in DOMAIN items, NEW r,
           r.fingerprint = Fingerprint(items[i], ClosureOf(i)),
           r.verdict = FinalVerdict(i),
           /\ FinalVerdict(i).kind = "act"
           /\ FinalVerdict(i).action \notin Reverts
           => Unblocked(i)
    PROVE  RecordUnblocked(r)
<1> SUFFICES ASSUME r.fingerprint.closure # None,
                    r.verdict.kind = "act", r.verdict.action \notin Reverts
             PROVE  /\ \A d \in DOMAIN r.fingerprint.deps :
                          [dep |-> d, state |-> "satisfied"] \in r.fingerprint.closure
                    /\ DOMAIN r.fingerprint.deps = {} =>
                          r.fingerprint.labels \cap GateLabels = {}
  BY DEF RecordUnblocked
<1>1. Unblocked(i)
  OBVIOUS
<1>2. /\ DOMAIN r.fingerprint.deps = Declared(items[i])
      /\ r.fingerprint.labels = items[i].labels
      /\ r.fingerprint.closure = ClosureOf(i)
  BY FingerprintDomain
<1>3. ClosureOf(i) = ClosureState(items, world, i)
  BY <1>2 DEF ClosureOf
<1>4. \A d \in Declared(items[i]) :
          [dep |-> d, state |-> "satisfied"] \in ClosureState(items, world, i)
  BY <1>1, ReachableFacts DEF Unblocked, ClosureState, Entry
<1>5. Declared(items[i]) = {} => items[i].labels \cap GateLabels = {}
  BY <1>1, NothingDeclared DEF TypeOK, Unblocked, UnrepresentedGateLabels
<1> QED
  BY <1>2, <1>3, <1>4, <1>5

ActingInv == TodoIsOlder /\ RecordsUnblocked /\ NeverActsBlocked

LEMMA ActingInit == Init => ActingInv
<1>1. Init => TodoIsOlder
  BY DEF Init, TodoIsOlder, LegacyRecord
<1>2. Init => RecordsUnblocked
  BY DEF Init, RecordsUnblocked, RecordUnblocked, LegacyRecord
<1>3. Init => NeverActsBlocked
  BY NoResults DEF Init, NeverActsBlocked
<1> QED
  BY <1>1, <1>2, <1>3 DEF ActingInv

LEMMA ActingStep ==
    ASSUME MayRetry = FALSE, TypeOK, ActingInv, [Next]_vars
    PROVE  ActingInv'
<1>1. TodoIsOlder'
  BY TodoStep DEF ActingInv
<1>2. ASSUME NEW i \in DOMAIN items, ReconcileItem(i)
      PROVE  RecordsUnblocked' /\ NeverActsBlocked'
  <2>1. i \in DOMAIN store => store[i].generation # generation
    BY <1>2 DEF ActingInv, TodoIsOlder, ReconcileItem, TypeOK, IsRecord
  <2>2. /\ FinalVerdict(i).kind = "act" /\ FinalVerdict(i).action \notin Reverts
        => Unblocked(i)
    BY <2>1, ActingIsUnblocked DEF ActingInv
  <2>3. RecordsUnblocked'
    <3>1. RecordUnblocked(store'[i])
      BY <1>2, <2>2, RecordFields, NewRecordUnblocked
    <3> QED
      BY <1>2, <3>1, OneRecord DEF ActingInv, RecordsUnblocked
  <2>4. NeverActsBlocked'
    <3>1. /\ items' = items /\ world' = world
          /\ DOMAIN results' = DOMAIN results \cup {i}
          /\ results'[i].verdict = Given(i)
          /\ \A j \in DOMAIN results \ {i} : results'[j] = results[j]
      BY <1>2, OneResult
    <3>2. Given(i).kind = "act" => Given(i) = FinalVerdict(i)
      BY DEF Given, Blocked
    <3>3. /\ results'[i].verdict.kind = "act"
          /\ results'[i].verdict.action \notin Reverts
          => Unblocked(i)
      BY <2>2, <3>1, <3>2
    <3> QED
      BY <3>1, <3>3 DEF ActingInv, NeverActsBlocked, Acts, Unblocked
  <2> QED
    BY <2>3, <2>4
<1>3. CASE \A i \in DOMAIN items : ~ReconcileItem(i)
  <2>1. store' = store /\ (results' = <<>> \/ UNCHANGED vars)
    BY <1>3, QuietStep
  <2>2. RecordsUnblocked'
    BY <2>1 DEF ActingInv, RecordsUnblocked
  <2>3. NeverActsBlocked'
    <3>1. CASE results' = <<>>
      BY <3>1, NoResults DEF NeverActsBlocked
    <3>2. CASE UNCHANGED vars
      <4>1. items' = items /\ world' = world /\ results' = results
        BY <3>2 DEF vars
      <4> QED
        BY <4>1 DEF ActingInv, NeverActsBlocked, Acts
    <3> QED
      BY <2>1, <3>1, <3>2
  <2> QED
    BY <1>1, <2>2, <2>3 DEF ActingInv
<1> QED
  BY <1>1, <1>2, <1>3 DEF ActingInv

\* When every pass has a generation of its own, no action but one that an
\* obligation names for a missed deadline is emitted under an unsatisfied,
\* undecidable or undeclared condition: not by the evaluation, and not by a record
\* replayed from any earlier pass.
THEOREM NothingGatedActs ==
    ASSUME MayRetry = FALSE
    PROVE  Spec => []NeverActsBlocked
<1>1. Init => ActingInv
  BY ActingInit
<1>2. TypeOK /\ ActingInv /\ [Next]_vars => ActingInv'
  BY ActingStep
<1>3. ActingInv => NeverActsBlocked
  BY DEF ActingInv
<1> QED
  BY <1>1, <1>2, <1>3, TypeCorrect, PTL DEF Spec

-----------------------------------------------------------------------------
(* Being blocked.  A chain is recorded together with the closure it was     *)
(* read from: a replay that passes the fingerprint finds the same states    *)
(* for the same conditions.  A denial is never recorded.                    *)

\* The carried items are finitely many, and well formed.
LEMMA FiniteItems ==
    ASSUME TypeOK, IsFiniteSet(ItemIds)
    PROVE  /\ IsFiniteSet(DOMAIN items)
           /\ \A i \in DOMAIN items : items[i] \in Items
BY FS_Subset DEF TypeOK

\* A fresh verdict carries no chain, the chain of its item, or, while a merged
\* item's obligation waits, the predicate of the obligation.
LEMMA FreshChains ==
    ASSUME NEW i
    PROVE  \/ Fresh(i).chain = <<>> /\ Fresh(i).kind # "blocked"
           \/ /\ Fresh(i).chain = Chain(items, world, i)
              /\ IsItemBlocked(items[i], world)
           \/ /\ Fresh(i).chain = <<items[i].verification.predicate>>
              /\ items[i].verification # None
<1> DEFINE v == Fresh(i)
           NoChain(d)  == d.chain = <<>> /\ d.kind # "blocked"
           OwnChain(d) == d.chain = Chain(items, world, i) /\ IsItemBlocked(items[i], world)
           Waits(d)    == /\ d.chain = <<items[i].verification.predicate>>
                          /\ items[i].verification # None
<1>1. NoChain(Terminal) /\ NoChain(Undecidable) /\ \A a : NoChain(Act(a))
  BY DEF Terminal, Undecidable, Act
<1>2. IsItemBlocked(items[i], world) => OwnChain(BlockedOn(items, world, i))
  BY DEF BlockedOn, Blocked
<1> HIDE DEF NoChain, OwnChain
<1>3. NoChain(DispositionOfChange(items[i], world))
  BY <1>1 DEF DispositionOfChange
<1>4. \/ NoChain(DispositionPreChange(items, world, i))
      \/ OwnChain(DispositionPreChange(items, world, i))
  BY <1>1, <1>2 DEF DispositionPreChange
<1>5. \/ NoChain(DispositionInFlight(items, world, i))
      \/ OwnChain(DispositionInFlight(items, world, i))
  BY <1>1, <1>2, <1>3 DEF DispositionInFlight
<1>6. ASSUME EffectiveStage(items, world, i) = "merged"
      PROVE  \/ NoChain(DispositionMerged(items[i], world))
             \/ Waits(DispositionMerged(items[i], world))
  <2>1. items[i].verification # None \/ DeadlinePassed(items[i], world) = None
    BY DEF DeadlinePassed
  <2>2. Waits(Blocked(<<items[i].verification.predicate>>))
           \/ items[i].verification = None
    BY DEF Blocked
  <2> QED
    BY <1>1, <2>1, <2>2 DEF DispositionMerged
<1>7. \/ NoChain(DispatchOnStage(items, world, i))
      \/ OwnChain(DispatchOnStage(items, world, i))
      \/ Waits(DispatchOnStage(items, world, i))
  BY <1>1, <1>4, <1>5, <1>6 DEF DispatchOnStage
<1>8. NoChain(v) \/ OwnChain(v) \/ Waits(v)
  BY <1>1, <1>7 DEF Fresh, ComputeDisposition
<1> QED
  BY <1>8 DEF NoChain, OwnChain

\* A fresh verdict that is blocked says on what.
LEMMA FreshNamesBlocker ==
    ASSUME TypeOK, IsFiniteSet(ItemIds), NEW i \in DOMAIN items
    PROVE  Fresh(i) # Blocked(<<>>)
<1> SUFFICES ASSUME Fresh(i) = Blocked(<<>>) PROVE FALSE
  OBVIOUS
<1>1. Fresh(i).kind = "blocked" /\ Fresh(i).chain = <<>>
  BY DEF Blocked
<1>2. Fresh(i).chain # <<items[i].verification.predicate>>
  <2>1. \A p : <<p>> # <<>>
    OBVIOUS
  <2> QED
    BY <1>1, <2>1
<1>3. Chain(items, world, i) = <<>> /\ IsItemBlocked(items[i], world)
  BY <1>1, <1>2, FreshChains
<1> QED
  BY <1>3, FiniteItems, BlockedIsOwn

\* No record holds the verdict of a denial.
RecordsNameBlockers ==
    \A i \in DOMAIN store :
        store[i].verdict # None => store[i].verdict # Blocked(<<>>)

DenialInv == RecordsNameBlockers /\ DenialNeverSticks

\* What is recorded names a blocker, computed or replayed.
LEMMA RecordedNamesBlocker ==
    ASSUME TypeOK, IsFiniteSet(ItemIds), RecordsNameBlockers, NEW i \in DOMAIN items
    PROVE  FinalVerdict(i) # Blocked(<<>>)
<1>1. Undecidable # Blocked(<<>>)
  BY DEF Undecidable, Blocked
<1>2. Replayed(i) => store[i].verdict # Blocked(<<>>)
  BY DEF Replayed, ShouldSkip, RecordsNameBlockers
<1> QED
  BY <1>1, <1>2, FreshNamesBlocker DEF FinalVerdict, VerdictOf

\* Both halves are kept: the record by the verdict, the result by the denial.
LEMMA DenialStep ==
    ASSUME IsFiniteSet(ItemIds), TypeOK, DenialInv, [Next]_vars
    PROVE  DenialInv'
<1>1. ASSUME NEW i \in DOMAIN items, ReconcileItem(i) PROVE DenialInv'
  <2>1. FinalVerdict(i) # Blocked(<<>>)
    BY RecordedNamesBlocker DEF DenialInv
  <2>2. RecordsNameBlockers'
    <3>1. store'[i].verdict # Blocked(<<>>)
      BY <1>1, <2>1, RecordFields
    <3>2. /\ DOMAIN store' = DOMAIN store \cup {i}
          /\ \A j \in DOMAIN store \ {i} : store'[j] = store[j]
      BY <1>1, OneRecord
    <3>3. \A j \in DOMAIN store' :
              store'[j].verdict # None => store'[j].verdict # Blocked(<<>>)
      BY <3>1, <3>2 DEF DenialInv, RecordsNameBlockers
    <3> QED
      BY <3>3 DEF RecordsNameBlockers, Blocked
  <2>3. DenialNeverSticks'
    <3>1. /\ DOMAIN results' = DOMAIN results \cup {i}
          /\ results'[i] = ResultOf(i)
          /\ \A j \in DOMAIN results \ {i} : results'[j] = results[j]
      BY <1>1 DEF ReconcileItem, EmitResult, Put
    <3>2. results'[i].verdict = Given(i) /\ results'[i].denied = Denial(i)
      BY <3>1 DEF ResultOf
    <3>3. Given(i) = Blocked(<<>>) => Denial(i) # None
      BY <2>1 DEF Given
    <3>4. \A j \in DOMAIN results' :
              results'[j].verdict = Blocked(<<>>) => results'[j].denied # None
      BY <3>1, <3>2, <3>3 DEF DenialInv, DenialNeverSticks
    <3> QED
      BY <3>4 DEF DenialNeverSticks, Blocked
  <2> QED
    BY <2>2, <2>3 DEF DenialInv
<1>2. CASE \A i \in DOMAIN items : ~ReconcileItem(i)
  <2>1. store' = store /\ (results' = <<>> \/ results' = results)
    BY <1>2, QuietStep DEF vars
  <2>2. RecordsNameBlockers'
    BY <2>1 DEF DenialInv, RecordsNameBlockers, Blocked
  <2>3. DenialNeverSticks'
    BY <2>1, NoResults DEF DenialInv, DenialNeverSticks, Blocked
  <2> QED
    BY <2>2, <2>3 DEF DenialInv
<1> QED
  BY <1>1, <1>2

\* A blocked verdict without a chain is a denial of this very pass: admission is
\* applied behind the record, and every other blocked verdict, fresh or replayed,
\* names what it waits for (reconciler.py, the admission gate).
THEOREM DenialsAreNotRecorded ==
    ASSUME IsFiniteSet(ItemIds)
    PROVE  Spec => []DenialNeverSticks
<1>1. Init => DenialInv
  <2>1. Init => RecordsNameBlockers
    BY DEF Init, RecordsNameBlockers, LegacyRecord
  <2>2. Init => DenialNeverSticks
    BY NoResults DEF Init, DenialNeverSticks
  <2> QED
    BY <2>1, <2>2 DEF DenialInv
<1>2. TypeOK /\ DenialInv /\ [Next]_vars => DenialInv'
  BY DenialStep
<1>3. DenialInv => DenialNeverSticks
  BY DEF DenialInv
<1> QED
  BY <1>1, <1>2, <1>3, TypeCorrect, PTL DEF Spec

\* The chain of a record is made of open conditions of the recorded closure.
RecordCurrent(r) ==
    r.fingerprint.closure # None /\ r.verdict # None =>
        \A n \in DOMAIN r.verdict.chain :
            [dep |-> r.verdict.chain[n], state |-> "unsatisfied"]
                \in r.fingerprint.closure

RecordsCurrent == \A i \in DOMAIN store : RecordCurrent(store[i])

\* Without obligations a fresh chain is a walk along what is reachable.
LEMMA FreshIsCurrent ==
    ASSUME TypeOK, IsFiniteSet(ItemIds), Obligations = {},
           NEW i \in DOMAIN items, ~Cyclic(i)
    PROVE  Within(Fresh(i).chain, items, world, i)
<1>1. items[i].verification = None
  BY DEF TypeOK, Items
<1>2. CASE Fresh(i).chain = <<>>
  BY <1>2, NoResults DEF Within
<1>3. CASE Fresh(i).chain = Chain(items, world, i)
  <2>1. Chain(items, world, i) # Cycle
    BY FiniteItems, ChainRaises DEF Cyclic
  <2> QED
    BY <1>3, <2>1, FiniteItems, ChainNamesRootCause
<1> QED
  BY <1>1, <1>2, <1>3, FreshChains

\* A chain replayed over a matching fingerprint is current.
LEMMA ReplayIsCurrent ==
    ASSUME NEW i \in DOMAIN store, ~Cyclic(i), RecordCurrent(store[i]),
           Matches(Fingerprint(items[i], ClosureOf(i)), store[i].fingerprint),
           store[i].verdict # None
    PROVE  Within(store[i].verdict.chain, items, world, i)
<1>1. /\ store[i].fingerprint.closure # None
      /\ store[i].fingerprint.closure = ClosureState(items, world, i)
  BY FingerprintDomain DEF Matches, ClosureOf
<1>2. ASSUME NEW n \in DOMAIN store[i].verdict.chain
      PROVE  /\ store[i].verdict.chain[n] \in ReachableDeps(items, i)
             /\ EvaluateDependency(store[i].verdict.chain[n], world) = "unsatisfied"
  <2>1. [dep |-> store[i].verdict.chain[n], state |-> "unsatisfied"]
            \in ClosureState(items, world, i)
    BY <1>1 DEF RecordCurrent
  <2> QED
    BY <2>1 DEF ClosureState, Entry
<1> QED
  BY <1>2 DEF Within

\* So the verdict of a pass with its own generation is current,
LEMMA VerdictIsCurrent ==
    ASSUME TypeOK, IsFiniteSet(ItemIds), Obligations = {}, RecordsCurrent,
           NEW i \in DOMAIN items,
           i \in DOMAIN store => store[i].generation # generation
    PROVE  Within(FinalVerdict(i).chain, items, world, i)
<1>0. Within(<<>>, items, world, i)
  BY NoResults DEF Within
<1>1. CASE Cyclic(i)
  <2>1. items[i].stage \in TerminalStages => Fresh(i) = Terminal
    BY CarvedOutIsTerminal DEF Fresh
  <2>2. FinalVerdict(i) \in {Terminal, Undecidable}
    BY <1>1, <2>1 DEF FinalVerdict, Regresses, VerdictOf
  <2>3. FinalVerdict(i).chain = <<>>
    BY <2>2 DEF Terminal, Undecidable
  <2> QED
    BY <1>0, <2>3
<1>2. CASE ~Cyclic(i) /\ FinalVerdict(i) = Fresh(i)
  BY <1>2, FreshIsCurrent
<1>3. CASE ~Cyclic(i) /\ FinalVerdict(i) # Fresh(i)
  <2>1. Replayed(i) /\ FinalVerdict(i) = store[i].verdict
    BY <1>3 DEF FinalVerdict, VerdictOf
  <2>2. /\ i \in DOMAIN store /\ store[i].verdict # None
        /\ Matches(Fingerprint(items[i], ClosureOf(i)), store[i].fingerprint)
    BY <2>1 DEF Replayed, ShouldSkip
  <2> QED
    BY <1>3, <2>1, <2>2, ReplayIsCurrent DEF RecordsCurrent
<1> QED
  BY <1>1, <1>2, <1>3

\* and what is recorded of it.
LEMMA NewRecordCurrent ==
    ASSUME NEW i \in DOMAIN items, NEW r,
           r.fingerprint = Fingerprint(items[i], ClosureOf(i)),
           r.verdict = FinalVerdict(i),
           Within(FinalVerdict(i).chain, items, world, i)
    PROVE  RecordCurrent(r)
<1> SUFFICES ASSUME r.fingerprint.closure # None, NEW n \in DOMAIN r.verdict.chain
             PROVE  [dep |-> r.verdict.chain[n], state |-> "unsatisfied"]
                        \in r.fingerprint.closure
  BY DEF RecordCurrent
<1>1. r.fingerprint.closure = ClosureState(items, world, i)
  BY FingerprintDomain DEF ClosureOf
<1>2. /\ r.verdict.chain[n] \in ReachableDeps(items, i)
      /\ EvaluateDependency(r.verdict.chain[n], world) = "unsatisfied"
  BY DEF Within
<1> QED
  BY <1>1, <1>2 DEF ClosureState, Entry

BlockersInv == TodoIsOlder /\ RecordsCurrent /\ BlockersAreCurrent

\* The invariant is kept by every step.
LEMMA BlockersStep ==
    ASSUME MayRetry = FALSE, Obligations = {}, IsFiniteSet(ItemIds),
           TypeOK, BlockersInv, [Next]_vars
    PROVE  BlockersInv'
<1>1. TodoIsOlder'
  BY TodoStep DEF BlockersInv
<1>2. ASSUME NEW i \in DOMAIN items, ReconcileItem(i)
      PROVE  RecordsCurrent' /\ BlockersAreCurrent'
  <2>1. i \in DOMAIN store => store[i].generation # generation
    BY <1>2 DEF BlockersInv, TodoIsOlder, ReconcileItem, TypeOK, IsRecord
  <2>2. Within(FinalVerdict(i).chain, items, world, i)
    BY <2>1, VerdictIsCurrent DEF BlockersInv
  <2>3. RecordsCurrent'
    <3>1. RecordCurrent(store'[i])
      BY <1>2, <2>2, RecordFields, NewRecordCurrent
    <3> QED
      BY <1>2, <3>1, OneRecord DEF BlockersInv, RecordsCurrent
  <2>4. BlockersAreCurrent'
    <3>1. /\ items' = items /\ world' = world
          /\ DOMAIN results' = DOMAIN results \cup {i}
          /\ results'[i].verdict = Given(i)
          /\ \A j \in DOMAIN results \ {i} : results'[j] = results[j]
      BY <1>2, OneResult
    <3>2. Within(Given(i).chain, items, world, i)
      BY <2>2, NoResults DEF Given, Blocked, Within
    <3>3. \A j \in DOMAIN results : Within(results[j].verdict.chain, items, world, j)
      BY DEF BlockersInv, BlockersAreCurrent, Within
    <3>4. \A j \in DOMAIN results' : Within(results'[j].verdict.chain, items, world, j)
      BY <3>1, <3>2, <3>3
    <3> QED
      BY <3>1, <3>4 DEF BlockersAreCurrent, Within
  <2> QED
    BY <2>3, <2>4
<1>3. CASE \A i \in DOMAIN items : ~ReconcileItem(i)
  <2>1. store' = store /\ (results' = <<>> \/ UNCHANGED vars)
    BY <1>3, QuietStep
  <2>2. RecordsCurrent'
    BY <2>1 DEF BlockersInv, RecordsCurrent
  <2>3. BlockersAreCurrent'
    <3>1. CASE results' = <<>>
      BY <3>1, NoResults DEF BlockersAreCurrent
    <3>2. CASE UNCHANGED vars
      <4>1. items' = items /\ world' = world /\ results' = results
        BY <3>2 DEF vars
      <4> QED
        BY <4>1 DEF BlockersInv, BlockersAreCurrent
    <3> QED
      BY <2>1, <3>1, <3>2
  <2> QED
    BY <1>1, <2>2, <2>3 DEF BlockersInv
<1> QED
  BY <1>1, <1>2, <1>3 DEF BlockersInv

\* Whatever a blocked verdict names, fresh or replayed from any earlier pass, is
\* within reach of the item and unsatisfied in the snapshot of this pass.  The
\* hypotheses are what the fingerprint needs: a generation of its own for every
\* pass, and no obligation, whose predicate no fingerprint covers.
THEOREM BlockedOnCurrentConditions ==
    ASSUME MayRetry = FALSE, Obligations = {}, IsFiniteSet(ItemIds)
    PROVE  Spec => []BlockersAreCurrent
<1>1. Init => BlockersInv
  <2>1. Init => TodoIsOlder
    BY DEF Init, TodoIsOlder, LegacyRecord
  <2>2. Init => RecordsCurrent
    BY DEF Init, RecordsCurrent, RecordCurrent, LegacyRecord
  <2>3. Init => BlockersAreCurrent
    BY NoResults DEF Init, BlockersAreCurrent
  <2> QED
    BY <2>1, <2>2, <2>3 DEF BlockersInv
<1>2. TypeOK /\ BlockersInv /\ [Next]_vars => BlockersInv'
  BY BlockersStep
<1>3. BlockersInv => BlockersAreCurrent
  BY DEF BlockersInv
<1> QED
  BY <1>1, <1>2, <1>3, TypeCorrect, PTL DEF Spec

-----------------------------------------------------------------------------
(* Skipping.  A record remembers some graph and some world under which its  *)
(* verdict was computed.  The fingerprint holds everything of them that the *)
(* verdict depends on, except the facts of the item it leaves out: of each  *)
(* item those must not move, while items may differ in them.                *)

\* Two versions of an item that differ at most in what the fingerprint covers.
Alike(p, q) ==
    /\ p.stage = q.stage
    /\ p.change = q.change
    /\ p.additional_refs = q.additional_refs
    /\ p.human_owned = q.human_owned
    /\ p.do_not_groom = q.do_not_groom
    /\ p.verification = q.verification

\* An item whose verdict reads a predicate and a clock no fingerprint holds.
Waits(p) == p.stage = "merged" /\ p.verification # None

\* Every carried item keeps the unfingerprinted facts of its shape.
Unmoved(shape) ==
    \A i \in DOMAIN items : Alike(items[i], shape[i]) /\ ~Waits(items[i])

\* Equal closures find the same states for the declarations of the item.
LEMMA ClosureDecides ==
    ASSUME NEW old, NEW v, NEW new, NEW w, NEW i \in DOMAIN old, i \in DOMAIN new,
           ClosureState(old, v, i) = ClosureState(new, w, i)
    PROVE  \A d \in Declared(old[i]) : EvaluateDependency(d, v) = EvaluateDependency(d, w)
<1> SUFFICES ASSUME NEW d \in Declared(old[i])
             PROVE  EvaluateDependency(d, v) = EvaluateDependency(d, w)
  OBVIOUS
<1>1. d \in ReachableDeps(old, i)
  BY ReachableIsClosed DEF ReachableDeps
<1>2. Entry(d, v) \in ClosureState(new, w, i)
  BY <1>1 DEF ClosureState
<1>3. PICK e \in ReachableDeps(new, i) : Entry(d, v) = Entry(e, w)
  BY <1>2 DEF ClosureState
<1> QED
  BY <1>3 DEF Entry

\* Equal fingerprints of versions alike make equal verdicts, up to the chain.
LEMMA FingerprintDecides ==
    ASSUME NEW old, NEW v, NEW new, NEW w, NEW i \in DOMAIN old, i \in DOMAIN new,
           old[i] \in Items, new[i] \in Items, Alike(old[i], new[i]),
           ~Waits(old[i]),
           Fingerprint(old[i], ClosureState(old, v, i)) =
               Fingerprint(new[i], ClosureState(new, w, i))
    PROVE  SameVerdict(ComputeDisposition(old, v, i), ComputeDisposition(new, w, i))
<1> DEFINE p == old[i]
           q == new[i]
<1>1. /\ Declared(p) = Declared(q) /\ p.labels = q.labels
      /\ ClosureState(old, v, i) = ClosureState(new, w, i)
  BY FingerprintDomain
<1>2. \A d \in Declared(p) : EvaluateDependency(d, v) = EvaluateDependency(d, w)
  BY <1>1, ClosureDecides
<1>3. \A s : InState(p, v, s) = InState(q, w, s)
  BY <1>1, <1>2 DEF InState
<1>4. IsItemBlocked(p, v) <=> IsItemBlocked(q, w)
  BY <1>3 DEF IsItemBlocked
<1>5. UnrepresentedGateLabels(p) = UnrepresentedGateLabels(q)
  BY <1>1, NothingDeclared DEF UnrepresentedGateLabels
<1>6. ClassifyLane(p, v) <=> ClassifyLane(q, w)
  BY <1>1, <1>2, <1>5 DEF ClassifyLane, GateA, MatchLane, NoOpenDependency, Alike
<1>7. DispositionOfChange(p, v) = DispositionOfChange(q, w)
  BY <1>6 DEF DispositionOfChange, Alike
<1>8. SameVerdict(DispositionPreChange(old, v, i), DispositionPreChange(new, w, i))
  BY <1>4 DEF DispositionPreChange, BlockedOn, Blocked, SameVerdict
<1>9. SameVerdict(DispositionInFlight(old, v, i), DispositionInFlight(new, w, i))
  BY <1>4, <1>7 DEF DispositionInFlight, BlockedOn, Blocked, SameVerdict, Alike
<1>10. SameVerdict(DispatchOnStage(old, v, i), DispatchOnStage(new, w, i))
  <2>1. /\ p.stage # "merged" \/ EvaluateVerification(p, v) = None
        /\ q.stage # "merged" \/ EvaluateVerification(q, w) = None
    BY DEF EvaluateVerification, Alike, Waits
  <2>2. CASE p.stage \in PreChangeStages
    <3>1. /\ EffectiveStage(old, v, i) \in PreChangeStages
          /\ EffectiveStage(new, w, i) \in PreChangeStages
      BY <2>2 DEF EffectiveStage, PreChangeStages, Alike
    <3>2. /\ DispatchOnStage(old, v, i) = DispositionPreChange(old, v, i)
          /\ DispatchOnStage(new, w, i) = DispositionPreChange(new, w, i)
      BY <3>1 DEF DispatchOnStage, PreChangeStages
    <3> QED
      BY <1>8, <3>2
  <2>3. CASE p.stage \notin PreChangeStages
    <3>1. /\ EffectiveStage(old, v, i) = EffectiveStage(new, w, i)
          /\ EffectiveStage(old, v, i) # "merged"
          /\ EffectiveStage(old, v, i) \notin PreChangeStages
      BY <2>1, <2>3 DEF EffectiveStage, Alike, PreChangeStages
    <3>2. CASE EffectiveStage(old, v, i) = "in_flight"
      <4>1. /\ DispatchOnStage(old, v, i) = DispositionInFlight(old, v, i)
            /\ DispatchOnStage(new, w, i) = DispositionInFlight(new, w, i)
        BY <3>1, <3>2 DEF DispatchOnStage
      <4> QED
        BY <1>9, <4>1
    <3>3. CASE EffectiveStage(old, v, i) # "in_flight"
      <4>1. /\ DispatchOnStage(old, v, i) = Terminal
            /\ DispatchOnStage(new, w, i) = Terminal
        BY <3>1, <3>3 DEF DispatchOnStage
      <4> QED
        BY <4>1 DEF SameVerdict
    <3> QED
      BY <3>2, <3>3
  <2> QED
    BY <2>2, <2>3
<1> QED
  BY <1>3, <1>5, <1>10 DEF ComputeDisposition, SameVerdict, Alike

\* Where the verdict of a record comes from.
ComesFrom(r, i, its, w, shape) ==
    /\ i \in DOMAIN its
    /\ its[i] \in Items
    /\ Alike(its[i], shape[i]) /\ ~Waits(its[i])
    /\ r.fingerprint = Fingerprint(its[i], ClosureState(its, w, i))
    /\ SameVerdict(r.verdict, ComputeDisposition(its, w, i))

Remembers(r, i, shape) ==
    r.fingerprint.closure # None /\ r.verdict # None =>
        \E its, w : ComesFrom(r, i, its, w, shape)

SkipInv(shape) ==
    /\ TodoIsOlder
    /\ \A i \in DOMAIN store : Remembers(store[i], i, shape)
    /\ DOMAIN results \subseteq DOMAIN store
    /\ SkipIsRederivation

\* Where the fingerprint matches, the recorded verdict is the fresh one.
LEMMA ReplayIsFresh ==
    ASSUME NEW shape, TypeOK, Unmoved(shape),
           NEW i \in DOMAIN items, i \in DOMAIN store, ~Cyclic(i),
           Remembers(store[i], i, shape), store[i].verdict # None,
           Matches(Fingerprint(items[i], ClosureOf(i)), store[i].fingerprint)
    PROVE  SameVerdict(store[i].verdict, Fresh(i))
<1>1. /\ store[i].fingerprint.closure # None
      /\ store[i].fingerprint = Fingerprint(items[i], ClosureState(items, world, i))
  BY FingerprintDomain DEF Matches, ClosureOf
<1>2. PICK its, w : ComesFrom(store[i], i, its, w, shape)
  BY <1>1 DEF Remembers
<1>3. Alike(its[i], items[i]) /\ items[i] \in Items
  BY <1>2 DEF ComesFrom, Unmoved, Alike, TypeOK
<1>4. SameVerdict(ComputeDisposition(its, w, i), ComputeDisposition(items, world, i))
  BY <1>1, <1>2, <1>3, FingerprintDecides DEF ComesFrom
<1> QED
  BY <1>2, <1>4 DEF ComesFrom, SameVerdict, Fresh

\* The verdict of an item without a cycle is the fresh one, or one like it.
LEMMA VerdictIsFresh ==
    ASSUME NEW shape, TypeOK, Unmoved(shape),
           NEW i \in DOMAIN items, ~Cyclic(i),
           i \in DOMAIN store => Remembers(store[i], i, shape),
           i \in DOMAIN store => store[i].generation # generation
    PROVE  SameVerdict(FinalVerdict(i), Fresh(i))
<1>1. CASE FinalVerdict(i) = Fresh(i)
  BY <1>1 DEF SameVerdict
<1>2. CASE FinalVerdict(i) # Fresh(i)
  <2>1. Replayed(i) /\ FinalVerdict(i) = store[i].verdict
    BY <1>2 DEF FinalVerdict, VerdictOf
  <2>2. /\ i \in DOMAIN store /\ store[i].verdict # None
        /\ Matches(Fingerprint(items[i], ClosureOf(i)), store[i].fingerprint)
    BY <2>1 DEF Replayed, ShouldSkip
  <2> QED
    BY <2>1, <2>2, ReplayIsFresh
<1> QED
  BY <1>1, <1>2

\* One turn of the loop keeps what concerns records and results,
LEMMA SkipReconcile ==
    ASSUME NEW shape, TypeOK, Unmoved(shape), SkipInv(shape),
           NEW i \in DOMAIN items, ReconcileItem(i)
    PROVE  /\ \A j \in DOMAIN store' : Remembers(store'[j], j, shape)
           /\ (DOMAIN results \subseteq DOMAIN store)'
           /\ SkipIsRederivation'
<1>1. i \in DOMAIN store => store[i].generation # generation
  BY DEF SkipInv, TodoIsOlder, ReconcileItem, TypeOK, IsRecord
<1>2. ~Cyclic(i) => SameVerdict(FinalVerdict(i), Fresh(i))
  BY <1>1, VerdictIsFresh DEF SkipInv
<1>3. /\ DOMAIN store' = DOMAIN store \cup {i}
      /\ \A j \in DOMAIN store \ {i} : store'[j] = store[j]
      /\ store'[i].fingerprint = Fingerprint(items[i], ClosureOf(i))
      /\ store'[i].verdict = FinalVerdict(i)
  BY OneRecord, RecordFields
<1>4. /\ items' = items /\ world' = world
      /\ DOMAIN results' = DOMAIN results \cup {i}
      /\ \A j \in DOMAIN results \ {i} : results'[j] = results[j]
  BY OneResult
<1>5. Remembers(store'[i], i, shape)
  <2> SUFFICES ASSUME store'[i].fingerprint.closure # None
               PROVE  ComesFrom(store'[i], i, items, world, shape)
    BY DEF Remembers
  <2>1. ~Cyclic(i) /\ ClosureOf(i) = ClosureState(items, world, i)
    BY <1>3, FingerprintDomain DEF ClosureOf
  <2> QED
    BY <1>2, <1>3, <2>1 DEF ComesFrom, Unmoved, TypeOK, Fresh
<1>6. \A j \in DOMAIN store' : Remembers(store'[j], j, shape)
  BY <1>3, <1>5 DEF SkipInv
<1>7. results'[i].skipped => ~Cyclic(i)
  <2>1. results'[i].skipped = Skipped(i)
    BY DEF ReconcileItem, EmitResult, Put, ResultOf
  <2>2. Skipped(i) => ~Cyclic(i)
    BY DEF Skipped, Replayed
  <2> QED
    BY <2>1, <2>2
<1>8. \A j \in DOMAIN results' :
          results'[j].skipped =>
              SameVerdict(store'[j].verdict, ComputeDisposition(items, world, j))
  BY <1>2, <1>3, <1>4, <1>7 DEF SkipInv, SkipIsRederivation, Fresh
<1>9. SkipIsRederivation'
  BY <1>4, <1>8 DEF SkipIsRederivation, Fresh, SameVerdict
<1> QED
  BY <1>3, <1>4, <1>6, <1>9 DEF SkipInv

\* and every step the whole invariant,
LEMMA SkipStep ==
    ASSUME NEW shape, MayRetry = FALSE, TypeOK, Unmoved(shape), SkipInv(shape),
           [Next]_vars
    PROVE  SkipInv(shape)'
<1>1. TodoIsOlder'
  BY TodoStep DEF SkipInv
<1>2. ASSUME NEW i \in DOMAIN items, ReconcileItem(i) PROVE SkipInv(shape)'
  BY <1>1, <1>2, SkipReconcile DEF SkipInv
<1>3. CASE \A i \in DOMAIN items : ~ReconcileItem(i)
  <2>1. store' = store /\ (results' = <<>> \/ UNCHANGED vars)
    BY <1>3, QuietStep
  <2>2. \A i \in DOMAIN store' : Remembers(store'[i], i, shape)
    BY <2>1 DEF SkipInv
  <2>3. (DOMAIN results \subseteq DOMAIN store)' /\ SkipIsRederivation'
    <3>1. CASE results' = <<>>
      BY <3>1, NoResults DEF SkipIsRederivation
    <3>2. CASE UNCHANGED vars
      <4>1. items' = items /\ world' = world /\ store' = store /\ results' = results
        BY <3>2 DEF vars
      <4> QED
        BY <4>1 DEF SkipInv, SkipIsRederivation, Fresh, SameVerdict
    <3> QED
      BY <2>1, <3>1, <3>2
  <2> QED
    BY <1>1, <2>2, <2>3 DEF SkipInv
<1> QED
  BY <1>2, <1>3

\* which holds of a store of pre-upgrade records.
LEMMA SkipInit ==
    ASSUME NEW shape, Init PROVE SkipInv(shape)
<1>1. PICK carried \in SUBSET ItemIds :
          store = [i \in LegacyIds \cap carried |-> LegacyRecord(items[i])]
  BY DEF Init
<1>2. TodoIsOlder
  BY DEF Init, TodoIsOlder, LegacyRecord
<1>3. \A i \in DOMAIN store : store[i].verdict = None
  BY <1>1 DEF LegacyRecord
<1>4. \A i \in DOMAIN store : Remembers(store[i], i, shape)
  BY <1>3 DEF Remembers
<1>5. DOMAIN results \subseteq DOMAIN store /\ SkipIsRederivation
  BY NoResults DEF Init, SkipIsRederivation
<1> QED
  BY <1>2, <1>4, <1>5 DEF SkipInv

\* A skip changes nothing but the work: the replayed verdict has the kind and the
\* action that re-deriving would give in this pass.  Items may differ from each
\* other in everything; what is assumed is that each keeps, for as long as it is
\* carried, the facts that no fingerprint holds (stage, change, second reference,
\* owner, exclusion, obligation), that none is merged with an obligation, and that
\* every pass has its own generation.  Labels, declarations, the world and the
\* carried set move freely.  Of the chain, which the order of the declarations
\* also decides, BlockedOnCurrentConditions says what a replay keeps.
THEOREM SkippingIsSound ==
    ASSUME MayRetry = FALSE, NEW shape
    PROVE  Spec /\ []Unmoved(shape) => []SkipIsRederivation
<1>1. Init => SkipInv(shape)
  BY SkipInit
<1>2. TypeOK /\ Unmoved(shape) /\ SkipInv(shape) /\ [Next]_vars => SkipInv(shape)'
  BY SkipStep
<1>3. SkipInv(shape) => SkipIsRederivation
  BY DEF SkipInv
<1> QED
  BY <1>1, <1>2, <1>3, TypeCorrect, PTL DEF Spec

=============================================================================
