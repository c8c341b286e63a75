------------------------------ MODULE Reconciler ------------------------------
(***************************************************************************)
(* reconciler.py: Reconciler.reconcile run pass after pass by a harness    *)
(* that keeps the generation store between passes, while the tracker and   *)
(* the world move in between.                                              *)
(*                                                                         *)
(* A pass is a loop over the harness's list, in whatever order it lists    *)
(* the items: one ReconcileItem step per item.  items and world are the    *)
(* snapshot reconcile is called with, so they stand still while it runs;   *)
(* between passes any field the harness observes may move (EnvMoves says   *)
(* which ones do).  A pass may die between two items and be retried.       *)
(***************************************************************************)
EXTENDS ObservedGen, Admission

CONSTANTS InitItems,       \* what a newly carried item may look like
          DepLists,        \* the declarations an item may be edited to have
          EnvMoves,        \* the item facts that move between passes
          LegacyIds,       \* ids the store holds a pre-upgrade record of
          Undated,         \* whether a pass may come without observed_at
          MayRetry,        \* may an interrupted pass keep its generation?
          MaxCycles        \* bound on the number of passes

MoveKinds == {"labels", "deps", "owner", "exclude", "lifecycle", "change",
              "identity", "carry"}

ASSUME ReconcilerAssumption ==
    /\ InitItems \subseteq Items
    /\ \A item \in InitItems : CheckStageInvariants(item)
    /\ DepLists \subseteq Seq(Declarable)
    /\ EnvMoves \subseteq MoveKinds
    /\ LegacyIds \subseteq ItemIds
    /\ Undated \subseteq BOOLEAN
    /\ MayRetry \in BOOLEAN
    /\ MaxCycles \in Nat

VARIABLES items,        \* the carried items, by id
          world,        \* the observed world
          store,        \* the generation store
          running,      \* is a pass under way?
          interrupted,  \* did the last pass die before its end?
          cycle,        \* passes started so far; also the clock of observed_at
          generation,   \* ReconcilerConfig.generation
          observed_at,  \* ReconcilerConfig.observed_at; None between passes
          todo,         \* items this pass has not reached yet
          results       \* the ItemDisposition of every item it has

tracker == <<items, world>>
config  == <<cycle, generation, observed_at>>
vars    == <<items, world, store, running, interrupted, cycle, generation,
             observed_at, todo, results>>

-----------------------------------------------------------------------------
(* One item of the loop.                                                    *)

Cyclic(i) == CycleReachable(items, i)

\* A malformed date raises out of closure_state, or out of effective_stage when
\* it is the predicate of a merged item's obligation.
ClosureRaises(i) == \E d \in ReachableDeps(items, i) : Raises(d, world)

StageRaises(i) ==
    /\ items[i].stage = "merged"
    /\ items[i].verification # None
    /\ Raises(items[i].verification.predicate, world)

\* Reaching i in the loop aborts the pass, unless the walk meets a cycle first.
RaisesAt(i) == ClosureRaises(i) \/ (~Cyclic(i) /\ StageRaises(i))

ClosureOf(i) == IF Cyclic(i) THEN None ELSE ClosureState(items, world, i)

StageOf(i) == IF Cyclic(i) THEN items[i].stage ELSE EffectiveStage(items, world, i)

Fresh(i) == ComputeDisposition(items, world, i)

\* The recorded verdict is replayed only if the record has one.
Replayed(i) ==
    /\ ~Cyclic(i)
    /\ ShouldSkip(i, items[i], store, ClosureOf(i), generation)
    /\ store[i].verdict # None

VerdictOf(i) ==
    IF Cyclic(i) THEN Undecidable
    ELSE IF Replayed(i) THEN store[i].verdict ELSE Fresh(i)

Regresses_Never(i) == FALSE   \* mutant: the guard on terminal stages dropped

\* The terminal-stage guard: such a verdict is thrown away and recomputed.
Regresses(i) == items[i].stage \in TerminalStages /\ VerdictOf(i).kind # "terminal"

FinalVerdict(i) == IF Regresses(i) THEN Fresh(i) ELSE VerdictOf(i)

Skipped(i) == Replayed(i) /\ ~Regresses(i)

\* The admission gate, applied to the verdict after it was recorded.
Denial(i) ==
    IF FinalVerdict(i) = Act("create_pr") /\ items[i].change = None
    THEN CanAdmit(items, world, i) ELSE None

Given(i) == IF Denial(i) = None THEN FinalVerdict(i) ELSE Blocked(<<>>)

VerdictToRecord_Given(i) == Given(i)   \* mutant: the denial is recorded

VerdictToRecord(i) == FinalVerdict(i)

ResultOf(i) ==
    [verdict |-> Given(i), stage |-> StageOf(i), skipped |-> Skipped(i),
     denied |-> Denial(i)]

EmitResult_OnlyEvaluated(i) ==   \* mutant: a skipped item is dropped silently
    IF Skipped(i) THEN results ELSE Put(results, i, ResultOf(i))

EmitResult(i) == Put(results, i, ResultOf(i))

ReconcileItem(i) ==
    /\ running
    /\ i \in todo
    /\ Cyclic(i) \/ ~RaisesAt(i)
    /\ store' = Put(store, i,
                    RecordOf(i, items[i], store, generation, ClosureOf(i),
                             VerdictToRecord(i), StageOf(i), observed_at))
    /\ results' = EmitResult(i)
    /\ todo' = todo \ {i}
    /\ UNCHANGED <<tracker, config, running, interrupted>>

-----------------------------------------------------------------------------
(* The pass around the loop.                                                *)

\* The harness's counter grows from pass to pass; a retry of a pass that died
\* may keep it.
StartPass ==
    /\ ~running
    /\ cycle < MaxCycles
    /\ cycle' = cycle + 1
    /\ generation' \in {generation + 1} \cup
                       (IF MayRetry /\ interrupted THEN {generation} ELSE {})
    /\ observed_at' \in {IF undated THEN None ELSE cycle' : undated \in Undated}
    /\ running' = TRUE
    /\ interrupted' = FALSE
    /\ todo' = DOMAIN items
    /\ results' = <<>>
    /\ UNCHANGED <<tracker, store>>

FinishPass ==
    /\ running
    /\ todo = {}
    /\ running' = FALSE
    /\ observed_at' = None
    /\ results' = <<>>
    /\ UNCHANGED <<tracker, store, interrupted, cycle, generation, todo>>

Die ==
    /\ running' = FALSE
    /\ interrupted' = TRUE
    /\ observed_at' = None
    /\ todo' = {}
    /\ results' = <<>>
    /\ UNCHANGED <<tracker, store, cycle, generation>>

\* ValueError leaves reconcile: every item not reached yet gets no verdict.
AbortPass(i) ==
    /\ running
    /\ i \in todo
    /\ RaisesAt(i)
    /\ Die

\* The process is killed between two items; the records already put survive.
InterruptPass == running /\ Die

-----------------------------------------------------------------------------
(* What moves between passes.  Items rest after the last one (MaxCycles).    *)

Edit(kind, i, item) ==
    /\ ~running /\ cycle < MaxCycles
    /\ kind \in EnvMoves
    /\ items' = [items EXCEPT ![i] = item]
    /\ UNCHANGED <<world, store, running, interrupted, config, todo, results>>

Relabel(i) ==
    \E labels \in SUBSET (GateLabels \cup LaneLabels) :
        Edit("labels", i, [items[i] EXCEPT !.labels = labels])

Redeclare(i) ==
    \E deps \in DepLists : Edit("deps", i, [items[i] EXCEPT !.deps = deps])

Reown(i) ==
    Edit("owner", i, [items[i] EXCEPT !.human_owned = ~@])

Exclude(i) ==
    Edit("exclude", i, [items[i] EXCEPT !.do_not_groom = ~@])

\* A change appears; a record that only names it has change = None.
OpenChange(i) ==
    /\ items[i].stage \in PreChangeStages
    /\ \E change \in Changes \cup {None} :
          Edit("lifecycle", i, [items[i] EXCEPT !.stage = "in_flight",
                                                !.change = change, !.ref = TRUE])

MoveChange(i) ==
    /\ items[i].stage = "in_flight" /\ items[i].change # None
    /\ \E change \in Changes : Edit("change", i, [items[i] EXCEPT !.change = change])

\* A second open change names the same item, or stops doing so.
Duplicate(i) ==
    /\ items[i].stage = "in_flight"
    /\ Edit("identity", i, [items[i] EXCEPT !.additional_refs = ~@])

CloseChange(i) ==
    /\ items[i].stage = "in_flight"
    /\ Edit("lifecycle", i, [items[i] EXCEPT !.stage = "proposed", !.change = None,
                                             !.ref = FALSE, !.additional_refs = FALSE])

Merge(i) ==
    /\ items[i].stage = "in_flight"
    /\ \E v \in Obligations \cup {None} :
          Edit("lifecycle", i, [items[i] EXCEPT !.stage = "merged",
                                                !.verification = v,
                                                !.additional_refs = FALSE])

Close(i) ==
    \E stage \in TerminalStages :
        /\ CanTransition(items[i].stage, stage)
        /\ Edit("lifecycle", i, [items[i] EXCEPT !.stage = stage])

Reopen(i) ==
    /\ items[i].stage \in TerminalStages
    /\ Edit("lifecycle", i, [items[i] EXCEPT !.stage = "proposed", !.change = None,
                                             !.ref = FALSE, !.additional_refs = FALSE,
                                             !.verification = None])

Carry(i) ==
    /\ ~running /\ cycle < MaxCycles
    /\ "carry" \in EnvMoves
    /\ i \notin DOMAIN items
    /\ \E item \in InitItems : items' = Put(items, i, item)
    /\ UNCHANGED <<world, store, running, interrupted, config, todo, results>>

Drop(i) ==
    /\ ~running /\ cycle < MaxCycles
    /\ "carry" \in EnvMoves
    /\ items' = Restrict(items, DOMAIN items \ {i})
    /\ UNCHANGED <<world, store, running, interrupted, config, todo, results>>

\* Anything observed may come and go, except that dates do not run backwards.
Observe ==
    /\ ~running
    /\ \E w \in Worlds :
          /\ world.today # None /\ w.today # None => w.today >= world.today
          /\ world' = w
    /\ UNCHANGED <<items, store, running, interrupted, config, todo, results>>

-----------------------------------------------------------------------------

Init ==
    /\ \E carried \in SUBSET ItemIds :
          /\ "carry" \in EnvMoves \/ carried = ItemIds
          /\ items \in [carried -> InitItems]
          /\ store = [i \in LegacyIds \cap carried |-> LegacyRecord(items[i])]
    /\ world \in Worlds
    /\ running = FALSE
    /\ interrupted = FALSE
    /\ cycle = 0
    /\ generation = 0
    /\ observed_at = None
    /\ todo = {}
    /\ results = <<>>

Pass == StartPass \/ FinishPass \/ InterruptPass
            \/ \E i \in DOMAIN items : ReconcileItem(i) \/ AbortPass(i)

EditItem(i) ==
    \/ Relabel(i) \/ Redeclare(i) \/ Reown(i) \/ Exclude(i)
    \/ OpenChange(i) \/ MoveChange(i) \/ Duplicate(i) \/ CloseChange(i)
    \/ Merge(i) \/ Close(i) \/ Reopen(i) \/ Drop(i)

Tracker == Observe \/ (\E i \in DOMAIN items : EditItem(i))
                   \/ (\E i \in ItemIds : Carry(i))

Next == Pass \/ Tracker

Spec == Init /\ [][Next]_vars

=============================================================================
