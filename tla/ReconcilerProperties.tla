------------------------ MODULE ReconcilerProperties ------------------------
(***************************************************************************)
(* What the reconciler and its store promise.  A result is judged while    *)
(* its pass is under way, against the snapshot the pass was called with.   *)
(***************************************************************************)
EXTENDS Reconciler, DispositionProperties

\* Cycle times: the stamps a record may hold.
Times == 1..MaxCycles

IsStamps(f) == \A k \in DOMAIN f : f[k] \in Times

IsRecord(r) ==
    /\ r.generation \in Nat
    /\ r.fingerprint.closure \in (SUBSET Entries) \cup {None}
    /\ r.verdict = None \/ r.verdict.kind \in DispositionKinds
    /\ r.stage \in ItemStages \cup {None}
    /\ IsStamps(r.satisfied_at)
    /\ IsStamps(r.stage_entered_at)

IsResult(r) ==
    /\ r.verdict.kind \in DispositionKinds
    /\ r.stage \in ItemStages
    /\ r.skipped \in BOOLEAN
    /\ r.denied \in DenialReasons \cup {None}

\* The state is what the variables are documented to hold: well-formed items, a
\* reported world, a store and results of the shapes observed_gen.py and
\* reconciler.py give them.
TypeOK ==
    /\ items \in [DOMAIN items -> Items]
    /\ DOMAIN items \subseteq ItemIds
    /\ \A i \in DOMAIN items : CheckStageInvariants(items[i])
    /\ world \in Worlds
    /\ \A i \in DOMAIN store : IsRecord(store[i])
    /\ running \in BOOLEAN
    /\ interrupted \in BOOLEAN
    /\ cycle \in 0..MaxCycles
    /\ generation \in 0..cycle
    /\ observed_at \in Times \cup {None}
    /\ todo \subseteq DOMAIN items
    /\ \A i \in DOMAIN results : IsResult(results[i])
    /\ running => DOMAIN results = DOMAIN items \ todo
    /\ ~running => results = <<>> /\ todo = {}

-----------------------------------------------------------------------------
(* Acting.                                                                  *)

Acts(i) == results[i].verdict.kind = "act"

\* No action is ever emitted for an item under an unsatisfied, undecidable or
\* undeclared (gate:* label) condition, whether the verdict was computed or
\* replayed from a record, except what an obligation names for a missed deadline,
\* whose handler does not look at the item's dependencies.  This is the incident
\* in which six gated pull requests merged (disposition.py, rules 5 and 6).
NeverActsBlocked ==
    \A i \in DOMAIN results :
        Acts(i) /\ results[i].verdict.action \notin Reverts =>
            /\ \A d \in Declared(items[i]) : EvaluateDependency(d, world) = "satisfied"
            /\ UnrepresentedGateLabels(items[i]) = {}

\* At the ceiling nothing is admitted, and a replayed create_pr passes the gate
\* again: a skip never bypasses admission (reconciler.py, the admission gate).
SaturatedAdmitsNothing ==
    CurrentWip(items) >= WipCeiling =>
        \A i \in DOMAIN results :
            results[i].verdict = Act("create_pr") => items[i].change # None

\* BLOCKED without a chain is a queue verdict of this very pass: a denial is
\* never recorded, so it cannot be replayed after the queue has drained.
DenialNeverSticks ==
    \A i \in DOMAIN results :
        results[i].verdict = Blocked(<<>>) => results[i].denied # None

-----------------------------------------------------------------------------
(* Skipping.                                                                *)

\* A skip is only an optimisation of the evaluation: the verdict it replays is of
\* the kind, and names the action, that re-deriving would give now, up to the
\* chain: deps_hash forgets the order of the declarations, and reordered ones may
\* lead elsewhere.  Holds while only what the fingerprint covers moves: labels,
\* declarations, the world, the carried set.
SkipIsRederivation ==
    \A i \in DOMAIN results :
        results[i].skipped => SameVerdict(store[i].verdict, Fresh(i))

\* Every condition that a replayed chain names is still unsatisfied and still
\* within reach of the item, however many passes ago the chain was computed: a
\* blocked item never rests on a condition that has cleared.  Not that the chain
\* is the one re-deriving would name.
BlockersAreCurrent ==
    \A i \in DOMAIN results :
        LET chain == results[i].verdict.chain IN
        \A n \in DOMAIN chain :
            /\ chain[n] \in ReachableDeps(items, i)
            /\ EvaluateDependency(chain[n], world) = "unsatisfied"

\* An item at a terminal stage is TERMINAL in every pass, whatever was recorded
\* before it got there, even if its dependencies are cyclic.
TerminalNeverRegresses ==
    \A i \in DOMAIN results :
        items[i].stage \in TerminalStages => results[i].verdict.kind = "terminal"

\* Evaluating twice in one generation gives one verdict: the retry of a pass
\* that died keeps what the dead pass recorded, although the tracker may have
\* moved in between.  Terminal and cyclic items are re-derived.
IdempotentInGeneration ==
    [][\A i \in DOMAIN store :
          LET old == store[i]
              new == store'[i]
          IN  /\ new.generation = old.generation
              /\ old.verdict # None
              /\ items[i].stage \notin TerminalStages
              /\ ~Cyclic(i)
              => new.verdict = old.verdict]_vars

-----------------------------------------------------------------------------
(* Stamps.                                                                  *)

Extends(f, g) == DOMAIN f \subseteq DOMAIN g /\ \A k \in DOMAIN f : g[k] = f[k]

\* The first time a stage was entered, or a dependency seen satisfied, is never
\* moved and never lost, through skips, regressions, cycles and dead passes.
StampsNeverMove ==
    [][\A i \in DOMAIN store :
          /\ i \in DOMAIN store'
          /\ Extends(store[i].satisfied_at, store'[i].satisfied_at)
          /\ Extends(store[i].stage_entered_at, store'[i].stage_entered_at)]_vars

\* The two stamp maps of all records, as ledgers.
StageBook ==
    [k \in {e \in ItemIds \X ItemStages :
               e[1] \in DOMAIN store /\ e[2] \in DOMAIN store[e[1]].stage_entered_at} |->
        store[k[1]].stage_entered_at[k[2]]]

FlipBook ==
    [k \in {e \in ItemIds \X Declarable :
               e[1] \in DOMAIN store /\ e[2] \in DOMAIN store[e[1]].satisfied_at} |->
        store[k[1]].satisfied_at[k[2]]]

Stages == INSTANCE StampLedger WITH
             Keys <- ItemIds \X ItemStages, book <- StageBook, clock <- cycle

Flips == INSTANCE StampLedger WITH
             Keys <- ItemIds \X Declarable, book <- FlipBook, clock <- cycle

\* The store implements a ledger of stage entries and a ledger of flips
\* (record_evaluation, setdefault): each is dated once, with the pass that made
\* it, by passes that skip, regress, meet cycles, die, are retried or undated.
StagesImplementLedger == Stages!Spec

FlipsImplementLedger == Flips!Spec

NewStamps(i) ==
    DOMAIN store'[i].satisfied_at \
        (IF i \in DOMAIN store THEN DOMAIN store[i].satisfied_at ELSE {})

\* A satisfaction is only dated by a pass that has the evaluation before it to
\* compare with: an earlier record of the item, made with a closure in which the
\* dependency was not satisfied.
StampsNeedABefore ==
    [][\A i \in DOMAIN store' : \A d \in NewStamps(i) :
          /\ i \in DOMAIN store
          /\ store[i].fingerprint.closure # None
          /\ d \notin SatisfiedTokens(store[i].fingerprint.closure)
          /\ d \in SatisfiedTokens(store'[i].fingerprint.closure)]_vars

-----------------------------------------------------------------------------
(* Claims of the repository that the code does not keep.                    *)

\* lane_classifier.py: "we never auto-merge what we cannot confirm clean": the
\* change of an item that is merged passes Gate A as observed by this pass.
MergesOnlyClean ==
    \A i \in DOMAIN results :
        results[i].verdict = Act("automerge") => ClassifyLane(items[i], world)

\* reconciler.py: one bad declaration degrades its own item and never aborts the
\* batch.
BadDeclarationNeverAborts == \A i \in todo : ~RaisesAt(i)

=============================================================================
