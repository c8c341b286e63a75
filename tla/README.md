# A verification project for nousergon-groomer

TLA+ modules of the groomer, from its pure core to the deployed loop of snapshot,
reconcile and execute, TLC configurations that check them on small instances, and TLAPS proofs of the properties that matter most.
Paths below are relative to `src/nousergon_groomer/` of the repository unless
they say otherwise.

## 1. The system

The groomer advances units of intended change ("items"). One *pass* is

    snapshot (tracker -> items, world)  ->  reconcile  ->  execute

`reconcile` is deterministic and sequential: it gives every carried item exactly
one of four dispositions (ACT, BLOCKED, TERMINAL, UNDECIDABLE). There are no
threads. What is hard is what happens *between* passes: a verdict is recorded
with a fingerprint of the inputs it was computed from, and a later pass replays
it when it believes that nothing has moved, while humans, CI, merges and clocks
move the items and the world, passes die half-way and are retried, items leave
the harness's list and come back, and surfaces of the world go unreported.

### Inventory

| component | source | state it keeps | operations | correct when |
|---|---|---|---|---|
| Vocabulary | `models.py` | none (immutable records) | construction rules, `can_transition`, two hashes | a constructed item has a shape the rest can rely on |
| Dependency evaluator | `dependency_evaluator.py` | none | `evaluate_dependency`, `is_item_blocked` | three-valued: an unreported surface is never a false one |
| Dependency graph | `dependency_graph.py` | the item map of the pass | `get_blocked_chain`, `closure_state` | the chain names a root cause; the closure misses nothing the verdict depends on; cycles are raised, not looped in |
| Effective stage | `stage.py` | none | `evaluate_verification`, `deadline_passed`, `effective_stage` | ready is reported only when established |
| Lane classifier | `lane_classifier.py` | none | Gate A, Gate B | nothing unconfirmed is eligible for automerge |
| Admission | `admission.py` | the ceiling | `current_wip`, `can_admit` | the queue never grows past the ceiling |
| Disposition | `disposition.py` | none | `compute_disposition` | total; no action under an open or unknown condition |
| Observed generations | `observed_gen.py` | `GenerationStore`: a record per id | `should_skip`, `record_evaluation`, `newly_satisfied`, `load_records`, `flush` (protocol) | a skip is only an optimisation; stamps never move |
| Reconciler | `reconciler.py` | configuration (generation, `observed_at`) and the results of the pass | `reconcile`, `ordered_actions` | a result for every item, one bad item never costs another its verdict |
| GitHub snapshot | `github_snapshot.py` | HTTP client | `fetch`: four listings, then calls per pull request and per issue | the items describe one moment of the tracker |
| GitHub executor | `github_executor.py` | HTTP client | `execute`, one handler per action, marker comments | acts once, on facts that still hold, and says what it did |
| Store contract | `store_contract.py` | none | reusable test suite for a persistent store | durable, no silent loss |
| Command line, configuration, model provider, package surface | `cli.py`, `config.py`, `model_provider.py`, `__init__.py` | none | one pass; YAML; HTTP | glue |

Interactions: the reconciler calls graph, stage, observed generations,
disposition and admission, in this order, for each item; disposition calls
evaluator, graph, stage and lane classifier; all of them read the same `items`
and `ObservedWorld`, which stand still during a pass. The store is the only state
that survives one. The executor consumes the results and changes the tracker,
which only the next snapshot sees.

The bundled command line uses a fresh `GenerationStore` and generation 1 for its
single pass, so everything said about *replayed* verdicts concerns a harness that
keeps its store between passes, which is what `observed_gen.py`,
`store_contract.py` and the changelog are written for.

### Hard behaviours

The `hazards` of `PROJECT.json` list them at their lines. In short: stale replay
(fingerprint too narrow, same-generation shortcut, terminal items), what is
recorded against what is returned (admission), stamps inferred from records that
could not have seen the state before, partial observation, cycles and malformed
declarations that reach the batch, a fetch that is not one moment of the tracker,
and an executor that acts on a snapshot that has aged, with calls that fail,
replies that are lost and passes that die before their records are flushed.

## 2. The modules

    Models
      DependencyEvaluator
        DependencyGraph - GraphProofs (with NumberLemmas)
          Stage
        LaneClassifier
        Admission
      Disposition (Stage + LaneClassifier)
        DispositionProperties - DispositionProofs (with GraphProofs)
          PureProperties - MCPure, PureProofs (with DispositionProofs)
        ObservedGen
          Reconciler (ObservedGen + Admission)
            ReconcilerProperties - MCReconciler, ReconcilerProofs (with DispositionProofs)
              StampLedger (abstract, INSTANCE) - LedgerProofs
    Tracker (external)
      Snapshot
        Executor
          Groomer (INSTANCE Reconciler)
            GroomerProgress - MCProgress
              GroomerProperties - MCGroomer
                GroomerInvariants - GroomerTypes - GroomerProofs

| module | models | correspondence |
|---|---|---|
| `Models` | `models.py` | an `Item` is a record; `ref` and `additional_refs` say whether `change_ref` is set and `additional_change_refs` non-empty. `DepsHash` is a multiset because the code sorts before hashing. Ids, titles and reasons are left out |
| `DependencyEvaluator` | `dependency_evaluator.py` | a world is a record of surfaces, each `None` when unreported. All eight dependency kinds are modelled; `Raises` is the `ValueError` of a date that is not one, which can only be found out when `today` is reported |
| `DependencyGraph` | `dependency_graph.py` | `Chain` and `WalkClosure` walk as the code does, as recursive functions; `ClosureState`, `CycleReachable` and `Reachable` say the same as sets, which is what the reconciler uses and its proofs need. Run `pure` shows the two agree on small graphs, `GraphProofs` on all finite ones. `ChainStep` and `ClosureStep` are one call of the walk, applied to the calls below it |
| `Stage` | `stage.py` | `EffectiveStage` with its undecidable-closure and its blocked case |
| `LaneClassifier` | `lane_classifier.py` | Gate A and Gate B as one predicate; the report fields are wording |
| `Admission` | `admission.py` | `CanAdmit` returns the reason for denying or `None`, gates in the code's order |
| `Disposition` | `disposition.py` | `ComputeDisposition`, rule by rule; a disposition keeps kind, action and chain |
| `ObservedGen` | `observed_gen.py` | the store is a partial function; `Fingerprint` lacks `head_sha` and `body_hash` because the reconciler passes neither |
| `Reconciler` | `reconciler.py` | see below |
| `StampLedger` | the abstract promise of the two stamp maps of a record | a book of dates that is only added to, each entry bearing the day it was made; `StageBook` and `FlipBook` of `ReconcilerProperties` are the refinement mappings |
| `Tracker` | GitHub, from the calls made to it (external) | a repository is a record: what is known, open, merged; labels, native blockers, branches, pull requests with the two surfaces of CI of every commit that was their head, and of each thread how many marker comments it has and whether the first page shows one. People and CI are its `Next` |
| `Snapshot` | `github_snapshot.py` | `fetch` call by call; `seen` is what the calls returned, `SeenItems` and `SeenWorld` what `fetch` makes of it |
| `Executor` | `github_executor.py` | one step per record of the results, one definition per handler |
| `Groomer` | `cli.py` (`cmd_run`), and the harness `observed_gen.py` describes | see below |

### Reconciler, action by action

| action | code |
|---|---|
| `StartPass` | the head of `reconcile`; a new generation, or the old one when the last pass died and `MayRetry`; `observed_at` may be missing (`Undated`) |
| `ReconcileItem(i)` | one turn of the loop: closure, stage, skip test, fresh evaluation or replay, cycle handler, terminal guard, `record_evaluation`, admission gate, result, all in that order. What is recorded is the verdict *before* admission |
| `AbortPass(i)` | `ValueError` leaves `reconcile` at item i |
| `InterruptPass` | the process dies between two items; records already put survive |
| `FinishPass` | the end of `reconcile`; results are handed over |
| `Relabel`, `Redeclare`, `Reown`, `Exclude`, `OpenChange`, `MoveChange`, `Duplicate`, `CloseChange`, `Merge`, `Close`, `Reopen`, `Observe` | what the next snapshot may show to differ; `EnvMoves` selects the families a run lets move |
| `Carry`, `Drop` | an item enters or leaves the harness's list; its record stays |

The loop takes the items in any order: the code takes the harness's list order,
which is arbitrary, and no verdict depends on it. A result is judged in the state
the pass is in, so invariants range over `results` and compare them with the
snapshot the pass was called with. `cycle` counts passes, is the clock of
`observed_at`, and is bounded by `MaxCycles`; once the last pass is over only the
world is still observed.

### Groomer, action by action

| action | code |
|---|---|
| `StartPass` | a scheduler outside the repository calls `cmd_run`; a harness that keeps its store loads it (`memory' = durable`) |
| `TakeSnapshot` | one call of `fetch`. `ReadPage`: a page of one of the four listings, newest first, as the listing is *now*. `Enrich`: one call about one pull request: `ReadDetail` learns its mergeability and its head, `ReadCheckRuns` and `ReadStatus` the two surfaces of CI of *that* head, whatever the head is by now; each call may fail, with the fallback the code has. `ReadBlockers`: `blocked_by` of one record, issues only when their summary counts a blocker; a failure is an empty list, a malformed entry one less. The last step builds the items and the world |
| `Reconcile` | `Reconciler` over what was fetched, through INSTANCE: the verdicts are its `Given`, the records its `RecordOf`. The loop reads and writes one record per item, so its turns are taken together |
| `ExecuteNext` | one record: TERMINAL and UNDECIDABLE make no call, judgement actions need a provider, BLOCKED edits or posts its comment, the rest dispatches. A lost reply is a call that succeeded: the loop remembers of it nothing but a line of its report |
| `FinishPass` | the end of the pass, `flush` of a kept store |
| `Die` | a listing that fails (`SnapshotError`), an id listed twice (`ValueError` of the graph), a 401 (`ExecutorAbortError`), or the end of the process between any two calls; what was recorded is lost, what was done to the tracker is not |
| `Others` | people close, reopen, file, label, block, push branches and commits, open and rename pull requests, toggle drafts, and fill threads; checks of any commit start, finish, run again, turn, and report for the first time at any moment (`ReportRuns`, `ReportStatus`); `Moves` selects the families a run lets move |

A mode says whether the store is kept and whether there is a provider: the
command line is `kept = FALSE`. Generation 1 stands for the running pass and 0
for all before it, because only the equality of generations is ever looked at.

## 3. The runs

`progress` and `forgotten` check liveness under `FairSpec`, all others safety.

| run | bounds | shows |
|---|---|---|
| `pure` | three items (one of them possibly not carried), one external object, two declarations each in every order, every world; and one item in every stage, change, obligation and label shape, one behind it, 27 worlds | the recursive walks return exactly the reachable closure, raise exactly where a cycle can be reached, and a chain starts at the item, follows first blockers and ends at a root cause; no verdict, no readiness and no automerge hangs on a surface that went unreported. Three items give a self-cycle, a two- and a three-cycle, a diamond and a blocker two hops away |
| `skip` | two items, two passes; labels, declarations, the world and the carried set move; a cycle through both items; a malformed date behind which an item escapes a pass | a replayed verdict is the one re-deriving would give; every link of a replayed chain is open now; nothing gated acts; nothing leaves the loop without a result |
| `stamps` | one item, three passes, retried or not, dated or not, a pre-upgrade record, a self-cycle, regressions | stamps survive everything; none is written without a "before"; a generation has one verdict per item; the two stamp maps implement `StampLedger`. The third pass is what a second stamp needs |
| `lifecycle` | one item, two passes, every fact of it moving, fingerprinted or not | a terminal item is TERMINAL whatever was recorded earlier; nothing gated acts even when the facts outside the fingerprint move |
| `queue` | two items for one slot, two passes | a full queue admits nothing, fresh or replayed; a queue verdict is never replayed |
| `groom` | two issues, two pull requests, a ceiling of 2, listings of one page, two events shared by people, CI and all eight kinds of failure; two starting repositories: a change that waits for the only issue, and a change that names one of two issues and waits for a status; fresh store with provider, kept store without | `CreatesUnblocked`, `CreatesOneChange`, `MergesConfirmed`: what the executor does was justified at some moment of the fetch; `NothingOpenIsMissed`: what was open all along has a verdict; `OneMarker`: no second marker comment, threads whose first page fills up included. Two events are a push and a report on the new head, a report and a re-run, a close and a reopen |
| `progress` | the same numbers, pages of two records so that listings slip, a ceiling of 1, two events among people, lost calls and crashes; fresh and kept stores | `IssuesAdvance`, `ChangesMerge`, `BlockedAreTold`: nothing that can move stays where it is |

The act properties of `groom` cannot speak of the repository the executor acts
on, which has moved. `HSpec` therefore adds a history variable, `during`: the set
of repositories there were while the snapshot was taken. What an act rests on must
have been so in one of them; the calls of a fetch see different ones, and that no
interleaving of listings, closures and failing calls lets an act through that was
*never* justified is what the run shows. Where the code gives no such assurance
the property names the exception: a `blocked_by` call that failed
(`seen.unread`), a statuses call that failed (`seen.unsure`), and a replayed merge of
a kept store (run `stale_merge`).

Confirmed at some moment is not confirmed still. The executor reads nothing again
before it merges and names no head commit, so what it merges may by then have a newer
head, a check that ran again and failed, a status that reported late, or a label it
did not have. `MergesConfirmed` therefore says *sometime* of every gate. What makes
it more than a list of single facts is CI (`WasGreen`): both surfaces are of one
commit, which was the head, although a push may land between any two of the three
calls. Of the two surfaces each was clean at its own moment, not both at one: the
check runs may turn red before the statuses are read.

`mergeable` and `mergeable_state` take in TLC the three pairs of values in which they
agree (`OneTestMerge`); the theorems are about every set of pairs (`Mergeability`).

Two events are what the hazards need: a close and a reopen, a close and a crash,
a push and a check, two failures in a row. One listing page in `groom` is the
assumption under which `NothingOpenIsMissed` holds; `progress` has two records per
page, so a record filed during a listing repeats another one and the graph
refuses the pass (`RefuseRepeated`), which the next pass makes up for.

**Fairness.** `FairSpec` is `WF_vars(Groom)`: as long as the groomer can take a
step it takes one. No part of the repository starts a pass (its README: "No
dispatch / scheduler ... are the private harness's concern"), so that passes keep
being started is the harness's part and an assumption; within a pass the loop is
sequential, its loops are over finite lists, and every call returns or times out
(30 s in the snapshot, 60 s in the executor). Failures are finitely many, by the
bound on events. Nothing is asked of people or of CI: they may do nothing for
ever. The progress properties therefore say `[]<>~...`: a record is not *for ever*
in a state the groomer could leave, whether it left it itself or somebody did.

Two passes are enough where a property relates a record and its replay: the first
writes the record, the tracker moves by any number of steps, the second replays.
A verdict replayed by a third pass was recorded again, unchanged, by the second.
Two items are enough where items interact through one dependency edge, one cycle
or one slot. TLC checks each property also against a mutated model (`mutants`):
a dropped guard, a blind fingerprint, a reset stamp, an admission recorded.

### Where the code does not do what it says

Each is a run with one property that TLC refutes.

| run | what happens |
|---|---|
| `stale_merge` | An automerge recorded while the change was green is replayed after CI went red: `reconciler.py` calls `should_skip` without `head_sha`, and the fingerprint has no fact of the change. The same hole replays a verdict after a human took the item over, or after a second change appeared |
| `bad_date` | A malformed DATE target raises `ValueError`, which nothing around the item catches: the pass is lost for every item not reached yet |
| `threads` | A change with an open security review thread is merged: `fetch` never reads threads, and `Change.security_threads` defaults to 0, which check 5 of Gate A takes for a clean answer |
| `chain` | A chain stops at the first blocker: items are known by bare numbers, native blockers by `owner/name#number`, so in a fetched repository no dependency points at an item |
| `forgotten` | With a kept store, an issue recorded TERMINAL while an open change named it is answered TERMINAL for ever after that change is closed unmerged: the fingerprint has no fact of the change |

Met while modelling and not given a run:

- `can_admit` counts the changes of the snapshot, never what the same pass has
  admitted: one pass can open several changes for one slot.
- The deadline of a post-merge obligation is not in the fingerprint either, so a
  kept store replays the wait. The bundled snapshot makes no merged items, and
  `revert`, the default action of the deadline, has no handler in the executor.
- A dependency that was undecidable, not unsatisfied, in the recorded pass is
  stamped as newly satisfied.
- Behind a satisfied edge an undecidable dependency keeps an item at `proposed`
  while `compute_disposition` opens a change for it.
- `deps_hash` sorts the declarations while the chain depends on their order, so
  reordering them replays an old (still open) chain where a fresh one would name
  another. `SkipIsRederivation` is therefore of kind and action, up to the chain,
  and `BlockersAreCurrent` says what holds of the chain; an item that merely *points at* a cycle is degraded with it.
- Only the first page of a thread is searched for the marker (and only the first
  page of check runs is read): a record that becomes blocked in a long thread gets
  a new comment in every pass.
- A change that `create_pr` opens names its issue only if the provider's text does.
  Until then issue and change are two units with two verdicts, and the issue is
  offered again in every pass; GitHub refuses while the branch has an open change.
- A statuses call that fails reads as "no statuses", a `blocked_by` call that
  fails as "no blockers".
- The due date of a HUMAN target is validated stripped (`models.py`) and parsed
  unstripped (`dependency_evaluator.py`): `alice: 2026-01-01` is constructed, and
  raises like the malformed date of `bad_date` once `today` is reported.
- Records can slip out of a listing between two pages.

## 4. The proofs

Eight modules hold theorems, for all values of the constants: any set of items,
declarations, worlds, moves and any number of passes, any repository and any number
of events and failures.

| module | about |
|---|---|
| `NumberLemmas` | least subsets, largest and smallest numbers, counting up |
| `GraphProofs` | the two walks of `dependency_graph.py`, on every finite graph |
| `DispositionProofs` | `compute_disposition` and `effective_stage`, on every snapshot |
| `PureProofs` | the properties of run `pure`, from the two before |
| `ReconcilerProofs`, `LedgerProofs` | the reconciler and its store over any number of passes |
| `GroomerTypes`, `GroomerProofs` | the deployed loop over a moving repository; `GroomerInvariants` states what they prove invariant |

Assumptions: `VocabularyAssumption` (declarations, changes and obligations are
well formed, `None` is not one of them), `WorldAssumption` (worlds are records of
the six surfaces; the states of a dependency are not `None`), `CycleAssumption`
(a raised error is neither a list of declarations nor a set of entries),
`CeilingAssumption` (the ceiling is positive, as the configuration requires),
`ReconcilerAssumption` (the harness carries constructed items), `TrackerAssumption`
(numbers are naturals, the starting repositories well formed and coherent: a pull
request is known before it is merged), `GroomerAssumption` (the same ceiling; a
reason for denying is not `None`) and `ThreadsAssumption` (the threads the groomer
starts from hold the markers of its own past, or none). TLC evaluates them in the
runs of the modules that state them.

| theorem | argument |
|---|---|
| `WalkIsReachability`, `ChainNamesRootCause`, `BlockedIsOwn` | see below |
| `ClosureIsWhole`, `BlockedHaveChains`, `ChainsEndAtRootCauses`, `ChainsRaiseInCycles`, `ChainsLieInClosures` | the same, as the properties of run `pure`; they hold of every well-formed snapshot (finitely many constructed items, a world) |
| `DispositionIsTotal` | cases on the rules of `ComputeDisposition` |
| `DarknessIsHonest`, `DarknessDecidesNothing` | a dependency decided in a world is decided alike in every world that reveals more (`DecidedIsStable`); a verdict other than UNDECIDABLE has all dependencies of the item decided, so each handler takes the same branch |
| `ReadinessIsHonest`, `ReadyIsKnown` | a ready item has no undecidable dependency in its closure, so `DecidedIsStable` applies to all of it, and the closure is the same in every world |
| `AutomergeNeedsConfirmation`, `MergesAreConfirmed` | back through the rules: only the handler of a clean change merges (`MergeComesFromClean`), and it asks `ClassifyLane`. Merged items are excepted: the action of a missed deadline is whatever string the obligation names |
| `ReconcilerProofs.TypeCorrect` | `TypeOK` is inductive; one lemma per action. Its deepest conjunct is that during a pass the results cover exactly the items reached |
| `TerminalItems` | with `TypeOK`, inductive as it stands: results appear only in `ReconcileItem`, whose terminal guard re-derives, and items stand still while results exist |
| `Saturation` | a replayed `create_pr` takes the admission gate like a fresh one |
| `StampsAreStable` | `SetDefault` extends; no action but `ReconcileItem` touches the store |
| `FlipsAreWitnessed` | a new stamp is in `NewlySatisfied`, which is empty without an earlier closure |
| `GenerationsGrow` | no record is newer than the running generation |
| `SameGenerationSameVerdict` | an equal generation makes `ShouldSkip` true whatever the fingerprint, except at generation 0, which no pass has |
| `NothingGatedActs`, `BlockedOnCurrentConditions`, `SkippingIsSound`, `DenialsAreNotRecorded` | see below |
| `StagesRefineLedger`, `FlipsRefineLedger` | see below |
| `GroomerTypes.TypeCorrect` | `TypeInv` |
| `SnapshotGrounded`, `CreatesOnlyUnblocked`, `MergesOnlyConfirmed` | `ActInv`, see below |
| `CreatesNoSecondChange`, `MissesNothingOpen` | `ActInv` and `ListInv`, see below |
| `OneMarkerEver` | see below |

### The walks of the graph

`Chain` and `WalkClosure` are recursive over the path walked so far. The library's
induction theorems cannot be applied by the installed provers, so `NumberLemmas`
restates them over sets: a non-empty family of subsets of a finite set has a
minimal member (`LeastSubset`). `PathInduction` is the principle the walks
need: what holds of a path whenever it holds of all its prolongations by items not
on it holds of every path, because a least counterexample leaves fewest items to
visit. That recursive definitions define anything is not taken for granted either:
`ChainExists` and `ClosureExists` construct, by counting up the items still to be
visited, a function that satisfies the recursive equation.

With these, the closure walk is shown to equal the least closed set
(`WalkIsReachability`): it raises exactly when some reachable item reaches itself,
and otherwise returns the state of every reachable declaration. A walked path `Leads`:
its end can be reached from everything on it, so an edge back into it closes a cycle
(`BackEdge`); in the other direction a walk that does not raise has met no cycle below any
of its targets (`CycleStepwise`). The chain is a sequence of first blockers that ends
at a root cause (`Within`, `Linked` and `Rooted` of `ChainNamesRootCause`, by
`PathInduction`), and raises only in a cycle (`ChainRaises`).

### What a replay may rest on

Four theorems say what a verdict replayed from any earlier pass may do. None is
inductive by itself: each needs an invariant of the *records*, of the form "what
the verdict says is attested by the fingerprint beside it", and all but the last
need `TodoIsOlder`: an item this pass has not reached has a record of an older
generation. It rules out the same-generation shortcut of `should_skip`, which
compares no fingerprint, and is why they assume `MayRetry = FALSE`: a harness that
retries a dead pass under its old generation does replay verdicts whose conditions
have moved. `LegacyRecord`s have no closure and attest nothing.

- `NothingGatedActs`: no action is emitted under an unsatisfied, undecidable or
  undeclared condition, but one that an obligation names for a missed deadline
  (`Reverts`), whose handler looks at no dependency. `RecordsUnblocked`: a recorded ACT has every
  declared dependency satisfied in its own closure, and no undeclared gate label.
- `BlockedOnCurrentConditions`: every link of a chain is open now and within reach.
  `RecordsCurrent`: every link of a recorded chain is an unsatisfied entry of the
  closure recorded beside it. That a fresh chain is one is `ChainNamesRootCause`; it
  assumes that no item carries an obligation (`Obligations = {}`), because a merged
  item waits for a predicate that no closure and so no fingerprint holds.
- `SkippingIsSound`: the replayed verdict has the kind and the action that
  re-deriving would give; of the chain, which reordered declarations change unseen,
  the theorem before says what a replay keeps. `Remembers`: there is *some* graph and
  world that has the record's fingerprint and gives its verdict. `FingerprintDecides`
  then says that two snapshots with the same fingerprint give an item the same
  verdict, provided its two versions agree on stage, change, second reference, owner,
  exclusion and obligation (`Alike`): the exact list of what the fingerprint leaves
  out. The theorem is about every behaviour in which each item keeps *its own* such
  facts while it is carried, `Spec /\ []Unmoved(shape)` for any `shape`: items of all
  stages, changes and owners together, of which labels, declarations, the world and
  the carried set move. A merged item with an obligation is excluded, because its
  verdict also reads a predicate and a clock that no fingerprint holds. The runs
  `stale_merge` and `forgotten` show what happens when a fact of the list moves.
- `DenialsAreNotRecorded`: BLOCKED without a chain is a denial of this very pass.
  `RecordsNameBlockers`: no record holds such a verdict; a fresh one never does,
  because an item blocked by its own declarations has a non-empty chain
  (`BlockedIsOwn`). It holds for retries as well.

`IsFiniteSet(ItemIds)` is assumed where a chain is walked: a harness's list is finite.

### The ledger

The refinement of `StampLedger` maps the clock to `cycle` and the book to all stamps
of all records. A step of the ledger either enters new keys at the day's date or
lets a day pass, so three facts are needed: that nothing leaves the book or moves
in it, that `ReconcileItem` dates what it adds with `observed_at`, and `ClockInv`, the
invariant that `observed_at` is `None` or the running cycle. Every action is shown to
be `Enter`, `Tick` or a stutter; none both starts a pass and writes a record.

### The loop

`ActInv`, in `GroomerInvariants`, is inductive for `HSpec`. Each conjunct carries the
promise over one part of the pass:

| conjunct | says | needed because |
|---|---|---|
| `TypeInv` | the state is of its shapes; the reconciler's items and world are those the fetch made; verdicts of issues and pull requests stay of their kinds | what is executed must be traced back to the calls |
| `History` | every repository of `during` is a sound one, and while the fetch runs the present one is among them | what is read now has a witness |
| `Grounded` | every fact of `seen` was so in some repository of `during`, each in one of its own; a green CI has the witnesses of `WasGreen` unless the statuses call failed | the calls of a fetch see different repositories |
| `Reading` | between the calls about one pull request, the head its detail named was its head, and what its check runs said was so of that commit | the two surfaces must be of one commit |
| `ProbedAll` | `blocked_by` of everything that may be blocked has been read, or is still to be | an issue not asked about is not an unblocked one |
| `Recalled` | records are of an earlier generation and a recorded `create_pr` is attested by its fingerprint | a kept store replays |
| `Decided` | what the executor was told to create or merge is backed by the snapshot | results outlive the reconcile step, and the repository moves |

From it follow `CreatesOnlyUnblocked` and `MergesOnlyConfirmed`, for every
interleaving with people and CI, every page size and every failing call, with
the exceptions the properties name. `CreatesNoSecondChange` and
`MissesNothingOpen` need that a listing is of one moment, `ListInv`, and therefore
assume `[]OnePage`: at most a page of open records. Without it they are false: TLC
finds, with pages of one record, a record that is closed between two pages, the open
change behind it slipping out of the listing, and its issue getting a second one.

The attempt to prove `CreatesUnblocked` found a fault in how it was stated, not in
the code: `Created` looked for the branch of every newly known number, a newly filed
issue included, of which the tracker has no such fact. It now looks at pull requests.

`OneMarkerEver` needs the converse of `OneMarker`: a thread without a marker on its
first page must have none at all, or the comment posted next would be the second,
unless its first page is full, in which case the next one lands behind it and the
thread stays out of the property. `MarkerInv` is that, and inductive: the groomer's
comment is the only step that writes a marker, first pages only fill up, and a pass
that dies after its comment leaves a thread that the next search decides alike.

TLC checked the invariants before they were proved: `ActInv` and `ListInv` on
the numbers of run `groom`, the invariants of the records on those of `skip` and
`queue`. The standing runs check the properties only.

### What TLC checks and no theorem states

All invariants and action properties of the passing runs are theorems. What is left
to TLC is liveness (`IssuesAdvance`, `ChangesMerge`, `BlockedAreTold`, under
`FairSpec`), which the provers cannot treat, ENABLED included, and the
five runs that refute a claim. The exceptions the theorems name are no more than
the ones above: `MayRetry`, obligations, what the fingerprint leaves out, and
listings of several pages; and nothing says that a fact still holds at the moment it
is acted on.

## 5. What is not modelled

- `_build_result`'s tallies and the sort of `ordered_actions`: derived views of
  the results that nothing in the bundled loop reads.
- The back ends `store_contract.py` tests: torn writes, unreachable stores and
  serialisation concern implementations outside the repository. Their outcome,
  a store loaded whole and replaced whole or not at all, is what `Groomer` has.
- Dry runs, `cmd_init`, arguments, configuration files, `model_provider.py`,
  `__init__.py`, the badge script: argument handling, YAML, HTTP and re-exports.
- Sub-issues and custom fields: fetched, carried, and read by no verdict.
- Text: parsing of declarations out of bodies, wording of reasons and comments.
  That a pull request names an issue is a fact of the tracker.
- Hash collisions: a hash is the value it hashes.
- Two groomers at once. The search for a marker comment and the post that follows
  are one step of `Executor`: passes of one groomer do not overlap, and nobody else
  writes markers. Two overlapping passes could each search and then each post, and
  `OneMarker` does not speak of them; nothing in the repository excludes them, the
  scheduler must.
- Closed records deleted or transferred; the pages of check runs behind the first,
  which the code does not read; a `blocked_by` list that changes between its pages.

## 6. Plan

1. *(done)* the pure core, `ObservedGen` and `Reconciler`, their runs and proofs.
2. *(done)* `Tracker`, `Snapshot`, `Executor` and `Groomer`: the deployed loop, its
   failures, its safety over a moving repository and its progress.
3. *(done)* `StampLedger` and its refinement; `OneMarker`, readiness and automerge
   for all constants.
4. *(done)* proofs of the loop: the invariant that ties every fact of `seen` to a
   repository of `during`, and from it its promises; `TypeOK` of the loop.
5. *(done)* proofs of the walks by induction over paths, and from them
   `BlockersAreCurrent`, `DenialNeverSticks` and `SkipIsRederivation`.
6. A refinement of the loop: that a pass of `Groomer` over a kept store, in which
   reconcile is one step, is a pass of `Reconciler` item by item.
7. *(done)* `SkippingIsSound` for items that differ in their unfingerprinted facts, as
   long as each keeps its own; CI that runs again and reports late.
8. `BlockedOnCurrentConditions` with obligations, and overlapping passes.
