----------------------------- MODULE PureProofs ------------------------------
(***************************************************************************)
(* The promises of the pure functions, for every finite graph of items and *)
(* every world: the graph by GraphProofs, the verdicts by DispositionProofs.*)
(***************************************************************************)
EXTENDS PureProperties, DispositionProofs

LEMMA WalkedItems ==
    ASSUME WellFormed
    PROVE  /\ IsFiniteSet(DOMAIN items) /\ \A i \in DOMAIN items : items[i] \in Items
           /\ Walked \subseteq DOMAIN items /\ Judged \subseteq DOMAIN items
BY DEF WellFormed, Walked, Judged

-----------------------------------------------------------------------------
(* dependency_graph.py.                                                     *)

\* closure_state raises exactly on the items that reach a cycle, and otherwise
\* returns an entry for every declaration of every item that can be reached.
THEOREM ClosureIsWhole == WellFormed => ClosureIsReachability
BY WalkedItems, WalkIsReachability DEF ClosureIsReachability

\* get_blocked_chain is not empty exactly for an item with a definitely
\* unsatisfied dependency of its own.
THEOREM BlockedHaveChains == WellFormed => ChainIffBlocked
BY WalkedItems, BlockedIsOwn DEF ChainIffBlocked, ChainOf

\* A chain that does not raise follows first blockers from the item to one behind
\* which nothing carried is blocked.
THEOREM ChainsEndAtRootCauses == WellFormed => ChainEndsAtRootCause
<1> SUFFICES ASSUME WellFormed, NEW i \in Walked,
                    ChainOf(i) # Cycle, ChainOf(i) # <<>>
             PROVE  LET chain == ChainOf(i)
                        owner(n) == IF n = 1 THEN i ELSE chain[n - 1].target
                    IN  /\ \A n \in DOMAIN chain :
                              /\ owner(n) \in DOMAIN items
                              /\ \E k \in DOMAIN items[owner(n)].deps :
                                    /\ items[owner(n)].deps[k] = chain[n]
                                    /\ FirstBlocker(items[owner(n)], world) = k
                        /\ ~Points(Last(chain), items) \/
                              ~IsItemBlocked(items[Last(chain).target], world)
  BY DEF ChainEndsAtRootCause
<1>1. /\ Linked(ChainOf(i), items, world, i)
      /\ Rooted(ChainOf(i), items, world)
  BY WalkedItems, ChainNamesRootCause DEF ChainOf
<1> QED
  BY <1>1 DEF Linked, Rooted, Owner

\* Where the walk along the chain raises, closure_state has raised before.
THEOREM ChainsRaiseInCycles == WellFormed => ChainRaisesOnlyInCycles
<1> SUFFICES ASSUME WellFormed, NEW i \in Walked, ChainOf(i) = Cycle
             PROVE  WalkClosure(items, world, i) = Cycle
  BY DEF ChainRaisesOnlyInCycles
<1>1. CycleReachable(items, i)
  BY WalkedItems, ChainRaises DEF ChainOf
<1> QED
  BY <1>1, WalkedItems, WalkIsReachability

\* Every link of a chain is an unsatisfied entry of the closure, so the skip token
\* moves when the link clears.
THEOREM ChainsLieInClosures == WellFormed => ChainWithinClosure
<1> SUFFICES ASSUME WellFormed, NEW i \in Walked, ~CycleReachable(items, i),
                    NEW n \in DOMAIN ChainOf(i)
             PROVE  [dep |-> ChainOf(i)[n], state |-> "unsatisfied"]
                        \in ClosureState(items, world, i)
  BY DEF ChainWithinClosure
<1>1. Within(ChainOf(i), items, world, i)
  BY WalkedItems, ChainRaises, ChainNamesRootCause DEF ChainOf
<1>2. /\ ChainOf(i)[n] \in ReachableDeps(items, i)
      /\ EvaluateDependency(ChainOf(i)[n], world) = "unsatisfied"
  BY <1>1 DEF Within
<1> QED
  BY <1>2 DEF ClosureState, Entry

-----------------------------------------------------------------------------
(* disposition.py and stage.py.                                             *)

\* A verdict other than UNDECIDABLE is the verdict of every world that reports more.
THEOREM DarknessDecidesNothing == WellFormed => HonestDegradation
BY WalkedItems, DarknessIsHonest DEF HonestDegradation

\* An item reported ready is ready in every world that reports more.
THEOREM ReadyIsKnown == WellFormed => HonestReadiness
BY WalkedItems, ReadinessIsHonest DEF HonestReadiness

\* Every automatic merge has both gates of the lane classifier confirmed.
THEOREM MergesAreConfirmed == WellFormed => ConfirmedAutomerge
BY WalkedItems, AutomergeNeedsConfirmation DEF ConfirmedAutomerge

=============================================================================
