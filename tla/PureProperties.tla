--------------------------- MODULE PureProperties ---------------------------
(***************************************************************************)
(* What the pure functions of the groomer promise about the items and the  *)
(* world of one snapshot.                                                  *)
(***************************************************************************)
EXTENDS DispositionProperties

VARIABLES items,   \* the carried items
          world,   \* the observed world
          about    \* which functions are looked at: of the graph, or of an item

\* The harness hands over finitely many constructed items, and a world.
WellFormed ==
    /\ IsFiniteSet(DOMAIN items)
    /\ \A i \in DOMAIN items : items[i] \in Items
    /\ world \in Worlds

\* The items asked about.
Walked == IF about = "graph" THEN DOMAIN items ELSE {}
Judged == IF about = "item" THEN DOMAIN items ELSE {}

-----------------------------------------------------------------------------
(* dependency_graph.py.                                                     *)

ChainOf(i) == Chain(items, world, i)

\* closure_state raises exactly on the items that reach a cycle, and otherwise
\* lists every dependency of every item it can reach, satisfied edges included.
ClosureIsReachability ==
    \A i \in Walked :
        WalkClosure(items, world, i) =
            IF CycleReachable(items, i) THEN Cycle ELSE ClosureState(items, world, i)

\* get_blocked_chain is non-empty exactly for an item with a definitely
\* unsatisfied dependency of its own, so "blocked" never needs the walk.
ChainIffBlocked ==
    \A i \in Walked : (ChainOf(i) # <<>>) <=> IsItemBlocked(items[i], world)

\* The chain starts at a declaration of the item, each link is the first
\* definite blocker of the item before it, and the last link is a root cause:
\* nothing carried and blocked stands behind it.
ChainEndsAtRootCause ==
    \A i \in Walked :
        LET chain == ChainOf(i)
            owner(n) == IF n = 1 THEN i ELSE chain[n - 1].target
        IN  chain # Cycle /\ chain # <<>> =>
                /\ \A n \in DOMAIN chain :
                      /\ owner(n) \in DOMAIN items
                      /\ \E k \in DOMAIN items[owner(n)].deps :
                            /\ items[owner(n)].deps[k] = chain[n]
                            /\ FirstBlocker(items[owner(n)], world) = k
                /\ ~Points(Last(chain), items) \/
                      ~IsItemBlocked(items[Last(chain).target], world)

\* A chain that raises means closure_state raises too: the reconciler, which
\* computes the closure first, never meets the cycle in the chain walk.
ChainRaisesOnlyInCycles ==
    \A i \in Walked : ChainOf(i) = Cycle => WalkClosure(items, world, i) = Cycle

\* Every link of the chain that get_blocked_chain names is an unsatisfied entry
\* of closure_state, however many hops away: when the world moves under a named
\* blocker, the skip token computed from the closure moves with it.
ChainWithinClosure ==
    \A i \in Walked :
        LET chain == ChainOf(i) IN
        ~CycleReachable(items, i) =>
            \A n \in DOMAIN chain :
                [dep |-> chain[n], state |-> "unsatisfied"]
                    \in ClosureState(items, world, i)

-----------------------------------------------------------------------------
(* disposition.py and stage.py.                                             *)

\* No verdict but UNDECIDABLE hangs on an unreported surface.
HonestDegradation == \A i \in Judged : DarknessNeverDecides(items, world, i)

\* Ready is never reported on the strength of an unreported surface.
HonestReadiness == \A i \in Judged : ReadyIsEstablished(items, world, i)

\* Every automerge is positively confirmed.
ConfirmedAutomerge == \A i \in Judged : AutomergeIsConfirmed(items, world, i)

=============================================================================
