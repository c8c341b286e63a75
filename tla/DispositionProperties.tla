----------------------- MODULE DispositionProperties -----------------------
(***************************************************************************)
(* What compute_disposition and effective_stage promise about one item, as *)
(* functions of the snapshot alone.                                        *)
(***************************************************************************)
EXTENDS Disposition

\* The world w reports everything v reports, and perhaps more.
Reveals(v, w) == \A s \in Surfaces : v[s] # None => w[s] = v[s]

SameVerdict(v, w) == v.kind = w.kind /\ v.action = w.action

\* Honest degradation (rule 5, stage.deadline_passed, §3.6): a verdict other
\* than UNDECIDABLE does not hang on a surface the harness failed to report.
\* Whatever the dark surface turns out to hold, the verdict is the same one.
DarknessNeverDecides(items, world, id) ==
    \A w \in Worlds :
        Reveals(world, w) =>
            LET dark == ComputeDisposition(items, world, id)
            IN  dark.kind = "undecidable"
                    \/ SameVerdict(dark, ComputeDisposition(items, w, id))

\* An item reported ready stays ready when more of the world is reported: the
\* ready-residence clock never starts on a fact nobody established.
ReadyIsEstablished(items, world, id) ==
    \A w \in Worlds :
        Reveals(world, w) /\ items[id].stage \in PreChangeStages
            /\ EffectiveStage(items, world, id) = "ready" =>
                EffectiveStage(items, w, id) = "ready"

\* An automatic merge rests on positive confirmation only: a green, mergeable,
\* threadless, non-draft change, one lane, and every declared condition observed
\* satisfied.  Absence of evidence is never confirmation.  On a merged item any
\* action is the one its obligation names, whatever its name.
AutomergeIsConfirmed(items, world, id) ==
    /\ ComputeDisposition(items, world, id) = Act("automerge")
    /\ items[id].stage # "merged"
    =>
        /\ items[id].change.condition = "clean"
        /\ items[id].change.mergeable = TRUE
        /\ items[id].change.ci_green = TRUE
        /\ items[id].change.security_threads = 0
        /\ Cardinality(items[id].labels \cap LaneLabels) = 1
        /\ items[id].labels \cap GateLabels # {} => items[id].deps # <<>>
        /\ InState(items[id], world, "satisfied") = Declared(items[id])

=============================================================================
