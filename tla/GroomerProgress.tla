--------------------------- MODULE GroomerProgress ---------------------------
(***************************************************************************)
(* What the deployed groomer gets done, under the fairness of FairSpec, and*)
(* what its documentation says it does and it does not.                    *)
(***************************************************************************)
EXTENDS Groomer

Merged(p) == p \in repo'.merged \ repo.merged

Green(checks) ==
    /\ {checks.runs, checks.status} \subseteq {"passing", "absent"}
    /\ "passing" \in {checks.runs, checks.status}

OneLane(r, p) == Cardinality(r.labels[p] \cap LaneLabels) = 1

-----------------------------------------------------------------------------
(* Progress.                                                                *)

\* An issue that the groomer can open a change for, and GitHub would let it.
Actionable(i) ==
    /\ i \in repo.open
    /\ repo.labels[i] \cap GateLabels = {}
    /\ repo.blockers[i] \cap repo.open = {}
    /\ \A p \in OpenPulls(repo) : i \notin repo.pulls[p].names
    /\ Cardinality(OpenPulls(repo)) < WipCeiling
    /\ CanOpenFrom(repo, i)

\* A change that passes both gates.
Armed(p) ==
    /\ p \in repo.open
    /\ ~repo.pulls[p].draft
    /\ repo.pulls[p].mergeable = TRUE /\ repo.pulls[p].mergeable_state # "dirty"
    /\ Green(repo.pulls[p].checks[repo.pulls[p].head])
    /\ OneLane(repo, p)
    /\ repo.labels[p] \cap GateLabels = {}
    /\ repo.blockers[p] \cap repo.open = {}

\* A record that is blocked and does not say so.
Untold(n) ==
    /\ n \in repo.open
    /\ repo.blockers[n] \cap repo.open # {}
    /\ Cardinality({p \in OpenPulls(repo) : n \in repo.pulls[p].names}) < 2
    /\ repo.marked[n] = 0

NeverNamed(i) == [](\A p \in OpenPulls(repo) : i \notin repo.pulls[p].names)

\* The queue never stays stuck (README, F5): the last blocker of an issue closes,
\* its branch appears, a slot frees, and in the end no issue waits that need not.
\* With a kept store this is so for the issues that no open change ever named.
IssuesAdvance ==
    /\ ~mode.kept => []<>(\A i \in Issues : ~Actionable(i))
    /\ \A i \in Issues : mode.kept /\ NeverNamed(i) => []<>~Actionable(i)

\* Changes that could merge do not stay unmerged for ever, with a fresh store.
ChangesMerge == ~mode.kept => []<>(\A p \in Pulls : ~Armed(p))

\* Records that stay blocked say so in their threads in the end.
BlockedAreTold == ~mode.kept => []<>(\A n \in Numbers : ~Untold(n))

-----------------------------------------------------------------------------
(* Claims of the repository that the code does not keep.                    *)

\* github_executor.py: the comment on a blocked record shows the whole chain to
\* the root condition.  The last link is no carried record that is itself
\* blocked.
ChainNamesRoot ==
    \A n \in DOMAIN results :
        LET chain == results[n].chain
            root  == Last(chain).target - Owner
        IN  chain # <<>> /\ root \in DOMAIN results => results[root].chain = <<>>

\* lane_classifier.py, check 5: a pull request with open security review threads
\* is not merged.
MergesWithoutThreads ==
    [][\A p \in Pulls : Merged(p) => repo.pulls[p].security_threads = 0]_vars

\* README, F5: no advanceable but unadvanced changes, with a kept store too.
NothingIsForgotten == \A i \in Issues : []<>~Actionable(i)

=============================================================================
