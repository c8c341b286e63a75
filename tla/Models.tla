------------------------------- MODULE Models -------------------------------
(***************************************************************************)
(* The vocabulary of models.py: the stages of a unit of intended change,   *)
(* the dependencies it declares, the change that renders it in flight, and *)
(* the verdict (disposition) the reconciler gives it.                      *)
(*                                                                         *)
(* Names, titles, reasons and hashes are data the properties never tell    *)
(* apart and are left out: a reason is the rule that produced the verdict, *)
(* a hash is the value it was computed from (collision free).              *)
(***************************************************************************)
EXTENDS Integers, Sequences, FiniteSets, Functions

CONSTANTS ItemIds,      \* ids of the items a harness may carry
          Declarable,   \* dependencies an item or an obligation may declare
          Changes,      \* observed states of the pull request in flight
          Obligations,  \* post-merge verification obligations
          GateLabels,   \* labels with the prefix gate:
          LaneLabels,   \* the labels of the three auto-merge lanes
          None,         \* Python's None
          Malformed     \* a date that date.fromisoformat does not accept

-----------------------------------------------------------------------------

STAGE_ORDER == <<"proposed", "ready", "in_flight", "merged", "verified", "done">>

ItemStages == Range(STAGE_ORDER) \cup {"abandoned"}

\* ItemStage.is_terminal: merged is deliberately not terminal.
TerminalStages == {"done", "abandoned"}

PreChangeStages == {"proposed", "ready"}

\* can_transition: forward along STAGE_ORDER, or to abandoned, never out of a
\* terminal stage.
CanTransition(current, following) ==
    /\ current # following
    /\ current \notin TerminalStages
    /\ \/ following = "abandoned"
       \/ \E i, j \in DOMAIN STAGE_ORDER :
             i < j /\ STAGE_ORDER[i] = current /\ STAGE_ORDER[j] = following

ChangeConditions == {"draft", "conflicted", "ci_red", "ci_pending", "clean"}

DependencyKinds ==
    {"s3_object", "s3_prefix", "issue_terminal", "pr_terminal",
     "pipeline_run", "date", "milestone_reached", "human"}

\* Three-valued observations (mergeable, ci_green): None is "not reported".
Tri == BOOLEAN \cup {None}

\* A DATE target is only checked when it is evaluated; the due date of a HUMAN
\* target is checked with the blanks around it stripped and evaluated with them.
\* Malformed can reach an item either way.
IsDependency(d) ==
    /\ DOMAIN d = {"kind", "target"}
    /\ d.kind \in DependencyKinds
    /\ d.kind \in {"human", "date"} => d.target \in Nat \cup {Malformed}

IsChange(c) ==
    /\ DOMAIN c = {"condition", "mergeable", "ci_green", "security_threads"}
    /\ c.condition \in ChangeConditions
    /\ c.mergeable \in Tri
    /\ c.ci_green \in Tri
    /\ c.security_threads \in Nat

\* The action that answers a missed deadline has whatever name the harness gave.
IsObligation(v) ==
    /\ DOMAIN v = {"predicate", "deadline", "revert_action"}
    /\ v.predicate \in Declarable
    /\ v.deadline \in Nat
    /\ v.revert_action # None

ASSUME VocabularyAssumption ==
    /\ \A d \in Declarable : IsDependency(d)
    /\ \A c \in Changes : IsChange(c)
    /\ \A v \in Obligations : IsObligation(v)
    /\ None \notin Changes \cup Obligations

-----------------------------------------------------------------------------
(* Items. ref stands for change_ref # None, additional_refs for a non-empty *)
(* additional_change_refs.                                                  *)

Items ==
    [stage           : ItemStages,
     deps            : Seq(Declarable),
     labels          : SUBSET (GateLabels \cup LaneLabels),
     change          : Changes \cup {None},
     ref             : BOOLEAN,
     additional_refs : BOOLEAN,
     human_owned     : BOOLEAN,
     do_not_groom    : BOOLEAN,
     verification    : Obligations \cup {None}]

\* Item._check_stage_invariants: what a constructed Item can look like.
CheckStageInvariants(item) ==
    /\ item.change # None => item.ref
    /\ item.stage = "in_flight" => item.ref
    /\ item.stage \in PreChangeStages => item.change = None

Declared(item) == Range(item.deps)

\* A gate:* label is unrepresented only on an item that declares nothing.
UnrepresentedGateLabels(item) ==
    IF item.deps = <<>> THEN item.labels \cap GateLabels ELSE {}

LabelSetHash(item) == item.labels

\* deps_hash sorts the declarations: it keeps their multiset, not their order.
DepsHash(item) ==
    [d \in Declared(item) |->
        Cardinality({n \in DOMAIN item.deps : item.deps[n] = d})]

-----------------------------------------------------------------------------
(* Dispositions: kind, the action of an ACT, the chain of a BLOCKED.        *)

DispositionKinds == {"act", "blocked", "terminal", "undecidable"}

Act(action)    == [kind |-> "act", action |-> action, chain |-> <<>>]
Blocked(chain) == [kind |-> "blocked", action |-> None, chain |-> chain]
Terminal       == [kind |-> "terminal", action |-> None, chain |-> <<>>]
Undecidable    == [kind |-> "undecidable", action |-> None, chain |-> <<>>]

\* Disposition._check_invariants
CheckDisposition(d) ==
    /\ d.kind = "act" => d.action # None
    /\ d.kind # "blocked" => d.chain = <<>>

=============================================================================
