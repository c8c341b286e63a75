----------------------------- MODULE MCReconciler -----------------------------
(***************************************************************************)
(* Small instances of the reconciler.  Two items, one external object, one *)
(* gate label and one lane label are enough for every interaction between  *)
(* items: a dependency chain, a cycle, two candidates for one WIP slot.    *)
(***************************************************************************)
EXTENDS ReconcilerProperties

CONSTANTS a, b, x, gate, lane, lane2

OnItem(i)  == [kind |-> "issue_terminal", target |-> i]
OnObject   == [kind |-> "s3_object", target |-> x]
OnDate(n)  == [kind |-> "date", target |-> n]
OnHuman(n) == [kind |-> "human", target |-> n]

MCItemIds    == {a, b}
MCDeclarable == {OnItem(a), OnItem(b), OnObject, OnDate(1), OnHuman(1),
                 OnDate(Malformed), OnHuman(Malformed)}

World(objects, terminal, today) ==
    [s3_objects |-> objects, s3_prefixes |-> None, terminal_items |-> terminal,
     pipeline_runs |-> None, reached_milestones |-> None, today |-> today]

Change(condition, mergeable, green, threads) ==
    [condition |-> condition, mergeable |-> mergeable, ci_green |-> green,
     security_threads |-> threads]

MCChanges ==
    {Change("conflicted", FALSE, TRUE, 0), Change("ci_red", TRUE, FALSE, 0),
     Change("draft", TRUE, TRUE, 0), Change("ci_pending", TRUE, None, 0),
     Change("clean", TRUE, TRUE, 0), Change("clean", TRUE, None, 0),
     Change("clean", TRUE, TRUE, 1)}

JustClean  == {Change("clean", TRUE, TRUE, 0)}
CleanOrRed == {Change("clean", TRUE, TRUE, 0), Change("ci_red", TRUE, FALSE, 0)}

MCObligations == {[predicate |-> OnObject, deadline |-> 1, revert_action |-> "revert"]}

Proposed(deps, labels) ==
    [stage |-> "proposed", deps |-> deps, labels |-> labels, change |-> None,
     ref |-> FALSE, additional_refs |-> FALSE, human_owned |-> FALSE,
     do_not_groom |-> FALSE, verification |-> None]

InFlightWith(change) ==
    [Proposed(<<>>, {}) EXCEPT !.stage = "in_flight", !.change = change, !.ref = TRUE]

\* The worlds of the runs: what a reported object, a terminal item, a date and
\* their absence can tell apart.
ObjectWorlds == {World(o, {}, None) : o \in {{}, {x}}}
SkipWorlds   == {World(None, {}, None), World({}, {}, None),
                 World({x}, {}, 1), World({x}, {b}, None)}

Nothing  == {}
JustBare == {Proposed(<<>>, {})}

\* Skipping: everything the fingerprint covers moves, and nothing else does: a
\* dependency cycle through both items, a malformed date behind which an item
\* hides from an aborted pass, items that come and go while their records stay.
SkipMoves    == {"labels", "deps", "carry"}
SkipDepLists == {<<>>, <<OnItem(b)>>, <<OnObject, OnItem(a)>>,
                 <<OnObject, OnDate(Malformed)>>}

\* Stamps: the stage and the conditions of one item move, a self-dependency is
\* the cycle, passes die and are retried, some passes are undated.
StampMoves    == {"lifecycle", "deps", "exclude"}
StampDepLists == {<<>>, <<OnObject>>, <<OnItem(a)>>}

\* Lifecycle: every observed fact that a record does not fingerprint moves as
\* well, gate labels and a cycle included.
LifeMoves    == MoveKinds \ {"carry", "exclude"}
LifeDepLists == {<<>>, <<OnObject>>, <<OnItem(a)>>}
LifeWorlds   == {World({}, {}, 1), World({x}, {}, 1)}

\* Two candidates for one slot under the WIP ceiling.
QueueMoves == {"lifecycle"}
QueueItems == {Proposed(<<>>, {}), Proposed(<<OnObject>>, {})}

\* The instances that refute a claim: one item, or two, in the shape it takes.
OnlyChange   == {"change"}
ArmedItems   == {[InFlightWith(c) EXCEPT !.labels = {lane}] : c \in JustClean}
BareWorld    == {World({}, {}, None)}
DayWorlds    == {World({}, {}, 0), World({}, {}, 1)}
BadDateItems == {Proposed(deps, {}) :
                    deps \in {<<>>, <<OnDate(Malformed)>>, <<OnHuman(Malformed)>>}}

=============================================================================
