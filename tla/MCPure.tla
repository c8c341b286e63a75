------------------------------- MODULE MCPure -------------------------------
(***************************************************************************)
(* The inputs on which PureProperties is checked:                          *)
(*                                                                         *)
(*   "graph"  every declaration graph of three items: declarations and the *)
(*            world change one at a time, and the walks of                 *)
(*            dependency_graph.py are compared with what they should return*)
(*   "item"   every shape of one item, a second item behind it, and every  *)
(*            combination of reported and unreported surfaces, before      *)
(*            compute_disposition and effective_stage                      *)
(***************************************************************************)
EXTENDS PureProperties

CONSTANTS a, b, c, x, gate, lane, lane2   \* three items, an object, labels
CONSTANT MaxDeps                          \* bound on the declarations of one item

OnItem(i) == [kind |-> "issue_terminal", target |-> i]
OnObject  == [kind |-> "s3_object", target |-> x]
OnDate    == [kind |-> "date", target |-> 1]
OnHuman   == [kind |-> "human", target |-> 1]

MCItemIds    == {a, b, c}
GraphDeps    == {OnItem(i) : i \in MCItemIds} \cup {OnObject}
MCDeclarable == GraphDeps \cup {OnDate, OnHuman}

World(objects, terminal, today) ==
    [s3_objects |-> objects, s3_prefixes |-> None, terminal_items |-> terminal,
     pipeline_runs |-> None, reached_milestones |-> None, today |-> today]

Objects == {None, {}, {x}}

GraphWorlds ==
    {World(o, t, None) : o \in Objects, t \in {None, {}, {a}, {b}, {a, b, c}}}
ItemWorlds ==
    {World(o, t, n) : o \in Objects, t \in {None, {}, {b}}, n \in {None, 0, 1}}
MCWorlds == GraphWorlds \cup ItemWorlds

Change(condition, mergeable, green, threads) ==
    [condition |-> condition, mergeable |-> mergeable, ci_green |-> green,
     security_threads |-> threads]

MCChanges ==
    {Change("conflicted", FALSE, TRUE, 0), Change("ci_red", TRUE, FALSE, 0),
     Change("draft", TRUE, TRUE, 0), Change("ci_pending", TRUE, None, 0),
     Change("clean", TRUE, TRUE, 0), Change("clean", TRUE, None, 0),
     Change("clean", None, TRUE, 0), Change("clean", TRUE, TRUE, 1)}

MCObligations ==
    {[predicate |-> p, deadline |-> 1, revert_action |-> r] :
        p \in {OnObject, OnDate}, r \in {"revert", "automerge"}}

Labellings == {{}, {gate}, {lane}, {lane, lane2}, {gate, lane}}

\* The shapes a constructed item has at each stage.
Shapes ==
    {s \in [stage : ItemStages, change : Changes \cup {None},
            verification : Obligations \cup {None}] :
        /\ s.change # None => s.stage = "in_flight"
        /\ s.verification # None => s.stage = "merged"}

Subject(s, deps, labels, human, duplicated) ==
    [stage |-> s.stage, deps |-> deps, labels |-> labels, change |-> s.change,
     ref |-> s.stage = "in_flight", additional_refs |-> duplicated,
     human_owned |-> human, do_not_groom |-> FALSE,
     verification |-> s.verification]

Bare(deps) ==
    Subject([stage |-> "proposed", change |-> None, verification |-> None],
            deps, {}, FALSE, FALSE)

vars == <<items, world, about>>

\* c may be missing from the graph: a target that is not carried.
GraphInit ==
    /\ about = "graph"
    /\ world \in GraphWorlds
    /\ \E carried \in {{a, b}, ItemIds} : items = [i \in carried |-> Bare(<<>>)]

ItemInit ==
    /\ about = "item"
    /\ world \in ItemWorlds
    /\ \E s \in Shapes, labels \in Labellings,
          deps \in {<<>>, <<OnObject>>, <<OnItem(b)>>, <<OnHuman>>, <<OnItem(b), OnDate>>},
          flags \in {<<FALSE, FALSE>>, <<TRUE, FALSE>>, <<FALSE, TRUE>>},
          behind \in {<<>>, <<OnObject>>} :
            /\ flags[2] => s.stage = "in_flight"
            /\ items = [i \in {a, b} |->
                          IF i = a THEN Subject(s, deps, labels, flags[1], flags[2])
                          ELSE Bare(behind)]

Init == GraphInit \/ ItemInit

\* Declarations without repetition, in every order.
DepLists == {s \in BoundedSeq(GraphDeps, MaxDeps) : IsInjective(s)}

Declare(i) ==
    /\ about = "graph"
    /\ \E s \in DepLists : items' = [items EXCEPT ![i] = Bare(s)]
    /\ UNCHANGED <<world, about>>

Observe ==
    /\ world' \in (IF about = "graph" THEN GraphWorlds ELSE ItemWorlds)
    /\ UNCHANGED <<items, about>>

Next == (\E i \in DOMAIN items : Declare(i)) \/ Observe

Spec == Init /\ [][Next]_vars

=============================================================================
