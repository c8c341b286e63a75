------------------------- MODULE DependencyEvaluator -------------------------
(***************************************************************************)
(* dependency_evaluator.py: what an ObservedWorld says about a dependency. *)
(* Every surface of the world is optional; a surface the harness did not   *)
(* report makes the dependencies that read it undecidable.                 *)
(***************************************************************************)
EXTENDS Models

CONSTANT Worlds   \* the snapshots of external state a harness may take

Surfaces == {"s3_objects", "s3_prefixes", "terminal_items", "pipeline_runs",
             "reached_milestones", "today"}

IsWorld(w) == DOMAIN w = Surfaces /\ w.today \in Nat \cup {None}

DepStates == {"satisfied", "unsatisfied", "undecidable"}

ASSUME WorldAssumption ==
    /\ \A w \in Worlds : IsWorld(w)
    /\ None \notin DepStates

SurfaceOf ==
    [s3_object         |-> "s3_objects",
     s3_prefix         |-> "s3_prefixes",
     issue_terminal    |-> "terminal_items",
     pr_terminal       |-> "terminal_items",
     pipeline_run      |-> "pipeline_runs",
     milestone_reached |-> "reached_milestones",
     date              |-> "today",
     human             |-> "today"]

\* The date parser raises on a malformed target or due date, but only once a clock
\* is reported. A human dependency is never satisfied by anything observed.
Raises(dep, world) ==
    dep.kind \in {"date", "human"} /\ dep.target = Malformed /\ world.today # None

Holds(dep, world) ==
    CASE dep.kind = "human" -> FALSE
      [] dep.kind = "date"  -> world.today >= dep.target
      [] OTHER              -> dep.target \in world[SurfaceOf[dep.kind]]

EvaluateDependency_AbsentIsUnsatisfied(dep, world) ==   \* mutant
    IF world[SurfaceOf[dep.kind]] # None /\ Holds(dep, world)
    THEN "satisfied" ELSE "unsatisfied"

EvaluateDependency(dep, world) ==
    IF world[SurfaceOf[dep.kind]] = None THEN "undecidable"
    ELSE IF Holds(dep, world) THEN "satisfied" ELSE "unsatisfied"

InState(item, world, state) ==
    {d \in Declared(item) : EvaluateDependency(d, world) = state}

\* is_item_blocked: some own dependency is definitely unsatisfied.
IsItemBlocked(item, world) == InState(item, world, "unsatisfied") # {}

=============================================================================
