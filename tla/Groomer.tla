------------------------------- MODULE Groomer -------------------------------
(***************************************************************************)
(* The groomer as it is deployed: pass after pass of snapshot, reconcile,  *)
(* execute (cli.py, cmd_run) over a repository that people and CI change   *)
(* between any two calls.                                                  *)
(*                                                                         *)
(* The command line gives every pass a fresh generation store.  A harness  *)
(* keeps one (mode.kept): loaded when the pass starts, flushed once at its *)
(* end, so a pass that dies loses what it recorded.                        *)
(***************************************************************************)
EXTENDS Executor

CONSTANTS Malformed, Cycle, WipCeiling   \* see Models, DependencyGraph, Admission

VARIABLES items,     \* what fetch returned: the items
          world,     \*   and the world
          memory,    \* the generation store of this pass
          durable    \* what the persistent store holds

fetched == <<items, world>>
stores == <<memory, durable>>
vars == <<repo, events, fetching, mode, results, fetched, stores>>

Steps == {"idle", "reconcile", "execute"} \cup FetchSteps

\* One pass of the reconciler over what fetch returned.  Its loop reads and
\* writes one record per item, so its turns are taken together here; generation
\* 1 stands for the running one and 0 for all before it; passes are undated.
R == INSTANCE Reconciler WITH
        ItemIds <- Numbers, Declarable <- {DependencyOn(n) : n \in Numbers},
        Changes <- {}, Obligations <- {}, Worlds <- {}, InitItems <- {},
        DepLists <- {}, EnvMoves <- {}, LegacyIds <- {}, Undated <- {TRUE},
        MayRetry <- FALSE, MaxCycles <- 0,
        store <- memory,
        running <- TRUE, interrupted <- FALSE, cycle <- 0, generation <- 1,
        observed_at <- None, todo <- work

ASSUME GroomerAssumption == WipCeiling \in Nat \ {0} /\ None \notin R!DenialReasons

Recorded(n) ==
    R!RecordOf(n, items[n], memory, 0, R!ClosureOf(n), R!VerdictToRecord(n),
               R!StageOf(n), None)

-----------------------------------------------------------------------------

\* A scheduler starts the next pass.
StartPass ==
    /\ step = "idle"
    /\ BeginFetch
    /\ memory' = durable
    /\ UNCHANGED <<repo, events, mode, results, fetched, durable>>

TakeSnapshot ==
    /\ Fetch
    /\ IF step' = "reconcile" THEN items' = SeenItems /\ world' = SeenWorld
       ELSE UNCHANGED fetched
    /\ UNCHANGED <<repo, mode, results, stores>>

Reconcile ==
    /\ step = "reconcile"
    /\ ~seen.repeated
    /\ step' = "execute"
    /\ work' = DOMAIN items
    /\ results' = [n \in DOMAIN items |-> R!Given(n)]
    /\ memory' = IF mode.kept
                 THEN [n \in DOMAIN memory \cup DOMAIN items |->
                          IF n \in DOMAIN items THEN Recorded(n) ELSE memory[n]]
                 ELSE memory
    /\ UNCHANGED <<repo, events, page, seen, mode, fetched, durable>>

ExecuteNext == Execute /\ UNCHANGED <<mode, fetched, stores>>

EndPass_KeepsMemory ==   \* mutant: the store of a pass outlives it
    /\ step' = "idle"
    /\ page' = 1
    /\ work' = {}
    /\ seen' = NothingSeen
    /\ results' = <<>>
    /\ items' = <<>>
    /\ world' = None
    /\ UNCHANGED <<repo, mode, memory>>

EndPass ==
    /\ step' = "idle"
    /\ page' = 1
    /\ work' = {}
    /\ seen' = NothingSeen
    /\ results' = <<>>
    /\ items' = <<>>
    /\ world' = None
    /\ memory' = <<>>
    /\ UNCHANGED <<repo, mode>>

\* flush, once, at the end of the cycle.
FinishPass ==
    /\ step = "execute"
    /\ work = {}
    /\ durable' = memory
    /\ EndPass
    /\ UNCHANGED events

\* DependencyGraph refuses a list with the same id twice.
RefuseRepeated == step = "reconcile" /\ seen.repeated /\ UNCHANGED events

\* An error that leaves the pass, or the end of the process between two calls.
Die ==
    /\ \/ ListingFails
       \/ RefuseRepeated
       \/ ExecuteAborts
       \/ step # "idle" /\ Fault("crash")
    /\ EndPass
    /\ UNCHANGED durable

Groom == StartPass \/ TakeSnapshot \/ ExecuteNext \/ FinishPass \/ Reconcile \/ Die

Others == TrackerNext /\ UNCHANGED <<fetching, mode, results, fetched, stores>>

Init ==
    /\ TrackerInit
    /\ mode \in Modes
    /\ step = "idle" /\ page = 1 /\ work = {} /\ seen = NothingSeen
    /\ results = <<>>
    /\ items = <<>> /\ world = None
    /\ memory = <<>> /\ durable = <<>>

Next == Groom \/ Others

Spec == Init /\ [][Next]_vars

\* The scheduler keeps starting passes and every call returns or times out.
\* Nothing is asked of people or of CI.
FairSpec == Spec /\ WF_vars(Groom)

=============================================================================
