-------------------------- MODULE GroomerInvariants --------------------------
(***************************************************************************)
(* Why the promises of GroomerProperties are kept: what a pass has fetched *)
(* was so while it was fetching, what it recorded attests the conditions   *)
(* it decided on, and what it is about to do rests on both.                *)
(***************************************************************************)
EXTENDS GroomerProperties

Merge(verdict) == verdict.kind = "act" /\ verdict.action = "automerge"

Formed(verdict) ==
    /\ verdict.kind \in R!DispositionKinds
    /\ verdict.kind = "act" => verdict = R!Act(verdict.action)

IsVerdictOf(n, verdict) ==
    /\ Formed(verdict)
    /\ Merge(verdict) => n \in Pulls

Sound(r) == r \in Repositories /\ Coherent(r)

\* TypeOK with what makes it inductive: only pull requests are ever merged, and
\* the reconciler is given what fetch made of its calls.
TypeInv ==
    /\ TypeOK
    /\ mode \in Modes
    /\ step \in {"reconcile", "execute"} => items = SeenItems /\ world = SeenWorld
    /\ step = "execute" => \A n \in DOMAIN results : IsVerdictOf(n, results[n])
    /\ \A n \in DOMAIN memory : IsVerdictOf(n, memory[n].verdict)
    /\ \A n \in DOMAIN durable : IsVerdictOf(n, durable[n].verdict)
    /\ ~mode.kept => memory = <<>>

-----------------------------------------------------------------------------
(* What is remembered of the time a snapshot took.                          *)

\* The repository is in one of the states remembered while a snapshot is taken.
History ==
    /\ step \in FetchSteps => repo \in during
    /\ \A r \in during : Sound(r)

IssueGrounded(i) ==
    \E r \in during : /\ seen.issues[i].labels = r.labels[i]
                      /\ seen.issues[i].summary = (r.blockers[i] # {})

PullGrounded(p) ==
    \E r \in during : /\ seen.pulls[p].labels = r.labels[p]
                      /\ seen.pulls[p].draft = r.pulls[p].draft

\* Both fields of a detail are of one moment, and None before it is read.
MergeableGrounded(p) ==
    \/ seen.pulls[p].mergeable = None
    \/ \E r \in during : /\ seen.pulls[p].mergeable = r.pulls[p].mergeable
                         /\ seen.pulls[p].mergeable_state = r.pulls[p].mergeable_state

\* Without its statuses a pull request may be taken for green that is not.
GreenGrounded(p) ==
    seen.pulls[p].ci_green = TRUE /\ p \notin seen.unsure => WasGreen(p)

\* A call that fails may leave some blockers out, and adds none.
DepsGrounded(n) ==
    \E r \in during : /\ seen.deps[n] \subseteq r.blockers[n]
                      /\ n \notin seen.unread => seen.deps[n] = r.blockers[n]

WasClosed(n) == \E r \in during : IsClosed(r, n)

\* Everything the snapshot says was so at some moment while it was taken, each
\* thing at a moment of its own.
Grounded ==
    /\ \A i \in DOMAIN seen.issues : IssueGrounded(i)
    /\ \A p \in DOMAIN seen.pulls :
          PullGrounded(p) /\ MergeableGrounded(p) /\ GreenGrounded(p)
    /\ \A n \in DOMAIN seen.deps : DepsGrounded(n)
    /\ \A n \in seen.closed \cup seen.native : WasClosed(n)

\* The head whose CI is being read was the head, and the check runs were so.
WasHead(p) == \E r \in during : r.pulls[p].head = seen.head

HadRuns(p) == \E r \in during : r.pulls[p].checks[seen.head].runs = seen.runs

Reading ==
    /\ step \in {"check_runs", "status"} => WasHead(Newest(work))
    /\ step = "status" => seen.runs # "failing" /\ HadRuns(Newest(work))

\* The blockers of every record that may have some have been read, or will be.
ProbedAll ==
    /\ step = "blockers" => Probed \subseteq DOMAIN seen.deps \cup work
    /\ step \in {"reconcile", "execute"} => Probed \subseteq DOMAIN seen.deps

-----------------------------------------------------------------------------
(* What verdicts rest on.                                                   *)

\* All that n declares is satisfied, and a gate label is declared.
Backed(n) ==
    /\ \A d \in R!Declared(items[n]) : R!EvaluateDependency(d, world) = "satisfied"
    /\ R!UnrepresentedGateLabels(items[n]) = {}

\* A recorded create_pr can be replayed only where it would be given afresh: the
\* fingerprint it is compared by shows what it was decided on.
Attests(record) ==
    LET fp == record.fingerprint
    IN  record.verdict = R!Act("create_pr") /\ fp.closure # None =>
          /\ \A d \in DOMAIN fp.deps : [dep |-> d, state |-> "satisfied"] \in fp.closure
          /\ DOMAIN fp.deps = {} => fp.labels \cap GateLabels = {}

\* No record is of the running generation.
Recalled(store) ==
    \A n \in DOMAIN store : store[n].generation = 0 /\ Attests(store[n])

\* What the executor has been told to create or merge is backed by the snapshot.
Decided ==
    step = "execute" =>
        /\ \A i \in Issues \cap DOMAIN results :
              results[i] = R!Act("create_pr") => Backed(i) /\ ChangeRefs(i) = {}
        /\ \A p \in DOMAIN results :
              Merge(results[p]) /\ ~mode.kept =>
                  /\ Backed(p)
                  /\ Cardinality(seen.pulls[p].labels \cap LaneLabels) = 1
                  /\ ~seen.pulls[p].draft
                  /\ seen.pulls[p].mergeable = TRUE
                  /\ seen.pulls[p].mergeable_state # "dirty"
                  /\ seen.pulls[p].ci_green = TRUE

\* The inductive invariant.
ActInv ==
    /\ TypeInv
    /\ History
    /\ Grounded
    /\ Reading
    /\ ProbedAll
    /\ Recalled(memory) /\ Recalled(durable)
    /\ Decided

-----------------------------------------------------------------------------
(* Listings of one page.                                                    *)

OnePage == Cardinality(repo.open) <= PageSize

IssuesListed == \E r \in during : r.open \cap Issues \subseteq DOMAIN seen.issues

PullsListed ==
    \E r \in during : \A p \in OpenPulls(r) :
        p \in DOMAIN seen.pulls /\ seen.pulls[p].names = r.pulls[p].names

\* A listing of one page is of one moment.
ListInv ==
    /\ step \in {"idle", "open_issues", "open_pulls"} => page = 1
    /\ step \notin {"idle", "open_issues"} => IssuesListed
    /\ step \notin {"idle", "open_issues", "open_pulls"} => PullsListed

=============================================================================
